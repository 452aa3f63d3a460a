------------------------- MODULE LogoutOutboxProofs -------------------------
(***************************************************************************)
(* A notice leaves the outbox only delivered, waived or after every attempt*)
(* was made, for any number of notices, replicas, attempts and rows in a   *)
(* batch, whatever flushes overlap and stop half-way.                      *)
(***************************************************************************)
EXTENDS LogoutOutbox, FiniteSetTheorems, SequenceTheorems, TLAPS

Entries == [notice : Notices, attempts : 0..(MaxAttempts - 1)]

\* A result is of the notice at the head: the client has what it acknowledged, and
\* the POST was counted.
AnswerSound(p) ==
    answer[p] # "none" =>
        /\ pending[p] # <<>>
        /\ answer[p] = "ok" => Current(p).notice \in heard
        /\ Current(p).attempts < posts[Current(p).notice]

\* No flush has read, and no row says, more attempts than POSTs were made.
CountsSound ==
    /\ \A n \in Notices : row[n].attempts <= posts[n]
    /\ \A p \in Replicas : \A i \in 1..Len(pending[p]) :
          pending[p][i].attempts <= posts[pending[p][i].notice]

\* The inductive invariant: late results are harmless because they are of POSTs that
\* were counted when they were made, by whichever replica.
IInv ==
    /\ TypeOK
    /\ \A p \in Replicas : AnswerSound(p)
    /\ CountsSound

LEMMA Bounds == MaxAttempts \in Nat /\ MaxAttempts >= 1 /\ Batch \in Nat /\ MaxStops \in Nat
BY OutboxAssumption

LEMMA Typing ==
    ASSUME TypeOK
    PROVE  /\ \A n \in Notices : row[n] \in Rows /\ posts[n] \in Nat /\ posts[n] <= MaxAttempts
           /\ \A n \in Notices : row[n].attempts \in Nat /\ row[n].attempts <= MaxAttempts
           /\ \A p \in Replicas :
                 /\ pending[p] \in Seq(Entries) /\ Len(pending[p]) \in Nat
                 /\ answer[p] \in {"none", "ok", "failed"}
                 /\ \A i \in 1..Len(pending[p]) : pending[p][i] \in Entries
           /\ Len(created) \in Nat /\ \A i \in 1..Len(created) : created[i] \in Notices
<1>1. \A n \in Notices : row[n] \in Rows /\ posts[n] \in Nat /\ posts[n] <= MaxAttempts
  BY Bounds DEF TypeOK
<1>2. \A n \in Notices : row[n].attempts \in Nat /\ row[n].attempts <= MaxAttempts
  BY <1>1, Bounds DEF Rows
<1>3. ASSUME NEW p \in Replicas
      PROVE  /\ pending[p] \in Seq(Entries) /\ Len(pending[p]) \in Nat
             /\ answer[p] \in {"none", "ok", "failed"}
             /\ \A i \in 1..Len(pending[p]) : pending[p][i] \in Entries
  <2>1. pending[p] \in Seq(Entries) /\ answer[p] \in {"none", "ok", "failed"}
    BY DEF TypeOK, Entries
  <2> QED  BY <2>1
<1>4. Len(created) \in Nat /\ \A i \in 1..Len(created) : created[i] \in Notices
  <2>1. created \in Seq(Notices)  BY DEF TypeOK
  <2> QED  BY <2>1
<1> QED  BY <1>1, <1>2, <1>3, <1>4

\* The head of what a flush has read, and what is left of it.
LEMMA HeadAndTail ==
    ASSUME TypeOK, NEW p \in Replicas, pending[p] # <<>>
    PROVE  /\ Current(p) \in Entries /\ Current(p) = pending[p][1] /\ 1 \in 1..Len(pending[p])
           /\ Current(p).notice \in Notices
           /\ Current(p).attempts \in Nat /\ Current(p).attempts < MaxAttempts
           /\ Tail(pending[p]) \in Seq(Entries)
           /\ Len(Tail(pending[p])) = Len(pending[p]) - 1
           /\ \A i \in 1..Len(Tail(pending[p])) :
                 i + 1 \in 1..Len(pending[p]) /\ Tail(pending[p])[i] = pending[p][i + 1]
<1> DEFINE q == pending[p]
<1>1. q \in Seq(Entries) /\ q # <<>>  BY Typing
<1> HIDE DEF q
<1>2. Len(q) \in Nat /\ Len(q) >= 1 /\ Head(q) = q[1] /\ Head(q) \in Entries
  BY <1>1
<1>3. Tail(q) \in Seq(Entries) /\ Len(Tail(q)) = Len(q) - 1
  BY <1>1
<1>4. \A i \in 1..Len(Tail(q)) : i + 1 \in 1..Len(q) /\ Tail(q)[i] = q[i + 1]
  BY <1>1, <1>2, <1>3
<1>5. Current(p) = Head(q)  BY DEF Current, q
<1>6. Head(q).notice \in Notices /\ Head(q).attempts \in Nat /\ Head(q).attempts < MaxAttempts
  BY <1>2, Bounds DEF Entries
<1> QED  BY <1>2, <1>3, <1>4, <1>5, <1>6 DEF q

LEMMA Initially == Init => IInv
<1> SUFFICES ASSUME Init PROVE IInv
  OBVIOUS
<1>1. <<>> \in Seq(Notices) /\ <<>> \in Seq(Entries) /\ Len(<<>>) = 0
  OBVIOUS
<1>2. TypeOK  BY <1>1, Bounds DEF Init, TypeOK, Rows, Entries
<1>3. \A p \in Replicas : AnswerSound(p)  BY DEF Init, AnswerSound
<1>4. CountsSound  BY <1>1 DEF Init, CountsSound
<1> QED  BY <1>2, <1>3, <1>4 DEF IInv

\* A step that leaves what flushes have read, what they were answered and the counts
\* alone.
LEMMA Aside ==
    ASSUME IInv, TypeOK', UNCHANGED <<pending, answer, posts>>, heard \subseteq heard',
           \A n \in Notices : row'[n].attempts = row[n].attempts
    PROVE  IInv'
<1>1. \A p \in Replicas : AnswerSound(p)'  BY DEF IInv, AnswerSound, Current
<1>2. CountsSound'  BY DEF IInv, CountsSound
<1> QED  BY <1>1, <1>2 DEF IInv

\* The table after a step that writes one row.
LEMMA OneRow ==
    ASSUME TypeOK, NEW n \in Notices, NEW r \in Rows, row' = [row EXCEPT ![n] = r]
    PROVE  row' \in [Notices -> Rows]
BY DEF TypeOK

LEMMA EnqueueKeeps == ASSUME IInv, NEW n \in Notices, Enqueue(n) PROVE IInv'
<1>1. TypeOK  BY DEF IInv
<1>2. row[n] \in Rows /\ [row[n] EXCEPT !.state = "queued"] \in Rows
  BY <1>1, Typing DEF Rows
<1>3. row' = [row EXCEPT ![n] = [row[n] EXCEPT !.state = "queued"]]
  BY DEF Enqueue
<1>4. row' \in [Notices -> Rows]  BY <1>1, <1>2, <1>3, OneRow
<1>5. created' \in Seq(Notices)  BY <1>1 DEF TypeOK, Enqueue
<1>6. TypeOK'  BY <1>1, <1>4, <1>5 DEF TypeOK, Enqueue
<1>7. \A m \in Notices : row'[m].attempts = row[m].attempts
  BY <1>1, <1>2, <1>3 DEF TypeOK, Rows
<1> QED  BY <1>6, <1>7, Aside DEF Enqueue

LEMMA ChangeEndpointKeeps ==
    ASSUME IInv, NEW c \in Clients, ChangeEndpoint(c) PROVE IInv'
<1>1. TypeOK'  BY DEF IInv, TypeOK, ChangeEndpoint
<1> QED  BY <1>1, Aside DEF ChangeEndpoint

LEMMA RestKeeps == ASSUME IInv, NEW n \in Notices, Rest(n) PROVE IInv'
<1>1. TypeOK  BY DEF IInv
<1>2. row[n] \in Rows /\ [row[n] EXCEPT !.rested = TRUE] \in Rows
  BY <1>1, Typing DEF Rows
<1>3. row' = [row EXCEPT ![n] = [row[n] EXCEPT !.rested = TRUE]]
  BY DEF Rest
<1>4. row' \in [Notices -> Rows]  BY <1>1, <1>2, <1>3, OneRow
<1>5. TypeOK'  BY <1>1, <1>4 DEF TypeOK, Rest
<1>6. \A m \in Notices : row'[m].attempts = row[m].attempts
  BY <1>1, <1>2, <1>3 DEF TypeOK, Rows
<1> QED  BY <1>5, <1>6, Aside DEF Rest

LEMMA PruneKeeps == ASSUME IInv, NEW n \in Notices, Prune(n) PROVE IInv'
<1>1. TypeOK  BY DEF IInv
<1>2. row[n] \in Rows /\ [row[n] EXCEPT !.state = "pruned"] \in Rows
  BY <1>1, Typing DEF Rows
<1>3. row' = [row EXCEPT ![n] = [row[n] EXCEPT !.state = "pruned"]]
  BY DEF Prune
<1>4. row' \in [Notices -> Rows]  BY <1>1, <1>2, <1>3, OneRow
<1>5. TypeOK'  BY <1>1, <1>4 DEF TypeOK, Prune
<1>6. \A m \in Notices : row'[m].attempts = row[m].attempts
  BY <1>1, <1>2, <1>3 DEF TypeOK, Rows
<1> QED  BY <1>5, <1>6, Aside DEF Prune

\* flush reads rows that are due, and the counts they have.
LEMMA FlushKeeps == ASSUME IInv, NEW p \in Replicas, Flush(p) PROVE IInv'
<1>1. TypeOK  BY DEF IInv
<1>2. IsFiniteSet(Oldest) /\ Cardinality(Oldest) \in Nat
  <2>1. IsFiniteSet(1..Len(created))
    BY <1>1, Typing, FS_Interval
  <2>2. Oldest \subseteq 1..Len(created)  BY DEF Oldest, DuePlaces
  <2> QED  BY <2>1, <2>2, FS_Subset, FS_CardinalityType
<1>3. PICK places \in [1..Cardinality(Oldest) -> Oldest] :
          pending' = [pending EXCEPT ![p] =
                        [i \in DOMAIN places |->
                            [notice |-> created[places[i]],
                             attempts |-> row[created[places[i]]].attempts]]]
  BY DEF Flush
<1> DEFINE len == Cardinality(Oldest)
           taken == [i \in 1..len |-> [notice |-> created[places[i]],
                                       attempts |-> row[created[places[i]]].attempts]]
<1>4. pending' = [pending EXCEPT ![p] = taken]  BY <1>3
<1>5. ASSUME NEW i \in 1..len
      PROVE  /\ taken[i] \in Entries
             /\ taken[i].notice \in Notices
             /\ taken[i].attempts = row[taken[i].notice].attempts
  <2>1. places[i] \in 1..Len(created) /\ Due(created[places[i]])
    BY DEF Oldest, DuePlaces
  <2>2. created[places[i]] \in Notices  BY <1>1, <2>1, Typing
  <2>3. /\ row[created[places[i]]].attempts \in Nat
        /\ row[created[places[i]]].attempts < MaxAttempts
    BY <1>1, <2>1, <2>2, Typing DEF Due
  <2> QED  BY <2>2, <2>3, Bounds DEF Entries
<1> HIDE DEF taken
<1>6. taken \in Seq(Entries) /\ Len(taken) = len
  <2>1. taken = [i \in 1..len |-> taken[i]]  BY DEF taken
  <2> HIDE DEF len
  <2> QED  BY <2>1, <1>2, <1>5 DEF len
<1>7. pending' \in [Replicas -> Seq(Entries)]
  BY <1>1, <1>4, <1>6 DEF TypeOK, Entries
<1>8. TypeOK'  BY <1>1, <1>7 DEF TypeOK, Flush, Entries
<1>9. ASSUME NEW q \in Replicas PROVE AnswerSound(q)'
  <2>1. answer'[q] = answer[q] /\ heard' = heard /\ posts' = posts  BY DEF Flush
  <2>2. CASE q = p
    <3>1. answer[p] = "none"  BY DEF IInv, AnswerSound, Flush
    <3> QED  BY <3>1, <2>1, <2>2 DEF AnswerSound
  <2>3. CASE q # p
    <3>1. pending'[q] = pending[q]  BY <1>1, <1>4, <2>3 DEF TypeOK
    <3> QED  BY <3>1, <2>1 DEF IInv, AnswerSound, Current
  <2> QED  BY <2>2, <2>3
<1>10. CountsSound'
  <2>1. row' = row /\ posts' = posts  BY DEF Flush
  <2>2. ASSUME NEW q \in Replicas, NEW i \in 1..Len(pending'[q])
        PROVE  pending'[q][i].attempts <= posts[pending'[q][i].notice]
    <3>1. CASE q = p
      <4>1. pending'[q] = taken  BY <1>1, <1>4, <3>1 DEF TypeOK
      <4>2. i \in 1..len  BY <4>1, <2>2, <1>6
      <4> QED  BY <4>1, <4>2, <1>5 DEF IInv, CountsSound
    <3>2. CASE q # p
      <4>1. pending'[q] = pending[q]  BY <1>1, <1>4, <3>2 DEF TypeOK
      <4> QED  BY <4>1, <2>2 DEF IInv, CountsSound
    <3> QED  BY <3>1, <3>2
  <2> QED  BY <2>1, <2>2 DEF IInv, CountsSound
<1> QED  BY <1>8, <1>9, <1>10 DEF IInv

\* A flush that has dealt with its row goes on with the next, and one that stops
\* forgets the rest.
LEMMA GoesOn ==
    ASSUME IInv, TypeOK', NEW p \in Replicas,
           NEW left \in Seq(Entries), pending' = [pending EXCEPT ![p] = left],
           \A i \in 1..Len(left) : \E j \in 1..Len(pending[p]) : left[i] = pending[p][j],
           answer'[p] = "none", \A q \in Replicas \ {p} : answer'[q] = answer[q],
           UNCHANGED <<heard, posts>>,
           \A n \in Notices : row'[n].attempts <= posts[n]
    PROVE  IInv'
<1>1. TypeOK  BY DEF IInv
<1>2. pending'[p] = left /\ \A q \in Replicas \ {p} : pending'[q] = pending[q]
  BY <1>1 DEF TypeOK
<1>3. ASSUME NEW q \in Replicas PROVE AnswerSound(q)'
  <2>1. CASE q = p  BY <2>1 DEF AnswerSound
  <2>2. CASE q # p  BY <2>2, <1>2 DEF IInv, AnswerSound, Current
  <2> QED  BY <2>1, <2>2
<1>4. ASSUME NEW q \in Replicas, NEW i \in 1..Len(pending'[q])
      PROVE  pending'[q][i].attempts <= posts[pending'[q][i].notice]
  <2>1. CASE q = p
    <3>1. PICK j \in 1..Len(pending[p]) : pending'[q][i] = pending[p][j]
      BY <2>1, <1>2, <1>4
    <3> QED  BY <3>1 DEF IInv, CountsSound
  <2>2. CASE q # p  BY <2>2, <1>2, <1>4 DEF IInv, CountsSound
  <2> QED  BY <2>1, <2>2
<1>5. CountsSound'  BY <1>4 DEF CountsSound
<1> QED  BY <1>3, <1>5 DEF IInv

LEMMA WaiveKeeps == ASSUME IInv, NEW p \in Replicas, Waive(p) PROVE IInv'
<1> DEFINE n == Current(p).notice
           left == Tail(pending[p])
<1>1. TypeOK /\ pending[p] # <<>> /\ answer[p] = "none"  BY DEF IInv, Waive, Working
<1>2. n \in Notices /\ left \in Seq(Entries)  BY <1>1, HeadAndTail
<1>3. \A i \in 1..Len(left) : \E j \in 1..Len(pending[p]) : left[i] = pending[p][j]
  BY <1>1, HeadAndTail
<1>4. /\ row' = [row EXCEPT ![n] = [row[n] EXCEPT !.state = "delivered"]]
      /\ pending' = [pending EXCEPT ![p] = left]
      /\ UNCHANGED <<endpoint, created, answer, heard, posts, stops>>
  BY DEF Waive
<1> HIDE DEF n, left
<1>5. row[n] \in Rows /\ [row[n] EXCEPT !.state = "delivered"] \in Rows
  BY <1>1, <1>2, Typing DEF Rows
<1>6. row' \in [Notices -> Rows]  BY <1>1, <1>2, <1>4, <1>5, OneRow
<1>7. TypeOK'  BY <1>1, <1>2, <1>4, <1>6 DEF TypeOK, Entries
<1>8. \A m \in Notices : row'[m].attempts = row[m].attempts
  BY <1>1, <1>2, <1>4, <1>5 DEF TypeOK, Rows
<1>9. \A m \in Notices : row'[m].attempts <= posts[m]
  BY <1>8 DEF IInv, CountsSound
<1> QED  BY <1>1, <1>2, <1>3, <1>4, <1>7, <1>9, GoesOn

LEMMA StopKeeps == ASSUME IInv, NEW p \in Replicas, Stop(p) PROVE IInv'
<1>1. TypeOK  BY DEF IInv
<1>2. /\ pending' = [pending EXCEPT ![p] = <<>>] /\ answer' = [answer EXCEPT ![p] = "none"]
      /\ stops' = stops + 1 /\ stops < MaxStops
      /\ UNCHANGED <<endpoint, created, row, heard, posts>>
  BY DEF Stop
<1>3. <<>> \in Seq(Entries) /\ Len(<<>>) = 0  OBVIOUS
<1>4. TypeOK'
  <2>1. stops' \in 0..MaxStops  BY <1>1, <1>2, Bounds DEF TypeOK
  <2>2. pending' \in [Replicas -> Seq(Entries)]  BY <1>1, <1>2, <1>3 DEF TypeOK, Entries
  <2> QED  BY <1>1, <1>2, <2>1, <2>2 DEF TypeOK, Entries
<1>5. answer'[p] = "none" /\ \A q \in Replicas \ {p} : answer'[q] = answer[q]
  BY <1>1, <1>2 DEF TypeOK
<1>6. \A m \in Notices : row'[m].attempts <= posts[m]
  BY <1>2 DEF IInv, CountsSound
<1>7. \A i \in 1..Len(<<>>) : \E j \in 1..Len(pending[p]) : <<>>[i] = pending[p][j]
  BY <1>3
<1>8. UNCHANGED <<heard, posts>>  BY <1>2
<1> QED  BY <1>2, <1>3, <1>4, <1>5, <1>6, <1>7, <1>8, GoesOn

\* deliver's write counts one attempt more than the flush had read, which the POST was.
LEMMA SettleKeeps == ASSUME IInv, NEW p \in Replicas, Settle(p) PROVE IInv'
<1> DEFINE c == Current(p)
           n == Current(p).notice
           left == Tail(pending[p])
           r == After(row[n], c.attempts, answer[p])
<1>1. TypeOK /\ answer[p] # "none" /\ AnswerSound(p)  BY DEF IInv, Settle
<1>2. pending[p] # <<>> /\ c.attempts < posts[n]  BY <1>1 DEF AnswerSound
<1>3. n \in Notices /\ left \in Seq(Entries) /\ c.attempts \in Nat /\ c.attempts < MaxAttempts
  BY <1>1, <1>2, HeadAndTail
<1>4. \A i \in 1..Len(left) : \E j \in 1..Len(pending[p]) : left[i] = pending[p][j]
  BY <1>1, <1>2, HeadAndTail
<1>5. /\ row' = [row EXCEPT ![n] = r]
      /\ pending' = [pending EXCEPT ![p] = left]
      /\ answer' = [answer EXCEPT ![p] = "none"]
      /\ UNCHANGED <<endpoint, created, heard, posts, stops>>
  BY DEF Settle
<1>6. row[n] \in Rows /\ posts[n] \in Nat  BY <1>1, <1>3, Typing
<1>7. r \in Rows /\ r.attempts = c.attempts + 1
  <2>1. c.attempts + 1 \in 0..MaxAttempts  BY <1>3, Bounds
  <2>2. r = [row[n] EXCEPT !.attempts = c.attempts + 1, !.rested = FALSE,
                          !.state = IF answer[p] = "ok" THEN "delivered" ELSE row[n].state]
    BY <1>6 DEF After, Rows
  <2> HIDE DEF r
  <2> QED  BY <1>6, <2>1, <2>2 DEF Rows
<1> HIDE DEF c, n, left, r
<1>8. row' \in [Notices -> Rows]  BY <1>1, <1>3, <1>5, <1>7, OneRow
<1>9. TypeOK'  BY <1>1, <1>3, <1>5, <1>8 DEF TypeOK, Entries
<1>10. answer'[p] = "none" /\ \A q \in Replicas \ {p} : answer'[q] = answer[q]
  BY <1>1, <1>5 DEF TypeOK
<1>11. ASSUME NEW m \in Notices PROVE row'[m].attempts <= posts[m]
  <2>1. CASE m = n
    <3>1. row'[m].attempts = c.attempts + 1  BY <1>1, <1>5, <1>7, <2>1 DEF TypeOK
    <3> QED  BY <3>1, <2>1, <1>2, <1>3, <1>6
  <2>2. CASE m # n
    <3>1. row'[m] = row[m]  BY <1>1, <1>5, <2>2 DEF TypeOK
    <3> QED  BY <3>1 DEF IInv, CountsSound
  <2> QED  BY <2>1, <2>2
<1> QED  BY <1>3, <1>4, <1>5, <1>9, <1>10, <1>11, GoesOn

\* A POST is counted when it is made, for every flush that has read its row.
LEMMA PostKeeps == ASSUME IInv, NEW p \in Replicas, Post(p) PROVE IInv'
<1> DEFINE c == Current(p)
           n == Current(p).notice
<1>1. TypeOK /\ pending[p] # <<>>  BY DEF IInv, Post, Working
<1>2. n \in Notices /\ c.attempts \in Nat /\ c.attempts < MaxAttempts
  BY <1>1, HeadAndTail
<1>3. PICK result \in {"ok", "failed"} :
          /\ answer' = [answer EXCEPT ![p] = result]
          /\ heard' = heard \cup {n} \/ (result = "failed" /\ UNCHANGED heard)
  BY DEF Post
<1>4. /\ posts' = [posts EXCEPT ![n] = IF posts[n] < MaxAttempts THEN posts[n] + 1 ELSE posts[n]]
      /\ UNCHANGED <<endpoint, created, row, pending, stops>>
  BY DEF Post
<1>5. c.attempts <= posts[n]
  <2>1. c = pending[p][1] /\ 1 \in 1..Len(pending[p])  BY <1>1, HeadAndTail
  <2> QED  BY <2>1 DEF IInv, CountsSound
<1>6. Current(p)' = c  BY <1>4 DEF Current
<1> HIDE DEF c, n
<1>7. /\ posts[n] \in Nat /\ posts[n] <= MaxAttempts /\ MaxAttempts \in Nat
      /\ posts'[n] = IF posts[n] < MaxAttempts THEN posts[n] + 1 ELSE posts[n]
  BY <1>1, <1>2, <1>4, Typing, Bounds DEF TypeOK
<1>8. c.attempts < posts'[n]  BY <1>2, <1>5, <1>7
<1>9. \A m \in Notices : posts[m] \in Nat /\ posts'[m] \in Nat /\ posts[m] <= posts'[m]
  <2> SUFFICES ASSUME NEW m \in Notices
               PROVE  posts[m] \in Nat /\ posts'[m] \in Nat /\ posts[m] <= posts'[m]
    OBVIOUS
  <2>1. posts[m] \in Nat  BY <1>1, Typing DEF TypeOK
  <2>2. CASE m = n  BY <2>2, <1>7
  <2>3. CASE m # n
    <3>1. posts'[m] = posts[m]  BY <2>3, <1>1, <1>4 DEF TypeOK
    <3> QED  BY <3>1, <2>1
  <2> QED  BY <2>2, <2>3
<1>10. TypeOK'
  <2>1. posts' \in [Notices -> 0..MaxAttempts]
    BY <1>1, <1>2, <1>4, <1>7 DEF TypeOK
  <2>2. heard' \subseteq Notices  BY <1>1, <1>2, <1>3 DEF TypeOK
  <2> QED  BY <1>1, <1>3, <1>4, <2>1, <2>2 DEF TypeOK
<1>11. ASSUME NEW q \in Replicas PROVE AnswerSound(q)'
  <2>1. CASE q = p
    <3>1. answer'[p] = result  BY <1>1, <1>3 DEF TypeOK
    <3>2. Current(p)'.notice = n /\ Current(p)'.attempts = c.attempts
      BY <1>6 DEF n, c
    <3> QED  BY <3>1, <3>2, <2>1, <1>1, <1>3, <1>4, <1>8 DEF AnswerSound
  <2>2. CASE q # p /\ answer[q] # "none"
    <3>1. answer'[q] = answer[q]  BY <1>1, <1>3, <2>2 DEF TypeOK
    <3>2. Current(q)' = Current(q) /\ pending'[q] = pending[q]  BY <1>4 DEF Current
    <3>3. AnswerSound(q) /\ pending[q] # <<>>  BY <2>2 DEF IInv, AnswerSound
    <3>4. /\ Current(q).notice \in Notices /\ Current(q).attempts \in Nat
      BY <1>1, <3>3, HeadAndTail
    <3>5. Current(q).attempts < posts'[Current(q).notice]
      BY <1>9, <2>2, <3>3, <3>4 DEF AnswerSound
    <3>6. heard \subseteq heard'  BY <1>3
    <3> QED  BY <3>1, <3>2, <3>3, <3>5, <3>6, <2>2 DEF AnswerSound
  <2>3. CASE q # p /\ answer[q] = "none"
    BY <2>3, <1>1, <1>3 DEF AnswerSound, TypeOK
  <2> QED  BY <2>1, <2>2, <2>3
<1>12. CountsSound'
  <2>1. ASSUME NEW m \in Notices PROVE row'[m].attempts <= posts'[m]
    <3>1. row[m].attempts <= posts[m]  BY DEF IInv, CountsSound
    <3>2. row[m].attempts \in Nat  BY <1>1, Typing
    <3> QED  BY <3>1, <3>2, <1>4, <1>9
  <2>2. ASSUME NEW q \in Replicas, NEW i \in 1..Len(pending'[q])
        PROVE  pending'[q][i].attempts <= posts'[pending'[q][i].notice]
    <3>1. pending'[q][i] = pending[q][i] /\ i \in 1..Len(pending[q])  BY <1>4
    <3>2. pending[q][i] \in Entries  BY <1>1, <3>1, Typing
    <3>3. pending[q][i].notice \in Notices /\ pending[q][i].attempts \in Nat
      BY <3>2, Bounds DEF Entries
    <3>4. pending[q][i].attempts <= posts[pending[q][i].notice]
      BY <3>1 DEF IInv, CountsSound
    <3> QED  BY <3>1, <3>3, <3>4, <1>9
  <2> QED  BY <2>1, <2>2 DEF CountsSound
<1> QED  BY <1>10, <1>11, <1>12 DEF IInv

LEMMA StepKeeps == IInv /\ [Next]_vars => IInv'
<1> SUFFICES ASSUME IInv, [Next]_vars PROVE IInv'
  OBVIOUS
<1>1. ASSUME NEW n \in Notices, Enqueue(n) \/ Rest(n) \/ Prune(n) PROVE IInv'
  BY <1>1, EnqueueKeeps, RestKeeps, PruneKeeps
<1>2. ASSUME NEW p \in Replicas, Flush(p) \/ Waive(p) \/ Post(p) \/ Settle(p) \/ Stop(p)
      PROVE  IInv'
  BY <1>2, FlushKeeps, WaiveKeeps, PostKeeps, SettleKeeps, StopKeeps
<1>3. ASSUME NEW c \in Clients, ChangeEndpoint(c) PROVE IInv'
  BY <1>3, ChangeEndpointKeeps
<1>4. CASE UNCHANGED vars
  <2>1. TypeOK'  BY <1>4 DEF IInv, TypeOK, vars
  <2> QED  BY <1>4, <2>1, Aside DEF vars
<1> QED  BY <1>1, <1>2, <1>3, <1>4 DEF Next, PruneDelivered

LEMMA Invariance == Spec => []IInv
BY Initially, StepKeeps, PTL DEF Spec

\* Rows, what flushes have read and the counts keep their types, for any number of
\* notices, replicas, attempts and rows in a batch: no flush takes a row whose
\* attempts are used up.
THEOREM TypeCorrect == Spec => []TypeOK
<1>1. IInv => TypeOK  BY DEF IInv
<1> QED  BY <1>1, Invariance, PTL

-----------------------------------------------------------------------------
(* What may happen to the state of a row *)

Accounted(n) ==
    row'[n].state # row[n].state =>
        \/ row'[n].state = "queued" /\ row[n].state = "absent"
        \/ row'[n].state = "delivered" /\ (n \in heard \/ ~Reachable(n))
        \/ row'[n].state = "pruned" /\ (row[n].state = "delivered" \/ posts[n] = MaxAttempts)

\* A step that writes the state of one row accounts for it.
LEMMA OneState ==
    ASSUME TypeOK, NEW m \in Notices, NEW r \in Rows, row' = [row EXCEPT ![m] = r],
           row'[m] = r => Accounted(m)
    PROVE  \A n \in Notices : Accounted(n)
<1>1. row'[m] = r  BY DEF TypeOK
<1>2. \A n \in Notices \ {m} : row'[n] = row[n]  BY DEF TypeOK
<1> QED  BY <1>1, <1>2 DEF Accounted

LEMMA EveryStepAccounts ==
    ASSUME IInv, [Next]_vars PROVE \A n \in Notices : Accounted(n)
<1>1. TypeOK  BY DEF IInv
<1>2. ASSUME NEW m \in Notices, Enqueue(m) PROVE \A n \in Notices : Accounted(n)
  <2> DEFINE r == [row[m] EXCEPT !.state = "queued"]
  <2>1. row[m] \in Rows  BY <1>1, Typing
  <2>2. r \in Rows /\ r.state = "queued"  BY <2>1 DEF Rows
  <2>3. row' = [row EXCEPT ![m] = r] /\ row[m].state = "absent"  BY <1>2 DEF Enqueue
  <2> HIDE DEF r
  <2> QED  BY <1>1, <2>2, <2>3, OneState DEF Accounted
<1>3. ASSUME NEW m \in Notices, Rest(m) PROVE \A n \in Notices : Accounted(n)
  <2> DEFINE r == [row[m] EXCEPT !.rested = TRUE]
  <2>1. row[m] \in Rows  BY <1>1, Typing
  <2>2. r \in Rows /\ r.state = row[m].state  BY <2>1 DEF Rows
  <2>3. row' = [row EXCEPT ![m] = r]  BY <1>3 DEF Rest
  <2> HIDE DEF r
  <2> QED  BY <1>1, <2>2, <2>3, OneState DEF Accounted
<1>4. ASSUME NEW m \in Notices, Prune(m) PROVE \A n \in Notices : Accounted(n)
  <2> DEFINE r == [row[m] EXCEPT !.state = "pruned"]
  <2>1. row[m] \in Rows  BY <1>1, Typing
  <2>2. r \in Rows /\ r.state = "pruned"  BY <2>1 DEF Rows
  <2>3. row' = [row EXCEPT ![m] = r]  BY <1>4 DEF Prune
  <2>4. row[m].state = "delivered" \/ row[m].attempts >= MaxAttempts
    BY <1>4 DEF Prune, Prunable
  <2>5. row[m].attempts >= MaxAttempts => posts[m] = MaxAttempts
    <3>1. /\ row[m].attempts \in Nat /\ posts[m] \in Nat /\ posts[m] <= MaxAttempts
          /\ row[m].attempts <= posts[m]
      BY <1>1, Typing DEF IInv, CountsSound
    <3> QED  BY <3>1, Bounds
  <2> HIDE DEF r
  <2> QED  BY <1>1, <2>2, <2>3, <2>4, <2>5, OneState DEF Accounted
<1>5. ASSUME NEW p \in Replicas, Waive(p) PROVE \A n \in Notices : Accounted(n)
  <2> DEFINE m == Current(p).notice
             r == [row[m] EXCEPT !.state = "delivered"]
  <2>1. m \in Notices  BY <1>1, <1>5, HeadAndTail DEF Waive, Working
  <2>2. row' = [row EXCEPT ![m] = r] /\ ~Reachable(m)  BY <1>5 DEF Waive
  <2> HIDE DEF m
  <2>3. row[m] \in Rows  BY <1>1, <2>1, Typing
  <2>4. r \in Rows /\ r.state = "delivered"  BY <2>3 DEF Rows
  <2> HIDE DEF r
  <2> QED  BY <1>1, <2>1, <2>2, <2>4, OneState DEF Accounted
<1>6. ASSUME NEW p \in Replicas, Settle(p) PROVE \A n \in Notices : Accounted(n)
  <2> DEFINE m == Current(p).notice
             r == After(row[m], Current(p).attempts, answer[p])
  <2>1. pending[p] # <<>> /\ (answer[p] = "ok" => m \in heard)
    BY <1>6 DEF IInv, AnswerSound, Settle
  <2>2. m \in Notices /\ Current(p).attempts \in Nat /\ Current(p).attempts < MaxAttempts
    BY <1>1, <2>1, HeadAndTail
  <2>3. row' = [row EXCEPT ![m] = r]  BY <1>6 DEF Settle
  <2>4. row[m] \in Rows  BY <1>1, <2>2, Typing
  <2> DEFINE state == IF answer[p] = "ok" THEN "delivered" ELSE row[m].state
  <2>5. r \in Rows /\ r.state = state
    <3>1. Current(p).attempts + 1 \in 0..MaxAttempts  BY <2>2, Bounds
    <3>2. r = [row[m] EXCEPT !.attempts = Current(p).attempts + 1, !.rested = FALSE,
                            !.state = state]
      BY <2>4 DEF After, Rows
    <3>3. state \in {"absent", "queued", "delivered", "pruned"}  BY <2>4 DEF Rows
    <3> HIDE DEF r, state, m
    <3> QED  BY <2>4, <3>1, <3>2, <3>3 DEF Rows
  <2> HIDE DEF r, m
  <2> QED  BY <1>1, <2>1, <2>2, <2>3, <2>5, OneState DEF Accounted
<1>7. CASE UNCHANGED row  BY <1>7 DEF Accounted
<1>8. \/ \E m \in Notices : Enqueue(m) \/ Rest(m) \/ Prune(m)
      \/ \E p \in Replicas : Waive(p) \/ Settle(p)
      \/ UNCHANGED row
  BY DEF Next, PruneDelivered, Flush, Post, Stop, ChangeEndpoint, vars
<1> QED  BY <1>2, <1>3, <1>4, <1>5, <1>6, <1>7, <1>8

\* A notice is marked delivered only if the client has it or has no endpoint, and it
\* leaves the table only so or after every attempt was made; no late result of a
\* flush makes it due again.
THEOREM NoNoticeIsDropped == Spec => NothingIsDropped
<1>1. IInv /\ [Next]_vars => [\A n \in Notices : Accounted(n)]_vars
  BY EveryStepAccounts
<1> QED  BY <1>1, Invariance, PTL DEF Spec, NothingIsDropped, Accounted
=============================================================================
