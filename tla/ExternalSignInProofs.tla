------------------------ MODULE ExternalSignInProofs ------------------------
(***************************************************************************)
(* A ticket is accepted once, signs in the browser that asked for it, and  *)
(* enters only the account of its subject, for any number of users,        *)
(* subjects, browsers, tickets and callbacks in progress.  The induction   *)
(* carries what a callback knows after each of its awaits.                 *)
(***************************************************************************)
EXTENDS ExternalSignIn, TLAPS

CallbackOps == {"came", "checked", "taken", "new", "found", "merge", "enter"}

\* The row of the subject the ticket names.
IsSubjectsRow(u, t) == account[u] # Nil /\ account[u].born = ticket[t].claims.subject

\* A callback presents an issued ticket in the browser that drew its state;
\* once checked, the ticket names that state; once resolved, the account is
\* the subject's.
CallbackSound(w) ==
    LET item == work[w]
    IN  item.op \in CallbackOps =>
            /\ ticket[item.c.t] # Nil
            /\ startedBy[item.c.state] = item.c.b
            /\ item.op # "came" => ticket[item.c.t].state = item.c.state
            /\ item.op \in {"found", "merge", "enter"} => IsSubjectsRow(item.u, item.c.t)

BrowserSound(b) ==
    /\ browser[b].user # Nil => account[browser[b].user] # Nil
    /\ browser[b].state # Nil => startedBy[browser[b].state] = b
    /\ browser[b].via # Nil =>
        /\ browser[b].user # Nil
        /\ ticket[browser[b].via] # Nil
        /\ startedBy[ticket[browser[b].via].state] = b
        /\ IsSubjectsRow(browser[b].user, browser[b].via)

LinkSound(s) == identity[s] # Nil => account[identity[s]] # Nil /\ account[identity[s]].born = s

\* A ticket spent before it expired is on record until it has expired.
TicketSound(t) ==
    /\ t \in consumed => ticket[t] # Nil
    /\ spent[t] \in {0, 1}
    /\ spent[t] = 1 => ticket[t] # Nil /\ (t \in consumed \/ now > ticket[t].exp)

IInv ==
    /\ TypeOK
    /\ \A w \in Workers : CallbackSound(w)
    /\ \A b \in Browsers : BrowserSound(b)
    /\ \A s \in Subjects : LinkSound(s)
    /\ \A t \in Tickets : TicketSound(t)

-----------------------------------------------------------------------------
(* What a step leaves standing *)

\* Rows, issued tickets and drawn states are never taken back.
RowsStand == \A u \in Users : account[u] # Nil => account'[u] # Nil /\ account'[u].born = account[u].born
TicketsStand == \A t \in Tickets : ticket[t] # Nil => ticket'[t] = ticket[t]
StatesStand == \A x \in States : startedBy[x] # Nil => startedBy'[x] = startedBy[x]
Stand == RowsStand /\ TicketsStand /\ StatesStand

LEMMA Items ==
    ASSUME TypeOK, NEW w \in Workers
    PROVE  /\ work[w] \in WorkItems
           /\ work[w].op \in CallbackOps =>
                /\ work[w].c \in Callback
                /\ work[w].c.t \in Tickets /\ work[w].c.state \in States
                /\ work[w].c.b \in Browsers /\ work[w].c.b # Nil
                /\ work[w].c.sid \in 0..MaxSessions
           /\ work[w].op \in {"found", "merge", "enter"} => work[w].u \in Users
           /\ work[w].op = "merge" => work[w].attrs \in SUBSET (AttrNames \cup {ExternalUsername})
           /\ work[w].op = "register" => work[w].email \in Emails /\ work[w].first \in BOOLEAN
<1>1. work[w] \in WorkItems  BY DEF TypeOK
<1>2. work[w].op \in CallbackOps => work[w].c \in Callback
  BY <1>1 DEF WorkItems, Idle, CallbackOps
<1>3. /\ work[w].op \in {"found", "merge", "enter"} => work[w].u \in Users
      /\ work[w].op = "merge" => work[w].attrs \in SUBSET (AttrNames \cup {ExternalUsername})
      /\ work[w].op = "register" => work[w].email \in Emails /\ work[w].first \in BOOLEAN
  BY <1>1 DEF WorkItems, Idle
<1>4. \A c \in Callback : /\ c.t \in Tickets /\ c.state \in States /\ c.sid \in 0..MaxSessions
                          /\ c.b \in Browsers /\ c.b # Nil
  BY ConstantsAssumption DEF Callback
<1> QED  BY <1>1, <1>2, <1>3, <1>4

LEMMA Sessions ==
    ASSUME TypeOK, NEW b \in Browsers
    PROVE  /\ browser[b] \in Session /\ browser[b].sid \in 0..MaxSessions
           /\ browser[b].user # Nil => browser[b].user \in Users
           /\ browser[b].state # Nil => browser[b].state \in States
           /\ browser[b].via # Nil => browser[b].via \in Tickets
  BY DEF TypeOK, Session

LEMMA Issued ==
    ASSUME TypeOK, NEW t \in Tickets, ticket[t] # Nil
    PROVE  /\ ticket[t].claims \in Assertions /\ ticket[t].claims.subject \in Subjects
           /\ ticket[t].state \in States /\ ticket[t].exp \in Nat
<1>1. ticket[t] \in [claims : Assertions, state : States, exp : Nat]  BY DEF TypeOK
<1> QED  BY <1>1, ConstantsAssumption

LEMMA CallbackFrame ==
    ASSUME TypeOK, Stand, NEW w \in Workers, CallbackSound(w), work'[w] = work[w]
    PROVE  CallbackSound(w)'
<1> SUFFICES ASSUME work[w].op \in CallbackOps
             PROVE  CallbackSound(w)'
  BY DEF CallbackSound
<1>1. /\ work[w].c.t \in Tickets /\ work[w].c.state \in States /\ work[w].c.b # Nil
      /\ work[w].op \in {"found", "merge", "enter"} => work[w].u \in Users
  BY Items
<1>2. /\ ticket[work[w].c.t] # Nil
      /\ startedBy[work[w].c.state] = work[w].c.b
      /\ work[w].op # "came" => ticket[work[w].c.t].state = work[w].c.state
      /\ work[w].op \in {"found", "merge", "enter"} => IsSubjectsRow(work[w].u, work[w].c.t)
  BY DEF CallbackSound
<1>3. ticket'[work[w].c.t] = ticket[work[w].c.t]  BY <1>1, <1>2 DEF Stand, TicketsStand
<1>4. startedBy'[work[w].c.state] = startedBy[work[w].c.state]
  BY <1>1, <1>2 DEF Stand, StatesStand
<1>5. work[w].op \in {"found", "merge", "enter"} =>
        /\ account'[work[w].u] # Nil
        /\ account'[work[w].u].born = ticket'[work[w].c.t].claims.subject
  BY <1>1, <1>2, <1>3 DEF Stand, RowsStand, IsSubjectsRow
<1> QED  BY <1>2, <1>3, <1>4, <1>5 DEF CallbackSound, IsSubjectsRow

LEMMA IdleSound ==
    ASSUME NEW w \in Workers, work'[w] = Idle
    PROVE  CallbackSound(w)'
  BY DEF CallbackSound, Idle, CallbackOps

LEMMA BrowserFrame ==
    ASSUME TypeOK, Stand, NEW b \in Browsers, BrowserSound(b), browser'[b] = browser[b]
    PROVE  BrowserSound(b)'
<1>1. browser[b].user # Nil => account'[browser[b].user] # Nil
  BY Sessions DEF BrowserSound, Stand, RowsStand
<1>2. browser[b].state # Nil => startedBy'[browser[b].state] = b
  BY Sessions, ConstantsAssumption DEF BrowserSound, Stand, StatesStand
<1>3. ASSUME browser[b].via # Nil
      PROVE  /\ browser[b].user # Nil
             /\ ticket'[browser[b].via] # Nil
             /\ startedBy'[ticket'[browser[b].via].state] = b
             /\ account'[browser[b].user] # Nil
             /\ account'[browser[b].user].born = ticket'[browser[b].via].claims.subject
  <2>1. /\ browser[b].via \in Tickets /\ browser[b].user \in Users /\ browser[b].user # Nil
        /\ ticket[browser[b].via] # Nil
    BY <1>3, Sessions DEF BrowserSound
  <2>2. ticket'[browser[b].via] = ticket[browser[b].via]
    BY <2>1 DEF Stand, TicketsStand
  <2>3. ticket[browser[b].via].state \in States  BY <2>1, Issued
  <2>4. startedBy'[ticket[browser[b].via].state] = b
    BY <1>3, <2>3, ConstantsAssumption DEF BrowserSound, Stand, StatesStand
  <2>5. /\ account'[browser[b].user] # Nil
        /\ account'[browser[b].user].born = ticket[browser[b].via].claims.subject
    BY <1>3, <2>1 DEF BrowserSound, IsSubjectsRow, Stand, RowsStand
  <2> QED  BY <2>1, <2>2, <2>4, <2>5
<1> QED  BY <1>1, <1>2, <1>3 DEF BrowserSound, IsSubjectsRow

LEMMA LinkFrame ==
    ASSUME TypeOK, Stand, NEW s \in Subjects, LinkSound(s), identity'[s] = identity[s]
    PROVE  LinkSound(s)'
  BY DEF TypeOK, LinkSound, Stand, RowsStand

\* A ticket's record is kept, and the clock does not run back.
LEMMA TicketFrame ==
    ASSUME TypeOK, Stand, NEW t \in Tickets, TicketSound(t),
           (t \in consumed') <=> (t \in consumed), spent'[t] = spent[t],
           now' \in Nat, now' >= now
    PROVE  TicketSound(t)'
<1>1. ticket[t] # Nil => ticket'[t] = ticket[t] /\ ticket[t].exp \in Nat
  BY Issued DEF Stand, TicketsStand
<1>2. now \in Nat  BY ConstantsAssumption DEF TypeOK
<1>3. ticket[t] # Nil /\ now > ticket[t].exp => now' > ticket[t].exp
  BY <1>1, <1>2
<1> QED  BY <1>1, <1>3 DEF TicketSound

-----------------------------------------------------------------------------
LEMMA InitEstablishes == Init => IInv
<1> SUFFICES ASSUME Init PROVE IInv
  OBVIOUS
<1>1. TypeOK
  <2>1. Idle \in WorkItems  BY DEF WorkItems
  <2>2. [sid |-> 0, user |-> Nil, state |-> Nil, via |-> Nil] \in Session
    BY ConstantsAssumption DEF Session
  <2> QED  BY <2>1, <2>2, ConstantsAssumption DEF Init, TypeOK
<1>2. \A w \in Workers : CallbackSound(w)  BY DEF Init, CallbackSound, CallbackOps, Idle
<1>3. \A b \in Browsers : BrowserSound(b)  BY DEF Init, BrowserSound
<1>4. \A s \in Subjects : LinkSound(s)  BY DEF Init, LinkSound
<1>5. \A t \in Tickets : TicketSound(t)  BY DEF Init, TicketSound
<1> QED  BY <1>1, <1>2, <1>3, <1>4, <1>5 DEF IInv

\* A step that takes nothing back need only account for what it changes.
LEMMA StepSound ==
    ASSUME IInv, TypeOK', Stand,
           \A w \in Workers : work'[w] = work[w] \/ CallbackSound(w)',
           \A b \in Browsers : browser'[b] = browser[b] \/ BrowserSound(b)',
           \A s \in Subjects : identity'[s] = identity[s] \/ LinkSound(s)',
           \A t \in Tickets :
                \/ ((t \in consumed') <=> (t \in consumed)) /\ spent'[t] = spent[t]
                \/ TicketSound(t)',
           now' >= now
    PROVE  IInv'
<1>1. \A w \in Workers : CallbackSound(w)'  BY CallbackFrame DEF IInv
<1>2. \A b \in Browsers : BrowserSound(b)'  BY BrowserFrame DEF IInv
<1>3. \A s \in Subjects : LinkSound(s)'  BY LinkFrame DEF IInv
<1>4. now' \in Nat  BY ConstantsAssumption DEF TypeOK
<1>5. \A t \in Tickets : TicketSound(t)'  BY <1>4, TicketFrame DEF IInv
<1> QED  BY <1>1, <1>2, <1>3, <1>5 DEF IInv

LEMMA OneWorker ==
    ASSUME TypeOK, NEW w \in Workers, NEW item \in WorkItems, Goto(w, item)
    PROVE  /\ work' \in [Workers -> WorkItems] /\ work'[w] = item
           /\ \A v \in Workers \ {w} : work'[v] = work[v]
  BY DEF Goto, TypeOK

LEMMA OneDone ==
    ASSUME TypeOK, NEW w \in Workers, Done(w)
    PROVE  /\ work' \in [Workers -> WorkItems]
           /\ \A v \in Workers : work'[v] = work[v] \/ CallbackSound(v)'
<1>1. Idle \in WorkItems  BY DEF WorkItems
<1>2. Goto(w, Idle)  BY DEF Done
<1> QED  BY <1>1, <1>2, OneWorker, IdleSound

\* A step of one request that writes nothing.
LEMMA WorkStep ==
    ASSUME IInv, NEW w \in Workers, NEW item \in WorkItems, Goto(w, item), CallbackSound(w)',
           UNCHANGED <<account, identity, browser, startedBy, ticket, consumed, spent, now>>
    PROVE  IInv'
<1>1. TypeOK'  BY OneWorker DEF IInv, TypeOK
<1>2. Stand  BY DEF Stand, RowsStand, TicketsStand, StatesStand
<1>3. \A v \in Workers : work'[v] = work[v] \/ CallbackSound(v)'  BY OneWorker DEF IInv
<1>4. now' >= now  BY ConstantsAssumption DEF IInv, TypeOK
<1> QED  BY <1>1, <1>2, <1>3, <1>4, StepSound

LEMMA DoneStep ==
    ASSUME IInv, NEW w \in Workers, Done(w),
           UNCHANGED <<account, identity, browser, startedBy, ticket, consumed, spent, now>>
    PROVE  IInv'
<1>1. Idle \in WorkItems /\ Goto(w, Idle)  BY DEF Done, WorkItems
<1>2. CallbackSound(w)'  BY <1>1, OneWorker, IdleSound DEF IInv
<1> QED  BY <1>1, <1>2, WorkStep

\* One row is created, or changed in anything but the subject it was created for.
LEMMA RowWritten ==
    ASSUME TypeOK, NEW u \in Users, NEW r \in Account, account' = [account EXCEPT ![u] = r],
           account[u] = Nil \/ r.born = account[u].born
    PROVE  /\ account' \in [Users -> Account \cup {Nil}] /\ account'[u] = r /\ r # Nil
           /\ RowsStand
  BY NilIsNoRow DEF TypeOK, RowsStand

LEMMA RowOf ==
    ASSUME TypeOK, NEW u \in Users, account[u] # Nil
    PROVE  account[u] \in Account
  BY DEF TypeOK

\* The links of the accounts that stand.
LEMMA LinksStand ==
    ASSUME TypeOK, RowsStand, NEW s \in Subjects, identity[s] # Nil
    PROVE  account'[identity[s]] # Nil
  BY DEF TypeOK, RowsStand

-----------------------------------------------------------------------------
(* The round trip *)

LEMMA StartKeeps ==
    ASSUME IInv, NEW b \in Browsers, Start(b)
    PROVE  IInv'
<1> PICK x \in States : /\ startedBy[x] = Nil
                        /\ startedBy' = [startedBy EXCEPT ![x] = b]
                        /\ browser' = [browser EXCEPT ![b].state = x]
  BY DEF Start
<1>0. UNCHANGED <<account, identity, ticket, consumed, spent, work, now>>  BY DEF Start
<1> DEFINE r == [browser[b] EXCEPT !.state = x]
<1>1. browser[b] \in Session  BY DEF IInv, TypeOK
<1>2. r \in Session /\ r.state = x /\ r.user = browser[b].user /\ r.via = browser[b].via
  BY <1>1 DEF Session
<1>3. browser' = [browser EXCEPT ![b] = r]  OBVIOUS
<1> HIDE DEF r
<1>4. /\ browser' \in [Browsers -> Session] /\ browser'[b] = r
      /\ \A c \in Browsers \ {b} : browser'[c] = browser[c]
      /\ startedBy' \in [States -> Browsers \cup {Nil}] /\ startedBy'[x] = b
      /\ \A y \in States \ {x} : startedBy'[y] = startedBy[y]
  BY <1>2, <1>3 DEF IInv, TypeOK
<1>5. TypeOK'  BY <1>0, <1>4 DEF IInv, TypeOK
<1>6. Stand  BY <1>0, <1>4 DEF Stand, RowsStand, TicketsStand, StatesStand
<1>7. BrowserSound(b)'
  <2>1. BrowserSound(b)  BY DEF IInv
  <2>2. browser[b].via # Nil =>
            startedBy'[ticket[browser[b].via].state] = startedBy[ticket[browser[b].via].state]
    <3> SUFFICES ASSUME browser[b].via # Nil
                 PROVE  startedBy'[ticket[browser[b].via].state]
                            = startedBy[ticket[browser[b].via].state]
      OBVIOUS
    <3>1. browser[b].via \in Tickets /\ ticket[browser[b].via] # Nil
      BY <2>1, Sessions DEF IInv, BrowserSound
    <3>2. ticket[browser[b].via].state \in States  BY <3>1, Issued DEF IInv
    <3>3. b # Nil  BY ConstantsAssumption
    <3> QED  BY <2>1, <3>2, <3>3, <1>6 DEF BrowserSound, Stand, StatesStand
  <2> QED  BY <1>0, <1>2, <1>4, <2>1, <2>2 DEF BrowserSound, IsSubjectsRow
<1>8. now' >= now  BY <1>0, ConstantsAssumption DEF IInv, TypeOK
<1> QED  BY <1>0, <1>4, <1>5, <1>6, <1>7, <1>8, StepSound

LEMMA IssueKeeps ==
    ASSUME IInv, NEW t \in Tickets, Issue(t)
    PROVE  IInv'
<1> PICK a \in Assertions, x \in States, life \in 1..TicketTtl :
            /\ ticket[t] = Nil
            /\ ticket' = [ticket EXCEPT ![t] = [claims |-> a, state |-> x, exp |-> now + life]]
  BY DEF Issue
<1>0. UNCHANGED <<account, identity, browser, startedBy, consumed, spent, work, now>>
  BY DEF Issue
<1>1. now + life \in Nat /\ now' >= now
  BY <1>0, ConstantsAssumption DEF IInv, TypeOK
<1>2. /\ ticket' \in [Tickets -> {Nil} \cup [claims : Assertions, state : States, exp : Nat]]
      /\ \A q \in Tickets \ {t} : ticket'[q] = ticket[q]
  BY <1>1 DEF IInv, TypeOK
<1>3. TypeOK'  BY <1>0, <1>2 DEF IInv, TypeOK
<1>4. Stand  BY <1>0, <1>2 DEF Stand, RowsStand, TicketsStand, StatesStand
<1> QED  BY <1>0, <1>1, <1>3, <1>4, StepSound

LEMMA CallbackReadsKeeps ==
    ASSUME IInv, NEW w \in Workers, NEW b \in Browsers, NEW t \in Tickets, CallbackReads(w, b, t)
    PROVE  IInv'
<1> DEFINE c == [b |-> b, sid |-> browser[b].sid, t |-> t, state |-> browser[b].state]
           item == [op |-> "came", c |-> c]
<1>1. Goto(w, item) /\ ticket[t] # Nil /\ browser[b].state # Nil
      /\ UNCHANGED <<account, identity, browser, startedBy, ticket, consumed, spent, now>>
  BY DEF CallbackReads
<1>2. browser[b].state \in States /\ browser[b].sid \in 0..MaxSessions
  BY <1>1, Sessions DEF IInv
<1>3. c \in Callback  BY <1>2 DEF Callback
<1>4. item \in WorkItems  BY <1>3 DEF WorkItems
<1>5. work'[w] = item  BY <1>1, <1>4, OneWorker DEF IInv
<1>6. startedBy[browser[b].state] = b  BY <1>1 DEF IInv, BrowserSound
<1>7. CallbackSound(w)'  BY <1>1, <1>5, <1>6 DEF CallbackSound
<1> QED  BY <1>1, <1>4, <1>7, WorkStep

\* A callback moves on to an operation whose knowledge it has.
LEMMA MovedOn ==
    ASSUME TypeOK, NEW w \in Workers, CallbackSound(w), work[w].op \in CallbackOps,
           NEW op \in {"checked", "taken", "new"},
           Goto(w, [op |-> op, c |-> work[w].c]),
           ticket[work[w].c.t].state = work[w].c.state,
           UNCHANGED <<ticket, startedBy>>
    PROVE  /\ work' \in [Workers -> WorkItems]
           /\ \A v \in Workers : work'[v] = work[v] \/ CallbackSound(v)'
<1> DEFINE item == [op |-> op, c |-> work[w].c]
<1>1. item \in WorkItems  BY Items DEF WorkItems
<1>2. /\ work' \in [Workers -> WorkItems] /\ work'[w] = item
      /\ \A v \in Workers \ {w} : work'[v] = work[v]
  BY <1>1, OneWorker
<1>3. CallbackSound(w)'  BY <1>2 DEF CallbackSound
<1> QED  BY <1>2, <1>3

LEMMA SpendStateKeeps ==
    ASSUME IInv, NEW w \in Workers, SpendState(w)
    PROVE  IInv'
<1> SUFFICES ASSUME NEW c \in Callback, c = work[w].c
             PROVE  IInv'
  BY Items DEF IInv, SpendState, CallbackOps
<1>0. /\ UNCHANGED <<account, identity, startedBy, ticket, consumed, spent, now>>
      /\ work[w].op = "came" /\ CallbackSound(w) /\ c.b \in Browsers
  BY DEF SpendState, IInv, Callback
<1>1. /\ browser' \in [Browsers -> Session]
      /\ \A b \in Browsers : browser'[b] = browser[b] \/ BrowserSound(b)'
  <2>1. CASE browser' = browser  BY <2>1 DEF IInv, TypeOK
  <2>2. CASE browser' = [browser EXCEPT ![c.b].state = Nil]
    <3> DEFINE r == [browser[c.b] EXCEPT !.state = Nil]
    <3>1. browser[c.b] \in Session  BY <1>0 DEF IInv, TypeOK
    <3>2. r \in Session /\ r.state = Nil /\ r.user = browser[c.b].user /\ r.via = browser[c.b].via
      BY <3>1 DEF Session
    <3>3. browser' = [browser EXCEPT ![c.b] = r]  BY <2>2
    <3> HIDE DEF r
    <3>4. /\ browser' \in [Browsers -> Session] /\ browser'[c.b] = r
          /\ \A b \in Browsers \ {c.b} : browser'[b] = browser[b]
      BY <1>0, <3>2, <3>3 DEF IInv, TypeOK
    <3>5. ASSUME NEW b \in Browsers, b = c.b PROVE BrowserSound(b)'
      <4>1. BrowserSound(b)  BY DEF IInv
      <4> QED  BY <1>0, <3>2, <3>4, <3>5, <4>1 DEF BrowserSound, IsSubjectsRow
    <3> QED  BY <1>0, <3>4, <3>5
  <2> QED  BY <2>1, <2>2 DEF SpendState
<1>2. /\ work' \in [Workers -> WorkItems]
      /\ \A v \in Workers : work'[v] = work[v] \/ CallbackSound(v)'
  <2>1. CASE Done(w)  BY <2>1, OneDone DEF IInv
  <2>2. CASE VerifyTicket(ticket[c.t], c.state) /\ Goto(w, [op |-> "checked", c |-> c])
    BY <2>2, <1>0, MovedOn DEF IInv, VerifyTicket, CallbackOps
  <2> QED  BY <2>1, <2>2 DEF SpendState
<1>3. TypeOK'  BY <1>0, <1>1, <1>2 DEF IInv, TypeOK
<1>4. Stand  BY <1>0 DEF Stand, RowsStand, TicketsStand, StatesStand
<1>5. now' >= now  BY <1>0, ConstantsAssumption DEF IInv, TypeOK
<1> QED  BY <1>0, <1>1, <1>2, <1>3, <1>4, <1>5, StepSound

\* A ticket is consumed when it is not on record: if it has not expired, it was
\* never spent.
LEMMA ConsumeTicketKeeps ==
    ASSUME IInv, NEW w \in Workers, ConsumeTicket(w)
    PROVE  IInv'
<1> SUFFICES ASSUME NEW t \in Tickets, t = work[w].c.t
             PROVE  IInv'
  BY Items DEF IInv, ConsumeTicket, CallbackOps
<1>0. /\ UNCHANGED <<account, identity, browser, startedBy, ticket, now>>
      /\ work[w].op = "checked" /\ CallbackSound(w)
  BY DEF ConsumeTicket, IInv
<1>1. CASE Replayed(t)
  <2>1. Done(w) /\ UNCHANGED <<consumed, spent>>  BY <1>1 DEF ConsumeTicket
  <2> QED  BY <1>0, <2>1, DoneStep
<1>2. CASE ~Replayed(t)
  <2>1. /\ consumed' = consumed \cup {t}
        /\ spent' = IF now < ticket[t].exp THEN [spent EXCEPT ![t] = @ + 1] ELSE spent
        /\ Goto(w, [op |-> "taken", c |-> work[w].c])
    BY <1>2 DEF ConsumeTicket
  <2>2. /\ work' \in [Workers -> WorkItems]
        /\ \A v \in Workers : work'[v] = work[v] \/ CallbackSound(v)'
    BY <1>0, <2>1, MovedOn DEF IInv, CallbackSound, CallbackOps
  <2>3. ticket[t] # Nil  BY <1>0 DEF CallbackSound, CallbackOps
  <2>4. TicketSound(t) /\ t \notin consumed  BY <1>2 DEF IInv, Replayed
  <2>5. ticket[t].exp \in Nat /\ now \in Nat
    BY <2>3, Issued, ConstantsAssumption DEF IInv, TypeOK
  <2>6. now < ticket[t].exp => spent[t] = 0
    BY <2>4, <2>5 DEF TicketSound
  <2>7. /\ spent' \in [Tickets -> Nat]
        /\ spent'[t] \in {0, 1}
        /\ \A q \in Tickets \ {t} : spent'[q] = spent[q]
    <3>1. CASE now < ticket[t].exp
      BY <2>1, <2>6, <3>1 DEF IInv, TypeOK
    <3>2. CASE ~(now < ticket[t].exp)
      BY <2>1, <2>4, <3>2 DEF IInv, TypeOK, TicketSound
    <3> QED  BY <3>1, <3>2
  <2>8. TicketSound(t)'  BY <1>0, <2>1, <2>3, <2>7 DEF TicketSound
  <2>9. TypeOK'  BY <1>0, <2>1, <2>2, <2>7 DEF IInv, TypeOK
  <2>10. Stand  BY <1>0 DEF Stand, RowsStand, TicketsStand, StatesStand
  <2>11. now' >= now  BY <1>0, <2>5
  <2> QED  BY <1>0, <2>1, <2>2, <2>7, <2>8, <2>9, <2>10, <2>11, StepSound
<1> QED  BY <1>1, <1>2

\* A record that is pruned has expired.
LEMMA PruneKeeps ==
    ASSUME IInv, Prune
    PROVE  IInv'
<1>0. /\ UNCHANGED <<account, identity, browser, startedBy, ticket, spent, work, now>>
      /\ consumed' = {t \in consumed : ticket[t].exp >= now}
  BY DEF Prune, PruneExpired
<1>1. TypeOK'  BY <1>0 DEF IInv, TypeOK
<1>2. Stand  BY <1>0 DEF Stand, RowsStand, TicketsStand, StatesStand
<1>3. ASSUME NEW t \in Tickets PROVE TicketSound(t)'
  <2>1. TicketSound(t)  BY DEF IInv
  <2>2. ticket[t] # Nil => ticket[t].exp \in Nat  BY Issued DEF IInv
  <2>3. now \in Nat  BY ConstantsAssumption DEF IInv, TypeOK
  <2>4. t \in consumed /\ t \notin consumed' => now > ticket[t].exp
    BY <1>0, <2>1, <2>2, <2>3 DEF TicketSound
  <2> QED  BY <1>0, <2>1, <2>4 DEF TicketSound
<1>4. now' >= now  BY <1>0, ConstantsAssumption DEF IInv, TypeOK
<1> QED  BY <1>0, <1>1, <1>2, <1>3, <1>4, StepSound

-----------------------------------------------------------------------------
(* The account *)

\* A callback that has the subject's account goes on with it.
LEMMA WithAccount ==
    ASSUME TypeOK, NEW w \in Workers, CallbackSound(w), work[w].op \in CallbackOps \ {"came"},
           NEW u \in Users, NEW op \in {"found", "enter"},
           Goto(w, [op |-> op, c |-> work[w].c, u |-> u]),
           account'[u] # Nil, account'[u].born = ticket[work[w].c.t].claims.subject,
           UNCHANGED <<ticket, startedBy>>
    PROVE  /\ work' \in [Workers -> WorkItems]
           /\ \A v \in Workers : work'[v] = work[v] \/ CallbackSound(v)'
<1> DEFINE item == [op |-> op, c |-> work[w].c, u |-> u]
<1>1. item \in WorkItems  BY Items DEF WorkItems
<1>2. /\ work' \in [Workers -> WorkItems] /\ work'[w] = item
      /\ \A v \in Workers \ {w} : work'[v] = work[v]
  BY <1>1, OneWorker
<1>3. CallbackSound(w)'  BY <1>2 DEF CallbackSound, IsSubjectsRow
<1> QED  BY <1>2, <1>3

\* A step that moves requests and writes nothing else.
LEMMA WorkMoves ==
    ASSUME IInv, work' \in [Workers -> WorkItems],
           \A v \in Workers : work'[v] = work[v] \/ CallbackSound(v)',
           UNCHANGED <<account, identity, browser, startedBy, ticket, consumed, spent, now>>
    PROVE  IInv'
<1>1. TypeOK'  BY DEF IInv, TypeOK
<1>2. Stand  BY DEF Stand, RowsStand, TicketsStand, StatesStand
<1>3. now' >= now  BY ConstantsAssumption DEF IInv, TypeOK
<1> QED  BY <1>1, <1>2, <1>3, StepSound

LEMMA ResolveKeeps ==
    ASSUME IInv, NEW w \in Workers, Resolve(w)
    PROVE  IInv'
<1> DEFINE c == work[w].c
           a == ticket[c.t].claims
<1>0. /\ UNCHANGED <<account, identity, browser, startedBy, ticket, consumed, spent, now>>
      /\ work[w].op = "taken" /\ CallbackSound(w)
  BY DEF Resolve, IInv
<1>1. c.t \in Tickets /\ ticket[c.t] # Nil /\ ticket[c.t].state = c.state
  BY <1>0, Items DEF IInv, CallbackSound, CallbackOps
<1>2. a.subject \in Subjects  BY <1>1, Issued DEF IInv
<1>3. CASE Done(w)  BY <1>0, <1>3, DoneStep
<1>4. CASE Goto(w, [op |-> "new", c |-> c])
  BY <1>0, <1>1, <1>4, MovedOn, WorkMoves DEF IInv, CallbackOps
<1>5. ASSUME NEW u \in Linked(a), Goto(w, [op |-> "found", c |-> c, u |-> u])
      PROVE  IInv'
  <2>1. u \in Users /\ account[u] # Nil /\ identity[a.subject] = u
    BY <1>5 DEF Linked, Existing
  <2>2. account[u].born = a.subject
    <3>1. LinkSound(a.subject)  BY <1>2 DEF IInv
    <3>2. identity[a.subject] # Nil  BY <2>1, ConstantsAssumption
    <3> QED  BY <2>1, <3>1, <3>2 DEF LinkSound
  <2> QED  BY <1>0, <1>5, <2>1, <2>2, WithAccount, WorkMoves DEF IInv, CallbackOps
<1> QED  BY <1>3, <1>4, <1>5 DEF Resolve

LEMMA MergeReadsKeeps ==
    ASSUME IInv, NEW w \in Workers, MergeReads(w)
    PROVE  IInv'
<1> DEFINE c == work[w].c
           u == work[w].u
           item == [op |-> "merge", c |-> c, u |-> u, attrs |-> account[u].attrs]
<1>0. /\ UNCHANGED <<account, identity, browser, startedBy, ticket, consumed, spent, now>>
      /\ work[w].op = "found" /\ CallbackSound(w)
  BY DEF MergeReads, IInv
<1>1. /\ c \in Callback /\ u \in Users
      /\ account[u] # Nil /\ account[u].born = ticket[c.t].claims.subject
  BY <1>0, Items DEF IInv, CallbackSound, CallbackOps, IsSubjectsRow
<1>2. CASE Goto(w, [op |-> "enter", c |-> c, u |-> u])
  BY <1>0, <1>1, <1>2, WithAccount, WorkMoves DEF IInv, CallbackOps
<1>3. CASE Goto(w, item)
  <2>1. account[u] \in Account  BY <1>1, RowOf DEF IInv
  <2>2. account[u].attrs \in SUBSET (AttrNames \cup {ExternalUsername})  BY <2>1 DEF Account
  <2>3. item \in WorkItems  BY <1>1, <2>2 DEF WorkItems
  <2>4. work'[w] = item  BY <1>3, <2>3, OneWorker DEF IInv
  <2>5. CallbackSound(w)'
    BY <1>0, <2>4 DEF CallbackSound, CallbackOps, IsSubjectsRow
  <2> QED  BY <1>0, <1>3, <2>3, <2>5, WorkStep
<1> QED  BY <1>2, <1>3 DEF MergeReads

\* Attributes are written into the row that was found; whose it is stays.
LEMMA MergeWritesKeeps ==
    ASSUME IInv, NEW w \in Workers, MergeWrites(w)
    PROVE  IInv'
<1> SUFFICES ASSUME NEW u \in Users, u = work[w].u
             PROVE  IInv'
  BY Items DEF IInv, MergeWrites
<1> DEFINE c == work[w].c
           a == ticket[c.t].claims
           attrs == (work[w].attrs \ {ExternalUsername}) \cup a.attrs \cup NameAttr(a)
           r == [account[u] EXCEPT !.attrs = attrs]
<1>0. /\ UNCHANGED <<identity, browser, startedBy, ticket, consumed, spent, now>>
      /\ work[w].op = "merge" /\ CallbackSound(w)
      /\ account' = [account EXCEPT ![u] = r]
  BY DEF MergeWrites, IInv
<1>1. /\ c.t \in Tickets /\ ticket[c.t] # Nil
      /\ account[u] # Nil /\ account[u].born = a.subject
      /\ work[w].attrs \in SUBSET (AttrNames \cup {ExternalUsername})
  BY <1>0, Items DEF IInv, CallbackSound, CallbackOps, IsSubjectsRow
<1>2. attrs \in SUBSET (AttrNames \cup {ExternalUsername})
  <2>1. a \in Assertions  BY <1>1, Issued DEF IInv
  <2>2. a.attrs \subseteq AttrNames  BY <2>1, ConstantsAssumption
  <2> QED  BY <1>1, <2>2 DEF NameAttr
<1> HIDE DEF attrs
<1>3. r \in Account /\ r.born = account[u].born
  <2>1. account[u] \in Account  BY <1>1, RowOf DEF IInv
  <2> QED  BY <1>2, <2>1 DEF Account
<1> HIDE DEF r
<1>4. /\ account' \in [Users -> Account \cup {Nil}] /\ account'[u] = r /\ r # Nil
      /\ RowsStand
  BY <1>0, <1>3, RowWritten DEF IInv
<1>5. /\ work' \in [Workers -> WorkItems]
      /\ \A v \in Workers : work'[v] = work[v] \/ CallbackSound(v)'
  <2>1. CASE Done(w)  BY <2>1, OneDone DEF IInv
  <2>2. CASE Goto(w, [op |-> "enter", c |-> c, u |-> u])
    BY <1>0, <1>1, <1>3, <1>4, <2>2, WithAccount DEF IInv, CallbackOps
  <2> QED  BY <2>1, <2>2 DEF MergeWrites
<1>6. TypeOK'  BY <1>0, <1>4, <1>5, LinksStand DEF IInv, TypeOK
<1>7. Stand  BY <1>0, <1>4 DEF Stand, TicketsStand, StatesStand
<1>8. now' >= now  BY <1>0, ConstantsAssumption DEF IInv, TypeOK
<1> QED  BY <1>0, <1>5, <1>6, <1>7, <1>8, StepSound

\* The account that is created is the subject's, and so is the link.
LEMMA CreateLinkedAccountKeeps ==
    ASSUME IInv, NEW w \in Workers, CreateLinkedAccount(w)
    PROVE  IInv'
<1> DEFINE c == work[w].c
           a == ticket[c.t].claims
<1>0. /\ UNCHANGED <<browser, startedBy, ticket, consumed, spent, now>>
      /\ work[w].op = "new" /\ CallbackSound(w)
  BY DEF CreateLinkedAccount, IInv
<1>1. /\ c.t \in Tickets /\ ticket[c.t] # Nil
  BY <1>0, Items DEF IInv, CallbackSound, CallbackOps
<1>2. a \in Assertions /\ a.subject \in Subjects  BY <1>1, Issued DEF IInv
<1>3. CASE Done(w) /\ UNCHANGED <<account, identity>>  BY <1>0, <1>3, DoneStep
<1>4. ASSUME NEW s \in Subjects, s = a.subject, identity[s] = Nil, NEW u \in Users \ Existing,
             account' = [account EXCEPT ![u] =
                [email |-> AddressFor(a), verified |-> a.email # Nil /\ a.verified,
                 password |-> FALSE, role |-> "USER", disabled |-> FALSE,
                 attrs |-> a.attrs \cup NameAttr(a), born |-> s]],
             identity' = [identity EXCEPT ![s] = u],
             Goto(w, [op |-> "enter", c |-> c, u |-> u])
      PROVE  IInv'
  <2> DEFINE r == [email |-> AddressFor(a), verified |-> a.email # Nil /\ a.verified,
                   password |-> FALSE, role |-> "USER", disabled |-> FALSE,
                   attrs |-> a.attrs \cup NameAttr(a), born |-> s]
  <2>1. r \in Account /\ r.born = s
    <3>1. AddressFor(a) \in Emails \cup Subjects
      BY <1>2, ConstantsAssumption DEF AddressFor
    <3>2. a.attrs \cup NameAttr(a) \in SUBSET (AttrNames \cup {ExternalUsername})
      BY <1>2, ConstantsAssumption DEF NameAttr
    <3>3. (a.email # Nil /\ a.verified) \in BOOLEAN  OBVIOUS
    <3> QED  BY <3>1, <3>2, <3>3 DEF Account, Roles
  <2>2. account' = [account EXCEPT ![u] = r] /\ account[u] = Nil /\ u \in Users
    BY <1>4 DEF Existing
  <2> HIDE DEF r
  <2>3. /\ account' \in [Users -> Account \cup {Nil}] /\ account'[u] = r /\ r # Nil
        /\ RowsStand
    BY <2>1, <2>2, RowWritten DEF IInv
  <2>4. /\ identity' \in [Subjects -> Users \cup {Nil}] /\ identity'[s] = u
        /\ \A q \in Subjects \ {s} : identity'[q] = identity[q]
    BY <1>4 DEF IInv, TypeOK
  <2>5. LinkSound(s)'  BY <2>1, <2>3, <2>4 DEF LinkSound
  <2>6. /\ work' \in [Workers -> WorkItems]
        /\ \A v \in Workers : work'[v] = work[v] \/ CallbackSound(v)'
    BY <1>0, <1>4, <2>1, <2>3, WithAccount DEF IInv, CallbackOps
  <2>7. \A q \in Subjects : identity'[q] # Nil => account'[identity'[q]] # Nil
    BY <2>3, <2>4, LinksStand DEF IInv
  <2>8. TypeOK'  BY <1>0, <2>3, <2>4, <2>6, <2>7 DEF IInv, TypeOK
  <2>9. Stand  BY <1>0, <2>3 DEF Stand, TicketsStand, StatesStand
  <2>10. now' >= now  BY <1>0, ConstantsAssumption DEF IInv, TypeOK
  <2> QED  BY <1>0, <2>4, <2>5, <2>6, <2>8, <2>9, <2>10, StepSound
<1> QED  BY <1>2, <1>3, <1>4 DEF CreateLinkedAccount

-----------------------------------------------------------------------------
(* Sessions, the account's owner and the administrators *)

\* The session a sign-in opens.
LEMMA SessionOpened ==
    ASSUME TypeOK, NEW b \in Browsers, NEW u \in Users, NEW t \in Tickets \cup {Nil},
           browser[b].sid < MaxSessions, browser' = [browser EXCEPT ![b] = Opened(b, u, t)],
           account'[u] # Nil,
           t # Nil => /\ ticket'[t] # Nil /\ startedBy'[ticket'[t].state] = b
                      /\ account'[u].born = ticket'[t].claims.subject
    PROVE  /\ browser' \in [Browsers -> Session]
           /\ \A x \in Browsers : browser'[x] = browser[x] \/ BrowserSound(x)'
<1>1. browser[b].sid + 1 \in 0..MaxSessions
  <2>1. browser[b].sid \in 0..MaxSessions  BY Sessions
  <2> QED  BY <2>1, ConstantsAssumption
<1>2. Opened(b, u, t) \in Session  BY <1>1 DEF Opened, Session
<1>3. /\ browser' \in [Browsers -> Session] /\ browser'[b] = Opened(b, u, t)
      /\ \A x \in Browsers \ {b} : browser'[x] = browser[x]
  BY <1>2 DEF TypeOK
<1>4. u # Nil  BY ConstantsAssumption
<1>5. BrowserSound(b)'  BY <1>3, <1>4 DEF BrowserSound, Opened, IsSubjectsRow
<1> QED  BY <1>3, <1>5

LEMMA EnterKeeps ==
    ASSUME IInv, NEW w \in Workers, Enter(w)
    PROVE  IInv'
<1> SUFFICES ASSUME NEW b \in Browsers, NEW t \in Tickets, NEW u \in Users,
                    b = work[w].c.b, t = work[w].c.t, u = work[w].u
             PROVE  IInv'
  BY Items DEF IInv, Enter, CallbackOps
<1>0. /\ UNCHANGED <<account, identity, startedBy, ticket, consumed, spent, now>>
      /\ work[w].op = "enter" /\ CallbackSound(w) /\ Done(w)
      /\ browser[b].sid < MaxSessions
      /\ browser' = [browser EXCEPT ![b] = Opened(b, u, t)]
  BY DEF Enter, IInv
<1>1. /\ ticket[t] # Nil /\ startedBy[ticket[t].state] = b
      /\ account[u] # Nil /\ account[u].born = ticket[t].claims.subject
  BY <1>0 DEF CallbackSound, CallbackOps, IsSubjectsRow
<1>2. /\ browser' \in [Browsers -> Session]
      /\ \A x \in Browsers : browser'[x] = browser[x] \/ BrowserSound(x)'
  BY <1>0, <1>1, SessionOpened DEF IInv
<1>3. /\ work' \in [Workers -> WorkItems]
      /\ \A v \in Workers : work'[v] = work[v] \/ CallbackSound(v)'
  BY <1>0, OneDone DEF IInv
<1>4. TypeOK'  BY <1>0, <1>2, <1>3 DEF IInv, TypeOK
<1>5. Stand  BY <1>0 DEF Stand, RowsStand, TicketsStand, StatesStand
<1>6. now' >= now  BY <1>0, ConstantsAssumption DEF IInv, TypeOK
<1> QED  BY <1>0, <1>2, <1>3, <1>4, <1>5, <1>6, StepSound

LEMMA PasswordSignInKeeps ==
    ASSUME IInv, NEW b \in Browsers, NEW u \in Users, PasswordSignIn(b, u)
    PROVE  IInv'
<1>0. /\ UNCHANGED <<account, identity, startedBy, ticket, consumed, spent, work, now>>
      /\ browser[b].sid < MaxSessions /\ account[u] # Nil
      /\ browser' = [browser EXCEPT ![b] = Opened(b, u, Nil)]
  BY DEF PasswordSignIn, Existing
<1>1. /\ browser' \in [Browsers -> Session]
      /\ \A x \in Browsers : browser'[x] = browser[x] \/ BrowserSound(x)'
  BY <1>0, SessionOpened DEF IInv
<1>2. TypeOK'  BY <1>0, <1>1 DEF IInv, TypeOK
<1>3. Stand  BY <1>0 DEF Stand, RowsStand, TicketsStand, StatesStand
<1>4. now' >= now  BY <1>0, ConstantsAssumption DEF IInv, TypeOK
<1> QED  BY <1>0, <1>1, <1>2, <1>3, <1>4, StepSound

\* A subject that is unlinked leaves its account as it is.
LEMMA UnlinkKeeps ==
    ASSUME IInv, NEW b \in Browsers, NEW s \in Subjects, Unlink(b, s)
    PROVE  IInv'
<1>0. /\ UNCHANGED <<account, browser, startedBy, ticket, consumed, spent, work, now>>
      /\ identity' = [identity EXCEPT ![s] = Nil]
  BY DEF Unlink
<1>1. /\ identity' \in [Subjects -> Users \cup {Nil}] /\ identity'[s] = Nil
      /\ \A q \in Subjects \ {s} : identity'[q] = identity[q]
  BY <1>0 DEF IInv, TypeOK
<1>2. LinkSound(s)'  BY <1>1 DEF LinkSound
<1>3. TypeOK'  BY <1>0, <1>1 DEF IInv, TypeOK
<1>4. Stand  BY <1>0 DEF Stand, RowsStand, TicketsStand, StatesStand
<1>5. now' >= now  BY <1>0, ConstantsAssumption DEF IInv, TypeOK
<1> QED  BY <1>0, <1>1, <1>2, <1>3, <1>4, <1>5, StepSound

LEMMA EndedSessions ==
    ASSUME TypeOK, NEW u, SessionsEnd(u)
    PROVE  /\ browser' \in [Browsers -> Session]
           /\ \A x \in Browsers : browser'[x] = browser[x] \/ BrowserSound(x)'
<1>1. ASSUME NEW x \in Browsers
      PROVE  browser'[x] \in Session /\ (browser'[x] = browser[x] \/ BrowserSound(x)')
  <2>1. browser[x] \in Session  BY DEF TypeOK
  <2>2. CASE browser[x].user = u
    <3>1. browser'[x] = [browser[x] EXCEPT !.user = Nil, !.state = Nil, !.via = Nil]
      BY <2>2 DEF SessionsEnd
    <3>2. /\ browser'[x] \in Session
          /\ browser'[x].user = Nil /\ browser'[x].state = Nil /\ browser'[x].via = Nil
      BY <2>1, <3>1 DEF Session
    <3> QED  BY <3>2 DEF BrowserSound
  <2>3. CASE browser[x].user # u
    <3>1. browser'[x] = browser[x]  BY <2>3 DEF SessionsEnd
    <3> QED  BY <2>1, <3>1
  <2> QED  BY <2>2, <2>3
<1>2. browser' = [x \in Browsers |-> browser'[x]]  BY DEF SessionsEnd
<1> QED  BY <1>1, <1>2

\* A row that exists is changed, and sessions may end with it.
LEMMA RowChanged ==
    ASSUME IInv, NEW u \in Users, account[u] # Nil, NEW r \in Account,
           account' = [account EXCEPT ![u] = r], r.born = account[u].born,
           browser' = browser \/ SessionsEnd(u),
           UNCHANGED <<identity, startedBy, ticket, consumed, spent, work, now>>
    PROVE  IInv'
<1>1. account' \in [Users -> Account \cup {Nil}] /\ RowsStand
  BY RowWritten DEF IInv
<1>2. /\ browser' \in [Browsers -> Session]
      /\ \A x \in Browsers : browser'[x] = browser[x] \/ BrowserSound(x)'
  <2>1. CASE browser' = browser  BY <2>1 DEF IInv, TypeOK
  <2>2. CASE SessionsEnd(u)  BY <2>2, EndedSessions DEF IInv
  <2> QED  BY <2>1, <2>2
<1>3. TypeOK'  BY <1>1, <1>2, LinksStand DEF IInv, TypeOK
<1>4. Stand  BY <1>1 DEF Stand, TicketsStand, StatesStand
<1>5. now' >= now  BY ConstantsAssumption DEF IInv, TypeOK
<1> QED  BY <1>2, <1>3, <1>4, <1>5, StepSound

LEMMA SetFirstPasswordKeeps ==
    ASSUME IInv, NEW b \in Browsers, SetFirstPassword(b)
    PROVE  IInv'
<1>1. browser[b].user # Nil  BY DEF SetFirstPassword, SignedIn
<1>2. browser[b].user \in Users /\ account[browser[b].user] # Nil
  BY <1>1, Sessions DEF IInv, BrowserSound
<1> SUFFICES ASSUME NEW u \in Users, u = browser[b].user
             PROVE  IInv'
  BY <1>2
<1> DEFINE r == [account[u] EXCEPT !.password = TRUE]
<1>3. account[u] \in Account  BY <1>2, RowOf DEF IInv
<1>4. r \in Account /\ r.born = account[u].born  BY <1>3 DEF Account
<1>5. /\ account' = [account EXCEPT ![u] = r] /\ SessionsEnd(u)
      /\ UNCHANGED <<identity, startedBy, ticket, consumed, spent, work, now>>
  BY DEF SetFirstPassword, SessionsEnd
<1> HIDE DEF r
<1> QED  BY <1>2, <1>4, <1>5, RowChanged

LEMMA SetRoleKeeps ==
    ASSUME IInv, NEW b \in Browsers, NEW u \in Users, SetRole(b, u)
    PROVE  IInv'
<1> PICK role \in Roles : account' = [account EXCEPT ![u].role = role]
  BY DEF SetRole
<1> DEFINE r == [account[u] EXCEPT !.role = role]
<1>1. account[u] # Nil  BY DEF SetRole, Administers, Existing
<1>2. account[u] \in Account  BY <1>1, RowOf DEF IInv
<1>3. r \in Account /\ r.born = account[u].born  BY <1>2 DEF Account
<1>4. /\ account' = [account EXCEPT ![u] = r] /\ browser' = browser
      /\ UNCHANGED <<identity, startedBy, ticket, consumed, spent, work, now>>
  BY DEF SetRole
<1> HIDE DEF r
<1> QED  BY <1>1, <1>3, <1>4, RowChanged

LEMMA SetStatusKeeps ==
    ASSUME IInv, NEW b \in Browsers, NEW u \in Users, SetStatus(b, u)
    PROVE  IInv'
<1> DEFINE r == [account[u] EXCEPT !.disabled = ~account[u].disabled]
<1>1. account[u] # Nil  BY DEF SetStatus, Administers, Existing
<1>2. account[u] \in Account  BY <1>1, RowOf DEF IInv
<1>3. r \in Account /\ r.born = account[u].born
  <2>1. (~account[u].disabled) \in BOOLEAN  OBVIOUS
  <2> QED  BY <1>2, <2>1 DEF Account
<1>4. /\ account' = [account EXCEPT ![u] = r] /\ (browser' = browser \/ SessionsEnd(u))
      /\ UNCHANGED <<identity, startedBy, ticket, consumed, spent, work, now>>
  BY DEF SetStatus
<1> HIDE DEF r
<1> QED  BY <1>1, <1>3, <1>4, RowChanged

LEMMA RegisterReadsKeeps ==
    ASSUME IInv, NEW w \in Workers, NEW e \in Emails, RegisterReads(w, e)
    PROVE  IInv'
<1> DEFINE item == [op |-> "register", email |-> e, first |-> Existing = {}]
<1>1. item \in WorkItems
  <2>1. (Existing = {}) \in BOOLEAN  OBVIOUS
  <2> QED  BY <2>1 DEF WorkItems
<1>2. Goto(w, item)  BY DEF RegisterReads
<1>3. work'[w].op = "register"  BY <1>1, <1>2, OneWorker DEF IInv
<1>4. CallbackSound(w)'  BY <1>3 DEF CallbackSound, CallbackOps
<1> QED  BY <1>1, <1>2, <1>4, WorkStep DEF RegisterReads

LEMMA RegisterWritesKeeps ==
    ASSUME IInv, NEW w \in Workers, RegisterWrites(w)
    PROVE  IInv'
<1>0. /\ UNCHANGED <<identity, browser, startedBy, ticket, consumed, spent, now>>
      /\ work[w].op = "register" /\ Done(w)
  BY DEF RegisterWrites
<1>1. CASE UNCHANGED account  BY <1>0, <1>1, DoneStep
<1>2. ASSUME NEW u \in Users \ Existing,
             account' = [account EXCEPT ![u] =
                [email |-> work[w].email, verified |-> FALSE, password |-> TRUE,
                 role |-> IF work[w].first THEN "ADMIN" ELSE "USER", disabled |-> FALSE,
                 attrs |-> {}, born |-> Nil]]
      PROVE  IInv'
  <2> DEFINE r == [email |-> work[w].email, verified |-> FALSE, password |-> TRUE,
                   role |-> IF work[w].first THEN "ADMIN" ELSE "USER", disabled |-> FALSE,
                   attrs |-> {}, born |-> Nil]
  <2>1. r \in Account
    <3>1. work[w].email \in Emails  BY <1>0, Items DEF IInv
    <3>2. (IF work[w].first THEN "ADMIN" ELSE "USER") \in Roles  BY DEF Roles
    <3> QED  BY <3>1, <3>2 DEF Account
  <2>2. account' = [account EXCEPT ![u] = r] /\ account[u] = Nil /\ u \in Users
    BY <1>2 DEF Existing
  <2> HIDE DEF r
  <2>3. account' \in [Users -> Account \cup {Nil}] /\ RowsStand
    BY <2>1, <2>2, RowWritten DEF IInv
  <2>4. /\ work' \in [Workers -> WorkItems]
        /\ \A v \in Workers : work'[v] = work[v] \/ CallbackSound(v)'
    BY <1>0, OneDone DEF IInv
  <2>5. TypeOK'  BY <1>0, <2>3, <2>4, LinksStand DEF IInv, TypeOK
  <2>6. Stand  BY <1>0, <2>3 DEF Stand, TicketsStand, StatesStand
  <2>7. now' >= now  BY <1>0, ConstantsAssumption DEF IInv, TypeOK
  <2> QED  BY <1>0, <2>4, <2>5, <2>6, <2>7, StepSound
<1> QED  BY <1>1, <1>2 DEF RegisterWrites

LEMMA TickKeeps ==
    ASSUME IInv, Tick
    PROVE  IInv'
<1>0. /\ UNCHANGED <<account, identity, browser, startedBy, ticket, consumed, spent, work>>
      /\ now < MaxTime /\ now' = now + 1
  BY DEF Tick
<1>1. now' \in 0..MaxTime /\ now' >= now
  BY <1>0, ConstantsAssumption DEF IInv, TypeOK
<1>2. TypeOK'  BY <1>0, <1>1 DEF IInv, TypeOK
<1>3. Stand  BY <1>0 DEF Stand, RowsStand, TicketsStand, StatesStand
<1> QED  BY <1>0, <1>1, <1>2, <1>3, StepSound

-----------------------------------------------------------------------------
LEMMA StepKeeps == IInv /\ [Next]_vars => IInv'
<1> SUFFICES ASSUME IInv, [Next]_vars PROVE IInv'
  OBVIOUS
<1>1. CASE UNCHANGED vars
  <2>1. /\ UNCHANGED <<account, identity, browser, startedBy, ticket, consumed, spent, now>>
        /\ work' = work
    BY <1>1 DEF vars
  <2>2. work' \in [Workers -> WorkItems]  BY <2>1 DEF IInv, TypeOK
  <2> QED  BY <2>1, <2>2, WorkMoves
<1>2. ASSUME NEW w \in Workers, CallbackStep(w) PROVE IInv'
  BY <1>2, CallbackReadsKeeps, SpendStateKeeps, ConsumeTicketKeeps, ResolveKeeps,
     MergeReadsKeeps, MergeWritesKeeps, CreateLinkedAccountKeeps, EnterKeeps DEF CallbackStep
<1>3. ASSUME NEW w \in Workers, AccountStep(w) PROVE IInv'
  BY <1>3, RegisterReadsKeeps, RegisterWritesKeeps DEF AccountStep
<1>4. ASSUME NEW b \in Browsers,
             \/ Start(b) \/ SetFirstPassword(b)
             \/ \E s \in Subjects : Unlink(b, s)
             \/ \E u \in Users : PasswordSignIn(b, u) \/ SetRole(b, u) \/ SetStatus(b, u)
      PROVE  IInv'
  BY <1>4, StartKeeps, SetFirstPasswordKeeps, UnlinkKeeps, PasswordSignInKeeps,
     SetRoleKeeps, SetStatusKeeps
<1>5. ASSUME (\E t \in Tickets : Issue(t)) \/ Prune \/ Tick PROVE IInv'
  BY <1>5, IssueKeeps, PruneKeeps, TickKeeps
<1> QED  BY <1>1, <1>2, <1>3, <1>4, <1>5 DEF Next

LEMMA Invariance == Spec => []IInv
  BY InitEstablishes, StepKeeps, PTL DEF Spec

\* Every reachable state is well formed, and no link points to an account that
\* is not there, for any number of users, subjects, browsers and tickets.
THEOREM TypeCorrect == Spec => []TypeOK
<1>1. IInv => TypeOK  BY DEF IInv
<1> QED  BY <1>1, Invariance, PTL

\* While it lives a ticket is accepted once, however many callbacks present it
\* at the same time and whenever the records are pruned (consumeTicket).
THEOREM TicketsAreSpentOnce == Spec => []TicketIsSpentOnce
<1>1. IInv => TicketIsSpentOnce
  <2> SUFFICES ASSUME IInv, NEW t \in Tickets PROVE spent[t] <= 1
    BY DEF TicketIsSpentOnce
  <2>1. spent[t] \in {0, 1}  BY DEF IInv, TicketSound
  <2> QED  BY <2>1
<1> QED  BY <1>1, Invariance, PTL

\* Whoever is signed in through a ticket started that sign-in in this browser
\* (callback: the state "is what binds the ticket to the request that started it").
THEOREM SignInsStartHere == Spec => []SignInWasStartedHere
<1>1. IInv => SignInWasStartedHere
  BY DEF IInv, BrowserSound, SignInWasStartedHere
<1> QED  BY <1>1, Invariance, PTL

\* A subject only ever enters an account that was created for it, whatever
\* addresses its tickets assert ("the link is (provider, subject) and nothing
\* else").
THEOREM NobodyIsEverMerged == Spec => []NobodyIsMerged
<1>1. IInv => NobodyIsMerged
  BY DEF IInv, BrowserSound, LinkSound, IsSubjectsRow, NobodyIsMerged
<1> QED  BY <1>1, Invariance, PTL

-----------------------------------------------------------------------------
(* What accounts release *)

\* A custom scope is the one of its name.
LEMMA CustomIsUnique ==
    \A s \in CustomScopes : s.name \in CustomNames /\ Custom(s.name) = s
BY ConstantsAssumption DEF RegistryIsValid, Custom, CustomNames

\* What custom scopes read from the attributes never speaks of the address, so a
\* typed account's address is presented as it is, and a placeholder is not.
LEMMA AddressesAreReal ==
    ASSUME TypeOK, NEW u \in Existing PROVE AddressIsReal(u)
<1> DEFINE k == account[u]
           user == [attributes |-> [n \in account[u].attrs |-> "upstream"]]
           base == AddressClaims(k)
           claims == BuildUserClaims(u, Supported)
<1>1. k.email \in Emails \cup Subjects /\ k.verified \in BOOLEAN
  BY DEF TypeOK, Account, Existing
<1>2. claims = ClaimsFor(user, Supported, base)
  BY DEF BuildUserClaims
<1> HIDE DEF user
<1> DEFINE released == {c \in UNION {ClaimsOf(s) : s \in Supported \cap Supported} :
                           c \in DOMAIN base /\ c \notin ReservedClaims}
           produced == Produced(user, Supported) \ MayNotProduce
<1>3. claims = [c \in released \cup produced |->
                   IF c \in produced THEN user.attributes[c] ELSE base[c]]
  BY <1>2 DEF ClaimsFor
<1>4. "email" \notin produced /\ "email_verified" \notin produced
  BY DEF MayNotProduce, AccountClaims
<1>5. released \subseteq DOMAIN base
  OBVIOUS
<1> HIDE DEF released, produced, claims, k
<1>6. ASSUME "email" \in DOMAIN claims PROVE claims["email"] \in Emails
  <2>1. "email" \in DOMAIN base /\ claims["email"] = base["email"]
    BY <1>3, <1>4, <1>5, <1>6
  <2> QED  BY <2>1 DEF AddressClaims
<1>7. ASSUME "email_verified" \in DOMAIN claims
      PROVE  claims["email_verified"] = (k.verified /\ k.email \in Emails)
  <2>1. claims["email_verified"] = base["email_verified"]
    BY <1>3, <1>4, <1>5, <1>7
  <2> QED  BY <2>1, <1>1 DEF AddressClaims
<1> QED  BY <1>6, <1>7 DEF AddressIsReal, claims, k

\* A restricted scope the account may not use is answered FALSE or ends the token:
\* no other scope answers under the same name.
LEMMA AuthorityIsAlwaysHeld ==
    ASSUME NEW u PROVE AuthorityIsHeld(u)
<1> SUFFICES ASSUME NEW granted \in SUBSET CustomNames,
                    CanRemainActive(account[u], granted),
                    NEW s \in granted, ~AllowFor(s, account[u])
             PROVE  /\ Custom(s).boolean # NoClaim
                    /\ ~IntrospectionAuthority(account[u], granted)[Custom(s).boolean]
  BY DEF AuthorityIsHeld
<1>1. PICK c \in CustomScopes : c.name = s /\ Custom(s) = c
  BY CustomIsUnique DEF CustomNames
<1>2. c.boolean # NoClaim
  BY <1>1 DEF CanRemainActive
<1>3. c.boolean \in {r.boolean : r \in CustomScopes} \ {NoClaim}
  BY <1>1, <1>2
<1>4. IntrospectionAuthority(account[u], granted)[c.boolean]
        = \E r \in CustomScopes : /\ r.boolean = c.boolean /\ r.name \in granted
                                  /\ AllowFor(r.name, account[u])
  BY <1>3 DEF IntrospectionAuthority
<1>5. ASSUME NEW r \in CustomScopes, r.boolean = c.boolean PROVE r = c
  BY <1>1, <1>2, <1>5, ConstantsAssumption DEF RegistryIsValid
<1> QED  BY <1>1, <1>2, <1>4, <1>5

\* What clients are told of an account is what it is now.
THEOREM ClaimsAreAlwaysTheAccounts == Spec => []ClaimsAreTheAccounts
<1>1. TypeOK => ClaimsAreTheAccounts
  BY AddressesAreReal, AuthorityIsAlwaysHeld DEF ClaimsAreTheAccounts
<1> QED  BY <1>1, TypeCorrect, PTL
=============================================================================
