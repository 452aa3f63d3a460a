--------------------------- MODULE HashGateProofs ---------------------------
(***************************************************************************)
(* The gate counts its slots exactly, never lets a caller wait beside a    *)
(* free slot, and implements the bounded service, for any number of        *)
(* callers, slots and places in the queue; of the requests that have a     *)
(* rule, the limiter in front of it lets at most twice the limit of a key  *)
(* through in the span of one window.                                      *)
(***************************************************************************)
EXTENDS MeteredHashing, FiniteSetTheorems, SequenceTheorems, TLAPS

InQueue(q) == {q[i] : i \in 1..Len(q)}
OnceEach(q) == \A i, j \in 1..Len(q) : q[i] = q[j] => i = j

\* The inductive invariant: the four invariants of the run need one another
\* (the counter is exact because no waiter holds a slot, and a wake-up is not
\* lost because a slot handed over stays counted).
IInv ==
    /\ TypeOK
    /\ SlotsAccounted
    /\ NobodyWaitsForAFreeSlot
    /\ QueueHoldsWaiters

\* Appending puts one caller in the queue.
LEMMA JoinQueue ==
    ASSUME NEW q \in Seq(Requests), NEW r \in Requests, OnceEach(q), r \notin InQueue(q)
    PROVE  /\ Append(q, r) \in Seq(Requests)
           /\ Len(Append(q, r)) = Len(q) + 1
           /\ InQueue(Append(q, r)) = InQueue(q) \cup {r}
           /\ OnceEach(Append(q, r))
<1> DEFINE a == Append(q, r)
<1>1. /\ a \in Seq(Requests) /\ Len(a) = Len(q) + 1 /\ Len(q) \in Nat
      /\ \A i \in 1..Len(q) : a[i] = q[i]
      /\ a[Len(q) + 1] = r
  BY AppendProperties, LenProperties
<1>2. InQueue(a) = InQueue(q) \cup {r}
  <2>1. ASSUME NEW x \in InQueue(a) PROVE x \in InQueue(q) \cup {r}
    <3>1. PICK i \in 1..Len(a) : x = a[i]  BY <2>1 DEF InQueue
    <3>2. CASE i = Len(q) + 1  BY <3>1, <3>2, <1>1
    <3>3. CASE i # Len(q) + 1
      <4>1. i \in 1..Len(q)  BY <3>1, <3>3, <1>1
      <4> QED  BY <4>1, <3>1, <1>1 DEF InQueue
    <3> QED  BY <3>2, <3>3
  <2>2. ASSUME NEW x \in InQueue(q) PROVE x \in InQueue(a)
    <3>1. PICK i \in 1..Len(q) : x = q[i]  BY <2>2 DEF InQueue
    <3>2. i \in 1..Len(a) /\ x = a[i]  BY <3>1, <1>1
    <3> QED  BY <3>2 DEF InQueue
  <2>3. r \in InQueue(a)
    <3>1. Len(q) + 1 \in 1..Len(a)  BY <1>1
    <3> QED  BY <3>1, <1>1 DEF InQueue
  <2> QED  BY <2>1, <2>2, <2>3
<1>3. OnceEach(a)
  <2> SUFFICES ASSUME NEW i \in 1..Len(a), NEW j \in 1..Len(a), a[i] = a[j]
               PROVE  i = j
    BY DEF OnceEach
  <2>1. \A k \in 1..Len(q) : q[k] # r  BY DEF InQueue
  <2>2. CASE i \in 1..Len(q) /\ j \in 1..Len(q)  BY <2>2, <1>1 DEF OnceEach
  <2>3. CASE i \notin 1..Len(q)
    <3>1. i = Len(q) + 1  BY <2>3, <1>1
    <3> QED  BY <3>1, <2>1, <1>1
  <2>4. CASE j \notin 1..Len(q)
    <3>1. j = Len(q) + 1  BY <2>4, <1>1
    <3> QED  BY <3>1, <2>1, <1>1
  <2> QED  BY <2>2, <2>3, <2>4
<1> QED  BY <1>1, <1>2, <1>3

\* Taking the head removes exactly that caller.
LEMMA LeaveQueue ==
    ASSUME NEW q \in Seq(Requests), OnceEach(q), q # <<>>
    PROVE  /\ Head(q) \in InQueue(q) /\ Head(q) \in Requests
           /\ Tail(q) \in Seq(Requests)
           /\ Len(Tail(q)) = Len(q) - 1
           /\ InQueue(Tail(q)) = InQueue(q) \ {Head(q)}
           /\ OnceEach(Tail(q))
<1> DEFINE t == Tail(q)
<1>1. /\ t \in Seq(Requests) /\ Len(t) = Len(q) - 1
      /\ Len(q) \in Nat \ {0} /\ Len(t) \in Nat
      /\ Head(q) = q[1]
      /\ \A i \in 1..Len(t) : t[i] = q[i + 1]
  BY HeadTailProperties, EmptySeq, LenProperties
<1>2. 1 \in 1..Len(q) /\ q[1] \in Requests
  BY <1>1, ElementOfSeq
<1>3. \A i \in 1..Len(t) : i + 1 \in 1..Len(q) /\ i + 1 # 1
  BY <1>1
<1>4. \A i \in 1..Len(q) : i # 1 => i - 1 \in 1..Len(t) /\ (i - 1) + 1 = i
  BY <1>1
<1>5. InQueue(t) = InQueue(q) \ {Head(q)}
  <2>1. ASSUME NEW x \in InQueue(t) PROVE x \in InQueue(q) /\ x # Head(q)
    <3>1. PICK i \in 1..Len(t) : x = t[i]  BY <2>1 DEF InQueue
    <3>2. x = q[i + 1] /\ i + 1 \in 1..Len(q) /\ i + 1 # 1  BY <3>1, <1>1, <1>3
    <3> QED  BY <3>2, <1>1, <1>2 DEF InQueue, OnceEach
  <2>2. ASSUME NEW x \in InQueue(q), x # Head(q) PROVE x \in InQueue(t)
    <3>1. PICK i \in 1..Len(q) : x = q[i]  BY <2>2 DEF InQueue
    <3>2. i - 1 \in 1..Len(t) /\ (i - 1) + 1 = i  BY <3>1, <2>2, <1>1, <1>4
    <3>3. x = t[i - 1]  BY <3>1, <3>2, <1>1
    <3> QED  BY <3>2, <3>3 DEF InQueue
  <2> QED  BY <2>1, <2>2
<1>6. OnceEach(t)
  <2> SUFFICES ASSUME NEW i \in 1..Len(t), NEW j \in 1..Len(t), t[i] = t[j]
               PROVE  i = j
    BY DEF OnceEach
  <2>1. q[i + 1] = q[j + 1]  BY <1>1
  <2>2. i + 1 = j + 1  BY <2>1, <1>3 DEF OnceEach
  <2> QED  BY <2>2, <1>1
<1>7. Head(q) \in InQueue(q)  BY <1>1, <1>2 DEF InQueue
<1> QED  BY <1>1, <1>2, <1>5, <1>6, <1>7

\* In the initial state nobody holds a slot and nobody waits.
LEMMA InitIInv == Init => IInv
<1> SUFFICES ASSUME Init PROVE IInv
  OBVIOUS
<1>1. TypeOK
  <2>1. <<>> \in Seq(Requests) /\ Len(<<>>) = 0  BY EmptySeq
  <2> QED  BY <2>1, GateAssumption DEF Init, TypeOK
<1>2. Holders = {} /\ Waiting = {}  BY DEF Init, Holders, Waiting
<1>3. SlotsAccounted  BY <1>2, FS_EmptySet DEF Init, SlotsAccounted
<1>4. NobodyWaitsForAFreeSlot  BY DEF Init, NobodyWaitsForAFreeSlot
<1>5. QueueHoldsWaiters
  <2>1. 1..Len(<<>>) = {}  BY EmptySeq
  <2> QED  BY <2>1, <1>2 DEF Init, QueueHoldsWaiters
<1> QED  BY <1>1, <1>3, <1>4, <1>5 DEF IInv

\* The invariant in the words of the lemmas about the queue.
LEMMA Facts ==
    ASSUME IInv
    PROVE  /\ hashesWaiting \in Seq(Requests) /\ Len(hashesWaiting) \in Nat
           /\ OnceEach(hashesWaiting)
           /\ InQueue(hashesWaiting) = Waiting
           /\ IsFiniteSet(Holders) /\ Cardinality(Holders) \in Nat
           /\ hashesRunning = Cardinality(Holders)
           /\ hashesRunning \in Nat /\ hashesRunning <= HashConcurrency
           /\ HashConcurrency \in Nat \ {0} /\ HashQueueLimit \in Nat
           /\ (hashesWaiting # <<>> => hashesRunning = HashConcurrency)
<1>1. Holders \subseteq Requests  BY DEF Holders
<1>2. IsFiniteSet(Holders) /\ Cardinality(Holders) \in Nat
  BY <1>1, GateAssumption, FS_Subset, FS_CardinalityType
<1>3. hashesWaiting \in Seq(Requests) /\ Len(hashesWaiting) \in Nat
  BY LenProperties DEF IInv, TypeOK
<1>4. OnceEach(hashesWaiting) /\ InQueue(hashesWaiting) = Waiting
  BY DEF IInv, QueueHoldsWaiters, OnceEach, InQueue
<1> QED  BY <1>2, <1>3, <1>4, GateAssumption
         DEF IInv, TypeOK, SlotsAccounted, NobodyWaitsForAFreeSlot

\* A step that moves callers among the places that hold a slot, or among those
\* that neither hold nor wait, and leaves counter and queue alone.
LEMMA Elsewhere ==
    ASSUME IInv, UNCHANGED <<hashesRunning, hashesWaiting>>,
           Holders' = Holders, Waiting' = Waiting,
           pc' \in [Requests -> {"idle", "waiting", "granted", "hashing", "hashed",
                                 "answered", "refused"}]
    PROVE  IInv'
<1>1. TypeOK'  BY DEF IInv, TypeOK
<1>2. SlotsAccounted'  BY DEF IInv, SlotsAccounted
<1>3. NobodyWaitsForAFreeSlot'  BY DEF IInv, NobodyWaitsForAFreeSlot
<1>4. QueueHoldsWaiters'  BY DEF IInv, QueueHoldsWaiters
<1> QED  BY <1>1, <1>2, <1>3, <1>4 DEF IInv

\* acquireHashSlot: a slot is counted, a caller is refused, or joins the queue.
LEMMA AcquireIInv == ASSUME IInv, NEW r \in Requests, Acquire(r) PROVE IInv'
<1> USE Facts
<1>0. /\ pc \in [Requests -> {"idle", "waiting", "granted", "hashing", "hashed",
                              "answered", "refused"}]
      /\ Len(hashesWaiting) <= HashQueueLimit
      /\ pc[r] = "idle" /\ r \notin Holders /\ r \notin Waiting
  BY DEF IInv, TypeOK, Acquire, Holders, Waiting
<1>1. ASSUME hashesRunning < HashConcurrency, hashesRunning' = hashesRunning + 1,
             pc' = [pc EXCEPT ![r] = "granted"], UNCHANGED hashesWaiting
      PROVE  IInv'
  <2>1. Holders' = Holders \cup {r} /\ Waiting' = Waiting
    BY <1>0, <1>1 DEF Holders, Waiting
  <2>2. Cardinality(Holders') = Cardinality(Holders) + 1
    BY <2>1, <1>0, FS_AddElement
  <2>3. hashesRunning' = Cardinality(Holders') /\ hashesRunning' \in 0..HashConcurrency
    BY <2>2, <1>1
  <2>4. hashesWaiting = <<>>  BY <1>1
  <2>5. pc' \in [Requests -> {"idle", "waiting", "granted", "hashing", "hashed",
                              "answered", "refused"}]
    BY <1>0, <1>1
  <2>6. TypeOK'  BY <2>3, <2>5, <1>0, <1>1 DEF TypeOK
  <2>7. SlotsAccounted'  BY <2>3 DEF SlotsAccounted
  <2>8. NobodyWaitsForAFreeSlot'  BY <2>4, <1>1 DEF NobodyWaitsForAFreeSlot
  <2>9. QueueHoldsWaiters'  BY <2>1, <1>1 DEF IInv, QueueHoldsWaiters
  <2> QED  BY <2>6, <2>7, <2>8, <2>9 DEF IInv
<1>2. ASSUME pc' = [pc EXCEPT ![r] = "refused"],
             UNCHANGED <<hashesRunning, hashesWaiting>>
      PROVE  IInv'
  <2>1. Holders' = Holders /\ Waiting' = Waiting
    BY <1>0, <1>2 DEF Holders, Waiting
  <2> QED  BY <2>1, <1>0, <1>2, Elsewhere
<1>3. ASSUME hashesRunning >= HashConcurrency, ~Full,
             hashesWaiting' = Append(hashesWaiting, r),
             pc' = [pc EXCEPT ![r] = "waiting"], UNCHANGED hashesRunning
      PROVE  IInv'
  <2>1. Holders' = Holders /\ Waiting' = Waiting \cup {r}
    BY <1>0, <1>3 DEF Holders, Waiting
  <2>2. /\ hashesWaiting' \in Seq(Requests)
        /\ Len(hashesWaiting') = Len(hashesWaiting) + 1
        /\ InQueue(hashesWaiting') = InQueue(hashesWaiting) \cup {r}
        /\ OnceEach(hashesWaiting')
    BY <1>0, <1>3, JoinQueue
  <2>3. Len(hashesWaiting') <= HashQueueLimit
    BY <2>2, <1>3 DEF Full
  <2>4. pc' \in [Requests -> {"idle", "waiting", "granted", "hashing", "hashed",
                              "answered", "refused"}]
    BY <1>0, <1>3
  <2>5. TypeOK'  BY <2>2, <2>3, <2>4, <1>3 DEF TypeOK
  <2>6. SlotsAccounted'  BY <2>1, <1>3 DEF SlotsAccounted
  <2>7. NobodyWaitsForAFreeSlot'  BY <1>3 DEF NobodyWaitsForAFreeSlot
  <2>8. QueueHoldsWaiters'
    BY <2>1, <2>2 DEF QueueHoldsWaiters, OnceEach, InQueue
  <2> QED  BY <2>5, <2>6, <2>7, <2>8 DEF IInv
<1> QED  BY <1>1, <1>2, <1>3 DEF Acquire

\* releaseHashSlot: the slot is handed to the head of the queue, or freed.
LEMMA ReleaseIInv == ASSUME IInv, NEW r \in Requests, Release(r) PROVE IInv'
<1> USE Facts
<1> DEFINE h == Head(hashesWaiting)
<1>0. /\ pc \in [Requests -> {"idle", "waiting", "granted", "hashing", "hashed",
                              "answered", "refused"}]
      /\ Len(hashesWaiting) <= HashQueueLimit
      /\ pc[r] = "hashed" /\ r \in Holders /\ r \notin Waiting
  BY DEF IInv, TypeOK, Release, Holders, Waiting
<1>1. ASSUME hashesWaiting # <<>> PROVE IInv'
  <2>0. /\ pc' = [pc EXCEPT ![r] = "answered", ![h] = "granted"]
        /\ hashesWaiting' = Tail(hashesWaiting)
        /\ UNCHANGED hashesRunning
    BY <1>1 DEF Release
  <2>1. /\ h \in InQueue(hashesWaiting) /\ h \in Requests
        /\ hashesWaiting' \in Seq(Requests)
        /\ Len(hashesWaiting') = Len(hashesWaiting) - 1
        /\ InQueue(hashesWaiting') = InQueue(hashesWaiting) \ {h}
        /\ OnceEach(hashesWaiting')
    BY <1>1, <2>0, LeaveQueue
  <2>2. h # r /\ h \in Waiting /\ h \notin Holders /\ pc[h] = "waiting"
    BY <2>1, <1>0 DEF Waiting, Holders
  <2>3. pc' \in [Requests -> {"idle", "waiting", "granted", "hashing", "hashed",
                              "answered", "refused"}]
    BY <1>0, <2>0, <2>1
  <2>4. Holders' = (Holders \ {r}) \cup {h} /\ Waiting' = Waiting \ {h}
    BY <2>0, <2>1, <2>2, <1>0 DEF Holders, Waiting
  <2>5. Cardinality(Holders') = Cardinality(Holders)
    <3>1. /\ IsFiniteSet(Holders \ {r})
          /\ Cardinality(Holders \ {r}) = Cardinality(Holders) - 1
      BY <1>0, FS_RemoveElement
    <3>2. Cardinality((Holders \ {r}) \cup {h}) = Cardinality(Holders \ {r}) + 1
      BY <3>1, <2>2, FS_AddElement
    <3> QED  BY <3>1, <3>2, <2>4
  <2>6. TypeOK'  BY <2>0, <2>1, <2>3, <1>0 DEF IInv, TypeOK
  <2>7. SlotsAccounted'  BY <2>0, <2>5 DEF SlotsAccounted
  <2>8. NobodyWaitsForAFreeSlot'  BY <1>1, <2>0 DEF NobodyWaitsForAFreeSlot
  <2>9. QueueHoldsWaiters'
    BY <2>1, <2>4 DEF QueueHoldsWaiters, OnceEach, InQueue
  <2> QED  BY <2>6, <2>7, <2>8, <2>9 DEF IInv
<1>2. ASSUME hashesWaiting = <<>> PROVE IInv'
  <2>0. /\ pc' = [pc EXCEPT ![r] = "answered"]
        /\ hashesRunning' = hashesRunning - 1
        /\ UNCHANGED hashesWaiting
    BY <1>2 DEF Release
  <2>1. Holders' = Holders \ {r} /\ Waiting' = Waiting
    BY <2>0, <1>0 DEF Holders, Waiting
  <2>2. Cardinality(Holders') = Cardinality(Holders) - 1
    BY <2>1, <1>0, FS_RemoveElement
  <2>3. IsFiniteSet(Holders') /\ Cardinality(Holders') \in Nat
    BY <2>1, <1>0, FS_RemoveElement, FS_CardinalityType
  <2>4. hashesRunning' = Cardinality(Holders') /\ hashesRunning' \in 0..HashConcurrency
    BY <2>0, <2>2, <2>3
  <2>5. pc' \in [Requests -> {"idle", "waiting", "granted", "hashing", "hashed",
                              "answered", "refused"}]
    BY <1>0, <2>0
  <2>6. TypeOK'  BY <2>0, <2>4, <2>5, <1>0 DEF TypeOK
  <2>7. SlotsAccounted'  BY <2>4 DEF SlotsAccounted
  <2>8. NobodyWaitsForAFreeSlot'  BY <1>2, <2>0 DEF NobodyWaitsForAFreeSlot
  <2>9. QueueHoldsWaiters'  BY <2>0, <2>1 DEF IInv, QueueHoldsWaiters
  <2> QED  BY <2>6, <2>7, <2>8, <2>9 DEF IInv
<1> QED  BY <1>1, <1>2
\* The continuation, scrypt's answer and the caller's return move a caller
\* between places that count alike.
LEMMA MoveIInv ==
    ASSUME IInv, NEW r \in Requests, Start(r) \/ Finished(r) \/ Return(r)
    PROVE  IInv' /\ Holders' = Holders /\ UNCHANGED hashesWaiting
<1>1. pc \in [Requests -> {"idle", "waiting", "granted", "hashing", "hashed",
                           "answered", "refused"}]
  BY DEF IInv, TypeOK
<1>2. CASE Start(r)
  <2>1. Holders' = Holders /\ Waiting' = Waiting
    BY <1>1, <1>2 DEF Start, Holders, Waiting
  <2> QED  BY <1>1, <1>2, <2>1, Elsewhere DEF Start
<1>3. CASE Finished(r)
  <2>1. Holders' = Holders /\ Waiting' = Waiting
    BY <1>1, <1>3 DEF Finished, Holders, Waiting
  <2> QED  BY <1>1, <1>3, <2>1, Elsewhere DEF Finished
<1>4. CASE Return(r)
  <2>1. Holders' = Holders /\ Waiting' = Waiting
    BY <1>1, <1>4 DEF Return, Holders, Waiting
  <2> QED  BY <1>1, <1>4, <2>1, Elsewhere DEF Return
<1> QED  BY <1>2, <1>3, <1>4

\* Every step keeps the inductive invariant.
LEMMA NextIInv == IInv /\ [Next]_vars => IInv'
<1> SUFFICES ASSUME IInv, [Next]_vars PROVE IInv'
  OBVIOUS
<1>1. ASSUME NEW r \in Requests, Acquire(r) PROVE IInv'  BY <1>1, AcquireIInv
<1>2. ASSUME NEW r \in Requests, Start(r) \/ Finished(r) \/ Return(r) PROVE IInv'
  BY <1>2, MoveIInv
<1>3. ASSUME NEW r \in Requests, Release(r) PROVE IInv'  BY <1>3, ReleaseIInv
<1>4. CASE UNCHANGED vars
  <2>1. Holders' = Holders /\ Waiting' = Waiting  BY <1>4 DEF vars, Holders, Waiting
  <2>2. UNCHANGED <<hashesRunning, hashesWaiting>> /\ pc' = pc  BY <1>4 DEF vars
  <2> QED  BY <2>1, <2>2, Elsewhere DEF IInv, TypeOK
<1> QED  BY <1>1, <1>2, <1>3, <1>4 DEF Next

\* For any number of callers, slots and places, the inductive invariant holds.
THEOREM GateIsSound == Spec => []IInv
<1>1. Spec => []IInv  BY InitIInv, NextIInv, PTL DEF Spec
<1> QED  BY <1>1

\* The counter is the number of callers that hold a slot: nothing leaks one.
THEOREM NoSlotLeaks == Spec => []SlotsAccounted
<1>1. IInv => SlotsAccounted  BY DEF IInv
<1> QED  BY <1>1, GateIsSound, PTL

\* No caller is left in the queue beside a free slot: no wake-up is lost.
THEOREM NoWakeUpIsLost == Spec => []NobodyWaitsForAFreeSlot
<1>1. IInv => NobodyWaitsForAFreeSlot  BY DEF IInv
<1> QED  BY <1>1, GateIsSound, PTL

\* The queue holds exactly the callers that wait, each once.
THEOREM QueueIsExact == Spec => []QueueHoldsWaiters
<1>1. IInv => QueueHoldsWaiters  BY DEF IInv
<1> QED  BY <1>1, GateIsSound, PTL

serviceVars == <<Holders, hashesWaiting>>

\* The service counts what the gate counts.
LEMMA SameCount == Service!Cardinality(Holders) = Cardinality(Holders)
BY Zenon DEF Service!Cardinality, Cardinality

\* Every step of the gate is a step of the service or none at all.
LEMMA StepRefines == IInv /\ [Next]_vars => [Service!Next]_serviceVars
<1> SUFFICES ASSUME IInv, [Next]_vars PROVE [Service!Next]_serviceVars
  OBVIOUS
<1> USE Facts
<1>0. pc \in [Requests -> {"idle", "waiting", "granted", "hashing", "hashed",
                           "answered", "refused"}]
  BY DEF IInv, TypeOK
<1>1. ASSUME NEW r \in Requests, Acquire(r) PROVE [Service!Next]_serviceVars
  <2>1. r \notin Holders /\ r \notin Waiting  BY <1>1 DEF Acquire, Holders, Waiting
  <2>2. r \in Requests \ (Holders \cup Service!InLine)
    BY <2>1 DEF Service!InLine, InQueue
  <2>3. ASSUME hashesRunning < HashConcurrency, UNCHANGED hashesWaiting,
               pc' = [pc EXCEPT ![r] = "granted"]
        PROVE  Service!Enter(r)
    <3>1. Holders' = Holders \cup {r}  BY <1>0, <2>3 DEF Holders
    <3>2. hashesWaiting = <<>>  BY <2>3
    <3> QED  BY <3>1, <3>2, <2>3, SameCount DEF Service!Enter
  <2>4. ASSUME UNCHANGED hashesWaiting, pc' = [pc EXCEPT ![r] = "refused"]
        PROVE  UNCHANGED serviceVars
    <3>1. Holders' = Holders  BY <1>0, <2>1, <2>4 DEF Holders
    <3> QED  BY <3>1, <2>4 DEF serviceVars
  <2>5. ASSUME hashesRunning >= HashConcurrency, ~Full,
               hashesWaiting' = Append(hashesWaiting, r),
               pc' = [pc EXCEPT ![r] = "waiting"]
        PROVE  Service!Join(r)
    <3>1. Holders' = Holders  BY <1>0, <2>1, <2>5 DEF Holders
    <3>2. Cardinality(Holders) = HashConcurrency  BY <2>5
    <3>3. Len(hashesWaiting) < HashQueueLimit  BY <2>5 DEF Full
    <3> QED  BY <3>1, <3>2, <3>3, <2>5, SameCount DEF Service!Join
  <2> QED  BY <1>1, <2>2, <2>3, <2>4, <2>5 DEF Acquire, Service!Next
<1>2. ASSUME NEW r \in Requests, Start(r) \/ Finished(r) \/ Return(r)
      PROVE  UNCHANGED serviceVars
  BY <1>2, MoveIInv DEF serviceVars
<1>3. ASSUME NEW r \in Requests, Release(r) PROVE Service!Next
  <2>1. r \in Holders /\ pc[r] = "hashed"  BY <1>3 DEF Release, Holders
  <2>2. CASE hashesWaiting = <<>>
    <3>1. Holders' = Holders \ {r}  BY <1>0, <1>3, <2>2 DEF Release, Holders
    <3> QED  BY <3>1, <2>1, <2>2, <1>3 DEF Release, Service!Leave, Service!Next
  <2>3. CASE hashesWaiting # <<>>
    <3>1. Head(hashesWaiting) \in Waiting /\ Head(hashesWaiting) \in Requests
      BY <2>3, LeaveQueue
    <3>2. Holders' = (Holders \ {r}) \cup {Head(hashesWaiting)}
      BY <1>0, <1>3, <2>1, <2>3, <3>1 DEF Release, Holders, Waiting
    <3> QED  BY <3>2, <2>1, <2>3, <1>3 DEF Release, Service!Leave, Service!Next
  <2> QED  BY <2>2, <2>3
<1>4. CASE UNCHANGED vars
  BY <1>4 DEF vars, serviceVars, Holders
<1> QED  BY <1>1, <1>2, <1>3, <1>4 DEF Next

\* The gate implements the bounded service's steps: a slot is never taken past
\* the limit, and slots pass in order of arrival.  (That every request is served
\* is the model checker's: liveness.)
THEOREM GateImplementsService ==
    Spec => Service!Init /\ [][Service!Next]_serviceVars
<1>1. Init => Service!Init
  <2>1. Init => Holders = {}  BY DEF Init, Holders
  <2> QED  BY <2>1 DEF Init, Service!Init
<1> QED  BY <1>1, InitIInv, NextIInv, StepRefines, PTL DEF Spec

-----------------------------------------------------------------------------
(* The limiter in front of the gate *)

Entries == [count : Nat, resetAt : Nat]
Live(k) == windows[k].resetAt > now
\* Where the key's window begins, or the next one would.
Begins(k) == IF Live(k) THEN windows[k].resetAt - Window ELSE now

LimiterType ==
    /\ windows \in [Keys -> Entries]
    /\ passed \in [Keys -> [Horizon -> Nat]]
    /\ now \in 0..MaxTime

\* What was let through, by the time it was: nobody in the future, at most what
\* the window has counted since it began, and at most the limit in the span of one
\* window before that.
Counted(k) ==
    /\ windows[k].resetAt <= now + Window
    /\ Live(k) => windows[k].resetAt >= Window
    /\ \A t, u \in Horizon : t <= u => passed[k][t] <= passed[k][u]
    /\ \A t \in Horizon : t > now => passed[k][t] = passed[k][now + 1]
    /\ passed[k][now + 1] - passed[k][Begins(k)] <= (IF Live(k) THEN windows[k].count ELSE 0)
    /\ passed[k][now + 1] - passed[k][Begins(k)] <= Limit
    /\ \A t \in Horizon : t <= Begins(k) /\ Begins(k) < t + Window =>
          passed[k][Begins(k)] - passed[k][t] <= Limit

\* The burst is bounded because the windows of a key never overlap: a span of one
\* window meets the present one and the end of a single earlier one.
LimiterInv ==
    /\ LimiterType
    /\ \A k \in Keys : Counted(k)
    /\ BurstIsBounded

LEMMA HorizonFacts ==
    ASSUME LimiterType
    PROVE  /\ Limit \in Nat /\ Limit >= 1 /\ Window \in Nat /\ Window >= 1
           /\ now \in Nat /\ now + 1 \in Horizon /\ now \in Horizon /\ MaxTime \in Nat
           /\ Horizon \subseteq Nat
           /\ \A t \in 0..MaxTime : t \in Horizon /\ t + Window \in Horizon
           /\ \A k \in Keys, t \in Horizon : passed[k][t] \in Nat
           /\ \A k \in Keys : windows[k].count \in Nat /\ windows[k].resetAt \in Nat
BY LimiterAssumption DEF LimiterType, Horizon, Entries

\* In the initial state nobody was let through.
LEMMA InitLimiter == MeteredInit => LimiterInv
<1> SUFFICES ASSUME MeteredInit PROVE LimiterInv
  OBVIOUS
<1>1. LimiterType
  BY LimiterAssumption DEF MeteredInit, LimiterType, NoEntry, Entries
<1>2. \A k \in Keys, t \in Horizon : passed[k][t] = 0
  BY DEF MeteredInit
<1>3. \A k \in Keys : windows[k].resetAt = 0 /\ now = 0 /\ ~Live(k) /\ Begins(k) = 0
  BY DEF MeteredInit, NoEntry, Live, Begins
<1>4. \A k \in Keys : Counted(k)
  BY <1>1, <1>2, <1>3, HorizonFacts DEF Counted
<1>5. BurstIsBounded
  BY <1>1, <1>2, HorizonFacts DEF BurstIsBounded, PassedFrom
<1> QED  BY <1>1, <1>4, <1>5 DEF LimiterInv

\* An entry that is not hit stays, or was over and is over.
Spared(before, after, k) ==
    \/ after[k] = before[k]
    \/ before[k].resetAt <= now /\ after[k].resetAt <= now

\* An entry that is hit begins a window or counts in the one it has.
Struck(before, after, k) ==
    /\ before[k].resetAt <= now => after[k].resetAt = now + Window /\ after[k].count >= 1
    /\ before[k].resetAt > now =>
        /\ after[k].resetAt = before[k].resetAt
        /\ after[k].count >= before[k].count
        /\ after[k].count <= Limit => after[k].count >= before[k].count + 1

\* hit strikes its own key, and a sweep takes only what is over.
LEMMA HitStrikes ==
    ASSUME NEW map \in [Keys -> Entries], NEW k \in Keys, LimiterType
    PROVE  /\ Hit(map, k) \in [Keys -> Entries]
           /\ Struck(map, Hit(map, k), k)
           /\ \A j \in Keys \ {k} : Spared(map, Hit(map, k), j)
<1> DEFINE kept == Swept(map)
<1> USE HorizonFacts
<1>1. kept \in [Keys -> Entries]
  BY DEF Swept, Sweep, NoEntry, Entries
<1>2. \A j \in Keys : kept[j] = map[j] \/ (map[j].resetAt <= now /\ kept[j].resetAt <= now)
  BY DEF Swept, Sweep, NoEntry, Entries
<1> DEFINE struck ==
             IF kept[k].resetAt <= now
             THEN [count |-> 1, resetAt |-> now + Window]
             ELSE [count |-> IF kept[k].count > Limit THEN kept[k].count ELSE kept[k].count + 1,
                   resetAt |-> kept[k].resetAt]
<1>3. Hit(map, k) = [kept EXCEPT ![k] = struck]
  BY DEF Hit
<1>4. struck \in Entries
  BY <1>1 DEF Entries
<1>5. Hit(map, k)[k] = struck /\ \A j \in Keys \ {k} : Hit(map, k)[j] = kept[j]
  BY <1>1, <1>3
<1>6. kept[k].resetAt > now => /\ struck.resetAt = kept[k].resetAt
                              /\ struck.count = IF kept[k].count > Limit
                                                THEN kept[k].count ELSE kept[k].count + 1
  BY <1>1 DEF Entries
<1>7. kept[k].resetAt <= now => struck.count = 1 /\ struck.resetAt = now + Window
  OBVIOUS
<1>8. kept[k].count \in Nat /\ kept[k].resetAt \in Nat /\ map[k].resetAt \in Nat
  BY <1>1 DEF Entries
<1> HIDE DEF kept, struck
<1>9. Struck(map, Hit(map, k), k)
  BY <1>2, <1>5, <1>6, <1>7, <1>8 DEF Struck
<1> QED  BY <1>1, <1>2, <1>3, <1>4, <1>5, <1>9 DEF Spared

\* The keys of a request's rule are struck, once or twice, and no other; of a
\* request without a rule, none.
LEMMA HitAllStrikes ==
    ASSUME LimiterType, NEW r \in Requests
    PROVE  /\ Range(KeysOf[r]) \subseteq Keys
           /\ HitAll(windows, r) \in [Keys -> Entries]
           /\ \A k \in Keys : IF k \in Range(KeysOf[r])
                              THEN Struck(windows, HitAll(windows, r), k)
                              ELSE Spared(windows, HitAll(windows, r), k)
<1> USE HorizonFacts
<1> DEFINE one == KeysOf[r][1]
           two == KeysOf[r][2]
           first == Hit(windows, one)
           both == Hit(first, two)
<1>1. KeysOf[r] \in Seq(Keys) /\ Len(KeysOf[r]) \in {0, 1, 2} /\ windows \in [Keys -> Entries]
  BY LimiterAssumption DEF LimiterType
<1>2. /\ Len(KeysOf[r]) # 0 => one \in Keys
      /\ Len(KeysOf[r]) = 0 => Range(KeysOf[r]) = {}
      /\ Len(KeysOf[r]) = 2 => two \in Keys /\ Range(KeysOf[r]) = {one, two}
      /\ Len(KeysOf[r]) = 1 => Range(KeysOf[r]) = {one}
  <2> DEFINE q == KeysOf[r]
  <2>1. /\ DOMAIN q = 1..Len(q) /\ q \in Seq(Keys)
        /\ \A i \in 1..Len(q) : q[i] \in Keys
    BY <1>1
  <2>2. Range(q) = {q[i] : i \in 1..Len(q)}  BY <2>1 DEF Range
  <2>8. Len(q) = 0 => 1..Len(q) = {}  OBVIOUS
  <2>3. Len(q) = 1 => 1..Len(q) = {1}  OBVIOUS
  <2>4. Len(q) = 2 => 1..Len(q) = {1, 2}  OBVIOUS
  <2> HIDE DEF q
  <2>5. Len(q) \in {0, 1, 2}  BY <1>1 DEF q
  <2>6. (Len(q) # 0 => q[1] \in Keys) /\ (Len(q) = 2 => q[2] \in Keys)  BY <2>1, <2>5
  <2>9. Len(q) = 0 => Range(q) = {}
    BY <2>2, <2>8
  <2>7. (Len(q) = 1 => Range(q) = {q[1]}) /\ (Len(q) = 2 => Range(q) = {q[1], q[2]})
    BY <2>2, <2>3, <2>4
  <2> QED  BY <2>6, <2>7, <2>9 DEF q
<1>3. ASSUME Len(KeysOf[r]) # 0
      PROVE  /\ first \in [Keys -> Entries]
             /\ Struck(windows, first, one)
             /\ \A j \in Keys \ {one} : Spared(windows, first, j)
  BY <1>1, <1>2, <1>3, HitStrikes
<1>6. CASE Len(KeysOf[r]) = 0
  <2>1. KeysOf[r] = <<>>  BY <1>1, <1>6, EmptySeq
  <2>2. HitAll(windows, r) = windows  BY <2>1 DEF HitAll
  <2> QED  BY <2>2, <1>1, <1>2, <1>6 DEF Spared
<1>7. Len(KeysOf[r]) # 0 => KeysOf[r] # <<>>
  OBVIOUS
<1>4. CASE Len(KeysOf[r]) = 1
  <2>1. HitAll(windows, r) = first  BY <1>4, <1>7 DEF HitAll
  <2> QED  BY <2>1, <1>2, <1>3, <1>4
<1>5. CASE Len(KeysOf[r]) = 2
  <2>8. one \in Keys /\ two \in Keys /\ first \in [Keys -> Entries]
        /\ Struck(windows, first, one)
        /\ \A j \in Keys \ {one} : Spared(windows, first, j)
    BY <1>2, <1>3, <1>5
  <2>1. HitAll(windows, r) = both  BY <1>5, <1>7 DEF HitAll
  <2>2. /\ both \in [Keys -> Entries]
        /\ Struck(first, both, two)
        /\ \A j \in Keys \ {two} : Spared(first, both, j)
    BY <2>8, HitStrikes
  <2> HIDE DEF one, two, first, both
  <2>3. ASSUME NEW k \in Keys
        PROVE  /\ first[k].resetAt \in Nat /\ first[k].count \in Nat
               /\ both[k].resetAt \in Nat /\ both[k].count \in Nat
               /\ windows[k].resetAt \in Nat /\ windows[k].count \in Nat
    BY <1>1, <2>2, <2>8 DEF Entries
  <2>4. ASSUME NEW k \in Keys, k = one, k = two PROVE Struck(windows, both, k)
    BY <2>2, <2>3, <2>8, <2>4 DEF Struck
  <2>5. ASSUME NEW k \in Keys, k # one, k = two PROVE Struck(windows, both, k)
    BY <2>2, <2>3, <2>8, <2>5 DEF Struck, Spared
  <2>6. ASSUME NEW k \in Keys, k = one, k # two PROVE Struck(windows, both, k)
    BY <2>2, <2>3, <2>8, <2>6 DEF Struck, Spared
  <2>7. ASSUME NEW k \in Keys, k # one, k # two PROVE Spared(windows, both, k)
    BY <2>2, <2>3, <2>8, <2>7 DEF Spared
  <2> QED  BY <2>1, <2>2, <2>4, <2>5, <2>6, <2>7, <1>2, <1>5
<1> QED  BY <1>1, <1>4, <1>5, <1>6

\* A window that is spared counts as before.
LEMMA SparedCounts ==
    ASSUME LimiterInv, LimiterType', now' = now, NEW k \in Keys,
           Spared(windows, windows', k), UNCHANGED passed[k]
    PROVE  Counted(k)'
<1> USE HorizonFacts
<1>1. Counted(k) /\ LimiterType  BY DEF LimiterInv
<1>2. windows[k].resetAt \in Nat /\ windows'[k].resetAt \in Nat
  BY <1>1 DEF LimiterType, Entries
<1>3. CASE windows'[k] = windows[k]
  <2>1. Begins(k)' = Begins(k) /\ (Live(k)' <=> Live(k))  BY <1>3 DEF Begins, Live
  <2> QED  BY <2>1, <1>1, <1>3 DEF Counted
<1>4. CASE windows[k].resetAt <= now /\ windows'[k].resetAt <= now
  <2>1. ~Live(k) /\ ~Live(k)' /\ Begins(k) = now /\ Begins(k)' = now
    BY <1>1, <1>2, <1>4 DEF Live, Begins
  <2> QED  BY <2>1, <1>1, <1>2, <1>4 DEF Counted
<1> QED  BY <1>3, <1>4 DEF Spared

\* A window that is struck counts one more, and lets one more through at most.
LEMMA StruckCounts ==
    ASSUME LimiterInv, LimiterType', now' = now, NEW k \in Keys,
           Struck(windows, windows', k),
           \/ UNCHANGED passed[k]
           \/ /\ windows'[k].count <= Limit
              /\ \A t \in Horizon :
                    passed'[k][t] = IF t > now THEN passed[k][t] + 1 ELSE passed[k][t]
    PROVE  Counted(k)'
<1> DEFINE s == Begins(k)
           now1 == now + 1
<1>1. Counted(k) /\ LimiterType  BY DEF LimiterInv
<1>2. /\ windows[k].resetAt \in Nat /\ windows'[k].resetAt \in Nat
      /\ windows[k].count \in Nat /\ windows'[k].count \in Nat
      /\ \A t \in Horizon : t \in Nat /\ passed[k][t] \in Nat /\ passed'[k][t] \in Nat
      /\ now \in Nat /\ now1 \in Horizon /\ Limit \in Nat /\ Limit >= 1
      /\ Window \in Nat /\ Window >= 1
  BY <1>1, HorizonFacts DEF LimiterType, Entries
<1>3. /\ s \in Horizon /\ s <= now /\ now < s + Window
      /\ Begins(k)' = s /\ Live(k)'
      /\ windows'[k].resetAt = s + Window
  <2>1. CASE Live(k)
    <3>1. windows[k].resetAt <= now + Window /\ windows[k].resetAt >= Window
      BY <2>1, <1>1 DEF Counted
    <3>2. s = windows[k].resetAt - Window /\ windows[k].resetAt > now
      BY <2>1 DEF Begins, Live
    <3>3. windows'[k].resetAt = windows[k].resetAt  BY <3>2 DEF Struck
    <3>4. Live(k)' /\ Begins(k)' = s  BY <3>2, <3>3 DEF Live, Begins
    <3>5. s \in Nat /\ s <= now /\ now < s + Window /\ windows'[k].resetAt = s + Window
      BY <3>1, <3>2, <3>3, <1>2
    <3>6. s \in Horizon  BY <3>5, <1>1, <1>2, LimiterAssumption DEF Horizon, LimiterType
    <3> QED  BY <3>4, <3>5, <3>6
  <2>2. CASE ~Live(k)
    BY <2>2, <1>1, <1>2, LimiterAssumption DEF Struck, Live, Begins, Horizon, LimiterType
  <2> QED  BY <2>1, <2>2
<1>4. /\ \A t \in Horizon : t <= s /\ s < t + Window => passed[k][s] - passed[k][t] <= Limit
      /\ passed[k][now1] - passed[k][s] <= (IF Live(k) THEN windows[k].count ELSE 0)
      /\ passed[k][now1] - passed[k][s] <= Limit
      /\ \A t, u \in Horizon : t <= u => passed[k][t] <= passed[k][u]
      /\ \A t \in Horizon : t > now => passed[k][t] = passed[k][now1]
  BY <1>1 DEF Counted
<1>7. /\ windows[k].resetAt <= now => windows'[k].count >= 1
      /\ windows[k].resetAt > now =>
            /\ windows'[k].count >= windows[k].count
            /\ windows'[k].count <= Limit => windows'[k].count >= windows[k].count + 1
      /\ (Live(k) <=> windows[k].resetAt > now)
  BY DEF Struck, Live
<1>8. windows[k].resetAt <= now \/ windows[k].resetAt > now
  BY <1>2
<1> HIDE DEF s
<1> SUFFICES /\ passed'[k][now1] - passed'[k][s] <= windows'[k].count
             /\ passed'[k][now1] - passed'[k][s] <= Limit
             /\ \A t \in Horizon : t <= s /\ s < t + Window =>
                    passed'[k][s] - passed'[k][t] <= Limit
             /\ \A t, u \in Horizon : t <= u => passed'[k][t] <= passed'[k][u]
             /\ \A t \in Horizon : t > now => passed'[k][t] = passed'[k][now1]
  BY <1>2, <1>3 DEF Counted
<1> HIDE DEF now1
<1>9. now1 > now /\ s <= now /\ s \in Horizon /\ now1 \in Horizon /\ s \in Nat /\ now1 \in Nat
  BY <1>2, <1>3 DEF now1
<1>5. CASE UNCHANGED passed[k]
  <2>1. passed'[k][now1] - passed'[k][s] <= windows'[k].count
    BY <1>2, <1>4, <1>5, <1>7, <1>8, <1>9
  <2> QED  BY <2>1, <1>2, <1>4, <1>5
<1>6. CASE /\ windows'[k].count <= Limit
           /\ \A t \in Horizon :
                 passed'[k][t] = IF t > now THEN passed[k][t] + 1 ELSE passed[k][t]
  <2>1. passed'[k][now1] = passed[k][now1] + 1 /\ passed'[k][s] = passed[k][s]
    BY <1>2, <1>6, <1>9
  <2>2. passed'[k][now1] - passed'[k][s] <= windows'[k].count
    BY <2>1, <1>2, <1>4, <1>6, <1>7, <1>8, <1>9
  <2>3. passed'[k][now1] - passed'[k][s] <= Limit
    BY <2>1, <2>2, <1>2, <1>6, <1>9
  <2>4. ASSUME NEW t \in Horizon, t <= s, s < t + Window
        PROVE  passed'[k][s] - passed'[k][t] <= Limit
    <3>1. t \in Nat /\ ~(t > now)  BY <1>2, <1>9, <2>4
    <3>2. passed'[k][t] = passed[k][t]  BY <3>1, <1>6
    <3> QED  BY <3>2, <2>1, <2>4, <1>4
  <2>5. ASSUME NEW t \in Horizon, NEW u \in Horizon, t <= u
        PROVE  passed'[k][t] <= passed'[k][u]
    <3>1. passed[k][t] <= passed[k][u]  BY <1>4, <2>5
    <3>2. t > now => u > now  BY <1>2, <2>5
    <3> QED  BY <3>1, <3>2, <1>2, <1>6
  <2>6. ASSUME NEW t \in Horizon, t > now PROVE passed'[k][t] = passed'[k][now1]
    <3>1. passed'[k][t] = passed[k][t] + 1 /\ passed[k][t] = passed[k][now1]
      BY <1>4, <1>6, <2>6
    <3> QED  BY <3>1, <2>1
  <2> QED  BY <2>2, <2>3, <2>4, <2>5, <2>6
<1> QED  BY <1>5, <1>6

\* A span that holds the present meets the present window and the one before.
PresentSpansAreBounded ==
    \A k \in Keys, t \in 0..MaxTime :
        LimiterType /\ Counted(k) /\ t <= now /\ now < t + Window
            => passed[k][t + Window] - passed[k][t] <= 2 * Limit

LEMMA SpanNow == PresentSpansAreBounded
<1> SUFFICES ASSUME LimiterType, NEW k \in Keys, Counted(k), NEW t \in 0..MaxTime,
                    t <= now, now < t + Window
             PROVE  passed[k][t + Window] - passed[k][t] <= 2 * Limit
  BY DEF PresentSpansAreBounded
<1> DEFINE s == Begins(k)
           now1 == now + 1
<1>1. /\ \A u \in Horizon : u \in Nat /\ passed[k][u] \in Nat
      /\ now \in Nat /\ now1 \in Horizon /\ now \in Horizon /\ Limit \in Nat
      /\ Window \in Nat /\ Window >= 1
      /\ t \in Horizon /\ t + Window \in Horizon /\ t \in Nat
  BY HorizonFacts
<1>2. s \in Horizon /\ s <= now
  <2>1. CASE Live(k)
    <3>1. windows[k].resetAt <= now + Window /\ windows[k].resetAt >= Window
      BY <2>1 DEF Counted
    <3>2. s = windows[k].resetAt - Window  BY <2>1 DEF Begins
    <3>3. windows[k].resetAt \in Nat  BY HorizonFacts
    <3>4. s \in Nat /\ s <= now  BY <3>1, <3>2, <3>3, <1>1
    <3> QED  BY <3>4, <1>1, LimiterAssumption DEF Horizon, LimiterType
  <2>2. CASE ~Live(k)  BY <2>2, <1>1 DEF Begins
  <2> QED  BY <2>1, <2>2
<1>3. /\ \A u \in Horizon : u <= s /\ s < u + Window => passed[k][s] - passed[k][u] <= Limit
      /\ passed[k][now1] - passed[k][s] <= Limit
      /\ \A u, v \in Horizon : u <= v => passed[k][u] <= passed[k][v]
      /\ \A u \in Horizon : u > now => passed[k][u] = passed[k][now1]
  BY DEF Counted
<1> HIDE DEF s, now1
<1>4. passed[k][t + Window] = passed[k][now1]
  BY <1>1, <1>3
<1>5. passed[k][s] - passed[k][t] <= Limit
  <2>1. CASE t <= s
    <3>1. s < t + Window  BY <1>1, <1>2
    <3> QED  BY <2>1, <3>1, <1>1, <1>3
  <2>2. CASE s <= t
    <3>1. passed[k][s] <= passed[k][t]  BY <2>2, <1>1, <1>2, <1>3
    <3> QED  BY <3>1, <1>1, <1>2
  <2> QED  BY <2>1, <2>2, <1>1, <1>2
<1>6. passed[k][now1] - passed[k][s] <= Limit  BY <1>3
<1>7. /\ passed[k][t] \in Nat /\ passed[k][s] \in Nat /\ passed[k][now1] \in Nat
      /\ Limit \in Nat
  BY <1>1, <1>2, LimiterAssumption DEF LimiterType
<1> QED  BY <1>4, <1>5, <1>6, <1>7

\* A request is counted under the keys of its rule, and let through or not.
LEMMA ArriveCounts ==
    ASSUME LimiterInv, NEW r \in Requests, Arrive(r) PROVE LimiterInv'
<1> DEFINE map == HitAll(windows, r)
<1>1. LimiterType  BY DEF LimiterInv
<1>2. windows' = map /\ now' = now  BY DEF Arrive
<1>3. /\ Range(KeysOf[r]) \subseteq Keys
      /\ map \in [Keys -> Entries]
      /\ \A k \in Keys : IF k \in Range(KeysOf[r])
                         THEN Struck(windows, map, k) ELSE Spared(windows, map, k)
  BY <1>1, HitAllStrikes
<1>4. \/ UNCHANGED passed
      \/ /\ \A k \in Range(KeysOf[r]) : map[k].count <= Limit
         /\ passed' = [k \in Keys |-> [t \in Horizon |->
                IF k \in Range(KeysOf[r]) /\ t > now
                THEN passed[k][t] + 1 ELSE passed[k][t]]]
  BY DEF Arrive
<1> HIDE DEF map
<1>5. passed' \in [Keys -> [Horizon -> Nat]]
  BY <1>1, <1>4 DEF LimiterType
<1>6. LimiterType'
  BY <1>1, <1>2, <1>3, <1>5 DEF LimiterType, Horizon
<1>7. ASSUME NEW k \in Keys PROVE Counted(k)'
  <2>1. CASE k \notin Range(KeysOf[r])
    <3>1. passed'[k] = passed[k]
      <4>1. passed[k] = [t \in Horizon |-> passed[k][t]]  BY <1>1 DEF LimiterType
      <4> QED  BY <4>1, <2>1, <1>4
    <3>2. Spared(windows, windows', k)  BY <1>2, <1>3, <2>1
    <3> QED  BY <3>1, <3>2, <1>2, <1>6, SparedCounts
  <2>2. CASE k \in Range(KeysOf[r])
    <3>1. Struck(windows, windows', k)  BY <1>2, <1>3, <2>2
    <3>2. \/ UNCHANGED passed[k]
          \/ /\ windows'[k].count <= Limit
             /\ \A t \in Horizon :
                   passed'[k][t] = IF t > now THEN passed[k][t] + 1 ELSE passed[k][t]
      BY <1>2, <1>4, <2>2
    <3> QED  BY <3>1, <3>2, <1>2, <1>6, StruckCounts
  <2> QED  BY <2>1, <2>2
<1>8. BurstIsBounded'
  <2> SUFFICES ASSUME NEW k \in Keys, NEW t \in 0..MaxTime
               PROVE  passed'[k][t + Window] - passed'[k][t] <= 2 * Limit
    BY DEF BurstIsBounded, PassedFrom
  <2>1. /\ now \in Nat /\ Window \in Nat /\ Window >= 1 /\ Limit \in Nat /\ t \in Nat
        /\ t \in Horizon /\ t + Window \in Horizon /\ now + 1 \in Horizon
        /\ \A u \in Horizon : passed[k][u] \in Nat /\ passed'[k][u] \in Nat
    BY <1>1, <1>5, HorizonFacts
  <2>2. CASE t <= now /\ now < t + Window
    <3>1. LimiterType' /\ Counted(k)' /\ t <= now' /\ now' < t + Window
      BY <1>2, <1>6, <1>7, <2>2
    <3>2. PresentSpansAreBounded'  BY SpanNow, PTL
    <3> QED  BY <3>1, <3>2 DEF PresentSpansAreBounded
  <2>3. CASE t + Window <= now
    <3>1. passed'[k][t + Window] = passed[k][t + Window] /\ passed'[k][t] = passed[k][t]
      BY <1>4, <2>1, <2>3
    <3>2. passed[k][t + Window] - passed[k][t] <= 2 * Limit
      BY DEF LimiterInv, BurstIsBounded, PassedFrom
    <3> QED  BY <3>1, <3>2
  <2>4. CASE t > now
    <3>1. \A u \in Horizon : u > now => passed'[k][u] = passed'[k][now + 1]
      BY <1>2, <1>7 DEF Counted
    <3>2. passed'[k][t + Window] = passed'[k][t]
      BY <3>1, <2>1, <2>4
    <3> QED  BY <3>2, <2>1
  <2> QED  BY <2>1, <2>2, <2>3, <2>4
<1> QED  BY <1>6, <1>7, <1>8 DEF LimiterInv

\* Time passes: a window that ends is the one before the next.
LEMMA TickCounts == ASSUME LimiterInv, Tick PROVE LimiterInv'
<1>1. LimiterType /\ now' = now + 1 /\ now < MaxTime /\ UNCHANGED <<windows, passed>>
  BY DEF LimiterInv, Tick
<1>2. LimiterType'
  BY <1>1, LimiterAssumption DEF LimiterType
<1>3. ASSUME NEW k \in Keys PROVE Counted(k)'
  <2> DEFINE s == Begins(k)
             now1 == now + 1
             now2 == now + 2
             late == windows[k].resetAt
             before(t) == passed[k][t]
  <2>1. /\ \A t \in Horizon : t \in Nat /\ before(t) \in Nat
        /\ now \in Nat /\ now \in Horizon /\ now1 \in Horizon /\ now2 \in Horizon
        /\ Limit \in Nat /\ Window \in Nat /\ Window >= 1 /\ late \in Nat
        /\ windows[k].count \in Nat
    BY <1>1, HorizonFacts, LimiterAssumption DEF Horizon
  <2>2. /\ late <= now + Window
        /\ Live(k) => late >= Window
        /\ \A t, u \in Horizon : t <= u => before(t) <= before(u)
        /\ \A t \in Horizon : t > now => before(t) = before(now1)
        /\ before(now1) - before(s) <= (IF Live(k) THEN windows[k].count ELSE 0)
        /\ before(now1) - before(s) <= Limit
        /\ \A t \in Horizon : t <= s /\ s < t + Window => before(s) - before(t) <= Limit
    BY DEF LimiterInv, Counted
  <2>3. /\ Live(k) <=> late > now
        /\ Live(k)' <=> late > now1
        /\ s = IF late > now THEN late - Window ELSE now
        /\ Begins(k)' = IF late > now1 THEN late - Window ELSE now1
    BY <1>1 DEF Live, Begins
  <2>4. before(now2) = before(now1)  BY <2>1, <2>2
  <2>5. s \in Horizon
    BY <2>1, <2>2, <2>3, LimiterAssumption, <1>1 DEF Horizon
  <2> DEFINE b == Begins(k)'
  <2> SUFFICES /\ late <= now1 + Window
               /\ late > now1 => late >= Window
               /\ \A t \in Horizon : t > now1 => before(t) = before(now2)
               /\ before(now2) - before(b) <= (IF late > now1 THEN windows[k].count ELSE 0)
               /\ before(now2) - before(b) <= Limit
               /\ \A t \in Horizon : t <= b /\ b < t + Window => before(b) - before(t) <= Limit
    <3>1. now1 + 1 = now2 /\ now' = now1  BY <1>1, <2>1
    <3> HIDE DEF b, s, now1, now2
    <3> QED  BY <1>1, <2>2, <2>3, <3>1 DEF Counted, b
  <2> HIDE DEF s, before, late, b
  <2>6. \A t \in Horizon : t > now1 => before(t) = before(now2)
    BY <2>1, <2>2, <2>4
  <2>7. CASE late > now1
    <3>1. b = s  BY <2>1, <2>3, <2>7 DEF b
    <3> QED  BY <3>1, <2>1, <2>2, <2>3, <2>4, <2>6, <2>7
  <2>8. CASE late = now1
    <3>1. b = now1 /\ s = now1 - Window  BY <2>1, <2>3, <2>8 DEF b
    <3>2. ASSUME NEW t \in Horizon, t <= b, b < t + Window PROVE before(b) - before(t) <= Limit
      <4>0. t \in Nat /\ now1 \in Nat  BY <2>1
      <4>1. s <= t  BY <4>0, <3>1, <3>2, <2>1
      <4>2. before(s) <= before(t)  BY <4>1, <2>2, <2>5
      <4> QED  BY <4>2, <3>1, <2>1, <2>2, <2>5
    <3> QED  BY <3>1, <3>2, <2>1, <2>2, <2>4, <2>6, <2>8
  <2>9. CASE late <= now
    <3>1. b = now1 /\ s = now  BY <2>1, <2>3, <2>9 DEF b
    <3>2. before(now1) = before(now)
      BY <3>1, <2>1, <2>2, <2>3, <2>9
    <3>3. ASSUME NEW t \in Horizon, t <= b, b < t + Window PROVE before(b) - before(t) <= Limit
      <4>0. t \in Nat /\ t <= now1  BY <2>1, <3>1, <3>3
      <4>1. CASE t <= now
        <5>1. now < t + Window  BY <3>1, <3>3, <2>1
        <5> QED  BY <5>1, <4>1, <3>1, <3>2, <2>2
      <4>2. CASE t = now1
        <5>1. before(t) \in Nat /\ before(b) = before(t)  BY <4>2, <3>1, <2>1
        <5> QED  BY <5>1, <2>1
      <4> QED  BY <4>0, <4>1, <4>2, <2>1
    <3> QED  BY <3>1, <3>3, <2>1, <2>2, <2>4, <2>6, <2>9
  <2> QED  BY <2>1, <2>7, <2>8, <2>9
<1>4. BurstIsBounded'
  BY <1>1 DEF LimiterInv, BurstIsBounded, PassedFrom
<1> QED  BY <1>2, <1>3, <1>4 DEF LimiterInv

\* Nothing the gate does touches the limiter.
LEMMA LimiterStep == LimiterInv /\ [MeteredNext]_<<vars, limiter>> => LimiterInv'
<1> SUFFICES ASSUME LimiterInv, [MeteredNext]_<<vars, limiter>> PROVE LimiterInv'
  OBVIOUS
<1>1. ASSUME NEW r \in Requests, Arrive(r) PROVE LimiterInv'
  BY <1>1, ArriveCounts
<1>2. CASE Tick  BY <1>2, TickCounts
<1>3. CASE UNCHANGED <<windows, passed, now>>
  BY <1>3 DEF LimiterInv, LimiterType, Counted, Live, Begins, BurstIsBounded, PassedFrom
<1>4. \/ \E r \in Requests : Arrive(r)
      \/ Tick
      \/ UNCHANGED <<windows, passed, now>>
  BY DEF MeteredNext, AcquireAdmitted, limiter
<1> QED  BY <1>1, <1>2, <1>3, <1>4

\* The gate behind the limiter is the gate: what the limiter refuses never enters.
LEMMA MeteredGateStep == [MeteredNext]_<<vars, limiter>> => [Next]_vars
BY DEF MeteredNext, Next, Arrive, AcquireAdmitted, Tick, limiter

\* Wherever a span of one window begins, at most twice the limit of the requests that
\* have a rule gets through to the gate in it from one address or for one identifier,
\* however many requests without a rule pass beside them, and for any callers, keys, limit, window and size at which the map is swept.
THEOREM BurstsAreBounded == MeteredSpec => []BurstIsBounded
<1>1. LimiterInv => BurstIsBounded  BY DEF LimiterInv
<1> QED  BY <1>1, InitLimiter, LimiterStep, PTL DEF MeteredSpec

\* The gate keeps its invariant behind the limiter, from which the runs' other three
\* invariants follow.
THEOREM MeteredGateIsSound == MeteredSpec => []IInv
<1>1. MeteredInit => Init  BY DEF MeteredInit
<1> QED  BY <1>1, InitIInv, NextIInv, MeteredGateStep, PTL DEF MeteredSpec
=============================================================================
