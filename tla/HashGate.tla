------------------------------ MODULE HashGate ------------------------------
(***************************************************************************)
(* The gate in front of scrypt (lib/crypto.js): a counter of running       *)
(* hashes and an array of resolvers waiting for a slot.  JavaScript runs   *)
(* each function to its next await, so one action is one such stretch; a   *)
(* resolved promise continues later, and others may run in between.        *)
(***************************************************************************)
EXTENDS Naturals, Sequences, FiniteSets

CONSTANTS
    Requests,           \* callers that may hash at the same time
    HashConcurrency,    \* HASH_CONCURRENCY
    HashQueueLimit      \* HASH_QUEUE_LIMIT

ASSUME GateAssumption ==
    /\ IsFiniteSet(Requests)
    /\ HashConcurrency \in Nat \ {0}
    /\ HashQueueLimit \in Nat

VARIABLES
    hashesRunning,      \* the counter
    hashesWaiting,      \* the waiters, in order
    pc                  \* where each caller is in runScrypt

vars == <<hashesRunning, hashesWaiting, pc>>

\* `granted': its promise is resolved and its continuation has not run yet.
\* `hashed': scrypt has called back, or has thrown, and finally has not run.
Waiting == {r \in Requests : pc[r] = "waiting"}
Holders == {r \in Requests : pc[r] \in {"granted", "hashing", "hashed"}}

TypeOK ==
    /\ hashesRunning \in 0..HashConcurrency
    /\ hashesWaiting \in Seq(Requests) /\ Len(hashesWaiting) <= HashQueueLimit
    /\ pc \in [Requests -> {"idle", "waiting", "granted", "hashing", "hashed",
                            "answered", "refused"}]

Init ==
    /\ hashesRunning = 0
    /\ hashesWaiting = <<>>
    /\ pc = [r \in Requests |-> "idle"]

Full == Len(hashesWaiting) >= HashQueueLimit

\* Mutant: room in the queue is looked at before the free slot.
AcquireThroughQueue(r) ==
    /\ pc[r] = "idle"
    /\ \/ /\ ~Full
          /\ hashesWaiting' = Append(hashesWaiting, r)
          /\ pc' = [pc EXCEPT ![r] = "waiting"]
          /\ UNCHANGED hashesRunning
       \/ /\ Full
          /\ hashesRunning < HashConcurrency
          /\ hashesRunning' = hashesRunning + 1
          /\ pc' = [pc EXCEPT ![r] = "granted"]
          /\ UNCHANGED hashesWaiting
       \/ /\ Full
          /\ hashesRunning >= HashConcurrency
          /\ pc' = [pc EXCEPT ![r] = "refused"]
          /\ UNCHANGED <<hashesRunning, hashesWaiting>>

\* acquireHashSlot: a slot, a 503, or a place in the queue.
Acquire(r) ==
    /\ pc[r] = "idle"
    /\ \/ /\ hashesRunning < HashConcurrency
          /\ hashesRunning' = hashesRunning + 1
          /\ pc' = [pc EXCEPT ![r] = "granted"]
          /\ UNCHANGED hashesWaiting
       \/ /\ hashesRunning >= HashConcurrency
          /\ Full
          /\ pc' = [pc EXCEPT ![r] = "refused"]
          /\ UNCHANGED <<hashesRunning, hashesWaiting>>
       \/ /\ hashesRunning >= HashConcurrency
          /\ ~Full
          /\ hashesWaiting' = Append(hashesWaiting, r)
          /\ pc' = [pc EXCEPT ![r] = "waiting"]
          /\ UNCHANGED hashesRunning

\* Mutant: the exception of a malformed stored hash leaves without finally.
StartUnguarded(r) ==
    /\ pc[r] = "granted"
    /\ \E next \in {"hashing", "answered"} : pc' = [pc EXCEPT ![r] = next]
    /\ UNCHANGED <<hashesRunning, hashesWaiting>>

\* The continuation calls crypto.scrypt, which throws at once on the malformed
\* parameters of a bad stored hash.
Start(r) ==
    /\ pc[r] = "granted"
    /\ \E next \in {"hashing", "hashed"} : pc' = [pc EXCEPT ![r] = next]
    /\ UNCHANGED <<hashesRunning, hashesWaiting>>

Finished(r) ==
    /\ pc[r] = "hashing"
    /\ pc' = [pc EXCEPT ![r] = "hashed"]
    /\ UNCHANGED <<hashesRunning, hashesWaiting>>

\* Mutant: the slot is freed as well as handed on.
ReleaseTwice(r) ==
    /\ pc[r] = "hashed"
    /\ hashesRunning' = hashesRunning - 1
    /\ IF hashesWaiting # <<>>
       THEN /\ pc' = [pc EXCEPT ![r] = "answered", ![Head(hashesWaiting)] = "granted"]
            /\ hashesWaiting' = Tail(hashesWaiting)
       ELSE pc' = [pc EXCEPT ![r] = "answered"] /\ UNCHANGED hashesWaiting

\* releaseHashSlot: "hand the slot straight to the next waiter rather than
\* freeing and re-taking it".
Release(r) ==
    /\ pc[r] = "hashed"
    /\ IF hashesWaiting # <<>>
       THEN /\ pc' = [pc EXCEPT ![r] = "answered", ![Head(hashesWaiting)] = "granted"]
            /\ hashesWaiting' = Tail(hashesWaiting)
            /\ UNCHANGED hashesRunning
       ELSE /\ pc' = [pc EXCEPT ![r] = "answered"]
            /\ hashesRunning' = hashesRunning - 1
            /\ UNCHANGED hashesWaiting

\* The caller is answered and may come again.
Return(r) ==
    /\ pc[r] \in {"answered", "refused"}
    /\ pc' = [pc EXCEPT ![r] = "idle"]
    /\ UNCHANGED <<hashesRunning, hashesWaiting>>

Next ==
    \E r \in Requests :
        Acquire(r) \/ Start(r) \/ Finished(r) \/ Release(r) \/ Return(r)

\* The event loop runs every continuation, and every scrypt call ends.
Fairness ==
    \A r \in Requests : WF_vars(Start(r)) /\ WF_vars(Finished(r)) /\ WF_vars(Release(r))

Spec == Init /\ [][Next]_vars /\ Fairness

-----------------------------------------------------------------------------
\* The counter is the number of callers between their grant and their finally:
\* no hand-over, refusal or exception leaks a slot or counts one twice.
SlotsAccounted == hashesRunning = Cardinality(Holders)

\* A slot is never free while somebody waits: a wake-up is never lost, and an
\* arriving request never finds a free slot to overtake the queue with.
NobodyWaitsForAFreeSlot == hashesWaiting # <<>> => hashesRunning = HashConcurrency

\* The queue holds exactly the waiting callers, each once: nobody waits outside
\* it, and nobody is granted twice.
QueueHoldsWaiters ==
    /\ Waiting = {hashesWaiting[i] : i \in 1..Len(hashesWaiting)}
    /\ \A i, j \in 1..Len(hashesWaiting) : hashesWaiting[i] = hashesWaiting[j] => i = j

\* A caller that was accepted is answered: a queue of 64 behind one slot drains
\* however many requests keep arriving, and an exception in scrypt included.
AcceptedIsAnswered == \A r \in Requests : pc[r] = "waiting" ~> pc[r] = "answered"

Service == INSTANCE HashService
    WITH Slots <- HashConcurrency, Room <- HashQueueLimit,
         served <- Holders, line <- hashesWaiting

\* The gate is a bounded service in order of arrival.
ImplementsService == Service!Spec
=============================================================================
