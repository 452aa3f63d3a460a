---------------------------- MODULE LogoutOutbox ----------------------------
(***************************************************************************)
(* The outbox of back-channel logout notices (backchannelService.js) and   *)
(* the timers that empty it (server.js).  Each replica has one timer; a    *)
(* flush works from the rows as it read them, one at a time, and a POST    *)
(* lies between that read and the write of its result.                     *)
(***************************************************************************)
EXTENDS Naturals, Sequences, FiniteSets

CONSTANTS
    Clients,
    Notices,        \* rows of backchannel_logouts
    ClientOf,       \* the client a notice is for
    Replicas,       \* processes, each with a flush timer
    MaxAttempts,    \* maxAttempts
    Batch,          \* flush's limit
    MaxStops        \* bound on the flushes that stop half-way

ASSUME OutboxAssumption ==
    /\ ClientOf \in [Notices -> Clients]
    /\ MaxAttempts \in Nat \ {0}
    /\ Batch \in Nat \ {0}
    /\ MaxStops \in Nat

VARIABLES
    endpoint,   \* the clients that register a backchannel_logout_uri
    created,    \* notices in the order of createdAt
    row,        \* what the table says of each
    pending,    \* the rows a flush has read and not dealt with yet
    answer,     \* what became of the POST a flush is making
    heard,      \* notices their client has received
    posts,      \* POSTs made for each, counted up to MaxAttempts
    stops       \* flushes that stopped half-way so far

vars == <<endpoint, created, row, pending, answer, heard, posts, stops>>

Rows == [state : {"absent", "queued", "delivered", "pruned"},
         attempts : 0..MaxAttempts, rested : BOOLEAN]

TypeOK ==
    /\ endpoint \subseteq Clients
    /\ created \in Seq(Notices)
    /\ row \in [Notices -> Rows]
    /\ pending \in [Replicas -> Seq([notice : Notices, attempts : 0..(MaxAttempts - 1)])]
    /\ answer \in [Replicas -> {"none", "ok", "failed"}]
    /\ heard \subseteq Notices
    /\ posts \in [Notices -> 0..MaxAttempts]
    /\ stops \in 0..MaxStops

Init ==
    /\ endpoint = Clients
    /\ created = <<>>
    /\ row = [n \in Notices |-> [state |-> "absent", attempts |-> 0, rested |-> TRUE]]
    /\ pending = [p \in Replicas |-> <<>>]
    /\ answer = [p \in Replicas |-> "none"]
    /\ heard = {}
    /\ posts = [n \in Notices |-> 0]
    /\ stops = 0

-----------------------------------------------------------------------------
\* The client of a notice registers an endpoint, as the code reads it now.
Reachable(n) == ClientOf[n] \in endpoint

\* enqueue, in the transaction that ends the session.
Enqueue(n) ==
    /\ Reachable(n)
    /\ row[n].state = "absent"
    /\ row' = [row EXCEPT ![n].state = "queued"]
    /\ created' = Append(created, n)
    /\ UNCHANGED <<endpoint, pending, answer, heard, posts, stops>>

\* A client registers an endpoint, or drops it.
ChangeEndpoint(c) ==
    /\ endpoint' = IF c \in endpoint THEN endpoint \ {c} ELSE endpoint \cup {c}
    /\ UNCHANGED <<created, row, pending, answer, heard, posts, stops>>

\* Mutant: rows out of attempts are taken too.
DueForever(n) == row[n].state = "queued" /\ row[n].rested
Due(n) == row[n].state = "queued" /\ row[n].attempts < MaxAttempts /\ row[n].rested

\* flush: the oldest due rows, as they read now.  Places in `created' are in order
\* of age, and so are those of `places'.
DuePlaces == {i \in 1..Len(created) : Due(created[i])}
Oldest == {i \in DuePlaces : Cardinality({j \in DuePlaces : j < i}) < Batch}
Flush(p) ==
    /\ pending[p] = <<>>
    /\ DuePlaces # {}
    /\ \E places \in [1..Cardinality(Oldest) -> Oldest] :
          /\ \A i, j \in DOMAIN places : i < j => places[i] < places[j]
          /\ pending' = [pending EXCEPT ![p] =
                [i \in DOMAIN places |->
                    [notice |-> created[places[i]],
                     attempts |-> row[created[places[i]]].attempts]]]
    /\ UNCHANGED <<endpoint, created, row, answer, heard, posts, stops>>

Working(p) == pending[p] # <<>>
Current(p) == Head(pending[p])

\* deliver, for a client that no longer has an endpoint.
Waive(p) ==
    /\ Working(p) /\ answer[p] = "none"
    /\ ~Reachable(Current(p).notice)
    /\ row' = [row EXCEPT ![Current(p).notice].state = "delivered"]
    /\ pending' = [pending EXCEPT ![p] = Tail(@)]
    /\ UNCHANGED <<endpoint, created, answer, heard, posts, stops>>

\* deliver's POST: it arrives and is accepted, or it fails or times out, and the
\* client may have received it all the same.
Post(p) ==
    LET n == Current(p).notice
    IN  /\ Working(p) /\ answer[p] = "none"
        /\ Reachable(n)
        /\ \E result \in {"ok", "failed"} :
              /\ answer' = [answer EXCEPT ![p] = result]
              /\ \/ heard' = heard \cup {n}
                 \/ result = "failed" /\ UNCHANGED heard
        /\ posts' = [posts EXCEPT ![n] = IF @ < MaxAttempts THEN @ + 1 ELSE @]
        /\ UNCHANGED <<endpoint, created, row, pending, stops>>

\* Mutant: a failure is not counted.
AfterUncounted(r, read, result) ==
    [r EXCEPT !.rested = FALSE, !.state = IF result = "ok" THEN "delivered" ELSE @]
\* The row after an attempt: the count is the one the flush read, plus one.
After(r, read, result) ==
    [r EXCEPT !.attempts = read + 1, !.rested = FALSE,
              !.state = IF result = "ok" THEN "delivered" ELSE @]

\* deliver's write of the result.
Settle(p) ==
    LET n == Current(p).notice
    IN  /\ answer[p] # "none"
        /\ row' = [row EXCEPT ![n] = After(@, Current(p).attempts, answer[p])]
        /\ pending' = [pending EXCEPT ![p] = Tail(@)]
        /\ answer' = [answer EXCEPT ![p] = "none"]
        /\ UNCHANGED <<endpoint, created, heard, posts, stops>>

\* The process dies, or a database or key error ends the flush: what it has not
\* written is forgotten.
Stop(p) ==
    /\ Working(p)
    /\ stops < MaxStops
    /\ stops' = stops + 1
    /\ pending' = [pending EXCEPT ![p] = <<>>]
    /\ answer' = [answer EXCEPT ![p] = "none"]
    /\ UNCHANGED <<endpoint, created, row, heard, posts>>

\* retrySeconds have passed since lastAttemptAt.
Rest(n) ==
    /\ ~row[n].rested
    /\ row' = [row EXCEPT ![n].rested = TRUE]
    /\ UNCHANGED <<endpoint, created, pending, answer, heard, posts, stops>>

\* Mutant: everything old is dropped.
PrunableByAge(n) == row[n].state \in {"queued", "delivered"} /\ row[n].attempts > 0
Prunable(n) ==
    \/ row[n].state = "delivered"
    \/ row[n].state = "queued" /\ row[n].attempts >= MaxAttempts

\* pruneDelivered, a week later: no flush that read the row is still at work.
Prune(n) ==
    /\ Prunable(n) /\ row[n].rested
    /\ \A p \in Replicas : \A i \in 1..Len(pending[p]) : pending[p][i].notice # n
    /\ row' = [row EXCEPT ![n].state = "pruned"]
    /\ UNCHANGED <<endpoint, created, pending, answer, heard, posts, stops>>

PruneDelivered == \E n \in Notices : Prune(n)

Next ==
    \/ \E n \in Notices : Enqueue(n) \/ Rest(n)
    \/ PruneDelivered
    \/ \E p \in Replicas : Flush(p) \/ Waive(p) \/ Post(p) \/ Settle(p) \/ Stop(p)
    \/ \E c \in Clients : ChangeEndpoint(c)

\* The timers fire, a POST ends by its timeout, and time passes.
Fairness ==
    /\ \A p \in Replicas : WF_vars(Flush(p)) /\ WF_vars(Waive(p) \/ Post(p)) /\ WF_vars(Settle(p))
    /\ \A n \in Notices : WF_vars(Rest(n))

Spec == Init /\ [][Next]_vars /\ Fairness

-----------------------------------------------------------------------------
GivenUp(n) == row[n].attempts >= MaxAttempts

\* A notice is marked delivered only if its client has it, or had no endpoint
\* when its turn came (the row then counts no acknowledged attempt); and it
\* leaves the table only so, or after every attempt was made.  No result of a
\* flush, written late by another replica, makes a delivered notice due again.
NothingIsDropped ==
    [][\A n \in Notices : row'[n].state # row[n].state =>
          \/ row'[n].state = "queued" /\ row[n].state = "absent"
          \/ row'[n].state = "delivered" /\ (n \in heard \/ ~Reachable(n))
          \/ row'[n].state = "pruned" /\ (row[n].state = "delivered" \/ posts[n] = MaxAttempts)]_vars

\* A notice that was queued is delivered, or given up after all its attempts: a
\* client that is down, whose notices are older and fill every batch, does not keep
\* those of another client waiting for ever.
EveryLogoutSettles ==
    \A n \in Notices :
        row[n].state = "queued" ~> (row[n].state \in {"delivered", "pruned"} \/ GivenUp(n))
=============================================================================
