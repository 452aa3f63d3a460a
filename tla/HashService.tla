---------------------------- MODULE HashService ----------------------------
(***************************************************************************)
(* What callers of hashPassword and verifyPassword are promised: a bounded *)
(* number of hashes at a time, a bounded line served in order of arrival,  *)
(* and a refusal only when both are full.  Nothing here counts slots or    *)
(* resolves promises; HashGate shows that the code behaves like this.      *)
(***************************************************************************)
EXTENDS Naturals, Sequences, FiniteSets

CONSTANTS Requests, Slots, Room

VARIABLES
    served,     \* requests holding a slot
    line        \* requests waiting for one, in order

InLine == {line[i] : i \in 1..Len(line)}

Init == served = {} /\ line = <<>>

Enter(r) ==
    /\ Cardinality(served) < Slots
    /\ line = <<>>
    /\ served' = served \cup {r}
    /\ UNCHANGED line

Join(r) ==
    /\ Cardinality(served) = Slots
    /\ Len(line) < Room
    /\ line' = Append(line, r)
    /\ UNCHANGED served

\* The slot passes to the first in line.
Leave(r) ==
    /\ r \in served
    /\ IF line = <<>>
       THEN served' = served \ {r} /\ UNCHANGED line
       ELSE served' = (served \ {r}) \cup {Head(line)} /\ line' = Tail(line)

Next ==
    \/ \E r \in Requests \ (served \cup InLine) : Enter(r) \/ Join(r)
    \/ \E r \in Requests : Leave(r)

Spec ==
    /\ Init /\ [][Next]_<<served, line>>
    /\ \A r \in Requests : WF_<<served, line>>(Leave(r))
=============================================================================
