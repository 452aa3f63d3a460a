----------------------------- MODULE Delegation -----------------------------
(***************************************************************************)
(* What a user is promised about a client that acts for them: it may obtain*)
(* tokens only under a delegation that was offered within their consent,   *)
(* accepted once, only ever narrowed, and ended for good; and withdrawing  *)
(* the consent ends all of it at once.  Nothing here knows of rows,        *)
(* families, races or replays; TokenService shows that the code behaves    *)
(* like this.                                                              *)
(***************************************************************************)
CONSTANTS Codes, Parties, Scopes, Nil

VARIABLES
    consent,    \* consent[g]: the scopes user and client g have agreed on
    party,      \* party[k]: the user and client of delegation k
    stage,      \* "none", "offered" as a code, "held" by the client, or "over"
    carried     \* carried[k]: the scopes it may still be used for

delegationVars == <<consent, party, stage, carried>>

Init ==
    /\ consent = [g \in Parties |-> {}]
    /\ party = [k \in Codes |-> Nil]
    /\ stage = [k \in Codes |-> "none"]
    /\ carried = [k \in Codes |-> {}]

\* The user agrees to S, or has agreed to it before.
Offer(k, g, S) ==
    /\ stage[k] = "none"
    /\ S # {}
    /\ consent' = [consent EXCEPT ![g] = @ \cup S]
    /\ party' = [party EXCEPT ![k] = g]
    /\ stage' = [stage EXCEPT ![k] = "offered"]
    /\ carried' = [carried EXCEPT ![k] = S]

Accept(k) ==
    /\ stage[k] = "offered"
    /\ stage' = [stage EXCEPT ![k] = "held"]
    /\ UNCHANGED <<consent, party, carried>>

Narrow(k, S) ==
    /\ stage[k] = "held"
    /\ S \subseteq carried[k]
    /\ carried' = [carried EXCEPT ![k] = S]
    /\ UNCHANGED <<consent, party, stage>>

Open(k) == stage[k] \in {"offered", "held"}
Close(K) ==
    /\ stage' = [k \in Codes |-> IF k \in K THEN "over" ELSE stage[k]]
    /\ carried' = [k \in Codes |-> IF k \in K THEN {} ELSE carried[k]]

End(K) ==
    /\ \A k \in K : Open(k)
    /\ UNCHANGED <<consent, party>>
    /\ Close(K)

Withdraw(g) ==
    /\ consent' = [consent EXCEPT ![g] = {}]
    /\ Close({k \in Codes : Open(k) /\ party[k] = g})
    /\ UNCHANGED party

Next ==
    \/ \E K \in SUBSET Codes : End(K)
    \/ \E k \in Codes : Accept(k) \/ \E S \in SUBSET Scopes : Narrow(k, S)
    \/ \E g \in Parties : Withdraw(g) \/ \E k \in Codes, S \in SUBSET Scopes : Offer(k, g, S)

Spec == Init /\ [][Next]_delegationVars
=============================================================================
