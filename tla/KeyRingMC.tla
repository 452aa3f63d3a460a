----------------------------- MODULE KeyRingMC -----------------------------
(***************************************************************************)
(* A small instance of KeyRing.  Calls of one process are interchangeable, *)
(* and so are the keys that processes generate.                            *)
(***************************************************************************)
EXTENDS KeyRing, TLC

CONSTANTS k1, k2, e1, p1, p2, c1, c2, c3

\* Two calls in the one process, one in the other.
HomeOf == (c1 :> p1) @@ (c2 :> p1) @@ (c3 :> p2)

Interchangeable ==
    {f @@ g : f \in Permutations({c1, c2}), g \in Permutations({k1, k2})}
=============================================================================
