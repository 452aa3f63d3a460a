------------------------------ MODULE MeteredMC ------------------------------
(***************************************************************************)
(* A small instance of MeteredHashing: an address from which somebody signs*)
(* in twice at a time, another with a password reset, which has no         *)
(* identifier, and a request whose path has no rule as it is written.      *)
(***************************************************************************)
EXTENDS MeteredHashing

CONSTANTS r1, r2, r3, r4, here, there, ada

KeysHere ==
    [r \in Requests |-> CASE r \in {r1, r2} -> <<here, ada>>
                          [] r = r3 -> <<there>>
                          [] r = r4 -> <<>>]
=============================================================================
