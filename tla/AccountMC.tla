----------------------------- MODULE AccountMC -----------------------------
(***************************************************************************)
(* Small instances of AccountCredentials.  No definition names a password  *)
(* or a request of one of the four kinds.                                  *)
(***************************************************************************)
EXTENDS AccountCredentials, TLC

Interchangeable ==
    Permutations(Passwords) \cup Permutations(Resets) \cup Permutations(Asks)
        \cup Permutations(Verifications)
=============================================================================
