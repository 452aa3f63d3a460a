------------------------------ MODULE OutboxMC ------------------------------
(***************************************************************************)
(* A small instance of LogoutOutbox: two notices, each to another client.  *)
(***************************************************************************)
EXTENDS LogoutOutbox

CONSTANTS c1, c2, n1, n2

Addressee == [n \in Notices |-> IF n = n1 THEN c1 ELSE c2]
=============================================================================
