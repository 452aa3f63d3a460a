--------------------------- MODULE TokenServiceMC ---------------------------
(***************************************************************************)
(* Small instances of TokenService.  A .cfg names the sizes; the session   *)
(* owners and the symmetry sets are defined here.  Identifiers of codes,   *)
(* refresh tokens and workers are interchangeable: no definition names one.*)
(***************************************************************************)
EXTENDS TokenService, TLC

CONSTANT u1

\* Every session belongs to the one user u1.
OneOwner == [s \in Sessions |-> u1]

\* Registrations administrators write: everything allowed, refresh tokens not
\* allowed, another callback, no scope of administrators.
Unrestricted == [scopes |-> Scopes, grants |-> GrantTypes, callback |-> TRUE]
CodesOnly == [Unrestricted EXCEPT !.grants = {"authorization_code"}]
RefreshOrNot == {Unrestricted, CodesOnly}
AnyRestriction ==
    {Unrestricted, CodesOnly, [Unrestricted EXCEPT !.callback = FALSE],
     [Unrestricted EXCEPT !.scopes = Scopes \ AdminScopes]}

Interchangeable ==
    Permutations(Codes) \cup Permutations(Tokens) \cup Permutations(Workers)
=============================================================================
