-------------------------- MODULE AuthorizationMC --------------------------
(***************************************************************************)
(* A small instance of AuthorizationRequest: the requests a client sends,  *)
(* and the URIs it registered.                                             *)
(***************************************************************************)
EXTENDS AuthorizationRequest

CONSTANTS openid, profile, other

Uri(scheme, host, port, path, query, fragment, userinfo) ==
    [scheme |-> scheme, host |-> host, port |-> port, path |-> path, query |-> query,
     fragment |-> fragment, userinfo |-> userinfo]

Web == Uri("https", Named("rp.example"), NoPort, "/cb", "", FALSE, FALSE)
Plain == Uri("http", Named("rp.example"), NoPort, "/cb", "", FALSE, FALSE)
Native == Uri("http", Address(<<127, 0, 0, 1>>), NoPort, "/", "", FALSE, FALSE)
UrisHere == {Web, Plain, Native}

Ask(S, prompt, maxAge, pkce, redirect) ==
    [scopes |-> S, prompt |-> prompt, maxAge |-> maxAge, pkce |-> pkce, redirect |-> redirect]

AskedHere ==
    {Ask({profile, other}, {}, TRUE, "S256", [Web EXCEPT !.port = 443]),
     Ask({profile, other}, {"none"}, TRUE, "S256", Web),
     Ask({openid, profile}, {"login", "consent"}, FALSE, "S256", [Native EXCEPT !.port = 5000]),
     Ask({profile}, {"login"}, FALSE, "S256", Web),
     Ask({profile}, {"login"}, FALSE, "S256", [Plain EXCEPT !.port = 5000]),
     Ask({other}, {}, FALSE, "S256", Web),
     Ask({profile}, {}, FALSE, "absent", Web),
     Ask({profile}, {}, FALSE, "plain", Web),
     Ask({profile}, {"none", "login"}, FALSE, "S256", Web)}
=============================================================================
