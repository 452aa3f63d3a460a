----------------------------- MODULE ClientsMC -----------------------------
(***************************************************************************)
(* A small instance of ClientRegistration: the metadata documents that     *)
(* users, clients and the configuration send, and the URIs they name.      *)
(***************************************************************************)
EXTENDS ClientRegistration, RedirectUris, TLC

CONSTANTS static1, cfg1, read

Uri(scheme, host, port, path, query, fragment, userinfo) ==
    [scheme |-> scheme, host |-> host, port |-> port, path |-> path, query |-> query,
     fragment |-> fragment, userinfo |-> userinfo]
Callback(host) == Uri("https", host, NoPort, "/cb", "", FALSE, FALSE)
Web == UrisValid({Callback(Named("rp.example"))}, {Callback(Named("rp.example"))})
Inside == UrisValid({Callback(Named("rp.example"))}, {Callback(Address(<<172, 16, 0, 9>>))})

Doc(type, method, scopes, grants, sound) ==
    [type |-> type, method |-> method, scopes |-> scopes, grants |-> grants, sound |-> sound]

Confidential == Doc("confidential", Absent, Unset, Unset, Web)
Public == Doc("public", "none", Unset, {"authorization_code"}, Web)

DocumentsHere ==
    {Confidential, Public,
     Doc("confidential", "none", Unset, Unset, Web),
     Doc(Absent, "client_secret_post", {read}, Unset, Web),
     Doc(Absent, Absent, {read, "unknown"}, Unset, Web),
     Doc(Absent, Absent, Unset, {"client_credentials"}, Web),
     Doc(Absent, Absent, Unset, {}, Inside)}

\* An operator may turn a static client public between two boots.
EntriesHere ==
    {[client |-> static1, doc |-> Confidential, secret |-> cfg1, firstParty |-> TRUE,
      consent |-> Absent],
     [client |-> static1, doc |-> Public, secret |-> Nil, firstParty |-> FALSE,
      consent |-> "ask"]}

Interchangeable == Permutations(Workers) \cup Permutations(Secrets)

\* The spellings redirectUriMatches and isPrivateNetworkHost are tried on.
Texts ==
    {Uri(scheme, host, port, path, query, fragment, userinfo) :
        scheme \in {"https", "http", "com.example.app", "javascript"},
        host \in {Named("rp.example"), Named("localhost"), Address(<<127, 0, 0, 1>>),
                  Address(<<192, 168, 0, 7>>)},
        port \in {NoPort, 80, 443, 5000}, path \in {"", "/", "/cb"}, query \in {"", "a=b"},
        fragment \in BOOLEAN, userinfo \in BOOLEAN}

ASSUME UriRules == MatchingIsByEndpoint(Texts) /\ PrivateRangesAreExact
=============================================================================
