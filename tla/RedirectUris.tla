----------------------------- MODULE RedirectUris -----------------------------
(***************************************************************************)
(* Redirect URIs and the other URLs of a client's registration (lib/uri).  *)
(*                                                                         *)
(* A URI is the record that `new URL' makes of its text.  Schemes and hosts*)
(* come out of the parser in lower case, so they are written so here; a    *)
(* port that is the scheme's own and an empty path are what else it        *)
(* rewrites.  A host is a name or the octets of an IPv4 address; IPv6      *)
(* literals other than the loopback are left out.                          *)
(***************************************************************************)
EXTENDS Naturals, Sequences

CONSTANTS
    AllowInsecureHttp,          \* config.allowInsecureHttp
    AllowPrivateBackchannel     \* OAUTH_BACKCHANNEL_ALLOW_PRIVATE_NETWORK

Named(name) == [name |-> name, v4 |-> <<>>]
Address(octets) == [name |-> "", v4 |-> octets]

NoPort == 0
SchemePort == [https |-> 443, http |-> 80]

\* new URL(text): what the parser makes of a text.
Normalized(u) ==
    LET web == u.scheme \in DOMAIN SchemePort
    IN  [u EXCEPT !.port = IF web /\ u.port = SchemePort[u.scheme] THEN NoPort ELSE @,
                  !.path = IF web /\ @ = "" THEN "/" ELSE @]

IsLoopbackHost(h) == h.name \in {"localhost", "[::1]"} \/ h.v4 = <<127, 0, 0, 1>>

\* The schemes of native apps have a dot, which keeps `javascript' and its like out.
PrivateUseSchemes == {"com.example.app"}

Clean(u) == ~u.fragment /\ ~u.userinfo

\* parseRedirectUri throws or returns the normalised URI.
RedirectUriValid(u) ==
    /\ Clean(u)
    /\ \/ u.scheme = "https"
       \/ u.scheme = "http" /\ (IsLoopbackHost(u.host) \/ AllowInsecureHttp)
       \/ u.scheme \in PrivateUseSchemes
RegisteredFrom(texts) == {Normalized(u) : u \in {t \in texts : RedirectUriValid(t)}}

-----------------------------------------------------------------------------
\* The port of a loopback http URI is not compared.
\* Mutant: nor is that of any other http URI.
PortFloatsOnHttp(left, right) == left.scheme = "http" /\ right.scheme = "http"
PortFloats(left, right) ==
    /\ left.scheme = "http" /\ right.scheme = "http"
    /\ IsLoopbackHost(left.host) /\ IsLoopbackHost(right.host)

\* redirectUriMatches: `registered' is stored normalised, `requested' is a text.
RedirectUriMatches(registered, requested) ==
    LET left == registered
        right == Normalized(requested)
    IN  \/ left = right
        \/ /\ PortFloats(left, right)
           /\ left.host = right.host /\ left.path = right.path /\ left.query = right.query

FindMatchingRedirectUri(registeredUris, requested) ==
    {u \in registeredUris : RedirectUriMatches(u, requested)}

-----------------------------------------------------------------------------
\* The ranges of PRIVATE_V4_RANGES: two octets of the base, and the prefix
\* length; none is longer than 16 bits, so the other octets do not matter.
PrivateV4Ranges ==
    {<<0, 0, 8>>, <<10, 0, 8>>, <<100, 64, 10>>, <<127, 0, 8>>, <<169, 254, 16>>,
     <<172, 16, 12>>, <<192, 168, 16>>}

\* v4 & mask, on the upper half of the address.
Masked(half, bits) == half - (half % 2^(16 - bits))
IsPrivateV4(octets) ==
    \E range \in PrivateV4Ranges :
        Masked(256 * octets[1] + octets[2], range[3]) = 256 * range[1] + range[2]

IsPrivateNetworkHost(h) ==
    \/ h.name \in {"localhost", "app.localhost", "[::1]"}
    \/ h.v4 # <<>> /\ IsPrivateV4(h.v4)

\* parseHttpsUrl; blockPrivateNetwork is set for the back-channel logout URI, the
\* one the issuer requests itself.
HttpsUrlValid(u, blockPrivateNetwork) ==
    /\ ~(blockPrivateNetwork /\ IsPrivateNetworkHost(u.host))
    /\ u.scheme = "https" \/ (u.scheme = "http" /\ (AllowInsecureHttp \/ IsLoopbackHost(u.host)))
    /\ Clean(u)

\* What buildClientData asks of a document's URIs.
UrisValid(redirectUris, backchannelLogoutUris) ==
    /\ redirectUris # {}
    /\ \A u \in redirectUris : RedirectUriValid(u)
    /\ \A u \in backchannelLogoutUris : HttpsUrlValid(u, ~AllowPrivateBackchannel)

-----------------------------------------------------------------------------
\* What a URI denotes to a client that registered it: everything but its
\* spelling, and not the port the system hands a native app.
Endpoint(u) ==
    LET n == Normalized(u)
    IN  [scheme |-> n.scheme, host |-> n.host, path |-> n.path, query |-> n.query,
         port |-> IF n.scheme = "http" /\ IsLoopbackHost(n.host) THEN NoPort ELSE n.port]

\* Over all pairs, matching is the same endpoint, whatever spelling is used.
MatchingIsByEndpoint(texts) ==
    \A requested \in texts, registered \in RegisteredFrom(texts) :
        /\ RedirectUriMatches(registered, requested) =>
            Endpoint(requested) = Endpoint(registered)
        /\ Clean(requested) /\ Endpoint(requested) = Endpoint(registered) =>
            RedirectUriMatches(registered, requested)

\* No address is taken for a private one, or the other way round, at the edges of
\* the ranges.
PrivateRangesAreExact ==
    \A a, b \in 0..255 :
        IsPrivateV4(<<a, b, 0, 1>>) <=>
            \/ a \in {0, 10, 127}
            \/ a = 100 /\ b \in 64..127
            \/ a = 172 /\ b \in 16..31
            \/ <<a, b>> \in {<<169, 254>>, <<192, 168>>}
=============================================================================
