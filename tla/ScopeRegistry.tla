---------------------------- MODULE ScopeRegistry ----------------------------
(***************************************************************************)
(* Scopes and the claims they release (lib/scopes), with the custom scopes *)
(* that config/env reads from OAUTH_CUSTOM_SCOPES.  Lists of scopes are    *)
(* sets: the code removes duplicates and sorts them, and no decision       *)
(* depends on their order.                                                 *)
(***************************************************************************)
EXTENDS FiniteSets

\* Records [name, claims, adminOnly, boolean], where `boolean' is the
\* introspectionClaim or NoClaim.
CONSTANTS CustomScopes, NoClaim

StandardClaims ==
    [openid         |-> {"sub"},
     profile        |-> {"name", "preferred_username", "picture", "updated_at", "website"},
     email          |-> {"email", "email_verified"},
     address        |-> {"address"},
     phone          |-> {"phone_number", "phone_number_verified"},
     offline_access |-> {}]

ReservedClaims ==
    {"iss", "sub", "aud", "exp", "iat", "nbf", "jti", "auth_time", "nonce", "acr", "amr",
     "azp", "sid", "at_hash", "c_hash", "client_id", "scope", "token_use"}
AccountClaims ==
    {"email", "email_verified", "name", "preferred_username", "picture", "updated_at",
     "phone_number_verified"}
IntrospectionFields == ReservedClaims \cup {"active", "username", "token_type"}

Standard == DOMAIN StandardClaims
CustomNames == {s.name : s \in CustomScopes}
Supported == Standard \cup CustomNames
Custom(name) == CHOOSE s \in CustomScopes : s.name = name

\* What createScopeRegistry and loadEnv refuse at boot.
RegistryIsValid ==
    /\ \A s \in CustomScopes :
        /\ s.name \notin Standard
        /\ s.claims \cap (ReservedClaims \cup AccountClaims) = {}
        /\ s.boolean # NoClaim => s.adminOnly /\ s.boolean \notin IntrospectionFields
    /\ \A s, t \in CustomScopes :
        s # t => s.name # t.name /\ (s.boolean = t.boolean => s.boolean = NoClaim)

ClaimsOf(scope) ==
    IF scope \in Standard THEN StandardClaims[scope] ELSE Custom(scope).claims
AllowFor(scope, user) ==
    scope \in CustomNames => (Custom(scope).adminOnly => user.role = "ADMIN")

-----------------------------------------------------------------------------
\* A user's attributes are a function from the names that are set to values.
Produced(user, granted) ==
    UNION {Custom(s).claims : s \in granted \cap CustomNames} \cap DOMAIN user.attributes

\* What claimsFrom may not say; the registry refuses such scopes already.
MayNotProduce == ReservedClaims \cup AccountClaims

\* claimsFor: first what the scopes release of the account's own claims, then
\* what custom scopes read from the attributes, which wins.
ClaimsFor(user, granted, base) ==
    LET released == {c \in UNION {ClaimsOf(s) : s \in granted \cap Supported} :
                        c \in DOMAIN base /\ c \notin ReservedClaims}
        produced == Produced(user, granted) \ MayNotProduce
    IN  [c \in released \cup produced |->
            IF c \in produced THEN user.attributes[c] ELSE base[c]]

\* introspectionAuthorityFor: scopes with a boolean say whether the account may
\* still use them; losing one without a boolean ends the token.
CanRemainActive(user, granted) ==
    \A s \in granted \cap CustomNames : AllowFor(s, user) \/ Custom(s).boolean # NoClaim
IntrospectionAuthority(user, granted) ==
    [b \in {s.boolean : s \in CustomScopes} \ {NoClaim} |->
        \E s \in CustomScopes :
            s.boolean = b /\ s.name \in granted /\ AllowFor(s.name, user)]
=============================================================================
