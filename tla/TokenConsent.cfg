\* Two browser sessions and two clients, the second trusted, with
\* rotateRefreshTokens off; one of two scopes is for administrators only: consents
\* widen the grant, refreshes narrow it, the role changes, and a code or token is
\* presented by the wrong client.
CONSTANTS
    u1 = u1
    Users = {u1}
    Clients = {c1, c2}
    Sessions = {s1, s2}
    Codes = {k1}
    Tokens = {t1, t2}
    Workers = {w1}
    Scopes = {offline, manage}
    OpenId = openid
    OfflineAccess = offline
    AdminScopes = {manage}
    Owner <- OneOwner
    TrustedClients = {c2}
    FirstPartyClients = {}
    LogoutClients = {c1}
    ClientStatuses = {"APPROVED", "PENDING"}
    Registrations <- AnyRestriction
    Rotation = FALSE
    Nil = Nil
SPECIFICATION Spec
SYMMETRY Interchangeable
INVARIANTS
    CoveredByGrant
    DisabledAccountHoldsNothing
    OneTokenWithoutRotation
PROPERTIES
    IssuanceIsExact
