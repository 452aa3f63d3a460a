\* Expected to fail: an access token revoked for replay is active again.
CONSTANTS
    u1 = u1
    Users = {u1}
    Clients = {c1}
    Sessions = {s1}
    Codes = {k1, k2}
    Tokens = {t1, t2}
    Workers = {w1}
    Scopes = {offline}
    OpenId = openid
    OfflineAccess = offline
    AdminScopes = {}
    Owner <- OneOwner
    TrustedClients = {}
    FirstPartyClients = {}
    LogoutClients = {}
    ClientStatuses = {"APPROVED", "DISABLED"}
    Registrations <- RefreshOrNot
    Rotation = TRUE
    Nil = Nil
SPECIFICATION Spec
SYMMETRY Interchangeable
INVARIANTS
    RetiredAccessTokenStaysInactive
