\* One user, client and session: two requests race on two codes and on the
\* refresh tokens they yield while users and administrators revoke.
CONSTANTS
    u1 = u1
    Users = {u1}
    Clients = {c1}
    Sessions = {s1}
    Codes = {k1, k2}
    Tokens = {t1, t2, t3, t4}
    Workers = {w1, w2}
    Scopes = {offline}
    OpenId = openid
    OfflineAccess = offline
    AdminScopes = {}
    Owner <- OneOwner
    TrustedClients = {}
    FirstPartyClients = {}
    LogoutClients = {}
    ClientStatuses = {"APPROVED", "DISABLED"}
    Registrations <- RefreshOrNot
    Rotation = TRUE
    Nil = Nil
SPECIFICATION Spec
SYMMETRY Interchangeable
INVARIANTS
    TypeOK
    CodeYieldsOneFamily
    OneLiveTokenPerFamily
    RetiredCodeStaysDead
    KilledFamilyStaysDead
PROPERTIES
    ImplementsDelegation
