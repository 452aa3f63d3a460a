\* One client that registers or is registered, one from the configuration, two
\* requests in progress, two secrets drawn, two boots.
CONSTANTS
    static1 = static1
    cfg1 = cfg1
    read = read
    Clients = {client1, static1}
    StaticClients = {static1}
    Entries <- EntriesHere
    Documents <- DocumentsHere
    Scopes = {openid, read}
    DefaultScopes = {openid}
    Secrets = {x1, x2}
    ConfigSecrets = {cfg1}
    Workers = {w1, w2}
    RequireApproval = TRUE
    MaxBoots = 2
    Nil = Nil
    AllowInsecureHttp = TRUE
    AllowPrivateBackchannel = FALSE
SPECIFICATION Spec
CHECK_DEADLOCK FALSE
SYMMETRY Interchangeable
INVARIANTS
    TypeOK
    MethodFitsType
    OldSecretIsDead
    StatusIsAsDecided
