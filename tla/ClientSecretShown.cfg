\* A rotation's new secret is never shown.
CONSTANTS
    static1 = static1
    cfg1 = cfg1
    read = read
    Clients = {client1, static1}
    StaticClients = {static1}
    Entries <- EntriesHere
    Documents <- DocumentsHere
    Scopes = {openid, read}
    DefaultScopes = {openid}
    Secrets = {x1, x2}
    ConfigSecrets = {cfg1}
    Workers = {w1, w2}
    RequireApproval = TRUE
    MaxBoots = 2
    Nil = Nil
    AllowInsecureHttp = TRUE
    AllowPrivateBackchannel = FALSE
SPECIFICATION Spec
CHECK_DEADLOCK FALSE
INVARIANTS
    StoredSecretWasShown
