\* One request with any demand, two tabs of one browser, two accounts, one
\* event around the flow besides what has happened before it.
CONSTANTS
    openid = openid
    other = other
    Users = {u1, u2}
    Requests = {r1}
    Tabs = {t1, t2}
    Sessions = {s1, s2, s3, s4}
    Scopes = {openid, profile, other}
    OpenId = openid
    profile = profile
    ClientUris <- UrisHere
    AllowInsecureHttp = TRUE
    AllowPrivateBackchannel = FALSE
    ClientScopes = {openid, profile}
    AdminScopes = {}
    Admins = {}
    Consented = {u1}
    Unsteady = {u2}
    RequireConsent = TRUE
    RequirePkce = TRUE
    Asked <- AskedHere
    MaxEvents = 1
    Nil = Nil
SPECIFICATION FairSpec
INVARIANTS
    TypeOK
    OneAnswer
    
    DemandedConsentHappened
    AnswersGoToTheClient
PROPERTIES
    FlowsEnd
