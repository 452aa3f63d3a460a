\* One account: links of both kinds opened twice, a sign-in and a change of the
\* password while others reset it.  The stored hash is of old parameters, if the
\* account has a password; the ones written during the run are of today's.
CONSTANTS
    Passwords = {p1, p2}
    ResetLinks = {l1}
    VerifyLinks = {v1}
    Logins = {in1}
    Resets = {r1, r2}
    Changes = {ch1}
    Verifications = {ve1, ve2}
    Asks = {a1, a2}
    NoPassword = NoPassword
    NoLink = NoLink
    StoredUnder = {"old parameters"}
    RequireVerification = TRUE
SPECIFICATION Spec
SYMMETRY Interchangeable
INVARIANTS
    TypeOK
    LinkWorksOnce
PROPERTIES
    RefusedResetKeepsItsLink
    PasswordReplacedKnowingly
