CONSTANTS
    Passwords = {p1}
    ResetLinks = {}
    VerifyLinks = {v1}
    Logins = {}
    Resets = {}
    Changes = {}
    Verifications = {ve1}
    Asks = {a1}
    NoPassword = NoPassword
    NoLink = NoLink
    StoredUnder = {"registered"}
    RequireVerification = TRUE
SPECIFICATION Spec
PROPERTIES
    DisabledStaysDisabled
