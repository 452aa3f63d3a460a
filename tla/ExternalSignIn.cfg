\* One upstream subject, two browsers, two tickets and two requests at a time.
CONSTANTS
    s1 = s1
    e1 = e1
    NoClaim = NoClaim
    CustomScopes <- ScopesHere
    Users = {u1, u2}
    Subjects = {s1}
    Emails = {e1}
    Browsers = {b1, b2}
    Tickets = {t1, t2}
    States = {x1, x2}
    Workers = {w1, w2}
    Assertions <- AssertionsHere
    AttrNames = {"level", "email_verified"}
    AutoCreate = TRUE
    TicketTtl = 1
    MaxTime = 2
    MaxSessions = 1
    Nil = Nil
SPECIFICATION Spec
SYMMETRY Interchangeable
CHECK_DEADLOCK FALSE
INVARIANTS
    TypeOK
    TicketIsSpentOnce
    SignInWasStartedHere
    NobodyIsMerged
    ClaimsAreTheAccounts
