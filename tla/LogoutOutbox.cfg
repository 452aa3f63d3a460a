\* Two replicas (a rolling restart), two notices to two clients, of which a flush takes
\* one, two attempts for each, and one flush that stops half-way.
CONSTANTS
    c1 = c1
    c2 = c2
    n1 = n1
    n2 = n2
    Clients = {c1, c2}
    Notices = {n1, n2}
    ClientOf <- Addressee
    Replicas = {a, b}
    MaxAttempts = 2
    Batch = 1
    MaxStops = 1
SPECIFICATION Spec
INVARIANTS
    TypeOK
PROPERTIES
    NothingIsDropped
    EveryLogoutSettles
