\* One slot as in the code, a queue of two, and four callers: of the two at one
\* address one gets through in a window of two units and both on the two sides of its
\* boundary; with another's and an unmetered request the gate then refuses one.
CONSTANTS
    r1 = r1
    r2 = r2
    r3 = r3
    r4 = r4
    here = here
    there = there
    ada = ada
    Requests = {r1, r2, r3, r4}
    HashConcurrency = 1
    HashQueueLimit = 2
    Keys = {here, there, ada}
    KeysOf <- KeysHere
    Limit = 1
    Window = 2
    SweepAt = 1
    MaxTime = 3
SPECIFICATION MeteredSpec
INVARIANTS
    SlotsAccounted
    NobodyWaitsForAFreeSlot
    BurstIsBounded
PROPERTIES
    AcceptedIsAnswered
    ImplementsService
