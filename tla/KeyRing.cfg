\* Two processes, three calls whose reads and assignments interleave, two rotations
\* that may fail half-way, keys from the table or from the environment; time ends
\* after the first retired key may have left the table.
CONSTANTS
    k1 = k1
    k2 = k2
    e1 = e1
    p1 = p1
    p2 = p2
    c1 = c1
    c2 = c2
    c3 = c3
    Replicas = {p1, p2}
    Calls = {c1, c2, c3}
    Home <- HomeOf
    Keys = {k1, k2, e1}
    EnvKeySets = {{}, {e1}}
    TokenTtl = 1
    Overlap = 1
    MaxTime = 2
    MaxRotations = 2
    MaxTokens = 1
    Nil = Nil
SPECIFICATION Spec
SYMMETRY Interchangeable
CHECK_DEADLOCK FALSE
INVARIANTS
    TypeOK
    ReplicasAgree
PROPERTIES
    LoadedRingVerifies
