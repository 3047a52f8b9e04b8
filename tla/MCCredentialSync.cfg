CONSTANTS
    Req = {q1, q2}
    Id = {i1, i2}
    Agent = {a1, a2}
    Key = {k1, k2}
    Val = {v1, v2}
    MaxArrivals = 4
    MaxFailures = 1
    None = None
SPECIFICATION Spec
INVARIANTS
    TypeOK
    AgentsFollow
    AgentsAccountedFor
SYMMETRY Alike
CHECK_DEADLOCK FALSE
