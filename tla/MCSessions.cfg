SPECIFICATION Spec
CONSTANTS
    Instances = {i1, i2}
    Requests = {r1, r2}
    None = None
    MemTtl = 2
    RedisTtl = 2
    GateTtl = 1
    Latency = 1
    MaxTime = 8
    MaxWrites = 1
SYMMETRY MCSymmetry
INVARIANTS AccountsAreRecent SwitchIsRecent
