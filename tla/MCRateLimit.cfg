SPECIFICATION Spec
CONSTANTS
    Instances = {i1}
    Requests = {r1, r2}
    None = None
    MaxRequests = 2
    Window = 3
    Cooldown = 1
    Latency = 1
INVARIANTS RedisWindow
PROPERTIES Recovers
