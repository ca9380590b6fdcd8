SPECIFICATION CacheSpec
CONSTANTS
    Request = {q1, q2}
    TTL = 2
    MaxDelay = 2
    Horizon = 6
    None = None
SYMMETRY Symmetry
INVARIANTS
    CacheInv
CHECK_DEADLOCK FALSE
