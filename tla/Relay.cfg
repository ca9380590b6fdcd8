SPECIFICATION LiveSpec
CONSTANTS
    Replica = {n1, n2}
    Writer = {w1, w2}
    Account = {a1, a2}
    Topic = {"held", "captured"}
    Unregistered = {"captured"}
    BatchLimit = 2
    MaxId = 3
    MaxFaults = 1
INVARIANTS
    RelayInv
PROPERTIES
    AgainOnlyAfterRollback
    OvertakesOnlyLocked
    EventuallyPublished
CHECK_DEADLOCK FALSE
