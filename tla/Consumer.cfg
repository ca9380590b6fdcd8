SPECIFICATION LiveSpec
CONSTANTS
    Partition = {p1, p2}
    Applies = {e1}
    Rejected = {e3}
    Invalid = {e4}
    Unknown = {e5}
    Unframed = {e6}
    maxAttempts = 2
    Fault = {"dlq", "fetch", "commit", "crash"}
    MaxLog = 2
    MaxCrash = 1
INVARIANTS
    ConsumerInv
    LossesAreLogged
    OutageHoldsOffset
PROPERTIES
    EventuallySettled
