SPECIFICATION Spec
CONSTANTS
    Partition = {p1}
    Applies = {e1}
    Rejected = {e3}
    Invalid = {}
    Unknown = {}
    Unframed = {}
    maxAttempts = 1
    Fault = {"dlq"}
    MaxLog = 2
    MaxCrash = 0
INVARIANTS
    NoSilentLoss
