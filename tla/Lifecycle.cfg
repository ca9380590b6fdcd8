SPECIFICATION LiveSpec
CONSTANTS
    Replica = {n1, n2}
    Rpc = {c1, s1}
    Watch = {s1}
    Request = {q1}
    Worker = {relay}
    Relay = relay
    Migrations = 2
    PoolSize = 1
    MaxAttempts = 2
    NoReplica = NoReplica
INVARIANTS
    LifecycleInv
PROPERTIES
    SignalEnds
