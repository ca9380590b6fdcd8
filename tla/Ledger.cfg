SPECIFICATION LiveSpec
CONSTANTS
    UserAccount = {a1, a2}
    User = {u1, u2}
    HoldId = {h1, h2}
    Payment = {p1, p2}
    Currency = {"USD", "EUR"}
    DefaultCurrency = "USD"
    Amount <- MCAmount
    WelcomeSeed = {0, 2}
    SweepLimit = 1
    MaxBigint = 4
    NoRow = NoRow
INVARIANTS
    RowsInv
    LedgerInv
    LiabilitiesReconcile
    ReconcileClean
    MoneyConserved
    CapturesMatchPostings
    EventsRebuildHeld
    UserHoldsReleasable
PROPERTIES
    HistoryIsFinal
    VersionOrders
    HoldsSettle
CHECK_DEADLOCK FALSE
