SPECIFICATION Spec
CONSTANTS
    UserAccount = {a1}
    User = {u1}
    HoldId = {h1}
    Payment = {p1}
    Currency = {"USD"}
    DefaultCurrency = "USD"
    Amount <- MCAmount
    WelcomeSeed = {2}
    SweepLimit = 1
    MaxBigint = 8
    NoRow = NoRow
INVARIANTS
    NoDrift
CHECK_DEADLOCK FALSE
