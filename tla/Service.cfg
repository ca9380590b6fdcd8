SPECIFICATION ServiceSpec
CONSTANTS
    UserAccount = {a1, a2}
    User = {u1}
    HoldId = {h1, h2}
    Payment = {p1}
    Currency = {"USD"}
    DefaultCurrency = "USD"
    Amount <- MCAmount
    WelcomeSeed = {0, 2}
    SweepLimit = 2
    MaxBigint = 4
    RequestId = {r1, r2}
    Copy = {1, 2}
    NoRow = NoRow
SYMMETRY Symmetry
INVARIANTS
    ServiceInv
    AnswersAgree
    EffectsAnswered
CHECK_DEADLOCK FALSE
