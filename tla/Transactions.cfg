SPECIFICATION Spec
CONSTANTS
    a1 = a1  a2 = a2  a3 = a3  a4 = a4
    u1 = u1  u2 = u2  u3 = u3
    h1 = h1  h2 = h2  h3 = h3  h4 = h4
    p1 = p1  p2 = p2  p3 = p3
    r1 = r1  r2 = r2  r3 = r3  r4 = r4
    e1 = e1  e2 = e2  e3 = e3  e4 = e4
    UserAccount = {a1, a2, a3, a4}
    User = {u1, u2, u3}
    HoldId = {h1, h2, h3, h4}
    Payment = {p1, p2, p3}
    Currency = {"USD"}
    DefaultCurrency = "USD"
    Amount <- MCAmount
    WelcomeSeed = {0, 2}
    SweepLimit = 2
    MaxBigint = 9
    NoRow = NoRow
    RequestId = {r1, r2, r3, r4}
    EventId = {e1, e2, e3, e4}
    Earlier <- MCEarlier
    EarlierEvents <- MCEarlierEvents
    None = None
    Worker = {w1, w2}
    Call <- MCCall
    MaxAttempts = 2
SYMMETRY Symmetry
INVARIANTS
    TransactionsTypeOK
    RegistrationsOnce
    DeadlocksNeedSweep
PROPERTIES
    ImplementsLedger
    AnswersAreTrue
    DefiniteErrors
    EntriesInOrder
    MissesOnlyNewer
CHECK_DEADLOCK FALSE
