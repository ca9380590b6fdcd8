SPECIFICATION Spec
CONSTANTS
    Currency = {"USD", "EUR"}
    Half = 4
    Amount <- MCAmount
    MaxLegs = 4
INVARIANTS
    BalancedUnlessWrapped
    TwoLegsExact
CHECK_DEADLOCK FALSE
