SPECIFICATION Spec
CONSTANTS
    Client = {c1}
    PageLimit = 2
    MaxId = 4
INVARIANTS
    PagesComplete
CHECK_DEADLOCK FALSE
