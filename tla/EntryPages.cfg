SPECIFICATION LiveSpec
CONSTANTS
    Client = {c1, c2}
    PageLimit = 2
    MaxId = 6
INVARIANTS
    PagesInv
PROPERTIES
    ReadingEnds
CHECK_DEADLOCK FALSE
