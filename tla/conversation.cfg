SPECIFICATION Spec
CONSTANTS
    Request = {h1, h2}
    h1 = h1
    h2 = h2
    None = None
    Messages <- MCMessages
    MaxMessages = 4
    MaxOverlap = 2
    MaxClock = 1
SYMMETRY Interchangeable
INVARIANTS TypeOK
PROPERTIES Agreement CleanStart  MenuChoice
CHECK_DEADLOCK FALSE
