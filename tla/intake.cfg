SPECIFICATION Spec
CONSTANTS
    Worker = {w1, w2}
    Sender = {ann}
    Text = {long, short, blank}
    Long = {long}
    Blank = {blank}
    RateMax = 2
    Window = 3
    BurstMax = 1
    BurstWindow = 1
    MaxTime = 4
    MaxTexts = 5
    MaxOutages = 1
    MaxRestarts = 1
    Nothing = Nothing
    Upload = {u1, u2, u3}
    Admin = {a1, a2}
    Call = {c1, c2}
    Threshold = 2
    MaxFailed = 4
    MaxLost = 2
INVARIANTS
    IntakeTypeOK
    AtMostTwice
    RepeatsStopped
    BurstsStopped
    StateHasDocument
PROPERTIES
    
    Recovers
CHECK_DEADLOCK FALSE
