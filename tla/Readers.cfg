SPECIFICATION Spec
CONSTANTS
    Readers <- TopAndList
    NCounters = 3
    ZeroKey = 2
    DroppedKey = 3
    NPrefixes = 4
    WindowSize = 2
    MaxCount = 3
    MaxEdits = 7
    MaxPasses = 5
CHECK_DEADLOCK FALSE
INVARIANTS
    TypeOK
    RateNeverWraps
    WindowIsRecent
    WalkIsComplete
