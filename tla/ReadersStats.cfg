SPECIFICATION Spec
CONSTANTS
    Readers <- Stats
    NCounters = 3
    ZeroKey = 2
    DroppedKey = 1
    NPrefixes = 0
    WindowSize = 2
    MaxCount = 1
    MaxEdits = 0
    MaxPasses = 1
CHECK_DEADLOCK FALSE
INVARIANT StatsIsComplete
