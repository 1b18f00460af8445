SPECIFICATION Spec
CONSTANTS
    r1 = r1
    r2 = r2
    Runs <- TwoRuns
    Detachers = {d1}
    Clients = {}
    NMaps = 2
    NoOne = NoOne
    Empty = Empty
    Legacy = Legacy
    Serial = FALSE
CHECK_DEADLOCK FALSE
SYMMETRY RunSymmetry
INVARIANTS
    HookIsHeld
    RecordsAreClaims
