SPECIFICATION Spec
CONSTANTS
    r1 = r1
    r2 = r2
    Runs <- TwoRuns
    Detachers = {}
    Clients = {}
    NMaps = 2
    NoOne = NoOne
    Empty = Empty
    Legacy = Legacy
    Serial = TRUE
CHECK_DEADLOCK FALSE
SYMMETRY RunSymmetry
INVARIANT TermUnpins
