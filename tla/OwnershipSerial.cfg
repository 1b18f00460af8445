SPECIFICATION Spec
CONSTANTS
    r1 = r1
    r2 = r2
    Runs <- TwoRuns
    Detachers = {d1}
    Clients = {c1}
    NMaps = 2
    NoOne = NoOne
    Empty = Empty
    Legacy = Legacy
    Serial = TRUE
CHECK_DEADLOCK FALSE
SYMMETRY RunSymmetry
INVARIANTS
    TypeOK
    RunningReachable
    CleanExit
    SerialInv
    ClientMapNotOfDead
PROPERTIES
    LiveStateRespected
    DetachPost
    ImplementsPathOwner
