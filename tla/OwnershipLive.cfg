SPECIFICATION FairSpec
CONSTANTS
    r1 = r1
    r2 = r2
    Runs <- TwoRuns
    Detachers = {d1}
    Clients = {}
    NMaps = 1
    NoOne = NoOne
    Empty = Empty
    Legacy = Legacy
    Serial = TRUE
CHECK_DEADLOCK FALSE
PROPERTIES
    DetachEnds
    TermStopsRun
