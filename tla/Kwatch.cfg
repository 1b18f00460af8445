SPECIFICATION Spec
CONSTANTS
    e1 = e1
    e2 = e2
    e3 = e3
    Second = 2
    HostWords <- TwoHosts
    Loopback = {"127.0.0.1"}
    Ports = {0, 1, 2, 3}
    Rates = {0, 1, 2, 5}
    Durations = {0, 1, 2, 5}
    FirstPort = 1024
    PortEnd = 1026
    SeqEnd = 3
    Lines <- AllLines
    Number <- Numbers
    Address <- HostPorts
    U16Max = 3
    U32Max = 7
    Features = {"tui", "experimental"}
    DefaultPort = 3
    DefaultRate = 2
    DefaultDuration = 2
    Entries <- ThreeEntries
    Height = 2
    TuiRate = 1
    Typed <- Answers
    Sessions <- FewSessions
    MaxEdits = 2
    Grace = 2
    Bits = 2
    NoSlash = 9
    Cidr <- Cidrs
    TrieCap = 2
CHECK_DEADLOCK FALSE
INVARIANTS
    TypeOK
    TrafficIsBounded
    PacketsVerify
    ParsedAsWritten
    EditsAreComplete
    RemoteOnlyByOverride
    FaultOnlyFromTop
    TopEndsClean
PROPERTIES
    DeletesWhatIsMarked
    DemoRunsItsCourse
    KilledUnpinned
    TopEnds
