SPECIFICATION Spec
CONSTANTS
    s1 = s1
    s2 = s2
    Sources <- TwoSources
    Wide = wide
    AutoOn = TRUE
    NFlows = 2
    SrcOf <- Sources2
    TcpFlows = {1, 2}
    FlowCap = 1
    BlacklistCap = 2
    Threshold = 1
    Window = 1
    Ttls = {0, 1}
    MaxIpStats = 1
    IdleTtl = 0
    MaxPackets = 2
    MaxTime = 3
    MaxEdits = 1
    MaxEvents = 1
CHECK_DEADLOCK FALSE
INVARIANTS
    TypeOK
    BlacklistIsTracked
PROPERTIES
    NoStaleReblock
    ExpiryTakesOnlyItsOwn
