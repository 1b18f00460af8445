SPECIFICATION Spec
CONSTANTS
    s1 = s1
    s2 = s2
    Sources <- TwoSources
    Wide = wide
    AutoOn = TRUE
    NFlows = 3
    SrcOf <- Sources3
    TcpFlows = {1, 2, 3}
    FlowCap = 2
    BlacklistCap = 3
    Threshold = 2
    Window = 3
    Ttls = {1}
    MaxIpStats = 1
    IdleTtl = 3
    MaxPackets = 4
    MaxTime = 2
    MaxEdits = 0
    MaxEvents = 0
CHECK_DEADLOCK FALSE
INVARIANT SynsWereSent
