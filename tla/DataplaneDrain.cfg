SPECIFICATION FairSpec
CONSTANTS
    c1 = c1
    c2 = c2
    s1 = s1
    s2 = s2
    f1 = f1
    f2 = f2
    tcp = tcp
    arp = arp
    Cpus <- TwoCpus
    Packets <- DrainPackets
    Prefixes <- NarrowPrefix
    Dropped = Dropped
    NoFlow = NoFlow
    MaxCounters = 2
    Slots = {1}
    RingCap = 2
    SampleN = 1
    Window = 1
    Budget = 1
    MaxPackets = 4
    MaxTime = 0
    MaxEdits = 0
CHECK_DEADLOCK FALSE
PROPERTY RecordsConsumed
