SPECIFICATION Spec
CONSTANTS
    c1 = c1
    c2 = c2
    s1 = s1
    s2 = s2
    f1 = f1
    f2 = f2
    tcp = tcp
    arp = arp
    Cpus <- TwoCpus
    Packets <- RacePackets
    Prefixes <- NarrowPrefix
    Dropped = Dropped
    NoFlow = NoFlow
    MaxCounters = 2
    Slots = {1, 2}
    RingCap = 1
    SampleN = 2
    Window = 1
    Budget = 1
    MaxPackets = 3
    MaxTime = 2
    MaxEdits = 1
CHECK_DEADLOCK FALSE
SYMMETRY CpuSymmetry
INVARIANTS
    TypeOK
    CountLossBounded
    NoPhantomSyn
    StraySynsBounded
    EventsAccounted
