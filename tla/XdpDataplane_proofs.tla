------------------------ MODULE XdpDataplane_proofs -------------------------
(***************************************************************************)
(* The packet path for any number of CPUs, flows, counters and packets:    *)
(* no counter runs ahead of what it counts, the race of first packets      *)
(* loses less than one packet per CPU, no SYN is made up, few are held     *)
(* against another flow, and every event is accounted for.                 *)
(*                                                                         *)
(* A packet in flight is a CPU's: each bound below relates a counter and   *)
(* the number of CPUs that are about to increment it.                      *)
(***************************************************************************)
EXTENDS XdpDataplane, FiniteSetTheorems, SequenceTheorems, TLAPS

Labels == {"idle", "blacklist", "lookup", "add", "insert", "flow",
           "flowInsert", "window", "reset", "clear", "touch", "emit", "submit"}
Records == [cpu : Cpus, done : BOOLEAN]
FlowRecords == [flow : FlowNames \cup {NoFlow}, syn : Nat, ack : Nat,
                first : 0..MaxTime, last : 0..MaxTime]

\* TypeOK without the upper bounds on what counts packets.
MapShape ==
    /\ blacklist \subseteq Prefixes
    /\ counts \in [Keys -> Nat]
    /\ slots \in [Slots -> FlowRecords]
    /\ ring \in Seq(Records) /\ Len(ring) <= RingCap
    /\ drops \in Nat /\ clock \in 0..MaxTime
CpuShape ==
    /\ pc \in [Cpus -> Labels]
    /\ pkt \in [Cpus -> Packets] /\ key \in [Cpus -> Keys]
    /\ ptr \in [Cpus -> Slots \cup {NoPtr}] /\ now \in [Cpus -> 0..MaxTime]
    /\ isNew \in [Cpus -> BOOLEAN]
UserShape ==
    /\ draining \in BOOLEAN /\ taken \in Nat
    /\ delivered \in Nat /\ dropped \in Nat
    /\ received \in 0..MaxPackets /\ edits \in 0..MaxEdits
    /\ seen \in [Keys -> Nat] /\ attempts \in Nat /\ syns \in Nat
    /\ flowSyns \in [FlowNames -> Nat] /\ evictions \in Nat
Shape == MapShape /\ CpuShape /\ UserShape

LEMMA Constants ==
    /\ MaxCounters \in Nat /\ RingCap \in Nat /\ RingCap > 0
    /\ Budget \in Nat /\ SampleN \in Nat /\ SampleN > 0
    /\ Window \in Nat /\ MaxPackets \in Nat /\ MaxTime \in Nat /\ MaxEdits \in Nat
    /\ \A p \in Packets : /\ p.key \in Keys /\ p.flow \in FlowNames
                          /\ p.syn \in {0, 1} /\ p.ack \in {0, 1}
                          /\ p.kind \in {"ip", "count", "pass"}
    /\ Dropped \in Keys
BY SizesAssumption, PacketsAssumption DEF IsPacket, Keys, FlowNames

\* Submit changes the contents of the ring, not its length.
LEMMA SubmitKeepsLength ==
    ASSUME ring \in Seq(Records), NEW c \in Cpus, Submit(c)
    PROVE  ring' \in Seq(Records) /\ Len(ring') = Len(ring)
<1>1. Len(ring) \in Nat /\ DOMAIN ring = 1..Len(ring)
  BY LenProperties
<1>2. \A i \in 1..Len(ring) : ring[i] \in Records
  BY ElementOfSeq
<1>3. ring' \in [1..Len(ring) -> Records]
  BY <1>1, <1>2 DEF Submit, Records
<1>4. ring' \in Seq(Records)
  BY <1>1, <1>3, SeqDef
<1>5. DOMAIN ring' = 1..Len(ring') /\ Len(ring') \in Nat
  BY <1>4, LenProperties
<1>6. QED
  BY <1>1, <1>3, <1>4, <1>5

\* What each step of the flow accounting stores.
LEMMA SlotsShape ==
    ASSUME Shape, NEW c \in Cpus,
           InsertFlow(c) \/ ResetFirstSeen(c) \/ ClearFlow(c) \/ TouchFlow(c)
    PROVE  slots' \in [Slots -> FlowRecords]
<1>1. /\ slots \in [Slots -> FlowRecords] /\ now[c] \in 0..MaxTime
      /\ pkt[c] \in Packets
  BY DEF Shape, MapShape, CpuShape
<1>2. pkt[c].syn \in Nat /\ pkt[c].ack \in Nat /\ pkt[c].flow \in FlowNames
  BY <1>1, Constants
<1>3. CASE InsertFlow(c)
  <2>1. EmptySlot \in FlowRecords
    BY Constants DEF EmptySlot, FlowRecords
  <2>2. [flow |-> pkt[c].flow, syn |-> pkt[c].syn, ack |-> pkt[c].ack,
         first |-> now[c], last |-> now[c]] \in FlowRecords
    BY <1>1, <1>2 DEF FlowRecords
  <2>3. QED
    BY <1>1, <1>3, <2>1, <2>2 DEF InsertFlow, Inserted
<1>4. CASE ResetFirstSeen(c)
  BY ZenonT(30), <1>1, <1>4 DEF ResetFirstSeen, FlowRecords
<1>5. CASE ClearFlow(c)
  BY ZenonT(30), <1>1, <1>5 DEF ClearFlow, FlowRecords
<1>6. CASE TouchFlow(c) /\ ptr[c] \in Slots
  <2> DEFINE v == slots[ptr[c]]
             w == [v EXCEPT !.last = now[c], !.syn = @ + pkt[c].syn,
                            !.ack = @ + pkt[c].ack]
  <2>1. v \in FlowRecords
    BY <1>1, <1>6
  <2>2. slots' = [slots EXCEPT ![ptr[c]] = w]
    BY <1>6 DEF TouchFlow, SynIncrement
  <2> HIDE DEF v
  <2>3. v.syn \in Nat /\ v.ack \in Nat
    BY <2>1 DEF FlowRecords
  <2>4. v.syn + pkt[c].syn \in Nat /\ v.ack + pkt[c].ack \in Nat
    BY <1>2, <2>3
  <2>5. w \in FlowRecords
    BY <1>1, <2>1, <2>3, <2>4 DEF FlowRecords
  <2>6. QED
    BY <1>1, <2>2, <2>5
<1>7. CASE TouchFlow(c) /\ ptr[c] \notin Slots
  BY <1>1, <1>7 DEF TouchFlow
<1>8. QED
  BY <1>3, <1>4, <1>5, <1>6, <1>7

LEMMA FlowStepShape ==
    ASSUME Shape, NEW c \in Cpus,
           LookupFlow(c) \/ InsertFlow(c) \/ CheckWindow(c)
             \/ ResetFirstSeen(c) \/ ClearFlow(c) \/ TouchFlow(c)
    PROVE  Shape'
<1> USE DEF Shape, MapShape, CpuShape, UserShape
<1>1. CASE LookupFlow(c)
  <2>1. ptr' \in [Cpus -> Slots \cup {NoPtr}]
    <3>1. ASSUME SlotsOf(pkt[c].flow) # {}
          PROVE  (CHOOSE s \in SlotsOf(pkt[c].flow) : TRUE) \in Slots
      BY <3>1 DEF SlotsOf
    <3>2. QED
      BY <1>1, <3>1 DEF LookupFlow
  <2>2. pc' \in [Cpus -> Labels] /\ now' \in [Cpus -> 0..MaxTime]
    BY <1>1 DEF LookupFlow, Goto, Labels
  <2>3. syns' \in Nat /\ flowSyns' \in [FlowNames -> Nat]
    <3>1. pkt[c].syn \in {0, 1} /\ pkt[c].flow \in FlowNames
      BY Constants
    <3>2. /\ syns' = syns + pkt[c].syn
          /\ flowSyns' = [flowSyns EXCEPT ![pkt[c].flow] = @ + pkt[c].syn]
      BY <1>1 DEF LookupFlow
    <3>3. QED
      BY <3>1, <3>2
  <2>4. QED
    BY <1>1, <2>1, <2>2, <2>3 DEF LookupFlow, mapVars, userVars
<1>2. CASE CheckWindow(c)
  BY <1>2 DEF CheckWindow, Goto, Labels, mapVars, userVars, histVars
<1>3. CASE InsertFlow(c) \/ ResetFirstSeen(c) \/ ClearFlow(c) \/ TouchFlow(c)
  <2>1. pc' \in [Cpus -> Labels]
    BY ZenonT(30), <1>3 DEF InsertFlow, ResetFirstSeen, ClearFlow, TouchFlow, Goto, Labels
  <2>2. isNew' \in [Cpus -> BOOLEAN]
    BY <1>3 DEF InsertFlow, ResetFirstSeen, ClearFlow, TouchFlow
  <2>3. UNCHANGED <<blacklist, counts, ring, drops, clock, pkt, key, ptr, now,
                    userVars, received, edits, seen, attempts, syns, flowSyns>>
    BY <1>3 DEF InsertFlow, ResetFirstSeen, ClearFlow, TouchFlow, histVars
  <2>4. evictions' \in Nat
    <3>1. evictions' = evictions \/ evictions' = evictions + 1
      BY <1>3 DEF InsertFlow, ResetFirstSeen, ClearFlow, TouchFlow, histVars
    <3>2. QED
      BY <3>1
  <2>5. QED
    BY <1>3, <2>1, <2>2, <2>3, <2>4, SlotsShape DEF userVars
<1>4. QED
  BY <1>1, <1>2, <1>3

LEMMA CountStepShape ==
    ASSUME Shape, NEW c \in Cpus,
           Receive(c) \/ LookupBlacklist(c) \/ LookupCount(c) \/ AddCount(c)
             \/ InsertCount(c)
    PROVE  Shape'
<1> USE DEF Shape, MapShape, CpuShape, UserShape
<1>1. CASE Receive(c)
  <2>1. PICK p \in Packets :
          /\ pkt' = [pkt EXCEPT ![c] = p] /\ key' = [key EXCEPT ![c] = p.key]
          /\ Goto(c, CASE p.kind = "ip" -> "blacklist"
                       [] p.kind = "count" -> "lookup"
                       [] p.kind = "pass" -> "idle")
    BY <1>1 DEF Receive
  <2>2. p.key \in Keys /\ p.kind \in {"ip", "count", "pass"}
    BY Constants
  <2>3. pc' \in [Cpus -> Labels]
    BY <2>1, <2>2 DEF Goto, Labels
  <2>4. pkt' \in [Cpus -> Packets] /\ key' \in [Cpus -> Keys]
    BY <2>1, <2>2
  <2>5. /\ ptr' \in [Cpus -> Slots \cup {NoPtr}]
        /\ now' \in [Cpus -> 0..MaxTime] /\ received' \in 0..MaxPackets
    <3>1. MaxTime \in Nat /\ MaxPackets \in Nat
      BY Constants
    <3>2. /\ ptr' = [ptr EXCEPT ![c] = NoPtr] /\ now' = [now EXCEPT ![c] = 0]
          /\ received < MaxPackets /\ received' = received + 1
      BY <1>1 DEF Receive
    <3>3. QED
      BY <3>1, <3>2
  <2>6. isNew' \in [Cpus -> BOOLEAN]
    BY <1>1 DEF Receive
  <2>7. QED
    BY <1>1, <2>3, <2>4, <2>5, <2>6 DEF Receive, mapVars, userVars, histVars
<1>2. CASE LookupBlacklist(c)
  BY <1>2, Constants DEF LookupBlacklist, Goto, Covered, Labels, mapVars,
     userVars, histVars
<1>3. CASE LookupCount(c)
  BY <1>3 DEF LookupCount, Goto, Labels, mapVars, userVars
<1>4. AfterCount(c) \in Labels
  BY DEF AfterCount, Labels
<1>5. CASE AddCount(c)
  BY <1>4, <1>5 DEF AddCount, Goto, userVars, histVars
<1>6. CASE InsertCount(c)
  <2>1. NewCount(key[c]) \in Nat
    BY DEF NewCount
  <2>2. QED
    BY <1>4, <1>6, <2>1 DEF InsertCount, Goto, userVars, histVars
<1>7. QED
  BY <1>1, <1>2, <1>3, <1>5, <1>6

LEMMA RingStepShape ==
    ASSUME Shape,
           (\E c \in Cpus : Emit(c) \/ Submit(c)) \/ DrainStep
    PROVE  Shape'
<1> USE DEF Shape, MapShape, CpuShape, UserShape
<1>1. ASSUME NEW c \in Cpus, Emit(c) PROVE Shape'
  <2>0. /\ pc' \in [Cpus -> Labels] /\ drops' \in Nat /\ attempts' \in Nat
        /\ UNCHANGED <<blacklist, counts, slots, clock, pkt, key, ptr, now,
                       isNew, draining, taken, delivered, dropped, received,
                       edits, seen, syns, flowSyns, evictions>>
    <3>1. pc' \in [Cpus -> Labels]
      BY ZenonT(30), <1>1 DEF Emit, Goto, Labels
    <3>2. drops' \in Nat /\ attempts' \in Nat
      <4>1. drops \in Nat /\ attempts \in Nat
        OBVIOUS
      <4> HIDE DEF Shape, MapShape, CpuShape, UserShape
      <4>2. drops' \in {drops, IncRingbufDrop} /\ attempts' \in {attempts, attempts + 1}
        BY <1>1 DEF Emit
      <4>3. QED
        BY <4>1, <4>2 DEF IncRingbufDrop
    <3>3. QED
      BY <1>1, <3>1, <3>2 DEF Emit, userVars
  <2>1. CASE ~RingFull
    <3>1. [cpu |-> c, done |-> FALSE] \in Records
      BY DEF Records
    <3>2. Len(ring) \in Nat /\ Len(ring) < RingCap
      BY <2>1, LenProperties, Constants DEF RingFull
    <3>3. ring' \in Seq(Records) /\ Len(ring') <= RingCap
      <4>1. CASE ring' = ring
        BY <4>1
      <4>2. CASE ring' = Append(ring, [cpu |-> c, done |-> FALSE])
        BY <3>1, <3>2, <4>2, AppendProperties, Constants
      <4>3. QED
        BY <1>1, <4>1, <4>2 DEF Emit
    <3>4. QED
      BY <2>0, <3>3
  <2>2. CASE RingFull
    <3>1. ring' = ring
      BY <1>1, <2>2 DEF Emit
    <3>2. QED
      BY <2>0, <3>1
  <2>3. QED
    BY <2>1, <2>2
<1>2. ASSUME NEW c \in Cpus, Submit(c) PROVE Shape'
  BY <1>2, SubmitKeepsLength DEF Submit, Goto, Labels, userVars, histVars
<1>3. CASE StartDrain \/ EndDrain
  <2>1. draining' \in BOOLEAN
    BY <1>3 DEF StartDrain, EndDrain
  <2>2. taken' = 0
    BY <1>3 DEF StartDrain, EndDrain
  <2>3. QED
    BY <1>3, <2>1, <2>2 DEF StartDrain, EndDrain, mapVars, cpuVars, histVars
<1>4. CASE DispatchEvent
  <2>1. ring' \in Seq(Records) /\ Len(ring') <= RingCap
    <3>1. ring # << >> /\ ring' = Tail(ring)
      BY <1>4 DEF DispatchEvent
    <3>2. Len(ring) \in Nat
      BY LenProperties
    <3>3. QED
      BY <3>1, <3>2, HeadTailProperties, Constants
  <2>2. QED
    <3>1. taken' \in Nat /\ delivered' \in Nat /\ dropped' \in Nat
      BY SMTT(30), <1>4 DEF DispatchEvent
    <3>2. QED
      BY <1>4, <2>1, <3>1 DEF DispatchEvent, cpuVars, histVars
<1>5. QED
  BY <1>1, <1>2, <1>3, <1>4 DEF DrainStep

LEMMA ShapeInvariant == Spec => []Shape
<1>1. Init => Shape
  <2> SUFFICES ASSUME Init PROVE Shape
    OBVIOUS
  <2> USE Constants DEF Init
  <2>1. MapShape
    BY EmptySeq DEF MapShape, FlowRecords, EmptySlot
  <2>2. CpuShape
    BY PacketsAssumption DEF CpuShape, Labels
  <2>3. UserShape
    <3>1. draining \in BOOLEAN
      BY Zenon
    <3>2. QED
      BY <3>1 DEF UserShape
  <2>4. QED
    BY <2>1, <2>2, <2>3 DEF Shape
<1>2. Shape /\ [Next]_vars => Shape'
  <2> SUFFICES ASSUME Shape, [Next]_vars PROVE Shape'
    OBVIOUS
  <2>1. ASSUME NEW c \in Cpus, Receive(c) \/ CpuStep(c) PROVE Shape'
    BY <2>1, CountStepShape, FlowStepShape, RingStepShape DEF CpuStep
  <2>2. CASE DrainStep
    BY <2>2, RingStepShape
  <2>3. CASE EditBlacklist
    BY <2>3, Constants DEF EditBlacklist, Shape, MapShape, CpuShape, UserShape,
       cpuVars, userVars, histVars
  <2>4. CASE Tick
    BY <2>4, Constants DEF Tick, Shape, MapShape, CpuShape, UserShape,
       mapVars, cpuVars, userVars, histVars
  <2>5. CASE UNCHANGED vars
    BY <2>5 DEF vars, Shape, MapShape, CpuShape, UserShape, mapVars, cpuVars,
       userVars, histVars
  <2>6. QED
    BY <2>1, <2>2, <2>3, <2>4, <2>5 DEF Next
<1>3. QED
  BY <1>1, <1>2, PTL DEF Spec

-----------------------------------------------------------------------------
(* Counting CPUs.                                                          *)

\* One CPU enters or leaves a set of CPUs.
LEMMA OneCpu ==
    ASSUME NEW S, S \subseteq Cpus, NEW T, T \subseteq Cpus, NEW c \in Cpus,
           \A b \in Cpus : b # c => (b \in T <=> b \in S)
    PROVE  /\ Cardinality(S) \in Nat /\ Cardinality(T) \in Nat
           /\ c \in S /\ c \in T => Cardinality(T) = Cardinality(S)
           /\ c \notin S /\ c \notin T => Cardinality(T) = Cardinality(S)
           /\ c \in S /\ c \notin T => Cardinality(T) = Cardinality(S) - 1
           /\ c \notin S /\ c \in T => Cardinality(T) = Cardinality(S) + 1
<1>1. IsFiniteSet(S) /\ IsFiniteSet(T)
  BY CpusAssumption, FS_Subset
<1>2. Cardinality(S) \in Nat /\ Cardinality(T) \in Nat
  BY <1>1, FS_CardinalityType
<1>3. ASSUME (c \in S) <=> (c \in T) PROVE T = S
  BY <1>3
<1>4. ASSUME c \in S, c \notin T PROVE T = S \ {c}
  BY <1>4
<1>5. ASSUME c \notin S, c \in T PROVE T = S \cup {c}
  BY <1>5
<1>6. ASSUME c \in S, c \notin T PROVE Cardinality(T) = Cardinality(S) - 1
  BY <1>1, <1>4, <1>6, FS_RemoveElement
<1>7. ASSUME c \notin S, c \in T PROVE Cardinality(T) = Cardinality(S) + 1
  BY <1>1, <1>5, <1>7, FS_AddElement
<1>8. QED
  BY <1>2, <1>3, <1>6, <1>7

\* The stretch of xdp_kwatch_prog before a packet is counted, before its flow
\* is looked up, before it is stored with the flow, before it is reported.
BeforeCount == {"blacklist", "lookup"}
BeforeFlow == BeforeCount \cup {"add", "insert", "flow"}
FlowWork == {"flowInsert", "window", "reset", "clear", "touch"}
BeforeStore == BeforeFlow \cup FlowWork
BeforeEmit == BeforeStore \cup {"emit"}

CpusAt(L) == {c \in Cpus : pc[c] \in L}
InFlight(L) == Cardinality(CpusAt(L))

\* What a step of xdp_kwatch_prog leaves to the other CPUs.
OthersStay(c) ==
    \A b \in Cpus : b # c => /\ pc'[b] = pc[b] /\ key'[b] = key[b]
                             /\ pkt'[b] = pkt[b] /\ ptr'[b] = ptr[b]

LEMMA CpuStepFrame ==
    ASSUME Shape, NEW c \in Cpus, Receive(c) \/ CpuStep(c)
    PROVE  OthersStay(c)
<1> USE DEF OthersStay, Shape, CpuShape, Goto
<1>1. CASE Receive(c)
  BY <1>1 DEF Receive
<1>2. CASE LookupBlacklist(c) \/ LookupCount(c) \/ AddCount(c) \/ InsertCount(c)
  BY <1>2 DEF LookupBlacklist, LookupCount, AddCount, InsertCount
<1>3. CASE LookupFlow(c) \/ InsertFlow(c) \/ CheckWindow(c)
  BY <1>3 DEF LookupFlow, InsertFlow, CheckWindow
<1>4. CASE ResetFirstSeen(c) \/ ClearFlow(c) \/ TouchFlow(c)
  BY <1>4 DEF ResetFirstSeen, ClearFlow, TouchFlow
<1>5. CASE Emit(c) \/ Submit(c)
  BY <1>5 DEF Emit, Submit
<1>6. QED
  BY <1>1, <1>2, <1>3, <1>4, <1>5 DEF CpuStep

\* How the number of CPUs in a stretch changes with one CPU's step.
LEMMA Census ==
    ASSUME NEW c \in Cpus, OthersStay(c), NEW L
    PROVE  /\ InFlight(L) \in Nat /\ InFlight(L)' \in Nat
           /\ pc[c] \in L /\ pc'[c] \in L => InFlight(L)' = InFlight(L)
           /\ pc[c] \notin L /\ pc'[c] \notin L => InFlight(L)' = InFlight(L)
           /\ pc[c] \in L /\ pc'[c] \notin L => InFlight(L)' = InFlight(L) - 1
           /\ pc[c] \notin L /\ pc'[c] \in L => InFlight(L)' = InFlight(L) + 1
<1> DEFINE S == CpusAt(L)
           T == CpusAt(L)'
<1>1. S \subseteq Cpus /\ T \subseteq Cpus
  BY DEF CpusAt
<1>2. \A b \in Cpus : b # c => (b \in T <=> b \in S)
  BY DEF CpusAt, OthersStay
<1>3. (c \in S <=> pc[c] \in L) /\ (c \in T <=> pc'[c] \in L)
  BY DEF CpusAt
<1>4. InFlight(L) = Cardinality(S) /\ InFlight(L)' = Cardinality(T)
  BY DEF InFlight
<1> HIDE DEF S, T
<1>5. QED
  BY <1>1, <1>2, <1>3, <1>4, OneCpu

\* The program runs forward: it enters a stretch by receiving a packet only.
LEMMA Forward ==
    ASSUME Shape, NEW c \in Cpus, CpuStep(c)
    PROVE  /\ pc'[c] \in BeforeCount => pc[c] \in BeforeCount
           /\ pc'[c] \in BeforeFlow => pc[c] \in BeforeFlow
           /\ pc'[c] \in BeforeStore => pc[c] \in BeforeStore
           /\ pc'[c] \in BeforeEmit => pc[c] \in BeforeEmit
<1> USE DEF BeforeCount, BeforeFlow, BeforeStore, BeforeEmit, FlowWork
<1>1. pc \in [Cpus -> Labels]
  BY DEF Shape, CpuShape
<1>2. AfterCount(c) \in {"emit", "flow", "idle"}
  BY DEF AfterCount
<1>3. CASE LookupBlacklist(c) \/ LookupCount(c) \/ AddCount(c) \/ InsertCount(c)
  BY <1>1, <1>2, <1>3 DEF LookupBlacklist, LookupCount, AddCount, InsertCount,
     Goto
<1>4. CASE LookupFlow(c) \/ InsertFlow(c) \/ CheckWindow(c)
  BY <1>1, <1>4 DEF LookupFlow, InsertFlow, CheckWindow, Goto
<1>5. CASE ResetFirstSeen(c) \/ ClearFlow(c) \/ TouchFlow(c)
  BY <1>1, <1>5 DEF ResetFirstSeen, ClearFlow, TouchFlow, Goto
<1>6. CASE Emit(c) \/ Submit(c)
  BY <1>1, <1>6 DEF Emit, Submit, Goto
<1>7. QED
  BY <1>3, <1>4, <1>5, <1>6 DEF CpuStep

\* A packet is counted, looked up, stored and reported at most once.
SeenBound == \A k \in Keys : seen[k] + InFlight(BeforeCount) <= received
SynsBound == syns + InFlight(BeforeFlow) <= received
StoredBound ==
    \A s \in Slots : /\ slots[s].syn + InFlight(BeforeStore) <= received
                     /\ slots[s].ack + InFlight(BeforeStore) <= received
AttemptsBound == attempts + InFlight(BeforeEmit) <= received
Bounds == SeenBound /\ SynsBound /\ StoredBound /\ AttemptsBound

\* What the flow accounting does to the numbers of a slot.
LEMMA StoreEffect ==
    ASSUME Shape, NEW c \in Cpus, CpuStep(c), NEW s \in Slots
    PROVE  \/ slots'[s].syn = slots[s].syn /\ slots'[s].ack = slots[s].ack
           \/ slots'[s].syn = 0 /\ slots'[s].ack = 0
           \/ /\ InsertFlow(c)
              /\ slots'[s].syn = pkt[c].syn /\ slots'[s].ack = pkt[c].ack
           \/ /\ TouchFlow(c) /\ s = ptr[c]
              /\ slots'[s].syn = slots[s].syn + pkt[c].syn
              /\ slots'[s].ack = slots[s].ack + pkt[c].ack
<1>1. slots \in [Slots -> FlowRecords]
  BY DEF Shape, MapShape
<1>2. CASE InsertFlow(c)
  <2>1. slots'[s] \in {slots[s], EmptySlot,
                       [flow |-> pkt[c].flow, syn |-> pkt[c].syn,
                        ack |-> pkt[c].ack, first |-> now[c], last |-> now[c]]}
    BY <1>1, <1>2 DEF InsertFlow, Inserted
  <2>2. QED
    BY <1>2, <2>1 DEF EmptySlot
<1>3. CASE ResetFirstSeen(c)
  BY <1>1, <1>3 DEF ResetFirstSeen, FlowRecords
<1>4. CASE ClearFlow(c)
  BY <1>1, <1>4 DEF ClearFlow, FlowRecords
<1>5. CASE TouchFlow(c)
  <2>1. CASE s = ptr[c]
    <3> DEFINE v == slots[s]
               w == [v EXCEPT !.last = now[c], !.syn = @ + pkt[c].syn,
                              !.ack = @ + pkt[c].ack]
    <3>1. v \in FlowRecords
      BY <1>1
    <3>2. slots'[s] = w
      BY <1>1, <1>5, <2>1 DEF TouchFlow, SynIncrement
    <3> HIDE DEF v
    <3>3. w.syn = v.syn + pkt[c].syn /\ w.ack = v.ack + pkt[c].ack
      BY <3>1 DEF FlowRecords
    <3>4. QED
      BY <1>5, <2>1, <3>2, <3>3 DEF v
  <2>2. CASE s # ptr[c]
    BY <1>1, <1>5, <2>2 DEF TouchFlow
  <2>3. QED
    BY <2>1, <2>2
<1>6. CASE UNCHANGED slots
  BY <1>6
<1>7. QED
  BY <1>2, <1>3, <1>4, <1>5, <1>6
     DEF CpuStep, LookupBlacklist, LookupCount, AddCount, InsertCount,
         LookupFlow, CheckWindow, Emit, Submit, mapVars

\* The common argument: a counter goes up by one only when the CPU leaves the
\* stretch before it.
LEMMA BoundKept ==
    ASSUME NEW c \in Cpus, OthersStay(c), NEW L,
           pc'[c] \in L => pc[c] \in L,
           NEW r \in Nat, NEW x \in Nat, x + InFlight(L) <= r,
           NEW y \in Nat,
           y <= x \/ (y <= x + 1 /\ pc[c] \in L /\ pc'[c] \notin L)
    PROVE  y + InFlight(L)' <= r
<1>1. /\ InFlight(L) \in Nat /\ InFlight(L)' \in Nat
      /\ InFlight(L)' = InFlight(L) \/ InFlight(L)' = InFlight(L) - 1
      /\ pc[c] \in L /\ pc'[c] \notin L => InFlight(L)' = InFlight(L) - 1
  BY Census
<1>2. QED
  BY <1>1

LEMMA CpuStepBounds ==
    ASSUME Shape, Shape', Bounds, NEW c \in Cpus, CpuStep(c)
    PROVE  Bounds'
<1>1. OthersStay(c)
  BY CpuStepFrame
<1>2. received' = received /\ received \in Nat
  <2>1. received' = received
    BY DEF CpuStep, LookupBlacklist, LookupCount, AddCount, InsertCount,
       LookupFlow, InsertFlow, CheckWindow, ResetFirstSeen, ClearFlow,
       TouchFlow, Emit, Submit
  <2>2. QED
    BY SMTT(30), <2>1, Constants DEF Shape, UserShape
<1>3. pc \in [Cpus -> Labels] /\ pkt[c] \in Packets
  BY DEF Shape, CpuShape
<1>4. SeenBound'
  <2> SUFFICES ASSUME NEW k \in Keys
               PROVE  seen'[k] + InFlight(BeforeCount)' <= received
    BY <1>2 DEF SeenBound
  <2>1. /\ seen[k] \in Nat /\ seen'[k] \in Nat
        /\ seen[k] + InFlight(BeforeCount) <= received
    BY DEF Shape, UserShape, Bounds, SeenBound
  <2>2. CASE LookupCount(c)
    <3>1. pc[c] \in BeforeCount /\ pc'[c] \notin BeforeCount
      BY <1>3, <2>2 DEF LookupCount, Goto, BeforeCount
    <3>2. seen'[k] <= seen[k] + 1
      BY <2>1, <2>2 DEF LookupCount, Shape, UserShape
    <3>3. QED
      BY <1>1, <1>2, <2>1, <3>1, <3>2, BoundKept
  <2>3. CASE UNCHANGED seen
    <3>1. seen'[k] <= seen[k]
      BY <2>1, <2>3
    <3>2. QED
      BY <1>1, <1>2, <2>1, <3>1, Forward, BoundKept
  <2>4. QED
    BY <2>2, <2>3 DEF CpuStep, LookupBlacklist, AddCount, InsertCount,
       LookupFlow, InsertFlow, CheckWindow, ResetFirstSeen, ClearFlow,
       TouchFlow, Emit, Submit, histVars
<1>5. SynsBound'
  <2>1. /\ syns \in Nat /\ syns' \in Nat
        /\ syns + InFlight(BeforeFlow) <= received
    BY DEF Shape, UserShape, Bounds, SynsBound
  <2>2. CASE LookupFlow(c)
    <3>1. pc[c] \in BeforeFlow /\ pc'[c] \notin BeforeFlow
      BY <1>3, <2>2 DEF LookupFlow, Goto, BeforeFlow, BeforeCount
    <3>2. pkt[c].syn \in {0, 1} /\ syns' = syns + pkt[c].syn
      BY <1>3, <2>2, Constants DEF LookupFlow
    <3>3. syns' <= syns + 1
      BY <2>1, <3>2
    <3>4. QED
      BY <1>1, <1>2, <2>1, <3>1, <3>3, BoundKept DEF SynsBound
  <2>3. CASE UNCHANGED syns
    <3>1. syns' <= syns
      BY <2>1, <2>3
    <3>2. QED
      BY <1>1, <1>2, <2>1, <3>1, Forward, BoundKept DEF SynsBound
  <2>4. QED
    BY <2>2, <2>3 DEF CpuStep, LookupBlacklist, LookupCount, AddCount,
       InsertCount, InsertFlow, CheckWindow, ResetFirstSeen, ClearFlow,
       TouchFlow, Emit, Submit, histVars
<1>6. StoredBound'
  <2> SUFFICES ASSUME NEW s \in Slots
               PROVE  /\ slots'[s].syn + InFlight(BeforeStore)' <= received
                      /\ slots'[s].ack + InFlight(BeforeStore)' <= received
    BY <1>2 DEF StoredBound
  <2>1. /\ slots[s].syn \in Nat /\ slots[s].ack \in Nat
        /\ slots'[s].syn \in Nat /\ slots'[s].ack \in Nat
        /\ slots[s].syn + InFlight(BeforeStore) <= received
        /\ slots[s].ack + InFlight(BeforeStore) <= received
    BY DEF Shape, MapShape, FlowRecords, Bounds, StoredBound
  <2>2. pkt[c].syn \in {0, 1} /\ pkt[c].ack \in {0, 1}
    BY <1>3, Constants
  <2>3. CASE InsertFlow(c) \/ TouchFlow(c)
    <3>1. pc[c] \in BeforeStore /\ pc'[c] \notin BeforeStore
      BY <1>3, <2>3 DEF InsertFlow, TouchFlow, Goto, BeforeStore, BeforeFlow,
         BeforeCount, FlowWork
    <3>2. slots'[s].syn <= slots[s].syn + 1 /\ slots'[s].ack <= slots[s].ack + 1
      BY <2>1, <2>2, StoreEffect
    <3>3. QED
      BY <1>1, <1>2, <2>1, <3>1, <3>2, BoundKept
  <2>4. CASE ~(InsertFlow(c) \/ TouchFlow(c))
    <3>1. slots'[s].syn <= slots[s].syn /\ slots'[s].ack <= slots[s].ack
      BY <2>1, <2>4, StoreEffect
    <3>2. QED
      BY <1>1, <1>2, <2>1, <3>1, Forward, BoundKept
  <2>5. QED
    BY <2>3, <2>4
<1>7. AttemptsBound'
  <2>1. /\ attempts \in Nat /\ attempts' \in Nat
        /\ attempts + InFlight(BeforeEmit) <= received
    BY DEF Shape, UserShape, Bounds, AttemptsBound
  <2>2. CASE Emit(c)
    <3>1. pc[c] \in BeforeEmit /\ pc'[c] \notin BeforeEmit
      BY <1>3, <2>2 DEF Emit, Goto, BeforeEmit, BeforeStore, BeforeFlow,
         BeforeCount, FlowWork
    <3>2. attempts' <= attempts + 1
      BY <2>1, <2>2 DEF Emit
    <3>3. QED
      BY <1>1, <1>2, <2>1, <3>1, <3>2, BoundKept DEF AttemptsBound
  <2>3. CASE UNCHANGED attempts
    <3>1. attempts' <= attempts
      BY <2>1, <2>3
    <3>2. QED
      BY <1>1, <1>2, <2>1, <3>1, Forward, BoundKept DEF AttemptsBound
  <2>4. QED
    BY <2>2, <2>3 DEF CpuStep, LookupBlacklist, LookupCount, AddCount,
       InsertCount, LookupFlow, InsertFlow, CheckWindow, ResetFirstSeen,
       ClearFlow, TouchFlow, Submit, histVars
<1>8. QED
  BY <1>4, <1>5, <1>6, <1>7 DEF Bounds

LEMMA ReceiveBounds ==
    ASSUME Shape, Bounds, NEW c \in Cpus, Receive(c)
    PROVE  Bounds'
<1>1. /\ UNCHANGED <<seen, syns, slots, attempts>>
      /\ received' = received + 1 /\ received \in Nat
  BY Constants DEF Receive, mapVars, histVars, Shape, UserShape
<1>2. ASSUME NEW L PROVE InFlight(L) \in Nat /\ InFlight(L)' \in Nat
                         /\ InFlight(L)' <= InFlight(L) + 1
  BY CpuStepFrame, Census
<1>3. ASSUME NEW L, NEW x \in Nat, x + InFlight(L) <= received
      PROVE  x + InFlight(L)' <= received'
  BY <1>1, <1>2, <1>3
<1>4. SeenBound' /\ SynsBound' /\ AttemptsBound'
  BY <1>1, <1>3 DEF Shape, UserShape, Bounds, SeenBound, SynsBound, AttemptsBound
<1>5. StoredBound'
  <2>1. \A s \in Slots : slots[s].syn \in Nat /\ slots[s].ack \in Nat
    BY DEF Shape, MapShape, FlowRecords
  <2>2. QED
    BY <1>1, <1>3, <2>1 DEF Bounds, StoredBound
<1>6. QED
  BY <1>4, <1>5 DEF Bounds

LEMMA BoundsInvariant == Spec => []Bounds
<1>1. Init => Bounds
  <2> SUFFICES ASSUME Init PROVE Bounds
    OBVIOUS
  <2>1. ASSUME NEW L \in {BeforeCount, BeforeFlow, BeforeStore, BeforeEmit}
        PROVE  InFlight(L) = 0
    <3>1. CpusAt(L) = {}
      BY <2>1 DEF Init, CpusAt, BeforeCount, BeforeFlow, BeforeStore,
         BeforeEmit, FlowWork
    <3>2. QED
      BY <3>1, FS_EmptySet DEF InFlight
  <2>2. QED
    BY <2>1 DEF Init, EmptySlot, Bounds, SeenBound, SynsBound, StoredBound,
       AttemptsBound
<1>2. Shape /\ Shape' /\ Bounds /\ [Next]_vars => Bounds'
  <2> SUFFICES ASSUME Shape, Shape', Bounds, [Next]_vars PROVE Bounds'
    OBVIOUS
  <2>1. ASSUME NEW c \in Cpus, Receive(c) \/ CpuStep(c) PROVE Bounds'
    BY <2>1, ReceiveBounds, CpuStepBounds
  <2>2. CASE UNCHANGED <<pc, received, seen, syns, slots, attempts>>
    BY <2>2 DEF Bounds, SeenBound, SynsBound, StoredBound, AttemptsBound,
       InFlight, CpusAt
  <2>3. QED
    BY <2>1, <2>2 DEF Next, DrainStep, StartDrain, DispatchEvent, EndDrain,
       EditBlacklist, Tick, vars, mapVars, cpuVars, histVars
<1>3. QED
  BY <1>1, <1>2, ShapeInvariant, PTL DEF Spec

-----------------------------------------------------------------------------
(* Events.                                                                 *)

\* The budget of one drain is part of what was handed over.
TakenBound == taken <= delivered

LEMMA RingStepAccounts ==
    ASSUME Shape, EventsAccounted,
           (\E c \in Cpus : Emit(c) \/ Submit(c)) \/ DispatchEvent
    PROVE  EventsAccounted'
<1>1. /\ ring \in Seq(Records) /\ Len(ring) \in Nat
      /\ drops \in Nat /\ dropped \in Nat /\ delivered \in Nat /\ attempts \in Nat
      /\ attempts = drops + dropped + delivered + Len(ring)
  BY LenProperties DEF Shape, MapShape, UserShape, EventsAccounted
<1>2. ASSUME NEW c \in Cpus, Emit(c) PROVE EventsAccounted'
  <2>1. UNCHANGED <<dropped, delivered>>
    BY <1>2 DEF Emit, userVars
  <2>2. CASE UNCHANGED <<ring, drops, attempts>>
    BY <2>1, <2>2, <1>1 DEF EventsAccounted
  <2>3. CASE attempts' = attempts + 1 /\ drops' = drops + 1 /\ ring' = ring
    BY <2>1, <2>3, <1>1 DEF EventsAccounted
  <2>4. CASE /\ attempts' = attempts + 1 /\ drops' = drops
             /\ ring' = Append(ring, [cpu |-> c, done |-> FALSE])
    <3>1. [cpu |-> c, done |-> FALSE] \in Records
      BY DEF Records
    <3>2. Len(ring') = Len(ring) + 1
      BY <1>1, <2>4, <3>1, AppendProperties
    <3>3. QED
      BY <1>1, <2>1, <2>4, <3>2 DEF EventsAccounted
  <2>5. QED
    BY <1>2, <2>2, <2>3, <2>4 DEF Emit, IncRingbufDrop
<1>3. ASSUME NEW c \in Cpus, Submit(c) PROVE EventsAccounted'
  <2>1. UNCHANGED <<drops, dropped, delivered, attempts>>
    BY <1>3 DEF Submit, userVars, histVars
  <2>2. Len(ring') = Len(ring)
    BY <1>1, <1>3, SubmitKeepsLength
  <2>3. QED
    BY <1>1, <2>1, <2>2 DEF EventsAccounted
<1>4. CASE DispatchEvent
  <2>1. Len(ring') = Len(ring) - 1
    BY <1>1, <1>4, HeadTailProperties DEF DispatchEvent
  <2>2. UNCHANGED <<drops, attempts>>
    BY <1>4 DEF DispatchEvent, histVars
  <2>3. CASE dropped' = dropped + 1 /\ delivered' = delivered
    BY <1>1, <2>1, <2>2, <2>3 DEF EventsAccounted
  <2>4. CASE dropped' = dropped /\ delivered' = delivered + 1
    BY <1>1, <2>1, <2>2, <2>4 DEF EventsAccounted
  <2>5. QED
    BY <1>4, <2>3, <2>4 DEF DispatchEvent
<1>5. QED
  BY <1>2, <1>3, <1>4

\* An event the program decided to report is in the ring, was handed over,
\* or is counted as lost: nothing goes missing unseen.
THEOREM NoEventUnaccounted == Spec => []EventsAccounted
<1>1. Init => EventsAccounted
  BY SMTT(30), EmptySeq DEF Init, EventsAccounted
<1>2. Shape /\ EventsAccounted /\ [Next]_vars => EventsAccounted'
  <2> SUFFICES ASSUME Shape, EventsAccounted, [Next]_vars
               PROVE  EventsAccounted'
    OBVIOUS
  <2>1. CASE (\E c \in Cpus : Emit(c) \/ Submit(c)) \/ DispatchEvent
    BY <2>1, RingStepAccounts
  <2>2. CASE UNCHANGED <<attempts, drops, dropped, delivered, ring>>
    BY <2>2 DEF EventsAccounted
  <2>3. QED
    BY ZenonT(30), <2>1, <2>2
       DEF Next, CpuStep, Receive, LookupBlacklist, LookupCount, AddCount,
           InsertCount, LookupFlow, InsertFlow, CheckWindow, ResetFirstSeen,
           ClearFlow, TouchFlow, DrainStep, StartDrain, EndDrain,
           EditBlacklist, Tick, vars, mapVars, userVars, histVars
<1>3. QED
  BY <1>1, <1>2, ShapeInvariant, PTL DEF Spec

LEMMA TakenInvariant == Spec => []TakenBound
<1>1. Init => TakenBound
  BY DEF Init, TakenBound
<1>2. Shape /\ TakenBound /\ [Next]_vars => TakenBound'
  <2> SUFFICES ASSUME Shape, TakenBound, [Next]_vars PROVE TakenBound'
    OBVIOUS
  <2>1. taken \in Nat /\ delivered \in Nat /\ taken <= delivered
    BY DEF Shape, UserShape, TakenBound
  <2>2. CASE UNCHANGED <<taken, delivered>>
    BY <2>2 DEF TakenBound
  <2>3. CASE StartDrain \/ EndDrain
    BY <2>1, <2>3 DEF StartDrain, EndDrain, TakenBound
  <2>4. CASE DispatchEvent
    BY <2>1, <2>4 DEF DispatchEvent, TakenBound
  <2>5. QED
    BY ZenonT(30), <2>2, <2>3, <2>4
       DEF Next, CpuStep, Receive, LookupBlacklist, LookupCount, AddCount,
           InsertCount, LookupFlow, InsertFlow, CheckWindow, ResetFirstSeen,
           ClearFlow, TouchFlow, Emit, Submit, DrainStep, EditBlacklist, Tick,
           vars, userVars
<1>3. QED
  BY <1>1, <1>2, ShapeInvariant, PTL DEF Spec

-----------------------------------------------------------------------------
(* Counters.                                                               *)

Pending(k) == {c \in Cpus : pc[c] \in {"add", "insert"} /\ key[c] = k}
Adding(k) == {c \in Cpus : pc[c] = "add" /\ key[c] = k}

\* Nothing is lost before the counter exists, and from then on only the CPUs
\* that had found it missing can lose a packet: later ones find it.
CountInv ==
    \A k \in Keys :
        /\ Adding(k) # {} => counts[k] > 0
        /\ counts[k] + Cardinality(Pending(k)) <= seen[k]
        /\ counts[k] = 0 /\ ~CountersFull => seen[k] = Cardinality(Pending(k))
        /\ counts[k] > 0 =>
             seen[k] <= counts[k] + Cardinality(Adding(k)) + Cardinality(Cpus) - 1

\* The two sets of CPUs that matter to a key, before and after a step of c.
LEMMA CountCensus ==
    ASSUME NEW c \in Cpus, OthersStay(c), NEW k
    PROVE  /\ Cardinality(Pending(k)) \in Nat /\ Cardinality(Pending(k)') \in Nat
           /\ Cardinality(Adding(k)) \in Nat /\ Cardinality(Adding(k)') \in Nat
           /\ LET in == c \in Pending(k)
                  out == c \in Pending(k)'
              IN  Cardinality(Pending(k)') = Cardinality(Pending(k))
                    + (IF out THEN 1 ELSE 0) - (IF in THEN 1 ELSE 0)
           /\ LET in == c \in Adding(k)
                  out == c \in Adding(k)'
              IN  Cardinality(Adding(k)') = Cardinality(Adding(k))
                    + (IF out THEN 1 ELSE 0) - (IF in THEN 1 ELSE 0)
<1>1. /\ Pending(k) \subseteq Cpus /\ Pending(k)' \subseteq Cpus
      /\ Adding(k) \subseteq Cpus /\ Adding(k)' \subseteq Cpus
  BY DEF Pending, Adding
<1>2. \A b \in Cpus : b # c => /\ (b \in Pending(k)' <=> b \in Pending(k))
                              /\ (b \in Adding(k)' <=> b \in Adding(k))
  BY DEF Pending, Adding, OthersStay
<1>3. QED
  BY <1>1, <1>2, OneCpu

\* A step that leaves the counters alone and neither takes c into inc_count's
\* second half nor out of it.
LEMMA NotCounting ==
    ASSUME CountInv, NEW c \in Cpus, OthersStay(c),
           pc[c] \notin {"add", "insert"}, pc'[c] \notin {"add", "insert"},
           UNCHANGED <<counts, seen>>
    PROVE  CountInv'
<1>1. CountersFull' = CountersFull
  BY DEF CountersFull
<1>2. ASSUME NEW k \in Keys
      PROVE  Pending(k)' = Pending(k) /\ Adding(k)' = Adding(k)
  BY DEF Pending, Adding, OthersStay
<1>3. QED
  BY <1>1, <1>2 DEF CountInv

\* A full pkt_counts stays as it is: entries are neither added nor removed.
LEMMA FullStays ==
    ASSUME Shape, CountInv, NEW c \in Cpus, AddCount(c) \/ InsertCount(c)
    PROVE  CountersFull => CountersFull'
<1> DEFINE Used == {k \in Keys : counts[k] > 0}
<1>1. counts \in [Keys -> Nat] /\ key[c] \in Keys
  BY DEF Shape, MapShape, CpuShape
<1>2. CASE AddCount(c)
  <2>1. counts[key[c]] > 0
    BY <1>1, <1>2 DEF AddCount, CountInv, Adding
  <2>2. counts' = [counts EXCEPT ![key[c]] = @ + 1]
    BY <1>2 DEF AddCount
  <2>3. Used' = Used
    BY <1>1, <2>1, <2>2
  <2>4. QED
    BY <2>3 DEF CountersFull
<1>3. CASE InsertCount(c) /\ CountersFull
  <2>1. counts' = [counts EXCEPT ![key[c]] = counts[key[c]]]
    BY <1>3 DEF InsertCount, NewCount
  <2>2. counts' = counts
    BY <1>1, <2>1
  <2>3. QED
    BY <1>3, <2>2 DEF CountersFull
<1>4. QED
  BY <1>2, <1>3

LEMMA LookupCountInv ==
    ASSUME Shape, CountInv, NEW c \in Cpus, LookupCount(c)
    PROVE  CountInv'
<1>1. OthersStay(c)
  BY CpuStepFrame DEF CpuStep
<1>2. /\ counts \in [Keys -> Nat] /\ seen \in [Keys -> Nat] /\ key[c] \in Keys
      /\ pc \in [Cpus -> Labels] /\ Cardinality(Cpus) \in Nat
  BY CpusAssumption, FS_CardinalityType DEF Shape, MapShape, CpuShape, UserShape
<1>3. /\ pc[c] = "lookup" /\ UNCHANGED <<counts, key>>
      /\ pc'[c] = IF counts[key[c]] > 0 THEN "add" ELSE "insert"
      /\ seen' = [seen EXCEPT ![key[c]] = @ + 1]
  BY <1>2 DEF LookupCount, Goto, mapVars
<1>4. CountersFull' = CountersFull
  BY <1>3 DEF CountersFull
<1> SUFFICES ASSUME NEW k \in Keys
             PROVE  /\ Adding(k)' # {} => counts[k] > 0
                    /\ counts[k] + Cardinality(Pending(k)') <= seen'[k]
                    /\ counts[k] = 0 /\ ~CountersFull
                         => seen'[k] = Cardinality(Pending(k)')
                    /\ counts[k] > 0 =>
                         seen'[k] <= counts[k] + Cardinality(Adding(k)')
                                       + Cardinality(Cpus) - 1
  BY <1>3, <1>4 DEF CountInv
<1>5. /\ Adding(k) # {} => counts[k] > 0
      /\ counts[k] + Cardinality(Pending(k)) <= seen[k]
      /\ counts[k] = 0 /\ ~CountersFull => seen[k] = Cardinality(Pending(k))
      /\ counts[k] > 0 =>
           seen[k] <= counts[k] + Cardinality(Adding(k)) + Cardinality(Cpus) - 1
  BY DEF CountInv
<1>6. c \notin Pending(k) /\ c \notin Adding(k)
  BY <1>3 DEF Pending, Adding
<1>7. CASE k = key[c]
  <2>1. /\ c \in Pending(k)' /\ (c \in Adding(k)' <=> counts[k] > 0)
        /\ seen'[k] = seen[k] + 1
    BY <1>2, <1>3, <1>7 DEF Pending, Adding
  <2>2. Adding(k)' # {} => counts[k] > 0
    BY <1>1, <1>5, <2>1 DEF Adding, OthersStay
  <2>3. /\ Cardinality(Pending(k)') = Cardinality(Pending(k)) + 1
        /\ Cardinality(Pending(k)) \in Nat /\ Cardinality(Adding(k)) \in Nat
        /\ counts[k] > 0 => Cardinality(Adding(k)') = Cardinality(Adding(k)) + 1
    BY <1>1, <1>6, <2>1, CountCensus
  <2>4. QED
    BY <1>2, <1>5, <2>1, <2>2, <2>3
<1>8. CASE k # key[c]
  <2>1. Pending(k)' = Pending(k) /\ Adding(k)' = Adding(k)
    BY <1>1, <1>3, <1>8 DEF Pending, Adding, OthersStay
  <2>2. seen'[k] = seen[k]
    BY <1>2, <1>3, <1>8
  <2>3. QED
    BY <1>5, <2>1, <2>2
<1>9. QED
  BY <1>7, <1>8

LEMMA StoreCountInv ==
    ASSUME Shape, CountInv, NEW c \in Cpus, AddCount(c) \/ InsertCount(c)
    PROVE  CountInv'
<1>1. OthersStay(c)
  BY CpuStepFrame DEF CpuStep
<1>2. /\ counts \in [Keys -> Nat] /\ seen \in [Keys -> Nat] /\ key[c] \in Keys
      /\ pc \in [Cpus -> Labels] /\ Cardinality(Cpus) \in Nat
  BY CpusAssumption, FS_CardinalityType DEF Shape, MapShape, CpuShape, UserShape
<1>3. pc'[c] \notin {"add", "insert"} /\ UNCHANGED <<seen, key>>
  <2>1. AfterCount(c) \notin {"add", "insert"}
    BY DEF AfterCount
  <2>2. QED
    BY <1>2, <2>1 DEF AddCount, InsertCount, Goto, histVars
<1> SUFFICES ASSUME NEW k \in Keys
             PROVE  /\ Adding(k)' # {} => counts'[k] > 0
                    /\ counts'[k] + Cardinality(Pending(k)') <= seen[k]
                    /\ counts'[k] = 0 /\ ~CountersFull'
                         => seen[k] = Cardinality(Pending(k)')
                    /\ counts'[k] > 0 =>
                         seen[k] <= counts'[k] + Cardinality(Adding(k)')
                                      + Cardinality(Cpus) - 1
  BY <1>3 DEF CountInv
<1>4. /\ Adding(k) # {} => counts[k] > 0
      /\ counts[k] + Cardinality(Pending(k)) <= seen[k]
      /\ counts[k] = 0 /\ ~CountersFull => seen[k] = Cardinality(Pending(k))
      /\ counts[k] > 0 =>
           seen[k] <= counts[k] + Cardinality(Adding(k)) + Cardinality(Cpus) - 1
  BY DEF CountInv
<1>5. Adding(k)' # {} => Adding(k) # {}
  BY <1>1, <1>3 DEF Adding, OthersStay
<1>6. CASE k # key[c]
  <2>1. Pending(k)' = Pending(k) /\ Adding(k)' = Adding(k)
    BY <1>1, <1>3, <1>6 DEF Pending, Adding, OthersStay
  <2>2. counts'[k] = counts[k]
    BY <1>2, <1>6 DEF AddCount, InsertCount
  <2>3. QED
    BY <1>4, <2>1, <2>2, FullStays
<1>7. CASE k = key[c]
  <2>1. c \in Pending(k) /\ c \notin Pending(k)' /\ c \notin Adding(k)'
    BY <1>3, <1>7 DEF Pending, Adding, AddCount, InsertCount
  <2>2. /\ Cardinality(Pending(k)') = Cardinality(Pending(k)) - 1
        /\ Cardinality(Pending(k)) \in Nat /\ Cardinality(Adding(k)) \in Nat
        /\ Cardinality(Adding(k)') \in Nat
        /\ c \in Adding(k) => Cardinality(Adding(k)') = Cardinality(Adding(k)) - 1
        /\ c \notin Adding(k) => Cardinality(Adding(k)') = Cardinality(Adding(k))
    BY <1>1, <2>1, CountCensus
  <2>3. CASE AddCount(c)
    <3>1. c \in Adding(k) /\ counts'[k] = counts[k] + 1
      BY <1>2, <1>7, <2>3 DEF AddCount, Adding
    <3>2. counts[k] > 0 /\ counts[k] \in Nat /\ seen[k] \in Nat
      BY <1>2, <1>4, <3>1
    <3>3. QED
      BY <1>2, <1>4, <2>2, <3>1, <3>2
  <2>4. CASE InsertCount(c)
    <3>1. c \notin Adding(k) /\ counts'[k] = NewCount(k)
      BY <1>2, <1>7, <2>4 DEF InsertCount, Adding
    <3>2. CASE counts[k] = 0 /\ ~CountersFull
      <4>1. counts'[k] = 1 /\ seen[k] = Cardinality(Pending(k))
        BY <1>4, <3>1, <3>2 DEF NewCount
      <4>2. Cardinality(Pending(k)) <= Cardinality(Cpus)
        BY CpusAssumption, FS_Subset DEF Pending
      <4>3. QED
        BY <1>2, <2>2, <4>1, <4>2
    <3>3. CASE ~(counts[k] = 0 /\ ~CountersFull)
      <4>1. counts'[k] = counts[k] /\ counts[k] \in Nat /\ seen[k] \in Nat
        BY <1>2, <3>1, <3>3 DEF NewCount
      <4>2. counts'[k] = 0 => CountersFull'
        BY <3>3, <4>1, FullStays
      <4>3. Cardinality(Adding(k)') = Cardinality(Adding(k))
        BY <2>2, <3>1
      <4>4. QED
        BY <1>2, <1>4, <1>5, <2>2, <4>1, <4>2, <4>3
    <3>4. QED
      BY <3>2, <3>3
  <2>5. QED
    BY <2>3, <2>4
<1>8. QED
  BY <1>6, <1>7

LEMMA CountInvariant == Spec => []CountInv
<1>1. Init => CountInv
  <2> SUFFICES ASSUME Init PROVE CountInv
    OBVIOUS
  <2>1. \A k : Pending(k) = {} /\ Adding(k) = {}
    BY DEF Init, Pending, Adding
  <2>2. Cardinality(Cpus) \in Nat \ {0}
    BY CpusAssumption, FS_CardinalityType, FS_EmptySet
  <2>3. \A k \in Keys : counts[k] = 0 /\ seen[k] = 0
    BY DEF Init
  <2>4. \A k : Cardinality(Pending(k)) = 0 /\ Cardinality(Adding(k)) = 0
    BY <2>1, FS_EmptySet
  <2>5. QED
    BY <2>1, <2>2, <2>3, <2>4 DEF CountInv
<1>2. Shape /\ CountInv /\ [Next]_vars => CountInv'
  <2> SUFFICES ASSUME Shape, CountInv, [Next]_vars PROVE CountInv'
    OBVIOUS
  <2>1. ASSUME NEW c \in Cpus, Receive(c) \/ CpuStep(c) PROVE CountInv'
    <3>1. CASE LookupCount(c)
      BY <3>1, LookupCountInv
    <3>2. CASE AddCount(c) \/ InsertCount(c)
      BY <3>2, StoreCountInv
    <3>3. CASE ~(LookupCount(c) \/ AddCount(c) \/ InsertCount(c))
      <4>1. pc \in [Cpus -> Labels]
        BY DEF Shape, CpuShape
      <4>2. UNCHANGED <<counts, seen>>
        BY <2>1, <3>3 DEF Receive, CpuStep, LookupBlacklist, LookupFlow,
           InsertFlow, CheckWindow, ResetFirstSeen, ClearFlow, TouchFlow,
           Emit, Submit, mapVars, histVars
      <4>3. pc[c] \notin {"add", "insert"}
        BY <2>1, <3>3 DEF Receive, CpuStep, LookupBlacklist, LookupFlow,
           InsertFlow, CheckWindow, ResetFirstSeen, ClearFlow, TouchFlow,
           Emit, Submit
      <4>4. pc'[c] \notin {"add", "insert"}
        <5>1. CASE Receive(c)
          <6>1. PICK p \in Packets :
                  Goto(c, CASE p.kind = "ip" -> "blacklist"
                            [] p.kind = "count" -> "lookup"
                            [] p.kind = "pass" -> "idle")
            BY <5>1 DEF Receive
          <6>2. p.kind \in {"ip", "count", "pass"}
            BY Constants
          <6>3. QED
            BY <4>1, <6>1, <6>2 DEF Goto
        <5>2. CASE CpuStep(c)
          BY <3>3, <4>1, <5>2 DEF CpuStep, LookupBlacklist, LookupFlow,
             InsertFlow, CheckWindow, ResetFirstSeen, ClearFlow, TouchFlow,
             Emit, Submit, Goto
        <5>3. QED
          BY <2>1, <5>1, <5>2
      <4>5. QED
        BY <2>1, <4>2, <4>3, <4>4, CpuStepFrame, NotCounting
    <3>4. QED
      BY <3>1, <3>2, <3>3
  <2>2. CASE UNCHANGED <<pc, key, counts, seen>>
    BY <2>2 DEF CountInv, Pending, Adding, CountersFull
  <2>3. QED
    BY <2>1, <2>2 DEF Next, DrainStep, StartDrain, DispatchEvent, EndDrain,
       EditBlacklist, Tick, vars, mapVars, cpuVars, histVars
<1>3. QED
  BY <1>1, <1>2, ShapeInvariant, PTL DEF Spec

\* A counter never shows a packet that did not come, and loses less than one
\* packet per CPU in its life, unless pkt_counts had no room for it at all.
THEOREM CountsAlmostExact == Spec => []CountLossBounded
<1>1. Shape /\ CountInv => CountLossBounded
  <2> SUFFICES ASSUME Shape, CountInv, NEW k \in Keys
               PROVE  /\ counts[k] + Cardinality(Pending(k)) <= seen[k]
                      /\ \/ seen[k] <= counts[k] + Cardinality(Pending(k))
                                         + Cardinality(Cpus) - 1
                         \/ counts[k] = 0 /\ CountersFull
    BY DEF CountLossBounded, Pending
  <2>1. /\ IsFiniteSet(Pending(k)) /\ Adding(k) \subseteq Pending(k)
    BY CpusAssumption, FS_Subset DEF Pending, Adding
  <2>2. /\ Cardinality(Pending(k)) \in Nat /\ Cardinality(Adding(k)) \in Nat
        /\ Cardinality(Adding(k)) <= Cardinality(Pending(k))
        /\ Cardinality(Cpus) \in Nat /\ Cardinality(Cpus) # 0
    BY <2>1, CpusAssumption, FS_Subset, FS_CardinalityType, FS_EmptySet
  <2>3. counts[k] \in Nat /\ seen[k] \in Nat
    BY DEF Shape, MapShape, UserShape
  <2>4. /\ counts[k] + Cardinality(Pending(k)) <= seen[k]
        /\ counts[k] = 0 /\ ~CountersFull => seen[k] = Cardinality(Pending(k))
        /\ counts[k] > 0 =>
             seen[k] <= counts[k] + Cardinality(Adding(k)) + Cardinality(Cpus) - 1
    BY DEF CountInv
  <2>5. QED
    BY <2>2, <2>3, <2>4
<1>2. QED
  BY <1>1, ShapeInvariant, CountInvariant, PTL

\* The type invariant, with every number of packets bounded by the packets
\* received.
THEOREM TypeCorrect == Spec => []TypeOK
<1>1. Shape /\ Bounds /\ EventsAccounted /\ TakenBound /\ CountInv => TypeOK
  <2> SUFFICES ASSUME Shape, Bounds, EventsAccounted, TakenBound, CountInv
               PROVE  TypeOK
    OBVIOUS
  <2>1. \A L : InFlight(L) \in Nat
    BY CpusAssumption, FS_Subset, FS_CardinalityType DEF InFlight, CpusAt
  <2>2. \A k : Cardinality(Pending(k)) \in Nat
    BY CpusAssumption, FS_Subset, FS_CardinalityType DEF Pending
  <2>3. MaxPackets \in Nat /\ received \in Nat /\ received <= MaxPackets
    BY Constants DEF Shape, UserShape
  <2>4. seen \in [Keys -> 0..MaxPackets] /\ counts \in [Keys -> 0..MaxPackets]
    <3>1. ASSUME NEW k \in Keys
          PROVE  seen[k] \in 0..MaxPackets /\ counts[k] \in 0..MaxPackets
      <4>1. seen[k] \in Nat /\ counts[k] \in Nat
        BY DEF Shape, UserShape, MapShape
      <4>2. /\ seen[k] + InFlight(BeforeCount) <= received
            /\ counts[k] + Cardinality(Pending(k)) <= seen[k]
        BY DEF Bounds, SeenBound, CountInv
      <4>3. QED
        BY <2>1, <2>2, <2>3, <4>1, <4>2
    <3>2. QED
      BY <3>1 DEF Shape, UserShape, MapShape
  <2>5. slots \in [Slots -> [flow : FlowNames \cup {NoFlow},
                             syn : 0..MaxPackets, ack : 0..MaxPackets,
                             first : 0..MaxTime, last : 0..MaxTime]]
    <3>1. ASSUME NEW s \in Slots
          PROVE  slots[s].syn \in 0..MaxPackets /\ slots[s].ack \in 0..MaxPackets
      <4>1. slots[s].syn \in Nat /\ slots[s].ack \in Nat
        BY DEF Shape, MapShape, FlowRecords
      <4>2. /\ slots[s].syn + InFlight(BeforeStore) <= received
            /\ slots[s].ack + InFlight(BeforeStore) <= received
        BY DEF Bounds, StoredBound
      <4>3. QED
        BY <2>1, <2>3, <4>1, <4>2
    <3>2. QED
      BY <3>1 DEF Shape, MapShape, FlowRecords
  <2>6. /\ attempts \in 0..MaxPackets /\ syns \in 0..MaxPackets
        /\ drops \in 0..MaxPackets /\ dropped \in 0..MaxPackets
        /\ delivered \in 0..MaxPackets /\ taken \in 0..MaxPackets
    <3>1. /\ attempts \in Nat /\ syns \in Nat /\ drops \in Nat
          /\ dropped \in Nat /\ delivered \in Nat /\ taken \in Nat
          /\ Len(ring) \in Nat
      BY LenProperties DEF Shape, MapShape, UserShape
    <3>2. /\ attempts + InFlight(BeforeEmit) <= received
          /\ syns + InFlight(BeforeFlow) <= received
      BY DEF Bounds, AttemptsBound, SynsBound
    <3>3. attempts <= MaxPackets /\ syns <= MaxPackets
      BY <2>1, <2>3, <3>1, <3>2
    <3>4. attempts = drops + dropped + delivered + Len(ring) /\ taken <= delivered
      BY DEF EventsAccounted, TakenBound
    <3>5. QED
      BY <2>3, <3>1, <3>3, <3>4
  <2>7. QED
    BY <2>4, <2>5, <2>6 DEF TypeOK, Shape, MapShape, CpuShape, UserShape,
       Labels, Records
<1>2. QED
  BY <1>1, ShapeInvariant, BoundsInvariant, NoEventUnaccounted, TakenInvariant,
     CountInvariant, PTL

-----------------------------------------------------------------------------
(* SYNs.                                                                   *)

SynsIn(D, f) == UNION {{s} \X (1..f[s].syn) : s \in D}

\* Slots whose SYN count did not grow add no SYN, and one slot whose count
\* grew by one adds one.
LEMMA SynsGrow ==
    ASSUME NEW D, NEW f, NEW g, NEW t, NEW n,
           \A s \in D : f[s].syn \in Nat /\ g[s].syn \in Nat,
           \A s \in D : \/ g[s].syn <= f[s].syn
                        \/ s = t /\ g[s].syn = n /\ n <= f[s].syn + 1
    PROVE  SynsIn(D, g) \subseteq SynsIn(D, f) \cup {<<t, n>>}
<1> SUFFICES ASSUME NEW x \in SynsIn(D, g), x \notin SynsIn(D, f)
             PROVE  x = <<t, n>>
  OBVIOUS
<1>1. PICK s \in D : x \in {s} \X (1..g[s].syn)
  BY DEF SynsIn
<1>2. PICK i \in 1..g[s].syn : x = <<s, i>>
  BY <1>1
<1>3. i \notin 1..f[s].syn
  <2>1. ASSUME i \in 1..f[s].syn PROVE x \in {s} \X (1..f[s].syn)
    BY <1>2, <2>1
  <2>2. QED
    BY <2>1 DEF SynsIn
<1>4. s = t /\ i = n
  BY <1>2, <1>3
<1>5. QED
  BY <1>2, <1>4

LEMMA SynsStay ==
    ASSUME NEW D, NEW f, NEW g,
           \A s \in D : f[s].syn \in Nat /\ g[s].syn \in Nat,
           \A s \in D : g[s].syn <= f[s].syn
    PROVE  SynsIn(D, g) \subseteq SynsIn(D, f)
<1> SUFFICES ASSUME NEW x \in SynsIn(D, g) PROVE x \in SynsIn(D, f)
  OBVIOUS
<1>1. PICK s \in D : x \in {s} \X (1..g[s].syn)
  BY DEF SynsIn
<1>2. PICK i \in 1..g[s].syn : x = <<s, i>>
  BY <1>1
<1>3. x \in {s} \X (1..f[s].syn)
  BY <1>2
<1>4. QED
  BY <1>3 DEF SynsIn

\* The CPUs that have seen a SYN and are still to put it on record.
SynsAhead == {c \in Cpus : pc[c] \in FlowWork /\ pkt[c].syn = 1}

\* What is on record and what is still to be put there has come.
SynInv ==
    /\ IsFiniteSet(SynsOnRecord)
    /\ Cardinality(SynsOnRecord) + Cardinality(SynsAhead) <= syns

\* A step of a CPU puts nothing on record but the SYN of its own packet.
LEMMA SynsRecorded ==
    ASSUME Shape, Shape', NEW c \in Cpus, CpuStep(c)
    PROVE  \/ SynsOnRecord' \subseteq SynsOnRecord
           \/ /\ InsertFlow(c) \/ TouchFlow(c)
              /\ pkt[c].syn = 1
              /\ \E x : SynsOnRecord' \subseteq SynsOnRecord \cup {x}
<1>1. \A s \in Slots : slots[s].syn \in Nat /\ slots'[s].syn \in Nat
  BY DEF Shape, MapShape, FlowRecords
<1>2. SynsOnRecord = SynsIn(Slots, slots) /\ SynsOnRecord' = SynsIn(Slots, slots')
  BY DEF SynsOnRecord, SynsIn
<1>3. pkt[c] \in Packets /\ pkt[c].syn \in {0, 1}
  BY Constants DEF Shape, CpuShape
<1>4. CASE \A s \in Slots : slots'[s].syn <= slots[s].syn
  BY <1>1, <1>2, <1>4, SynsStay
<1>5. CASE \E s \in Slots : ~(slots'[s].syn <= slots[s].syn)
  <2>1. PICK t \in Slots : ~(slots'[t].syn <= slots[t].syn)
    BY <1>5
  <2>2. \/ slots'[t].syn = slots[t].syn \/ slots'[t].syn = 0
        \/ InsertFlow(c) /\ slots'[t].syn = pkt[c].syn
        \/ TouchFlow(c) /\ t = ptr[c] /\ slots'[t].syn = slots[t].syn + pkt[c].syn
    BY StoreEffect
  <2>3. slots[t].syn \in Nat /\ slots'[t].syn \in Nat
    BY <1>1
  <2>4. InsertFlow(c) \/ (TouchFlow(c) /\ t = ptr[c])
    BY <2>1, <2>2, <2>3
  <2>5. pkt[c].syn = 1 /\ slots'[t].syn <= slots[t].syn + 1
    BY <1>3, <2>1, <2>2, <2>3
  <2>6. \A s \in Slots : s # t => slots'[s].syn <= slots[s].syn
    <3>1. CASE InsertFlow(c)
      <4>1. PICK r \in Slots : \A s \in Slots : s # r => slots'[s] = slots[s]
        BY <2>1, <3>1 DEF InsertFlow, Shape, MapShape
      <4>2. r = t
        BY <1>1, <2>1, <4>1
      <4>3. QED
        BY <1>1, <4>1, <4>2
    <3>2. CASE TouchFlow(c) /\ t = ptr[c]
      <4>1. \A s \in Slots : s # ptr[c] => slots'[s] = slots[s]
        BY <3>2 DEF TouchFlow, Shape, MapShape
      <4>2. QED
        BY <1>1, <3>2, <4>1
    <3>3. QED
      BY <2>4, <3>1, <3>2
  <2>7. SynsOnRecord' \subseteq SynsOnRecord \cup {<<t, slots'[t].syn>>}
    <3>1. PICK n : n = slots'[t].syn
      OBVIOUS
    <3>2. \A s \in Slots : \/ slots'[s].syn <= slots[s].syn
                           \/ s = t /\ slots'[s].syn = n /\ n <= slots[s].syn + 1
      BY <2>5, <2>6, <3>1
    <3>3. SynsIn(Slots, slots') \subseteq SynsIn(Slots, slots) \cup {<<t, n>>}
      BY <1>1, <3>2, SynsGrow
    <3>4. QED
      BY <1>2, <3>1, <3>3
  <2>8. QED
    BY <2>4, <2>5, <2>7
<1>6. QED
  BY <1>4, <1>5

LEMMA SynInvariant == Spec => []SynInv
<1>1. Init => SynInv
  <2> SUFFICES ASSUME Init PROVE SynInv
    OBVIOUS
  <2>1. SynsOnRecord = {} /\ SynsAhead = {}
    BY DEF Init, SynsOnRecord, SynsAhead, EmptySlot, FlowWork
  <2>2. QED
    BY <2>1, FS_EmptySet DEF SynInv, Init
<1>2. Shape /\ Shape' /\ SynInv /\ [Next]_vars => SynInv'
  <2> SUFFICES ASSUME Shape, Shape', SynInv, [Next]_vars PROVE SynInv'
    OBVIOUS
  <2>1. ASSUME NEW c \in Cpus, Receive(c) \/ CpuStep(c) PROVE SynInv'
    <3>1. /\ Cardinality(SynsAhead) \in Nat /\ Cardinality(SynsAhead') \in Nat
          /\ Cardinality(SynsAhead') = Cardinality(SynsAhead)
               + (IF c \in SynsAhead' THEN 1 ELSE 0)
               - (IF c \in SynsAhead THEN 1 ELSE 0)
      <4>1. SynsAhead \subseteq Cpus /\ SynsAhead' \subseteq Cpus
        BY DEF SynsAhead
      <4>2. \A b \in Cpus : b # c => (b \in SynsAhead' <=> b \in SynsAhead)
        BY <2>1, CpuStepFrame DEF SynsAhead, OthersStay
      <4>3. QED
        BY <4>1, <4>2, OneCpu
    <3>2. /\ pc \in [Cpus -> Labels] /\ pkt \in [Cpus -> Packets]
          /\ syns \in Nat /\ syns' \in Nat
          /\ pkt[c].syn \in {0, 1}
      BY Constants DEF Shape, CpuShape, UserShape
    <3>3. Cardinality(SynsOnRecord) \in Nat
      BY FS_CardinalityType DEF SynInv
    <3>4. \A T : T \subseteq SynsOnRecord =>
                  /\ IsFiniteSet(T) /\ Cardinality(T) \in Nat
                  /\ Cardinality(T) <= Cardinality(SynsOnRecord)
      BY FS_Subset, FS_CardinalityType DEF SynInv
    <3>5. CASE Receive(c)
      <4>1. UNCHANGED <<slots, syns>>
        BY <3>5 DEF Receive, mapVars, histVars
      <4>2. c \notin SynsAhead'
        <5>1. PICK p \in Packets :
                Goto(c, CASE p.kind = "ip" -> "blacklist"
                          [] p.kind = "count" -> "lookup"
                          [] p.kind = "pass" -> "idle")
          BY <3>5 DEF Receive
        <5>2. p.kind \in {"ip", "count", "pass"}
          BY Constants
        <5>3. QED
          BY <3>2, <5>1, <5>2 DEF Goto, SynsAhead, FlowWork
      <4>3. SynsOnRecord' = SynsOnRecord
        BY <4>1 DEF SynsOnRecord
      <4>4. QED
        BY <3>1, <3>2, <3>3, <4>1, <4>2, <4>3 DEF SynInv
    <3>6. CASE LookupFlow(c)
      <4>1. slots' = slots /\ syns' = syns + pkt[c].syn /\ pkt' = pkt
            /\ pc[c] = "flow"
        BY <3>6 DEF LookupFlow, mapVars
      <4>2. c \notin SynsAhead /\ (c \in SynsAhead' => pkt[c].syn = 1)
        BY <4>1 DEF SynsAhead, FlowWork
      <4>3. SynsOnRecord' = SynsOnRecord
        BY <4>1 DEF SynsOnRecord
      <4>4. QED
        BY <3>1, <3>2, <3>3, <4>1, <4>2, <4>3 DEF SynInv
    <3>7. CASE InsertFlow(c) \/ TouchFlow(c)
      <4>1. /\ syns' = syns /\ pc[c] \in FlowWork /\ pc'[c] = "emit"
        BY <3>2, <3>7 DEF InsertFlow, TouchFlow, Goto, FlowWork, histVars
      <4>2. c \notin SynsAhead' /\ (pkt[c].syn = 1 => c \in SynsAhead)
        BY <4>1 DEF SynsAhead, FlowWork
      <4>3. CASE SynsOnRecord' \subseteq SynsOnRecord
        BY <3>1, <3>2, <3>3, <3>4, <4>1, <4>2, <4>3 DEF SynInv
      <4>4. CASE pkt[c].syn = 1 /\ \E x : SynsOnRecord' \subseteq SynsOnRecord \cup {x}
        <5>1. PICK x : SynsOnRecord' \subseteq SynsOnRecord \cup {x}
          BY <4>4
        <5>2. /\ IsFiniteSet(SynsOnRecord \cup {x})
              /\ Cardinality(SynsOnRecord \cup {x}) \in Nat
              /\ Cardinality(SynsOnRecord \cup {x}) <= Cardinality(SynsOnRecord) + 1
          <6>1. IsFiniteSet(SynsOnRecord)
            BY DEF SynInv
          <6>2. /\ IsFiniteSet(SynsOnRecord \cup {x})
                /\ Cardinality(SynsOnRecord \cup {x}) \in
                     {Cardinality(SynsOnRecord), Cardinality(SynsOnRecord) + 1}
            BY <6>1, FS_AddElement
          <6>3. QED
            BY <3>3, <6>2
        <5>3. /\ IsFiniteSet(SynsOnRecord') /\ Cardinality(SynsOnRecord') \in Nat
              /\ Cardinality(SynsOnRecord') <= Cardinality(SynsOnRecord \cup {x})
          BY <5>1, <5>2, FS_Subset, FS_CardinalityType
        <5>4. QED
          BY <3>1, <3>2, <3>3, <4>1, <4>2, <4>4, <5>2, <5>3 DEF SynInv
      <4>5. QED
        BY <3>7, <4>3, <4>4, SynsRecorded DEF CpuStep
    <3>8. CASE CpuStep(c) /\ ~(LookupFlow(c) \/ InsertFlow(c) \/ TouchFlow(c))
      <4>1. syns' = syns /\ pkt' = pkt
        BY <3>8 DEF CpuStep, LookupBlacklist, LookupCount, AddCount, InsertCount,
           CheckWindow, ResetFirstSeen, ClearFlow, Emit, Submit, histVars
      <4>2. pc'[c] \in FlowWork => pc[c] \in FlowWork
        <5>1. AfterCount(c) \in {"emit", "flow", "idle"}
          BY DEF AfterCount
        <5>2. QED
          BY <3>2, <3>8, <5>1 DEF CpuStep, LookupBlacklist, LookupCount, AddCount,
             InsertCount, CheckWindow, ResetFirstSeen, ClearFlow, Emit, Submit,
             Goto, FlowWork
      <4>3. SynsOnRecord' \subseteq SynsOnRecord
        BY <3>8, SynsRecorded
      <4>4. c \in SynsAhead' => c \in SynsAhead
        BY <4>1, <4>2 DEF SynsAhead
      <4>5. QED
        BY <3>1, <3>2, <3>3, <3>4, <4>1, <4>3, <4>4 DEF SynInv
    <3>9. QED
      BY <2>1, <3>5, <3>6, <3>7, <3>8
  <2>2. CASE UNCHANGED <<slots, syns, pc, pkt>>
    BY <2>2 DEF SynInv, SynsOnRecord, SynsAhead
  <2>3. QED
    BY <2>1, <2>2 DEF Next, DrainStep, StartDrain, DispatchEvent, EndDrain,
       EditBlacklist, Tick, vars, mapVars, cpuVars, histVars
<1>3. QED
  BY <1>1, <1>2, ShapeInvariant, PTL DEF Spec

\* The SYNs that flow_state shows have come: neither a lost creation race, nor
\* a window reset, nor an element that changed its flow between
\* bpf_map_lookup_elem and the addition makes one up.
THEOREM SynsAreReal == Spec => []NoPhantomSyn
<1>1. SynInv /\ Shape => NoPhantomSyn
  <2> SUFFICES ASSUME SynInv, Shape PROVE NoPhantomSyn
    OBVIOUS
  <2>1. Cardinality(SynsOnRecord) \in Nat
    BY FS_CardinalityType DEF SynInv
  <2>2. Cardinality(SynsAhead) \in Nat
    BY CpusAssumption, FS_Subset, FS_CardinalityType DEF SynsAhead
  <2>3. syns \in Nat
    BY DEF Shape, UserShape
  <2>4. QED
    BY <2>1, <2>2, <2>3 DEF SynInv, NoPhantomSyn
<1>2. QED
  BY <1>1, SynInvariant, ShapeInvariant, PTL

-----------------------------------------------------------------------------
(* Whose SYNs they are.  A CPU that holds a pointer to an element which is  *)
(* no longer its flow's is a stray: it may put one SYN on record that is    *)
(* not the element's.  An eviction makes strays of the other CPUs at most,  *)
(* and adding a SYN takes a stray away or was provided for by flowSyns.     *)

\* The stretch in which a CPU uses the pointer that the lookup returned.
PtrWork == {"window", "reset", "clear", "touch"}

Strays == {c \in Cpus : /\ pc[c] \in PtrWork /\ ptr[c] \in Slots
                        /\ slots[ptr[c]].flow # pkt[c].flow}

\* The CPUs that are still to put a SYN of flow f on record.
AheadOf(f) == {c \in Cpus : pc[c] \in FlowWork /\ pkt[c].syn = 1 /\ pkt[c].flow = f}

Allowance(f) == flowSyns[f] + evictions * (Cardinality(Cpus) - 1)

StrayInv ==
    \A f \in FlowNames :
        /\ IsFiniteSet(SynsOf(f))
        /\ Cardinality(SynsOf(f)) + Cardinality(AheadOf(f)) + Cardinality(Strays)
             <= Allowance(f)

\* Slots that f has lost take SYNs of f off the record.
LEMMA SynsOfFewer ==
    ASSUME NEW C, NEW D, C \subseteq D, NEW h
    PROVE  SynsIn(C, h) \subseteq SynsIn(D, h)
BY DEF SynsIn

\* What a step that leaves the flows of the elements alone does to the flow's
\* SYNs: TouchFlow adds at most one, to the flow of its element.
LEMMA TouchSyns ==
    ASSUME Shape, Shape', NEW c \in Cpus, CpuStep(c), ~InsertFlow(c), NEW f
    PROVE  /\ SlotsOf(f)' = SlotsOf(f)
           /\ \/ SynsOf(f)' \subseteq SynsOf(f)
              \/ /\ TouchFlow(c) /\ pkt[c].syn = 1
                 /\ ptr[c] \in Slots /\ slots[ptr[c]].flow = f
                 /\ \E x : SynsOf(f)' \subseteq SynsOf(f) \cup {x}
<1>1. slots \in [Slots -> FlowRecords] /\ slots' \in [Slots -> FlowRecords]
  BY DEF Shape, MapShape
<1>2. \A s \in Slots : slots'[s].flow = slots[s].flow
  <2>1. CASE ResetFirstSeen(c)
    BY <1>1, <2>1 DEF ResetFirstSeen, FlowRecords
  <2>2. CASE ClearFlow(c)
    BY <1>1, <2>2 DEF ClearFlow, FlowRecords
  <2>3. CASE TouchFlow(c)
    BY <1>1, <2>3 DEF TouchFlow, FlowRecords
  <2>4. CASE UNCHANGED slots
    BY <2>4
  <2>5. QED
    BY <2>1, <2>2, <2>3, <2>4
       DEF CpuStep, LookupBlacklist, LookupCount, AddCount, InsertCount,
           LookupFlow, CheckWindow, Emit, Submit, mapVars
<1>3. SlotsOf(f)' = SlotsOf(f)
  BY <1>2 DEF SlotsOf
<1> DEFINE D == SlotsOf(f)
<1>4. D \subseteq Slots /\ \A s \in D : slots[s].flow = f
  BY DEF SlotsOf
<1>5. SynsOf(f) = SynsIn(D, slots) /\ SynsOf(f)' = SynsIn(D, slots')
  BY <1>3 DEF SynsOf, SynsIn
<1>6. \A s \in D : slots[s].syn \in Nat /\ slots'[s].syn \in Nat
  BY <1>1, <1>4 DEF FlowRecords
<1>7. pkt[c].syn \in {0, 1}
  BY Constants DEF Shape, CpuShape
<1> HIDE DEF D
<1>8. CASE \A s \in D : slots'[s].syn <= slots[s].syn
  BY <1>3, <1>5, <1>6, <1>8, SynsStay
<1>9. CASE \E s \in D : ~(slots'[s].syn <= slots[s].syn)
  <2>1. PICK t \in D : ~(slots'[t].syn <= slots[t].syn)
    BY <1>9
  <2>2. \A s \in D :
          \/ slots'[s].syn = slots[s].syn \/ slots'[s].syn = 0
          \/ TouchFlow(c) /\ s = ptr[c] /\ slots'[s].syn = slots[s].syn + pkt[c].syn
    BY <1>4, StoreEffect
  <2>3. /\ TouchFlow(c) /\ t = ptr[c] /\ pkt[c].syn = 1
        /\ slots'[t].syn = slots[t].syn + 1
    BY <1>6, <1>7, <2>1, <2>2
  <2>4. PICK n : n = slots'[t].syn
    OBVIOUS
  <2>5. \A s \in D : \/ slots'[s].syn <= slots[s].syn
                     \/ s = t /\ slots'[s].syn = n /\ n <= slots[s].syn + 1
    BY <1>6, <2>2, <2>3, <2>4
  <2>6. SynsIn(D, slots') \subseteq SynsIn(D, slots) \cup {<<t, n>>}
    BY <1>6, <2>5, SynsGrow
  <2>7. QED
    BY <1>3, <1>4, <1>5, <2>3, <2>6
<1>10. QED
  BY <1>8, <1>9

\* The update of a new flow: the flow has the SYN of its first packet or what
\* it had, no other flow gains any, and an eviction is counted.
LEMMA InsertSyns ==
    ASSUME Shape, Shape', NEW c \in Cpus, InsertFlow(c), NEW f \in FlowNames
    PROVE  /\ \/ SynsOf(f)' \subseteq SynsOf(f)
              \/ /\ pkt[c].flow = f /\ pkt[c].syn = 1
                 /\ \E x : SynsOf(f)' \subseteq {x}
           /\ \/ evictions' = evictions + 1
              \/ evictions' = evictions /\ \A s \in Slots :
                    slots[s].flow # NoFlow => slots'[s].flow = slots[s].flow
<1>1. slots \in [Slots -> FlowRecords] /\ slots' \in [Slots -> FlowRecords]
  BY DEF Shape, MapShape
<1>2. pkt[c].syn \in {0, 1} /\ pkt[c].flow # NoFlow /\ f # NoFlow
  BY Constants, PacketsAssumption DEF Shape, CpuShape, IsPacket, FlowNames
<1>3. CASE UNCHANGED <<slots, evictions>>
  BY <1>3 DEF SynsOf, SlotsOf
<1>4. CASE ~UNCHANGED <<slots, evictions>>
  <2>1. PICK s \in Slots :
          /\ slots' = [slots EXCEPT ![s] = Inserted(c, s)]
          /\ evictions' = IF slots[s].flow \in {NoFlow, Inserted(c, s).flow}
                            THEN evictions ELSE evictions + 1
    BY <1>4 DEF InsertFlow
  <2>2. slots'[s] = Inserted(c, s) /\ \A t \in Slots : t # s => slots'[t] = slots[t]
    BY <1>1, <2>1
  <2>3. \/ evictions' = evictions + 1
        \/ evictions' = evictions /\ \A t \in Slots :
              slots[t].flow # NoFlow => slots'[t].flow = slots[t].flow
    BY <2>1, <2>2
  <2>4. CASE Inserted(c, s).flow # f
    <3>1. SlotsOf(f)' \subseteq SlotsOf(f) /\ s \notin SlotsOf(f)'
      BY <2>2, <2>4 DEF SlotsOf
    <3>2. SynsOf(f)' = SynsIn(SlotsOf(f)', slots)
      BY <2>2, <3>1 DEF SynsOf, SynsIn, SlotsOf
    <3>3. SynsOf(f) = SynsIn(SlotsOf(f), slots)
      BY DEF SynsOf, SynsIn
    <3>4. SynsOf(f)' \subseteq SynsOf(f)
      BY <3>1, <3>2, <3>3, SynsOfFewer
    <3>5. QED
      BY <2>3, <3>4
  <2>5. CASE Inserted(c, s).flow = f
    <3>1. /\ SlotsOf(pkt[c].flow) \ {s} = {} /\ pkt[c].flow = f
          /\ Inserted(c, s).syn = pkt[c].syn
      BY <1>2, <2>5 DEF Inserted, EmptySlot
    <3>2. SlotsOf(f)' = {s}
      BY <2>2, <2>5, <3>1 DEF SlotsOf
    <3>3. SynsOf(f)' = {s} \X (1..pkt[c].syn)
      BY <2>2, <3>1, <3>2 DEF SynsOf
    <3>4. CASE pkt[c].syn = 1
      <4>1. SynsOf(f)' \subseteq {<<s, 1>>}
        BY <3>3, <3>4
      <4>2. QED
        BY <2>3, <3>1, <3>4, <4>1
    <3>5. CASE pkt[c].syn = 0
      <4>1. SynsOf(f)' = {}
        BY <3>3, <3>5
      <4>2. QED
        BY <2>3, <4>1
    <3>6. QED
      BY <1>2, <3>4, <3>5
  <2>6. QED
    BY <2>4, <2>5
<1>5. QED
  BY <1>3, <1>4

LEMMA OneMore ==
    ASSUME NEW S, IsFiniteSet(S), NEW T, NEW x, T \subseteq S \cup {x}
    PROVE  /\ IsFiniteSet(T) /\ Cardinality(T) \in Nat /\ Cardinality(S) \in Nat
           /\ Cardinality(T) <= Cardinality(S) + 1
<1>1. Cardinality(S) \in Nat
  BY FS_CardinalityType
<1>2. /\ IsFiniteSet(S \cup {x})
      /\ Cardinality(S \cup {x}) \in {Cardinality(S), Cardinality(S) + 1}
  BY FS_AddElement
<1>3. /\ IsFiniteSet(T) /\ Cardinality(T) \in Nat
      /\ Cardinality(T) <= Cardinality(S \cup {x})
  BY <1>2, FS_Subset, FS_CardinalityType
<1>4. QED
  BY <1>1, <1>2, <1>3

LEMMA NoMore ==
    ASSUME NEW S, IsFiniteSet(S), NEW T, T \subseteq S
    PROVE  /\ IsFiniteSet(T) /\ Cardinality(T) \in Nat /\ Cardinality(S) \in Nat
           /\ Cardinality(T) <= Cardinality(S)
BY FS_Subset, FS_CardinalityType

LEMMA StrayInvariant == Spec => []StrayInv
<1>1. Init => StrayInv
  <2> SUFFICES ASSUME Init, NEW f \in FlowNames
               PROVE  /\ IsFiniteSet(SynsOf(f))
                      /\ Cardinality(SynsOf(f)) + Cardinality(AheadOf(f))
                           + Cardinality(Strays) <= Allowance(f)
    BY DEF StrayInv
  <2>1. SynsOf(f) = {} /\ AheadOf(f) = {} /\ Strays = {}
    BY DEF Init, SynsOf, SlotsOf, AheadOf, Strays, EmptySlot, FlowWork, PtrWork
  <2>2. Allowance(f) = 0
    <3>1. Cardinality(Cpus) \in Nat
      BY CpusAssumption, FS_CardinalityType
    <3>2. flowSyns[f] = 0 /\ evictions = 0
      BY DEF Init
    <3>3. QED
      BY <3>1, <3>2 DEF Allowance
  <2>3. QED
    BY <2>1, <2>2, FS_EmptySet
<1>2. Shape /\ Shape' /\ StrayInv /\ [Next]_vars => StrayInv'
  <2> SUFFICES ASSUME Shape, Shape', StrayInv, [Next]_vars PROVE StrayInv'
    OBVIOUS
  <2>1. ASSUME NEW c \in Cpus, Receive(c) \/ CpuStep(c), NEW f \in FlowNames
        PROVE  /\ IsFiniteSet(SynsOf(f)')
               /\ Cardinality(SynsOf(f)') + Cardinality(AheadOf(f)')
                    + Cardinality(Strays') <= Allowance(f)'
    <3> DEFINE n == Cardinality(Cpus) - 1
    <3>1. /\ n \in Nat /\ evictions \in Nat /\ evictions' \in Nat
          /\ flowSyns[f] \in Nat /\ flowSyns'[f] \in Nat
      <4>1. Cardinality(Cpus) \in Nat /\ Cardinality(Cpus) # 0
        BY CpusAssumption, FS_CardinalityType, FS_EmptySet
      <4>2. QED
        BY <4>1 DEF Shape, UserShape
    <3>2. /\ IsFiniteSet(SynsOf(f)) /\ Cardinality(SynsOf(f)) \in Nat
          /\ Cardinality(SynsOf(f)) + Cardinality(AheadOf(f)) + Cardinality(Strays)
               <= Allowance(f)
      BY FS_CardinalityType DEF StrayInv
    <3>3. OthersStay(c)
      BY <2>1, CpuStepFrame
    <3>4. /\ AheadOf(f) \subseteq Cpus /\ AheadOf(f)' \subseteq Cpus
          /\ \A b \in Cpus : b # c => (b \in AheadOf(f)' <=> b \in AheadOf(f))
      BY <3>3 DEF AheadOf, OthersStay
    <3>5. /\ Cardinality(AheadOf(f)) \in Nat /\ Cardinality(AheadOf(f)') \in Nat
          /\ Cardinality(AheadOf(f)') = Cardinality(AheadOf(f))
               + (IF c \in AheadOf(f)' THEN 1 ELSE 0)
               - (IF c \in AheadOf(f) THEN 1 ELSE 0)
      BY <3>4, OneCpu
    <3>6. /\ Strays \subseteq Cpus /\ Strays' \subseteq Cpus
          /\ Cardinality(Strays) \in Nat /\ Cardinality(Strays') \in Nat
      BY CpusAssumption, FS_Subset, FS_CardinalityType DEF Strays
    <3>7. /\ pc \in [Cpus -> Labels] /\ pkt \in [Cpus -> Packets]
          /\ ptr \in [Cpus -> Slots \cup {NoPtr}]
          /\ slots \in [Slots -> FlowRecords]
          /\ pkt[c].syn \in {0, 1} /\ pkt[c].flow \in FlowNames
      BY Constants DEF Shape, CpuShape, MapShape
    <3>8. /\ evictions' = evictions /\ flowSyns'[f] = flowSyns[f]
             => Allowance(f)' = Allowance(f)
          /\ evictions' = evictions + 1 /\ flowSyns'[f] = flowSyns[f]
             => Allowance(f)' = Allowance(f) + n
          /\ evictions' = evictions /\ flowSyns'[f] = flowSyns[f] + pkt[c].syn
             => Allowance(f)' = Allowance(f) + pkt[c].syn
          /\ Allowance(f) \in Nat
      <4>1. (evictions + 1) * n = evictions * n + n /\ evictions * n \in Nat
        BY <3>1
      <4>2. /\ Allowance(f) = flowSyns[f] + evictions * n
            /\ Allowance(f)' = flowSyns'[f] + evictions' * n
        BY DEF Allowance
      <4> HIDE DEF n
      <4>3. QED
        BY <3>1, <3>7, <4>1, <4>2
    <3> HIDE DEF n
    <3>9. ASSUME \A s \in Slots : slots'[s].flow = slots[s].flow
          PROVE  /\ \A b \in Cpus : b # c => (b \in Strays' <=> b \in Strays)
                 /\ Cardinality(Strays') = Cardinality(Strays)
                      + (IF c \in Strays' THEN 1 ELSE 0)
                      - (IF c \in Strays THEN 1 ELSE 0)
      <4>1. \A b \in Cpus : b # c => (b \in Strays' <=> b \in Strays)
        BY <3>3, <3>9 DEF Strays, OthersStay
      <4>2. QED
        BY <3>6, <4>1, OneCpu
    <3>10. CASE Receive(c)
      <4>1. UNCHANGED <<slots, flowSyns, evictions>>
        BY <3>10 DEF Receive, mapVars, histVars
      <4>2. pc'[c] \notin FlowWork
        <5>1. PICK p \in Packets :
                Goto(c, CASE p.kind = "ip" -> "blacklist"
                          [] p.kind = "count" -> "lookup"
                          [] p.kind = "pass" -> "idle")
          BY <3>10 DEF Receive
        <5>2. p.kind \in {"ip", "count", "pass"}
          BY Constants
        <5>3. QED
          BY <3>7, <5>1, <5>2 DEF Goto, FlowWork
      <4>3. c \notin AheadOf(f)' /\ c \notin Strays'
        BY <4>2 DEF AheadOf, Strays, FlowWork, PtrWork
      <4>4. SynsOf(f)' = SynsOf(f)
        BY <4>1 DEF SynsOf, SlotsOf
      <4>5. Cardinality(Strays') <= Cardinality(Strays)
        BY <3>6, <3>9, <4>1, <4>3
      <4>6. QED
        BY <3>2, <3>5, <3>6, <3>8, <4>1, <4>3, <4>4, <4>5
    <3>11. CASE LookupFlow(c)
      <4>1. /\ UNCHANGED <<slots, evictions, pkt>> /\ pc[c] = "flow"
            /\ flowSyns' = [flowSyns EXCEPT ![pkt[c].flow] = @ + pkt[c].syn]
        BY <3>11 DEF LookupFlow, mapVars
      <4>2. c \notin Strays'
        <5>1. CASE SlotsOf(pkt[c].flow) = {}
          BY <3>7, <3>11, <5>1 DEF LookupFlow, Goto, Strays, PtrWork
        <5>2. CASE SlotsOf(pkt[c].flow) # {}
          <6>1. ptr'[c] \in SlotsOf(pkt[c].flow)
            BY <3>7, <3>11, <5>2 DEF LookupFlow
          <6>2. QED
            BY <4>1, <6>1 DEF SlotsOf, Strays
        <5>3. QED
          BY <5>1, <5>2
      <4>3. c \notin AheadOf(f) /\ (c \in AheadOf(f)' => pkt[c].syn = 1 /\ pkt[c].flow = f)
        BY <4>1 DEF AheadOf, FlowWork
      <4>4. SynsOf(f)' = SynsOf(f)
        BY <4>1 DEF SynsOf, SlotsOf
      <4>5. Cardinality(Strays') <= Cardinality(Strays)
        BY <3>6, <3>9, <4>1, <4>2
      <4>6. flowSyns'[f] = IF pkt[c].flow = f THEN flowSyns[f] + pkt[c].syn
                           ELSE flowSyns[f]
        BY <4>1 DEF Shape, UserShape
      <4>7. CASE pkt[c].flow = f
        <5>1. Allowance(f)' = Allowance(f) + pkt[c].syn
          BY <3>8, <4>1, <4>6, <4>7
        <5>2. QED
          BY <3>2, <3>5, <3>6, <3>7, <3>8, <4>3, <4>4, <4>5, <5>1
      <4>8. CASE pkt[c].flow # f
        <5>1. Allowance(f)' = Allowance(f)
          BY <3>8, <4>1, <4>6, <4>8
        <5>2. QED
          BY <3>2, <3>5, <3>6, <3>8, <4>3, <4>4, <4>5, <4>8, <5>1
      <4>9. QED
        BY <4>7, <4>8
    <3>12. CASE InsertFlow(c)
      <4>1. /\ UNCHANGED <<flowSyns, pkt, ptr>> /\ pc[c] = "flowInsert"
            /\ pc'[c] = "emit"
        BY <3>7, <3>12 DEF InsertFlow, Goto
      <4>2. /\ c \notin AheadOf(f)' /\ c \notin Strays' /\ c \notin Strays
            /\ pkt[c].syn = 1 /\ pkt[c].flow = f => c \in AheadOf(f)
        BY <4>1 DEF AheadOf, Strays, FlowWork, PtrWork
      <4>3. /\ IsFiniteSet(SynsOf(f)')
            /\ Cardinality(SynsOf(f)') + Cardinality(AheadOf(f)')
                 <= Cardinality(SynsOf(f)) + Cardinality(AheadOf(f))
            /\ Cardinality(SynsOf(f)') \in Nat
        <5>1. CASE SynsOf(f)' \subseteq SynsOf(f)
          BY <3>2, <3>5, <4>2, <5>1, NoMore
        <5>2. CASE pkt[c].flow = f /\ pkt[c].syn = 1 /\ \E x : SynsOf(f)' \subseteq {x}
          <6>1. PICK x : SynsOf(f)' \subseteq SynsOf(f) \cup {x}
            BY <5>2
          <6>2. /\ IsFiniteSet(SynsOf(f)') /\ Cardinality(SynsOf(f)') \in Nat
                /\ Cardinality(SynsOf(f)') <= Cardinality(SynsOf(f)) + 1
            BY <3>2, <6>1, OneMore
          <6>3. c \in AheadOf(f) /\ c \notin AheadOf(f)'
            BY <4>2, <5>2
          <6>4. QED
            BY <3>2, <3>5, <6>2, <6>3
        <5>3. QED
          BY <3>12, <5>1, <5>2, InsertSyns
      <4>4. CASE evictions' = evictions + 1
        <5>1. Cardinality(Strays') <= n
          <6>1. Strays' \subseteq Cpus \ {c}
            BY <3>6, <4>2
          <6>2. /\ IsFiniteSet(Cpus \ {c})
                /\ Cardinality(Cpus \ {c}) = Cardinality(Cpus) - 1
            BY CpusAssumption, FS_RemoveElement
          <6>3. QED
            BY <6>1, <6>2, NoMore DEF n
        <5>2. QED
          BY <3>1, <3>2, <3>5, <3>6, <3>8, <4>1, <4>3, <4>4, <5>1
      <4>5. CASE evictions' = evictions /\ \A s \in Slots :
                   slots[s].flow # NoFlow => slots'[s].flow = slots[s].flow
        <5>1. Strays' \subseteq Strays
          <6>1. \A p \in Packets : p.flow # NoFlow
            BY PacketsAssumption DEF IsPacket
          <6>2. SUFFICES ASSUME NEW b \in Strays' PROVE b \in Strays
            OBVIOUS
          <6>3. b \in Cpus /\ b # c /\ pc'[b] = pc[b] /\ ptr'[b] = ptr[b]
            BY <3>3, <3>6, <4>2, <6>2 DEF OthersStay
          <6>4. /\ pc[b] \in PtrWork /\ ptr[b] \in Slots
                /\ slots'[ptr[b]].flow # pkt[b].flow
            BY <4>1, <6>2, <6>3 DEF Strays
          <6>5. pkt[b].flow # NoFlow
            BY <3>7, <6>1, <6>3
          <6>6. slots[ptr[b]].flow # pkt[b].flow
            BY <4>5, <6>4, <6>5
          <6>7. QED
            BY <6>3, <6>4, <6>6 DEF Strays
        <5>2. Cardinality(Strays') <= Cardinality(Strays)
          BY <3>6, <5>1, CpusAssumption, FS_Subset, NoMore
        <5>3. QED
          BY <3>2, <3>5, <3>6, <3>8, <4>1, <4>3, <4>5, <5>2
      <4>6. QED
        BY <3>12, <4>4, <4>5, InsertSyns
    <3>13. CASE TouchFlow(c)
      <4>1. /\ UNCHANGED <<flowSyns, evictions, pkt, ptr>> /\ pc[c] = "touch"
            /\ pc'[c] = "emit"
        BY <3>7, <3>13 DEF TouchFlow, Goto, histVars
      <4>2. /\ c \notin AheadOf(f)' /\ c \notin Strays'
            /\ pkt[c].syn = 1 /\ pkt[c].flow = f => c \in AheadOf(f)
            /\ ptr[c] \in Slots /\ slots[ptr[c]].flow # pkt[c].flow => c \in Strays
        BY <4>1 DEF AheadOf, Strays, FlowWork, PtrWork
      <4>3. CpuStep(c) /\ ~InsertFlow(c)
        BY <3>13, <4>1 DEF CpuStep, InsertFlow
      <4>4. Cardinality(Strays') = Cardinality(Strays) - (IF c \in Strays THEN 1 ELSE 0)
        <5>1. \A s \in Slots : slots'[s].flow = slots[s].flow
          BY <3>7, <3>13 DEF TouchFlow, FlowRecords
        <5>2. QED
          BY <3>6, <3>9, <4>2, <5>1
      <4>5. CASE SynsOf(f)' \subseteq SynsOf(f)
        BY <3>2, <3>5, <3>6, <3>8, <4>1, <4>2, <4>4, <4>5, NoMore
      <4>6. CASE /\ pkt[c].syn = 1 /\ ptr[c] \in Slots /\ slots[ptr[c]].flow = f
                 /\ \E x : SynsOf(f)' \subseteq SynsOf(f) \cup {x}
        <5>1. c \in AheadOf(f) \/ c \in Strays
          BY <4>2, <4>6
        <5>2. PICK x : SynsOf(f)' \subseteq SynsOf(f) \cup {x}
          BY <4>6
        <5>3. /\ IsFiniteSet(SynsOf(f)') /\ Cardinality(SynsOf(f)') \in Nat
              /\ Cardinality(SynsOf(f)') <= Cardinality(SynsOf(f)) + 1
          BY <3>2, <5>2, OneMore
        <5>4. QED
          BY <3>2, <3>5, <3>6, <3>8, <4>1, <4>2, <4>4, <5>1, <5>3
      <4>7. QED
        BY <4>3, <4>5, <4>6, TouchSyns
    <3>14. CASE CpuStep(c) /\ ~(LookupFlow(c) \/ InsertFlow(c) \/ TouchFlow(c))
      <4>1. UNCHANGED <<flowSyns, evictions, pkt, ptr>>
        BY <3>14 DEF CpuStep, LookupBlacklist, LookupCount, AddCount, InsertCount,
           CheckWindow, ResetFirstSeen, ClearFlow, Emit, Submit, histVars
      <4>2. /\ pc'[c] \in FlowWork => pc[c] \in FlowWork
            /\ pc'[c] \in PtrWork => pc[c] \in PtrWork
        <5>1. AfterCount(c) \in {"emit", "flow", "idle"}
          BY DEF AfterCount
        <5>2. QED
          BY <3>7, <3>14, <5>1 DEF CpuStep, LookupBlacklist, LookupCount, AddCount,
             InsertCount, CheckWindow, ResetFirstSeen, ClearFlow, Emit, Submit,
             Goto, FlowWork, PtrWork
      <4>3. SynsOf(f)' \subseteq SynsOf(f)
        BY <3>14, TouchSyns
      <4>4. \A s \in Slots : slots'[s].flow = slots[s].flow
        <5>1. CASE ResetFirstSeen(c)
          BY <3>7, <5>1 DEF ResetFirstSeen, FlowRecords
        <5>2. CASE ClearFlow(c)
          BY <3>7, <5>2 DEF ClearFlow, FlowRecords
        <5>3. CASE UNCHANGED slots
          BY <5>3
        <5>4. QED
          BY <3>14, <5>1, <5>2, <5>3
             DEF CpuStep, LookupBlacklist, LookupCount, AddCount, InsertCount,
                 CheckWindow, Emit, Submit, mapVars
      <4>5. /\ c \in AheadOf(f)' => c \in AheadOf(f)
            /\ c \in Strays' => c \in Strays
        BY <4>1, <4>2, <4>4 DEF AheadOf, Strays
      <4>6. Cardinality(Strays') <= Cardinality(Strays)
        BY <3>6, <3>9, <4>4, <4>5
      <4>7. QED
        BY <3>2, <3>5, <3>6, <3>8, <4>1, <4>3, <4>5, <4>6, NoMore
    <3>15. QED
      BY <2>1, <3>10, <3>11, <3>12, <3>13, <3>14
  <2>2. CASE UNCHANGED <<slots, flowSyns, evictions, pc, pkt, ptr>>
    BY <2>2 DEF StrayInv, SynsOf, SlotsOf, AheadOf, Strays, Allowance
  <2>3. CASE \E c \in Cpus : Receive(c) \/ CpuStep(c)
    BY <2>1, <2>3 DEF StrayInv
  <2>4. QED
    BY <2>2, <2>3 DEF Next, DrainStep, StartDrain, DispatchEvent, EndDrain,
       EditBlacklist, Tick, vars, mapVars, cpuVars, histVars
<1>3. QED
  BY <1>1, <1>2, ShapeInvariant, PTL DEF Spec

\* A flow's entry shows SYNs of other flows only where the LRU map gave the
\* element away under the hands of a CPU: at most one for each eviction and
\* each other CPU.
THEOREM StraysAreFew == Spec => []StraySynsBounded
<1>1. StrayInv /\ Shape => StraySynsBounded
  <2> SUFFICES ASSUME StrayInv, Shape, NEW f \in FlowNames
               PROVE  Cardinality(SynsOf(f)) <= Allowance(f)
    BY DEF StraySynsBounded, Allowance
  <2>1. Cardinality(SynsOf(f)) \in Nat
    BY FS_CardinalityType DEF StrayInv
  <2>2. Cardinality(AheadOf(f)) \in Nat /\ Cardinality(Strays) \in Nat
    BY CpusAssumption, FS_Subset, FS_CardinalityType DEF AheadOf, Strays
  <2>3. Cardinality(SynsOf(f)) + Cardinality(AheadOf(f)) + Cardinality(Strays)
          <= Allowance(f)
    BY DEF StrayInv
  <2>4. Allowance(f) \in Int
    <3>1. Cardinality(Cpus) \in Nat
      BY CpusAssumption, FS_CardinalityType
    <3>2. flowSyns[f] \in Nat /\ evictions \in Nat
      BY DEF Shape, UserShape
    <3>3. QED
      BY <3>1, <3>2 DEF Allowance
  <2>5. QED
    BY <2>1, <2>2, <2>3, <2>4
<1>2. QED
  BY <1>1, StrayInvariant, ShapeInvariant, PTL

=============================================================================
