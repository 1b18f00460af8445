--------------------------- MODULE XdpDataplane ----------------------------
(***************************************************************************)
(* The packet path: xdp_kwatch_prog running on several CPUs at once over   *)
(* shared BPF maps, the events ring buffer, and the user-space drain.      *)
(*                                                                         *)
(* A packet is parsed, looked up in the blacklist, counted, accounted to   *)
(* its flow and perhaps reported.  Each map access is one step: a helper   *)
(* call is atomic, what lies between two calls is not.  A pointer that     *)
(* bpf_map_lookup_elem returned for flow_state stays usable after the LRU  *)
(* map gave the element to another flow, so the map is a set of slots and  *)
(* a pointer is a slot.                                                    *)
(***************************************************************************)
EXTENDS Integers, Sequences, FiniteSets

CONSTANTS
    Cpus,
    Packets,      \* the packets that arrive, already parsed (see IsPacket)
    Prefixes,     \* blacklist entries, each the set of sources it covers
    Dropped,      \* the counter key of blacklisted packets, 0xFFFF
    MaxCounters,  \* max_entries of pkt_counts
    Slots,        \* elements of flow_state
    NoFlow,       \* the flow of an unused slot
    RingCap,      \* records the events ring holds
    SampleN,      \* sample_n
    Window,       \* syn_window_ns
    Budget,       \* callbacks per RingBuf::consume
    MaxPackets, MaxTime, MaxEdits   \* bounds of the state space

\* kind "ip" goes on to the blacklist, "count" (IPv6, ARP) is only counted,
\* and "pass" (a short frame, another EtherType, a bad IPv4 header) is not.
IsPacket(p) ==
    /\ p.kind \in {"ip", "count", "pass"}
    /\ p.syn \in {0, 1} /\ p.ack \in {0, 1}
    /\ p.flow # NoFlow

ASSUME CpusAssumption == IsFiniteSet(Cpus) /\ Cpus # {}
ASSUME PacketsAssumption == Packets # {} /\ \A p \in Packets : IsPacket(p)
ASSUME SizesAssumption ==
    /\ {MaxCounters, RingCap, Budget, SampleN} \subseteq Nat \ {0}
    /\ {Window, MaxPackets, MaxTime, MaxEdits} \subseteq Nat
    /\ Slots # {}

VARIABLES
    blacklist, counts, slots, ring, drops,    \* the maps
    clock,                                    \* bpf_ktime_get_ns
    pc, pkt, key, ptr, now, isNew,            \* the program, per CPU
    draining, taken, delivered, dropped,      \* class RingBuf
    received, edits,                          \* bounds
    seen, attempts, syns, flowSyns, evictions \* history

mapVars == <<blacklist, counts, slots, ring, drops>>
cpuVars == <<pc, pkt, key, ptr, now, isNew>>
userVars == <<draining, taken, delivered, dropped>>
histVars == <<seen, attempts, syns, flowSyns, evictions>>
vars == <<mapVars, clock, cpuVars, userVars, received, edits, histVars>>

Keys == {p.key : p \in Packets} \cup {Dropped}
FlowNames == {p.flow : p \in Packets}
NoPtr == NoFlow
EmptySlot == [flow |-> NoFlow, syn |-> 0, ack |-> 0, first |-> 0, last |-> 0]

TypeOK ==
    /\ blacklist \subseteq Prefixes
    /\ counts \in [Keys -> 0..MaxPackets]
    /\ slots \in [Slots -> [flow : FlowNames \cup {NoFlow},
                            syn : 0..MaxPackets, ack : 0..MaxPackets,
                            first : 0..MaxTime, last : 0..MaxTime]]
    /\ ring \in Seq([cpu : Cpus, done : BOOLEAN]) /\ Len(ring) <= RingCap
    /\ drops \in 0..MaxPackets
    /\ clock \in 0..MaxTime
    /\ pc \in [Cpus -> {"idle", "blacklist", "lookup", "add", "insert", "flow",
                        "flowInsert", "window", "reset", "clear", "touch",
                        "emit", "submit"}]
    /\ pkt \in [Cpus -> Packets] /\ key \in [Cpus -> Keys]
    /\ ptr \in [Cpus -> Slots \cup {NoPtr}] /\ now \in [Cpus -> 0..MaxTime]
    /\ isNew \in [Cpus -> BOOLEAN]
    /\ draining \in BOOLEAN /\ taken \in 0..MaxPackets
    /\ delivered \in 0..MaxPackets /\ dropped \in 0..MaxPackets
    /\ received \in 0..MaxPackets /\ edits \in 0..MaxEdits
    /\ seen \in [Keys -> 0..MaxPackets] /\ attempts \in 0..MaxPackets
    /\ syns \in 0..MaxPackets
    /\ flowSyns \in [FlowNames -> Nat] /\ evictions \in Nat

Init ==
    /\ blacklist = {} /\ counts = [k \in Keys |-> 0]
    /\ slots = [s \in Slots |-> EmptySlot]
    /\ ring = << >> /\ drops = 0 /\ clock = 0
    /\ pc = [c \in Cpus |-> "idle"]
    /\ pkt = [c \in Cpus |-> CHOOSE p \in Packets : TRUE]
    /\ key = [c \in Cpus |-> Dropped] /\ ptr = [c \in Cpus |-> NoPtr]
    /\ now = [c \in Cpus |-> 0] /\ isNew = [c \in Cpus |-> FALSE]
    /\ draining = FALSE /\ taken = 0 /\ delivered = 0 /\ dropped = 0
    /\ received = 0 /\ edits = 0
    /\ seen = [k \in Keys |-> 0] /\ attempts = 0 /\ syns = 0
    /\ flowSyns = [f \in FlowNames |-> 0] /\ evictions = 0

-----------------------------------------------------------------------------
(* xdp_kwatch_prog on CPU c.                                               *)

Goto(c, l) == pc' = [pc EXCEPT ![c] = l]

\* The parse: Ethernet, one VLAN tag, IPv4 header checks.
Receive(c) ==
    /\ pc[c] = "idle" /\ received < MaxPackets
    /\ received' = received + 1
    /\ \E p \in Packets :
         /\ pkt' = [pkt EXCEPT ![c] = p]
         /\ key' = [key EXCEPT ![c] = p.key]
         /\ Goto(c, CASE p.kind = "ip" -> "blacklist"
                      [] p.kind = "count" -> "lookup"
                      [] p.kind = "pass" -> "idle")
    /\ isNew' = [isNew EXCEPT ![c] = FALSE]
    /\ ptr' = [ptr EXCEPT ![c] = NoPtr]
    /\ now' = [now EXCEPT ![c] = 0]
    /\ UNCHANGED <<mapVars, clock, userVars, edits, histVars>>

\* The lookup of {32, src} finds any entry whose prefix covers the source.
Covered(src) == \E e \in blacklist : src \in e

\* A blacklisted packet is counted under 0xFFFF and always reported.
LookupBlacklist(c) ==
    /\ pc[c] = "blacklist"
    /\ key' = [key EXCEPT ![c] = IF Covered(pkt[c].src) THEN Dropped ELSE @]
    /\ isNew' = [isNew EXCEPT ![c] = Covered(pkt[c].src)]
    /\ Goto(c, "lookup")
    /\ UNCHANGED <<mapVars, clock, pkt, ptr, now, userVars, received, edits,
                   histVars>>

\* inc_count looks the counter up ...
LookupCount(c) ==
    /\ pc[c] = "lookup"
    /\ seen' = [seen EXCEPT ![key[c]] = @ + 1]
    /\ Goto(c, IF counts[key[c]] > 0 THEN "add" ELSE "insert")
    /\ UNCHANGED <<mapVars, clock, pkt, key, ptr, now, isNew, userVars,
                   received, edits, attempts, syns, flowSyns, evictions>>

AfterCount(c) ==
    CASE key[c] = Dropped -> "emit"
      [] key[c] # Dropped /\ pkt[c].kind = "ip" -> "flow"
      [] OTHER -> "idle"

\* ... adds to it atomically ...
AddCount(c) ==
    /\ pc[c] = "add"
    /\ counts' = [counts EXCEPT ![key[c]] = @ + 1]
    /\ Goto(c, AfterCount(c))
    /\ UNCHANGED <<blacklist, slots, ring, drops, clock, pkt, key, ptr, now,
                   isNew, userVars, received, edits, histVars>>

CountersFull == Cardinality({k \in Keys : counts[k] > 0}) = MaxCounters

\* Mutant: BPF_ANY overwrites what another CPU has counted by now.
NewCountAny(k) == 1

\* ... or creates it: BPF_NOEXIST fails, and the packet goes uncounted, when
\* another CPU has created it meanwhile or the map is full.
NewCount(k) ==
    IF counts[k] = 0 /\ ~CountersFull THEN 1 ELSE counts[k]

InsertCount(c) ==
    /\ pc[c] = "insert"
    /\ counts' = [counts EXCEPT ![key[c]] = NewCount(key[c])]
    /\ Goto(c, AfterCount(c))
    /\ UNCHANGED <<blacklist, slots, ring, drops, clock, pkt, key, ptr, now,
                   isNew, userVars, received, edits, histVars>>

SlotsOf(f) == {s \in Slots : slots[s].flow = f}

LookupFlow(c) ==
    /\ pc[c] = "flow"
    /\ now' = [now EXCEPT ![c] = clock]
    /\ syns' = syns + pkt[c].syn
    /\ flowSyns' = [flowSyns EXCEPT ![pkt[c].flow] = @ + pkt[c].syn]
    /\ IF SlotsOf(pkt[c].flow) = {}
         THEN /\ Goto(c, "flowInsert")
              /\ UNCHANGED ptr
         ELSE /\ ptr' = [ptr EXCEPT ![c] = CHOOSE s \in SlotsOf(pkt[c].flow) : TRUE]
              /\ Goto(c, "window")
    /\ UNCHANGED <<mapVars, clock, pkt, key, isNew, userVars, received, edits,
                   seen, attempts, evictions>>

\* Mutant: the element keeps the SYNs of the flow it is taken from.
InsertedOver(c, s) ==
    IF SlotsOf(pkt[c].flow) \ {s} # {} THEN EmptySlot
    ELSE [flow |-> pkt[c].flow, syn |-> slots[s].syn + pkt[c].syn,
          ack |-> pkt[c].ack, first |-> now[c], last |-> now[c]]

\* The element s after the update: free when the flow has got another one
\* meanwhile, else with the first packet's counts.
Inserted(c, s) ==
    IF SlotsOf(pkt[c].flow) \ {s} # {} THEN EmptySlot
    ELSE [flow |-> pkt[c].flow, syn |-> pkt[c].syn, ack |-> pkt[c].ack,
          first |-> now[c], last |-> now[c]]

\* BPF_NOEXIST into the LRU map.  The kernel first takes an element, perhaps
\* away from a flow in use, and then looks whether the key has appeared
\* meanwhile; the result of the update is ignored.
InsertFlow(c) ==
    /\ pc[c] = "flowInsert"
    /\ isNew' = [isNew EXCEPT ![c] = TRUE]
    /\ Goto(c, "emit")
    /\ \/ \E s \in Slots :
            /\ slots' = [slots EXCEPT ![s] = Inserted(c, s)]
            /\ evictions' = IF slots[s].flow \in {NoFlow, Inserted(c, s).flow}
                              THEN evictions ELSE evictions + 1
       \/ UNCHANGED <<slots, evictions>>
    /\ UNCHANGED <<blacklist, counts, ring, drops, clock, pkt, key, ptr, now,
                   userVars, received, edits, seen, attempts, syns, flowSyns>>

\* The window test reads first_seen_ns; the three stores of a reset and the
\* update of last_seen_ns are plain, only the additions are atomic.
CheckWindow(c) ==
    /\ pc[c] = "window"
    /\ Goto(c, IF Window > 0 /\ now[c] - slots[ptr[c]].first > Window
                 THEN "reset" ELSE "touch")
    /\ UNCHANGED <<mapVars, clock, pkt, key, ptr, now, isNew, userVars,
                   received, edits, histVars>>

ResetFirstSeen(c) ==
    /\ pc[c] = "reset"
    /\ slots' = [slots EXCEPT ![ptr[c]].first = now[c]]
    /\ Goto(c, "clear")
    /\ UNCHANGED <<blacklist, counts, ring, drops, clock, pkt, key, ptr, now,
                   isNew, userVars, received, edits, histVars>>

ClearFlow(c) ==
    /\ pc[c] = "clear"
    /\ slots' = [slots EXCEPT ![ptr[c]].syn = 0, ![ptr[c]].ack = 0]
    /\ Goto(c, "touch")
    /\ UNCHANGED <<blacklist, counts, ring, drops, clock, pkt, key, ptr, now,
                   isNew, userVars, received, edits, histVars>>

\* Mutant: a retransmitted SYN is added twice.
SynIncrementTwice(p) == 2 * p.syn

\* The flag test before each atomic addition.
SynIncrement(p) == p.syn

\* One step for three accesses to different fields, as in ClearFlow: no
\* reader relates them to each other.
TouchFlow(c) ==
    /\ pc[c] = "touch"
    /\ slots' = [slots EXCEPT ![ptr[c]].last = now[c],
                              ![ptr[c]].syn = @ + SynIncrement(pkt[c]),
                              ![ptr[c]].ack = @ + pkt[c].ack]
    /\ Goto(c, "emit")
    /\ UNCHANGED <<blacklist, counts, ring, drops, clock, pkt, key, ptr, now,
                   isNew, userVars, received, edits, histVars>>

\* kwatch_should_emit_event, r being the pseudo-random value.
ShouldEmit(new, r) == new \/ SampleN <= 1 \/ r % SampleN = 0

\* Mutant: a record that finds no room is not counted.
DropsUncounted == drops

\* inc_ringbuf_drop.
IncRingbufDrop == drops + 1

\* Mutant: the check for room counts the records still being filled as free.
RingFullOnlyDone == Len(SelectSeq(ring, LAMBDA r : r.done)) = RingCap

\* bpf_ringbuf_reserve fails: the ring holds max_entries, busy or not.
RingFull == Len(ring) = RingCap

\* emit_event: nothing, a lost record, or a reserved one still to be filled.
Emit(c) ==
    /\ pc[c] = "emit"
    /\ \E r \in 0..SampleN :
         IF ~ShouldEmit(isNew[c], r)
           THEN Goto(c, "idle") /\ UNCHANGED <<ring, drops, attempts>>
           ELSE /\ attempts' = attempts + 1
                /\ IF RingFull
                     THEN /\ drops' = IncRingbufDrop
                          /\ Goto(c, "idle")
                          /\ UNCHANGED ring
                     ELSE /\ ring' = Append(ring, [cpu |-> c, done |-> FALSE])
                          /\ Goto(c, "submit")
                          /\ UNCHANGED drops
    /\ UNCHANGED <<blacklist, counts, slots, clock, pkt, key, ptr, now, isNew,
                   userVars, received, edits, seen, syns, flowSyns, evictions>>

\* Mutant: the record is filled and never submitted.
SubmitForgotten(c) ==
    /\ pc[c] = "submit"
    /\ Goto(c, "idle")
    /\ UNCHANGED <<mapVars, clock, pkt, key, ptr, now, isNew, userVars,
                   received, edits, histVars>>

\* bpf_ringbuf_submit clears the busy bit of the record.
Submit(c) ==
    /\ pc[c] = "submit"
    /\ ring' = [i \in DOMAIN ring |->
                  IF ring[i].cpu = c THEN [ring[i] EXCEPT !.done = TRUE]
                  ELSE ring[i]]
    /\ Goto(c, "idle")
    /\ UNCHANGED <<blacklist, counts, slots, drops, clock, pkt, key, ptr, now,
                   isNew, userVars, received, edits, histVars>>

CpuStep(c) ==
    \/ LookupBlacklist(c) \/ LookupCount(c) \/ AddCount(c)
    \/ InsertCount(c) \/ LookupFlow(c) \/ InsertFlow(c) \/ CheckWindow(c)
    \/ ResetFirstSeen(c) \/ ClearFlow(c) \/ TouchFlow(c) \/ Emit(c) \/ Submit(c)

-----------------------------------------------------------------------------
(* class RingBuf: ring_buffer__consume goes on while the record at the     *)
(* head is not busy; dispatch_event's positive result does not stop it.    *)

StartDrain ==
    /\ ~draining /\ ring # << >>
    /\ draining' = TRUE /\ taken' = 0
    /\ UNCHANGED <<mapVars, clock, cpuVars, delivered, dropped, received,
                   edits, histVars>>

\* dispatch_event: past the budget the record is consumed and discarded.
DispatchEvent ==
    /\ draining /\ ring # << >> /\ Head(ring).done
    /\ ring' = Tail(ring)
    /\ IF taken >= Budget
         THEN dropped' = dropped + 1 /\ UNCHANGED <<taken, delivered>>
         ELSE /\ delivered' = delivered + 1 /\ taken' = taken + 1
              /\ UNCHANGED dropped
    /\ UNCHANGED <<blacklist, counts, slots, drops, clock, cpuVars, draining,
                   received, edits, histVars>>

EndDrain ==
    /\ draining
    /\ ring # << >> => ~Head(ring).done
    /\ draining' = FALSE /\ taken' = 0
    /\ UNCHANGED <<mapVars, clock, cpuVars, delivered, dropped, received,
                   edits, histVars>>

DrainStep == StartDrain \/ DispatchEvent \/ EndDrain

-----------------------------------------------------------------------------
\* block and unblock: one element added or deleted while packets flow.
EditBlacklist ==
    /\ edits < MaxEdits
    /\ \E e \in Prefixes :
         blacklist' = IF e \in blacklist THEN blacklist \ {e}
                      ELSE blacklist \cup {e}
    /\ edits' = edits + 1
    /\ UNCHANGED <<counts, slots, ring, drops, clock, cpuVars, userVars,
                   received, histVars>>

Tick ==
    /\ clock < MaxTime
    /\ clock' = clock + 1
    /\ UNCHANGED <<mapVars, cpuVars, userVars, received, edits, histVars>>

Next ==
    \/ \E c \in Cpus : Receive(c) \/ CpuStep(c)
    \/ DrainStep
    \/ EditBlacklist
    \/ Tick

Spec == Init /\ [][Next]_vars

\* An XDP program runs to completion; the event loop answers a readable ring
\* (its epoll registration is level-triggered).
Fairness ==
    /\ \A c \in Cpus : WF_vars(CpuStep(c))
    /\ WF_vars(DrainStep)

FairSpec == Spec /\ Fairness

-----------------------------------------------------------------------------
\* A counter never shows a packet that was not there, and what the race of
\* two first packets loses is at most one packet less than there are CPUs,
\* for the life of the counter: inc_count creates with BPF_NOEXIST and never
\* deletes.  Only a key that found pkt_counts full goes uncounted.
CountLossBounded ==
    \A k \in Keys :
        LET pending == Cardinality({c \in Cpus :
                          pc[c] \in {"add", "insert"} /\ key[c] = k})
        IN  /\ counts[k] + pending <= seen[k]
            /\ \/ seen[k] <= counts[k] + pending + Cardinality(Cpus) - 1
               \/ counts[k] = 0 /\ CountersFull

\* The SYNs on record, an element for each.
SynsOnRecord == UNION {{s} \X (1..slots[s].syn) : s \in Slots}

\* The SYNs on record are SYNs that came: neither a lost creation race, nor
\* a window reset, nor an element that changed its flow under a CPU's hands
\* makes one up.  The SYN-flood score rests on this.
NoPhantomSyn == Cardinality(SynsOnRecord) <= syns

\* The SYNs on record for flow f.
SynsOf(f) == UNION {{s} \X (1..slots[s].syn) : s \in SlotsOf(f)}

\* A SYN is held against another flow than its own only by a CPU that was
\* between its lookup and its update when the LRU map gave the element away:
\* each eviction costs at most one such SYN per other CPU, and without
\* evictions no flow has more than its own.
StraySynsBounded ==
    \A f \in FlowNames :
        Cardinality(SynsOf(f)) <= flowSyns[f] + evictions * (Cardinality(Cpus) - 1)

\* Every event that the program decided to report is in the ring, was handed
\* to the callback, or is counted: by ringbuf_drops or by dropped_count.
EventsAccounted ==
    attempts = drops + dropped + delivered + Len(ring)

\* What is reported leaves the ring: the n-th record to get room is handed over
\* or discarded in the end, although a record that one CPU is still filling
\* holds back the ones behind it and ends the drain.
RecordsConsumed ==
    \A n \in 1..MaxPackets : (attempts - drops >= n) ~> (delivered + dropped >= n)

=============================================================================
