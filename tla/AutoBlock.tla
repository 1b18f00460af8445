----------------------------- MODULE AutoBlock -----------------------------
(***************************************************************************)
(* The event loop of `kwatch top`: on every tick it copies flow_state out  *)
(* of the kernel, scores every source (class FlowTracker), and adds and    *)
(* deletes /32 entries of the blacklist, while packets, sampled events and *)
(* operators' block and unblock commands go on.                            *)
(*                                                                         *)
(* A tick is one handler of one thread but many system calls, and the      *)
(* kernel and other processes take steps between them: the copy is made    *)
(* key by key, and each blacklist change is a step.  What the handler      *)
(* computes without a system call is one step, Decide.  A packet is one    *)
(* step here; XdpDataplane has its races.                                  *)
(***************************************************************************)
EXTENDS Integers, Sequences, FiniteSets, FiniteSetsExt, Functions

CONSTANTS
    Sources,
    NFlows,       \* flows are 1..NFlows, in the order of the kernel's hash
    SrcOf,        \* the source address of each flow
    TcpFlows,     \* the flows with protocol 6
    FlowCap,      \* max_entries of flow_state
    Wide,         \* an operator's CIDR entry that covers every source
    BlacklistCap, \* max_entries of blacklist
    Threshold, Window, AutoOn,        \* the command line's options
    Ttls,         \* and the values of --auto-block-ttl it may give
    MaxIpStats, IdleTtl,              \* kMaxIpStats, kFlowIdleTtlNs
    MaxPackets, MaxTime, MaxEdits, MaxEvents   \* bounds of the state space

Flows == 1..NFlows

ASSUME FlowsAssumption ==
    /\ NFlows \in Nat \ {0} /\ SrcOf \in [Flows -> Sources]
    /\ TcpFlows \subseteq Flows
    /\ Wide \notin Sources /\ AutoOn \in BOOLEAN
ASSUME BoundsAssumption ==
    /\ {FlowCap, BlacklistCap, MaxTime} \subseteq Nat \ {0}
    /\ Ttls \subseteq Nat
    /\ {Threshold, Window, MaxIpStats, IdleTtl} \subseteq Nat
    /\ {MaxPackets, MaxEdits, MaxEvents} \subseteq Nat

VARIABLES
    ttl,                    \* auto_block_ttl_ns
    clock,                  \* CLOCK_MONOTONIC, for kernel and process alike
    flowState, blacklist,   \* the BPF maps; an entry {32, s} is written s
    events,                 \* sampled events not yet consumed
    phase, now, copied,     \* the tick handler
    cursor, next, entries,  \* FlowStateSnapshot::refresh
    ipStats,                \* FlowTracker::ip_stats
    toBlock, toUnblock,     \* block_scratch, unblock_scratch
    rows,                   \* firewall_rows
    packets, edits,         \* bounds
    sent, heard, blockedAt, \* history
    byHand, refused         \* and what explains a difference from ipStats

mapVars == <<flowState, blacklist>>
copyVars == <<cursor, next, entries>>
workVars == <<toBlock, toUnblock>>
\* ttl never changes.
histVars == <<ttl, sent, heard, blockedAt>>
listVars == <<byHand, refused>>
vars == <<clock, mapVars, events, phase, now, copied, copyVars, ipStats,
          workVars, rows, packets, edits, histVars, listVars>>

Prefixes == Sources \cup {Wide}
Times == 0..MaxTime
Stats == [syn : 0..MaxPackets, ack : 0..MaxPackets, first : Times, last : Times]
NewIp == [syn |-> 0, ack |-> 0, last |-> 0, start |-> 0,
          flagged |-> FALSE, blocked |-> FALSE]

\* The copied counters can exceed what was sent: see SynsWereSent.
TypeOK ==
    /\ ttl \in Ttls /\ clock \in Times /\ now \in Times
    /\ DOMAIN flowState \subseteq Flows
    /\ \A f \in DOMAIN flowState : flowState[f] \in Stats
    /\ blacklist \subseteq Prefixes /\ Cardinality(blacklist) <= BlacklistCap
    /\ events \subseteq [src : Sources, ts : Times]
    /\ phase \in {"idle", "next", "lookup", "decide", "block", "unblock"}
    /\ cursor \in 0..NFlows /\ next \in 0..NFlows
    /\ \A i \in DOMAIN entries :
         entries[i].flow \in Flows /\ entries[i].stats \in Stats
    /\ DOMAIN ipStats \subseteq Sources
    /\ \A s \in DOMAIN ipStats :
         ipStats[s] \in [syn : Nat, ack : Nat, last : Times, start : Times,
                         flagged : BOOLEAN, blocked : BOOLEAN]
    /\ toBlock \subseteq Sources /\ toUnblock \subseteq Sources
    /\ rows \subseteq Prefixes /\ copied \in BOOLEAN
    /\ packets \in 0..MaxPackets /\ edits \in 0..MaxEdits
    /\ sent \in [Sources -> 0..MaxPackets]
    /\ heard \in [Sources -> Times] /\ blockedAt \in [Sources -> Times]
    /\ byHand \subseteq Prefixes /\ refused \subseteq Sources

Init ==
    /\ ttl \in Ttls
    /\ clock = 1 /\ flowState = << >> /\ blacklist = {} /\ events = {}
    /\ phase = "idle" /\ now = 0 /\ copied = FALSE
    /\ cursor = 0 /\ next = 0 /\ entries = << >>
    /\ ipStats = << >> /\ toBlock = {} /\ toUnblock = {} /\ rows = {}
    /\ packets = 0 /\ edits = 0
    /\ sent = [s \in Sources |-> 0] /\ heard = [s \in Sources |-> 0]
    /\ blockedAt = [s \in Sources |-> 0]
    /\ byHand = {} /\ refused = {}

-----------------------------------------------------------------------------
(* The kernel's side.                                                      *)

Covered(s) == {s, Wide} \cap blacklist # {}

\* What one packet adds to its flow: a SYN, an ACK or, if it is not TCP,
\* nothing.
Segments(f) ==
    IF f \in TcpFlows THEN {[syn |-> 1, ack |-> 0], [syn |-> 0, ack |-> 1]}
    ELSE {[syn |-> 0, ack |-> 0]}

\* The flow_state accounting of one packet, with its window reset.
Account(f, g) ==
    LET old == flowState[f]
    IN  IF f \notin DOMAIN flowState \/ (Window > 0 /\ clock - old.first > Window)
          THEN [syn |-> g.syn, ack |-> g.ack, first |-> clock, last |-> clock]
          ELSE [old EXCEPT !.last = clock, !.syn = @ + g.syn, !.ack = @ + g.ack]

\* The flows left once room is made for f: the LRU map evicts another.
Kept(f) ==
    LET live == DOMAIN flowState
    IN  IF f \in live \/ Cardinality(live) < FlowCap THEN {live}
        ELSE {live \ {v} : v \in live}

Packet ==
    /\ packets < MaxPackets
    /\ packets' = packets + 1
    /\ \E f \in Flows : \E seg \in Segments(f) :
         LET s == SrcOf[f]
         IN  /\ IF Covered(s)
                  THEN UNCHANGED <<flowState, sent, heard>>
                  ELSE /\ \E live \in Kept(f) :
                            flowState' = [g \in live \cup {f} |->
                               IF g = f THEN Account(f, seg) ELSE flowState[g]]
                       /\ sent' = [sent EXCEPT ![s] = @ + seg.syn]
                       /\ heard' = [heard EXCEPT ![s] = clock]
             /\ \/ /\ Cardinality(events) < MaxEvents
                   /\ events' = events \cup {[src |-> s, ts |-> clock]}
                \/ UNCHANGED events
    /\ UNCHANGED <<clock, blacklist, phase, now, copied, copyVars, ipStats,
                   workVars, rows, edits, ttl, blockedAt, listVars>>

Advance ==
    /\ clock < MaxTime
    /\ clock' = clock + 1
    /\ UNCHANGED <<mapVars, events, phase, now, copied, copyVars, ipStats,
                   workVars, rows, packets, edits, histVars, listVars>>

-----------------------------------------------------------------------------
(* Blacklist edits: kwatch block and unblock from other processes.         *)

\* BPF_ANY fails on a full map; top ignores the result.
Added(e) ==
    IF Cardinality(blacklist \cup {e}) <= BlacklistCap THEN blacklist \cup {e}
    ELSE blacklist

Block ==
    /\ edits < MaxEdits /\ edits' = edits + 1
    /\ \E e \in Prefixes : blacklist' = Added(e) /\ byHand' = byHand \cup {e}
    /\ UNCHANGED <<clock, flowState, events, phase, now, copied, copyVars,
                   ipStats, workVars, rows, packets, histVars, refused>>

Unblock ==
    /\ edits < MaxEdits /\ edits' = edits + 1
    /\ \E e \in Prefixes : blacklist' = blacklist \ {e} /\ byHand' = byHand \cup {e}
    /\ UNCHANGED <<clock, flowState, events, phase, now, copied, copyVars,
                   ipStats, workVars, rows, packets, histVars, refused>>

-----------------------------------------------------------------------------
(* FlowTracker: pure functions of ip_stats.                                *)

ProcessEvent ==
    /\ phase = "idle"
    /\ \E e \in events :
         LET old == IF e.src \in DOMAIN ipStats THEN ipStats[e.src] ELSE NewIp
         IN  /\ ipStats' = [s \in DOMAIN ipStats \cup {e.src} |->
                  IF s = e.src THEN [old EXCEPT !.last = Max({@, e.ts})]
                  ELSE ipStats[s]]
             /\ events' = events \ {e}
    /\ UNCHANGED <<clock, mapVars, phase, now, copied, copyVars, workVars, rows,
                   packets, edits, histVars, listVars>>

\* Mutant: the window is left to the kernel's reset.
FreshAlways(e, t) == e.flow \in TcpFlows

\* A copied flow counts when it is TCP and both its newest packet and the
\* start of its counters are within the window.
Fresh(e, t) ==
    /\ e.flow \in TcpFlows
    /\ e.stats.last # 0 /\ t - e.stats.last <= Window
    /\ e.stats.first # 0 => t - e.stats.first <= Window

\* The indices of entries that count towards source s.
CountedFor(s, t) ==
    {i \in DOMAIN entries : Fresh(entries[i], t) /\ SrcOf[entries[i].flow] = s}

\* The sum of n[i] over the indices I: an element for each unit.
Total(n, I) == Cardinality(UNION {{i} \X (1..n[i]) : i \in I})

\* process_flow_snapshot, for a source that counts: the flag is sticky while
\* the source is in sight ...
Refreshed(old, s, t) ==
    LET I == CountedFor(s, t)
        syn == Total([i \in I |-> entries[i].stats.syn], I)
        ack == Total([i \in I |-> entries[i].stats.ack], I)
    IN  [old EXCEPT !.syn = syn, !.ack = ack,
           !.last = Max({entries[i].stats.last : i \in I}),
           !.flagged = @ \/ Max({syn - ack, 0}) >= Threshold]

\* ... and for one that does not: it loses it when idle, unless it is blocked.
Aged(old, t) ==
    IF ~old.blocked /\ (old.last = 0 \/ t - old.last > Window)
      THEN [old EXCEPT !.syn = 0, !.ack = 0, !.flagged = FALSE] ELSE old

ProcessFlowSnapshot(st, t) ==
    LET seen == {s \in Sources : CountedFor(s, t) # {}}
    IN  [s \in DOMAIN st \cup seen |->
           LET old == IF s \in DOMAIN st THEN st[s] ELSE NewIp
           IN  IF s \in seen THEN Refreshed(old, s, t) ELSE Aged(old, t)]

ToBlock(st) ==
    {s \in DOMAIN st : st[s].flagged /\ ~st[s].blocked /\ AutoOn}

\* Mutant: the deadline is stored where the start belongs.
BlockedUntil(rec, t) == [rec EXCEPT !.blocked = TRUE, !.start = t + ttl + 1]

BlockedFrom(rec, t) == [rec EXCEPT !.blocked = TRUE, !.start = t]

\* Mutant: a blocked source is evicted too.
EvictableBlocked(rec, t) == t > rec.last + IdleTtl

Evictable(rec, t) == t > rec.last + IdleTtl /\ ~rec.flagged /\ ~rec.blocked

EvictIdle(st, t) ==
    IF Cardinality(DOMAIN st) <= MaxIpStats THEN st
    ELSE Restrict(st, {s \in DOMAIN st : ~Evictable(st[s], t)})

\* tick_and_get_blocks.
TickBlocks(st, t) ==
    EvictIdle([s \in DOMAIN st |->
                 IF s \in ToBlock(st) THEN BlockedFrom(st[s], t) ELSE st[s]], t)

\* Mutant: a block is over as soon as it has begun.
ExpiredEarly(st, t) == {s \in DOMAIN st : st[s].blocked /\ t >= st[s].start}

\* get_expired_blocks.
Expired(st, t) == {s \in DOMAIN st : st[s].blocked /\ t >= st[s].start + ttl}

Release(st, t) ==
    [s \in DOMAIN st |->
       IF s \in Expired(st, t)
         THEN [st[s] EXCEPT !.blocked = FALSE, !.flagged = FALSE,
                            !.syn = 0, !.ack = 0]
         ELSE st[s]]

-----------------------------------------------------------------------------
(* The tick handler of cmd_top.                                            *)

\* App::handle_input in the firewall view: an entry is added, or one of the
\* rows that the last tick showed is deleted, whatever has become of it.
HandleInput ==
    \/ UNCHANGED <<blacklist, edits, byHand>>
    \/ /\ edits < MaxEdits /\ edits' = edits + 1
       /\ \/ \E e \in Prefixes : blacklist' = Added(e) /\ byHand' = byHand \cup {e}
          \/ \E e \in rows : blacklist' = blacklist \ {e} /\ byHand' = byHand \cup {e}

\* The timer has expired; the input is handled, the clock read, and the copy
\* of flow_state begins.
TickBegin ==
    /\ phase = "idle" /\ clock > now
    /\ HandleInput
    /\ phase' = "next" /\ now' = clock
    /\ cursor' = 0 /\ entries' = << >> /\ UNCHANGED next
    /\ UNCHANGED <<clock, flowState, events, copied, ipStats, workVars, rows,
                   packets, histVars, refused>>

\* bpf_map_get_next_key: the next key in hash order, and the first key again
\* when the current one has left the map meanwhile.
LaterKeys ==
    {f \in DOMAIN flowState : cursor \in DOMAIN flowState => f > cursor}

NextKey ==
    /\ phase = "next"
    /\ IF LaterKeys = {} THEN phase' = "decide" /\ UNCHANGED next
       ELSE phase' = "lookup" /\ next' = Min(LaterKeys)
    /\ copied' = TRUE
    /\ UNCHANGED <<clock, mapVars, events, now, cursor, entries, ipStats,
                   workVars, rows, packets, edits, histVars, listVars>>

\* The copy ends in an error: process_flow_snapshot is skipped.
SnapshotFails ==
    /\ phase = "next"
    /\ phase' = "decide" /\ copied' = FALSE
    /\ UNCHANGED <<clock, mapVars, events, now, copyVars, ipStats, workVars,
                   rows, packets, edits, histVars, listVars>>

LookupEntry ==
    /\ phase = "lookup"
    /\ entries' = IF next \in DOMAIN flowState
                    THEN Append(entries, [flow |-> next, stats |-> flowState[next]])
                    ELSE entries
    /\ cursor' = next /\ phase' = "next"
    /\ UNCHANGED <<clock, mapVars, events, now, copied, next, ipStats, workVars,
                   rows, packets, edits, histVars, listVars>>

\* Score, block, evict, expire.
Decide ==
    /\ phase = "decide"
    /\ LET scored == IF copied THEN ProcessFlowSnapshot(ipStats, now) ELSE ipStats
           ticked == TickBlocks(scored, now)
       IN  /\ toBlock' = ToBlock(scored)
           /\ toUnblock' = Expired(ticked, now)
           /\ ipStats' = Release(ticked, now)
           /\ blockedAt' = [s \in Sources |->
                IF s \in ToBlock(scored) THEN now ELSE blockedAt[s]]
    /\ phase' = "block"
    /\ entries' = << >> /\ cursor' = 0 /\ next' = 0
    /\ UNCHANGED <<clock, mapVars, events, now, copied, rows, packets, edits,
                   ttl, sent, heard, listVars>>

\* One bpf_map_update_elem per newly flagged source; its result is ignored.
ApplyBlock ==
    /\ phase = "block"
    /\ IF toBlock = {}
         THEN phase' = "unblock" /\ UNCHANGED <<toBlock, blacklist, listVars>>
         ELSE \E s \in toBlock :
                /\ blacklist' = Added(s)
                /\ IF s \in Added(s)
                     THEN byHand' = byHand \ {s} /\ refused' = refused \ {s}
                     ELSE refused' = refused \cup {s} /\ UNCHANGED byHand
                /\ toBlock' = toBlock \ {s} /\ UNCHANGED phase
    /\ UNCHANGED <<clock, flowState, events, now, copied, copyVars, ipStats,
                   toUnblock, rows, packets, edits, histVars>>

\* refresh_firewall_snapshot shows one row per entry.
FirewallSnapshot == blacklist

\* Then one bpf_map_delete_elem per expired source, and last the new rows.
ApplyUnblock ==
    /\ phase = "unblock"
    /\ IF toUnblock = {}
         THEN phase' = "idle" /\ rows' = FirewallSnapshot
              /\ UNCHANGED <<toUnblock, blacklist, listVars>>
         ELSE \E s \in toUnblock :
                /\ blacklist' = blacklist \ {s}
                /\ byHand' = byHand \ {s} /\ refused' = refused \ {s}
                /\ toUnblock' = toUnblock \ {s} /\ UNCHANGED <<phase, rows>>
    /\ UNCHANGED <<clock, flowState, events, now, copied, copyVars, ipStats,
                   toBlock, packets, edits, histVars>>

Next ==
    \/ Packet \/ Advance \/ Block \/ Unblock \/ ProcessEvent
    \/ TickBegin \/ NextKey \/ SnapshotFails \/ LookupEntry \/ Decide
    \/ ApplyBlock \/ ApplyUnblock

Spec == Init /\ [][Next]_vars

-----------------------------------------------------------------------------
\* Between ticks the blacklist and ip_stats agree on every entry that no
\* operator has touched since the tracker last wrote it: an entry is that of a
\* source the tracker holds blocked, and younger than the TTL, so that none
\* outlives the record where its deadline is kept, whatever is evicted, failed
\* or late; and a blocked source has its entry, unless the update found the
\* blacklist full, which cmd_top does not notice.
BlacklistIsTracked ==
    phase = "idle" =>
        LET held == {s \in DOMAIN ipStats : ipStats[s].blocked}
        IN  /\ blacklist \ byHand \subseteq held
            /\ held \ byHand \subseteq blacklist \cup refused
            /\ \A s \in held : now < ipStats[s].start + ttl

\* A source whose block ran out is blocked again only if a packet of it got
\* through after the earlier decision: the flows that were counted then are
\* out of the window when the TTL is at least as long.
NoStaleReblock ==
    [][ttl >= Window =>
         \A s \in Sources :
            blockedAt'[s] # blockedAt[s] /\ blockedAt[s] # 0
              => heard[s] > blockedAt[s]]_vars

\* What disappears from the blacklist without a command or a key press is the
\* /32 entry of a source that the tracker itself decided to block, a full TTL
\* ago or more.  The delete goes by key, so an operator's own entry for that
\* source goes with it; no other entry of an operator's ever does.
ExpiryTakesOnlyItsOwn ==
    [][\A e \in blacklist \ blacklist' :
         edits' # edits \/
           (e \in Sources /\ blockedAt[e] # 0 /\ now >= blockedAt[e] + ttl)]_vars

\* docs/design/behavioral-detection.md: aggregate SYN and ACK counts per
\* source.  The score of a source is at most the SYNs that it sent.
SynsWereSent == \A s \in DOMAIN ipStats : ipStats[s].syn <= sent[s]

=============================================================================
