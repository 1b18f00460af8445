-------------------------- MODULE AutoBlock_proofs -------------------------
(***************************************************************************)
(* Proofs about AutoBlock, for every set of sources and flows, every       *)
(* option of the command line and every bound.                             *)
(***************************************************************************)
EXTENDS AutoBlock, NumberLemmas, FiniteSetTheorems, SequenceTheorems

-----------------------------------------------------------------------------
(* Types.                                                                  *)

StatsUpTo(n) == [syn : 0..n, ack : 0..n, first : Times, last : Times]
Copies == [flow : Flows, stats : Stats]
IpRecords == [syn : Nat, ack : Nat, last : Times, start : Times,
              flagged : BOOLEAN, blocked : BOOLEAN]

\* TypeOK, with counters that are at most the packets so far.
KernelShape ==
    /\ clock \in Times /\ packets \in 0..MaxPackets
    /\ DOMAIN flowState \subseteq Flows
    /\ \A f \in DOMAIN flowState : flowState[f] \in StatsUpTo(packets)
    /\ sent \in [Sources -> 0..packets] /\ heard \in [Sources -> Times]
    /\ events \subseteq [src : Sources, ts : Times]
ListShape ==
    /\ blacklist \subseteq Prefixes /\ IsFiniteSet(blacklist)
    /\ Cardinality(blacklist) <= BlacklistCap
    /\ toBlock \subseteq Sources /\ toUnblock \subseteq Sources
    /\ rows \subseteq Prefixes /\ edits \in 0..MaxEdits
    /\ byHand \subseteq Prefixes /\ refused \subseteq Sources
CopyShape ==
    /\ phase \in {"idle", "next", "lookup", "decide", "block", "unblock"}
    /\ now \in Times /\ cursor \in 0..NFlows /\ next \in 0..NFlows
    /\ entries \in Seq(Copies) /\ copied \in BOOLEAN
TrackerShape ==
    /\ ttl \in Ttls
    /\ DOMAIN ipStats \subseteq Sources
    /\ \A s \in DOMAIN ipStats : ipStats[s] \in IpRecords
    /\ blockedAt \in [Sources -> Times]
Shape == KernelShape /\ ListShape /\ CopyShape /\ TrackerShape

LEMMA Constants ==
    /\ NFlows \in Nat /\ NFlows > 0 /\ MaxTime \in Nat /\ MaxTime > 0
    /\ MaxPackets \in Nat /\ MaxEdits \in Nat /\ Ttls \subseteq Nat
    /\ Window \in Nat /\ Threshold \in Nat /\ IdleTtl \in Nat
    /\ BlacklistCap \in Nat
    /\ \A f \in Flows : SrcOf[f] \in Sources
    /\ Wide \notin Sources
BY FlowsAssumption, BoundsAssumption

\* One packet's accounting.
LEMMA AccountShape ==
    ASSUME Shape, NEW f \in Flows, NEW g \in Segments(f)
    PROVE  Account(f, g) \in StatsUpTo(packets + 1) /\ Account(f, g).last = clock
<1>1. g \in [syn : {0, 1}, ack : {0, 1}]
  BY DEF Segments
<1>2. clock \in Times /\ packets \in Nat
  BY Constants DEF Shape, KernelShape
<1>3. CASE f \notin DOMAIN flowState \/ (Window > 0 /\ clock - flowState[f].first > Window)
  <2>1. Account(f, g) = [syn |-> g.syn, ack |-> g.ack, first |-> clock, last |-> clock]
    BY <1>3 DEF Account
  <2>2. QED
    BY <1>1, <1>2, <2>1 DEF StatsUpTo
<1>4. CASE ~(f \notin DOMAIN flowState \/ (Window > 0 /\ clock - flowState[f].first > Window))
  <2> DEFINE v == flowState[f]
             w == [v EXCEPT !.last = clock, !.syn = @ + g.syn, !.ack = @ + g.ack]
  <2>1. v \in StatsUpTo(packets)
    BY <1>4 DEF Shape, KernelShape
  <2>2. Account(f, g) = w
    BY <1>4 DEF Account
  <2> HIDE DEF v
  <2>3. v.syn \in 0..packets /\ v.ack \in 0..packets
    BY <2>1 DEF StatsUpTo
  <2>4. v.syn + g.syn \in 0..(packets + 1) /\ v.ack + g.ack \in 0..(packets + 1)
    BY <1>1, <1>2, <2>3
  <2>5. w \in StatsUpTo(packets + 1) /\ w.last = clock
    BY <1>2, <2>1, <2>3, <2>4 DEF StatsUpTo
  <2>6. QED
    BY <2>2, <2>5
<1>5. QED
  BY <1>3, <1>4

\* What a packet does to the maps and to the history.
LEMMA PacketEffect ==
    ASSUME Shape, Packet
    PROVE  /\ \A f \in DOMAIN flowState' :
                \/ f \in DOMAIN flowState /\ flowState'[f] = flowState[f]
                \/ /\ f \in Flows /\ flowState'[f] \in StatsUpTo(packets + 1)
                   /\ flowState'[f].last = clock /\ heard'[SrcOf[f]] = clock
           /\ \A s \in Sources : heard'[s] = heard[s] \/ heard'[s] = clock
           /\ sent' \in [Sources -> 0..(packets + 1)] /\ heard' \in [Sources -> Times]
           /\ events' \subseteq [src : Sources, ts : Times]
<1> DEFINE Arrives(f, seg) ==
             /\ IF Covered(SrcOf[f])
                  THEN UNCHANGED <<flowState, sent, heard>>
                  ELSE /\ \E live \in Kept(f) :
                            flowState' = [g \in live \cup {f} |->
                               IF g = f THEN Account(f, seg) ELSE flowState[g]]
                       /\ sent' = [sent EXCEPT ![SrcOf[f]] = @ + seg.syn]
                       /\ heard' = [heard EXCEPT ![SrcOf[f]] = clock]
             /\ \/ events' = events \cup {[src |-> SrcOf[f], ts |-> clock]}
                \/ UNCHANGED events
<1>0. PICK f \in Flows : \E seg \in Segments(f) : Arrives(f, seg)
  BY DEF Packet
<1>1. PICK seg \in Segments(f) : Arrives(f, seg)
  BY <1>0
<1>2. /\ clock \in Times /\ packets \in Nat /\ SrcOf[f] \in Sources
      /\ sent \in [Sources -> 0..packets] /\ heard \in [Sources -> Times]
      /\ events \subseteq [src : Sources, ts : Times]
  BY Constants DEF Shape, KernelShape
<1>3. seg.syn \in {0, 1}
  BY DEF Segments
<1>4. events' \subseteq [src : Sources, ts : Times]
  BY <1>1, <1>2
<1>5. CASE Covered(SrcOf[f])
  <2>1. UNCHANGED <<flowState, sent, heard>>
    BY <1>1, <1>5
  <2>2. sent' \in [Sources -> 0..(packets + 1)]
    BY <1>2, <2>1
  <2>3. QED
    BY <1>2, <1>4, <2>1, <2>2
<1>6. CASE ~Covered(SrcOf[f])
  <2>1. PICK live \in Kept(f) :
          flowState' = [g \in live \cup {f} |->
                          IF g = f THEN Account(f, seg) ELSE flowState[g]]
    BY <1>1, <1>6
  <2>2. live \subseteq DOMAIN flowState
    BY DEF Kept
  <2>3. /\ sent' = [sent EXCEPT ![SrcOf[f]] = @ + seg.syn]
        /\ heard' = [heard EXCEPT ![SrcOf[f]] = clock]
    BY <1>1, <1>6
  <2>4. sent' \in [Sources -> 0..(packets + 1)] /\ heard' \in [Sources -> Times]
    BY <1>2, <1>3, <2>3
  <2>5. heard'[SrcOf[f]] = clock
        /\ \A s \in Sources : heard'[s] = heard[s] \/ heard'[s] = clock
    BY <1>2, <2>3
  <2>6. Account(f, seg) \in StatsUpTo(packets + 1) /\ Account(f, seg).last = clock
    BY AccountShape
  <2>7. ASSUME NEW g \in DOMAIN flowState'
        PROVE  \/ g \in DOMAIN flowState /\ flowState'[g] = flowState[g]
               \/ /\ g \in Flows /\ flowState'[g] \in StatsUpTo(packets + 1)
                  /\ flowState'[g].last = clock /\ heard'[SrcOf[g]] = clock
    BY <2>1, <2>2, <2>5, <2>6
  <2>8. QED
    BY <1>4, <2>4, <2>5, <2>7
<1>7. QED
  BY <1>5, <1>6

-----------------------------------------------------------------------------
(* FlowTracker, over a table of IpRecords.                                 *)

IsTable(st) ==
    DOMAIN st \subseteq Sources /\ \A s \in DOMAIN st : st[s] \in IpRecords
HeldIn(st) == {s \in DOMAIN st : st[s].blocked}
FlaggedIn(st) == {s \in DOMAIN st : st[s].flagged}

Updated(old, a, b, l, m) ==
    [old EXCEPT !.syn = a, !.ack = b, !.last = l, !.flagged = m]

LEMMA RecordUpdate ==
    ASSUME NEW old \in IpRecords, NEW a \in Nat, NEW b \in Nat,
           NEW l \in Times, NEW m \in BOOLEAN
    PROVE  /\ Updated(old, a, b, l, m) \in IpRecords
           /\ Updated(old, a, b, l, m).blocked = old.blocked
           /\ Updated(old, a, b, l, m).start = old.start
BY DEF IpRecords, Updated

LEMMA NewIpRecord == NewIp \in IpRecords /\ ~NewIp.blocked /\ ~NewIp.flagged
<1>1. 0 \in Times
  BY Constants DEF Times
<1>2. QED
  BY <1>1 DEF NewIp, IpRecords

LEMMA TotalIsNat ==
    ASSUME NEW I, IsFiniteSet(I), NEW n, NEW N \in Nat, \A i \in I : n[i] \in 0..N
    PROVE  Total(n, I) \in Nat
<1> DEFINE U == UNION {{i} \X (1..n[i]) : i \in I}
<1>1. U \subseteq I \X (1..N)
  <2> SUFFICES ASSUME NEW i \in I, NEW x \in {i} \X (1..n[i])
               PROVE  x \in I \X (1..N)
    OBVIOUS
  <2>1. n[i] \in 0..N
    OBVIOUS
  <2>2. QED
    BY <2>1
<1>2. IsFiniteSet(I \X (1..N))
  <2>1. IsFiniteSet(1..N)
    BY FS_Interval
  <2>2. QED
    BY <2>1, FS_Product
<1>3. QED
  BY <1>1, <1>2, FS_Subset, FS_CardinalityType DEF Total

\* A source that counts keeps its block and its deadline.
LEMMA RefreshedRecord ==
    ASSUME Shape, NEW s, NEW t, CountedFor(s, t) # {}, NEW old \in IpRecords
    PROVE  /\ Refreshed(old, s, t) \in IpRecords
           /\ Refreshed(old, s, t).blocked = old.blocked
           /\ Refreshed(old, s, t).start = old.start
<1> DEFINE I == CountedFor(s, t)
           ns == [i \in I |-> entries[i].stats.syn]
           na == [i \in I |-> entries[i].stats.ack]
           ls == {entries[i].stats.last : i \in I}
           m == old.flagged \/ Max({Total(ns, I) - Total(na, I), 0}) >= Threshold
<1>1. I \subseteq DOMAIN entries /\ IsFiniteSet(DOMAIN entries)
  <2>1. entries \in Seq(Copies)
    BY DEF Shape, CopyShape
  <2>2. DOMAIN entries = 1..Len(entries) /\ Len(entries) \in Nat
    BY <2>1
  <2>3. QED
    BY <2>2, FS_Interval DEF CountedFor
<1>2. \A i \in I : /\ entries[i].stats.syn \in 0..MaxPackets
                   /\ entries[i].stats.ack \in 0..MaxPackets
                   /\ entries[i].stats.last \in Times
  <2>1. \A i \in I : entries[i] \in Copies
    BY <1>1 DEF Shape, CopyShape
  <2>2. QED
    BY <2>1 DEF Copies, Stats
<1>3. MaxPackets \in Nat /\ MaxTime \in Nat
  BY Constants
<1>4. IsFiniteSet(I)
  BY <1>1, FS_Subset
<1>5. Total(ns, I) \in Nat /\ Total(na, I) \in Nat
  BY <1>2, <1>3, <1>4, TotalIsNat
<1>6. Max(ls) \in Times
  <2>1. ls \subseteq 0..MaxTime /\ ls # {}
    BY <1>2 DEF Times
  <2> HIDE DEF ls
  <2>2. QED
    BY <1>3, <2>1, MaxOfNats DEF Times
<1>7. m \in BOOLEAN
  BY DEF IpRecords
<1>8. Refreshed(old, s, t) = Updated(old, Total(ns, I), Total(na, I), Max(ls), m)
  BY DEF Refreshed, Updated
<1> HIDE DEF I, ns, na, ls, m
<1>9. QED
  BY <1>5, <1>6, <1>7, <1>8, RecordUpdate

\* So does one that does not, and it gains no flag.
LEMMA AgedRecord ==
    ASSUME NEW old \in IpRecords, NEW t
    PROVE  /\ Aged(old, t) \in IpRecords
           /\ Aged(old, t).blocked = old.blocked
           /\ Aged(old, t).start = old.start
           /\ Aged(old, t).flagged => old.flagged
BY DEF Aged, IpRecords

LEMMA Snapshot ==
    ASSUME Shape, NEW st, IsTable(st), NEW t
    PROVE  LET new == ProcessFlowSnapshot(st, t)
           IN  /\ IsTable(new)
               /\ HeldIn(new) = HeldIn(st)
               /\ \A s \in HeldIn(st) : new[s].start = st[s].start
               /\ \A s \in FlaggedIn(new) :
                     s \in FlaggedIn(st) \/ CountedFor(s, t) # {}
<1> DEFINE new == ProcessFlowSnapshot(st, t)
           seen == {s \in Sources : CountedFor(s, t) # {}}
           old(s) == IF s \in DOMAIN st THEN st[s] ELSE NewIp
<1>1. /\ DOMAIN new = DOMAIN st \cup seen
      /\ \A s \in DOMAIN new :
           new[s] = IF s \in seen THEN Refreshed(old(s), s, t) ELSE Aged(old(s), t)
  BY DEF ProcessFlowSnapshot
<1> HIDE DEF new
<1>2. \A s \in DOMAIN new : old(s) \in IpRecords
  BY <1>1, NewIpRecord DEF IsTable
<1>3. ASSUME NEW s \in DOMAIN new
      PROVE  /\ new[s] \in IpRecords
             /\ new[s].blocked = old(s).blocked /\ new[s].start = old(s).start
             /\ new[s].flagged => old(s).flagged \/ CountedFor(s, t) # {}
  <2>1. CASE s \in seen
    <3>1. CountedFor(s, t) # {}
      BY <2>1
    <3> HIDE DEF old
    <3>2. QED
      BY <1>1, <1>2, <2>1, <3>1, RefreshedRecord
  <2>2. CASE s \notin seen
    <3> HIDE DEF old, seen
    <3>1. QED
      BY <1>1, <1>2, <2>2, AgedRecord
  <2>3. QED
    BY <2>1, <2>2
<1>4. IsTable(new)
  BY <1>1, <1>3 DEF IsTable
<1>5. HeldIn(new) = HeldIn(st)
  BY <1>1, <1>3, NewIpRecord DEF HeldIn
<1>6. \A s \in HeldIn(st) : new[s].start = st[s].start
  BY <1>1, <1>3 DEF HeldIn
<1>7. \A s \in FlaggedIn(new) : s \in FlaggedIn(st) \/ CountedFor(s, t) # {}
  BY <1>1, <1>3, NewIpRecord DEF FlaggedIn
<1>8. QED
  BY <1>4, <1>5, <1>6, <1>7 DEF new

\* tick_and_get_blocks blocks the flagged sources from now on, and evicts no
\* blocked one.
LEMMA Ticked ==
    ASSUME NEW st, IsTable(st), NEW t \in Times
    PROVE  /\ IsTable(TickBlocks(st, t))
           /\ HeldIn(TickBlocks(st, t)) = HeldIn(st) \cup ToBlock(st)
           /\ \A s \in ToBlock(st) : TickBlocks(st, t)[s].start = t
           /\ \A s \in HeldIn(st) : TickBlocks(st, t)[s].start = st[s].start
           /\ FlaggedIn(TickBlocks(st, t)) \subseteq FlaggedIn(st)
<1> DEFINE mid == [s \in DOMAIN st |->
                     IF s \in ToBlock(st) THEN BlockedFrom(st[s], t) ELSE st[s]]
<1>1. ASSUME NEW s \in DOMAIN st
      PROVE  /\ mid[s] \in IpRecords
             /\ mid[s].blocked <=> st[s].blocked \/ s \in ToBlock(st)
             /\ mid[s].flagged <=> st[s].flagged
             /\ mid[s].start = IF s \in ToBlock(st) THEN t ELSE st[s].start
  <2>1. st[s] \in IpRecords
    BY DEF IsTable
  <2>2. CASE s \in ToBlock(st)
    <3>1. mid[s] = [st[s] EXCEPT !.blocked = TRUE, !.start = t]
      BY <2>2 DEF BlockedFrom
    <3> HIDE DEF mid
    <3>2. QED
      BY <2>1, <2>2, <3>1 DEF IpRecords
  <2>3. CASE s \notin ToBlock(st)
    BY <2>1, <2>3
  <2>4. QED
    BY <2>2, <2>3
<1>2. DOMAIN mid = DOMAIN st /\ ToBlock(st) \subseteq DOMAIN st \ HeldIn(st)
  BY DEF ToBlock, HeldIn
<1>3. TickBlocks(st, t) = EvictIdle(mid, t)
  BY DEF TickBlocks
<1> HIDE DEF mid
<1>4. PICK D \in SUBSET DOMAIN mid :
        /\ HeldIn(mid) \subseteq D /\ DOMAIN EvictIdle(mid, t) = D
        /\ \A s \in D : EvictIdle(mid, t)[s] = mid[s]
  <2>1. CASE Cardinality(DOMAIN mid) <= MaxIpStats
    <3>1. EvictIdle(mid, t) = mid /\ HeldIn(mid) \subseteq DOMAIN mid
      BY <2>1 DEF EvictIdle, HeldIn
    <3>2. QED
      BY <3>1
  <2>2. CASE ~(Cardinality(DOMAIN mid) <= MaxIpStats)
    <3> DEFINE D == {s \in DOMAIN mid : ~Evictable(mid[s], t)}
    <3>1. EvictIdle(mid, t) = [s \in D |-> mid[s]]
      BY <2>2 DEF EvictIdle, Restrict
    <3>2. HeldIn(mid) \subseteq D
      BY DEF HeldIn, Evictable
    <3> HIDE DEF D
    <3>3. D \in SUBSET DOMAIN mid
      BY DEF D
    <3>4. QED
      BY <3>1, <3>2, <3>3
  <2>3. QED
    BY <2>1, <2>2
<1>5. HeldIn(mid) = HeldIn(st) \cup ToBlock(st)
  BY <1>1, <1>2 DEF HeldIn
<1>6. HeldIn(EvictIdle(mid, t)) = HeldIn(mid)
  BY <1>4 DEF HeldIn
<1>7. IsTable(EvictIdle(mid, t))
  BY <1>1, <1>2, <1>4 DEF IsTable
<1>8. FlaggedIn(EvictIdle(mid, t)) \subseteq FlaggedIn(st)
  BY <1>1, <1>2, <1>4 DEF FlaggedIn
<1>9. QED
  BY <1>1, <1>2, <1>3, <1>4, <1>5, <1>6, <1>7, <1>8

LEMMA ReleasedRecord ==
    ASSUME NEW old \in IpRecords, NEW new,
           new = [old EXCEPT !.blocked = FALSE, !.flagged = FALSE,
                             !.syn = 0, !.ack = 0]
    PROVE  new \in IpRecords /\ new.start = old.start
<1>1. 0 \in Nat /\ FALSE \in BOOLEAN
  OBVIOUS
<1>2. QED
  BY <1>1 DEF IpRecords

\* get_expired_blocks releases what has expired and nothing else.
LEMMA Released ==
    ASSUME NEW st, IsTable(st), NEW t \in Times
    PROVE  /\ IsTable(Release(st, t))
           /\ HeldIn(Release(st, t)) = HeldIn(st) \ Expired(st, t)
           /\ \A s \in HeldIn(Release(st, t)) : Release(st, t)[s].start = st[s].start
           /\ FlaggedIn(Release(st, t)) \subseteq FlaggedIn(st) \ Expired(st, t)
<1> DEFINE new == Release(st, t)
<1>1. DOMAIN new = DOMAIN st
  BY DEF Release
<1>2. ASSUME NEW s \in DOMAIN st
      PROVE  /\ new[s] \in IpRecords
             /\ new[s].blocked <=> st[s].blocked /\ s \notin Expired(st, t)
             /\ new[s].flagged => st[s].flagged /\ s \notin Expired(st, t)
             /\ new[s].start = st[s].start
  <2>1. st[s] \in IpRecords
    BY DEF IsTable
  <2>2. CASE s \in Expired(st, t)
    <3>1. new[s] = [st[s] EXCEPT !.blocked = FALSE, !.flagged = FALSE,
                                 !.syn = 0, !.ack = 0]
      BY <2>2 DEF Release
    <3> HIDE DEF new
    <3>2. new[s] \in IpRecords /\ new[s].start = st[s].start
      BY <2>1, <3>1, ReleasedRecord
    <3>3. ~new[s].blocked /\ ~new[s].flagged
      BY <2>1, <3>1 DEF IpRecords
    <3>4. QED
      BY <2>2, <3>2, <3>3
  <2>3. CASE s \notin Expired(st, t)
    <3>1. new[s] = st[s]
      BY <2>3 DEF Release
    <3> HIDE DEF new
    <3>2. QED
      BY <2>1, <2>3, <3>1
  <2>4. QED
    BY <2>2, <2>3
<1> HIDE DEF new
<1>3. IsTable(new)
  BY <1>1, <1>2 DEF IsTable
<1>4. HeldIn(new) = HeldIn(st) \ Expired(st, t)
  BY <1>1, <1>2 DEF HeldIn
<1>5. \A s \in HeldIn(new) : new[s].start = st[s].start
  BY <1>1, <1>2 DEF HeldIn
<1>6. FlaggedIn(new) \subseteq FlaggedIn(st) \ Expired(st, t)
  BY <1>1, <1>2 DEF FlaggedIn
<1>7. QED
  BY <1>3, <1>4, <1>5, <1>6 DEF new

\* The sources the tracker holds blocked.
Held == HeldIn(ipStats)

\* Where the block of s began, if the tick at hand is taken into account.
Began(s) == IF s \in toBlock' THEN now ELSE ipStats[s].start

\* A whole decision: what is held or to be released afterwards was held or is
\* to be blocked, and is held just when its TTL is not over.
LEMMA DecideEffect ==
    ASSUME Shape, Decide
    PROVE  /\ IsTable(ipStats') /\ toBlock' \subseteq Sources \ Held
           /\ Held' \cup toUnblock' = Held \cup toBlock'
           /\ toUnblock' \cap (Held' \cup FlaggedIn(ipStats')) = {}
           /\ \A s \in Held' : /\ ipStats'[s].start = Began(s)
                               /\ now < Began(s) + ttl
           /\ \A s \in toUnblock' : now >= Began(s) + ttl
           /\ \A s \in toBlock' \cup FlaggedIn(ipStats') :
                 s \in FlaggedIn(ipStats) \/ CountedFor(s, now) # {}
<1> DEFINE scored == IF copied THEN ProcessFlowSnapshot(ipStats, now) ELSE ipStats
           ticked == TickBlocks(scored, now)
<1>1. /\ toBlock' = ToBlock(scored) /\ toUnblock' = Expired(ticked, now)
      /\ ipStats' = Release(ticked, now)
  BY DEF Decide
<1>2. now \in Times /\ IsTable(ipStats) /\ ttl \in Nat
  BY Constants DEF Shape, CopyShape, TrackerShape, IsTable
<1>3. /\ IsTable(scored) /\ HeldIn(scored) = Held
      /\ \A s \in Held : scored[s].start = ipStats[s].start
      /\ \A s \in FlaggedIn(scored) :
           s \in FlaggedIn(ipStats) \/ CountedFor(s, now) # {}
  BY <1>2, Snapshot DEF Held
<1> HIDE DEF scored
<1>4. /\ IsTable(ticked) /\ HeldIn(ticked) = Held \cup ToBlock(scored)
      /\ \A s \in ToBlock(scored) : ticked[s].start = now
      /\ \A s \in Held : ticked[s].start = scored[s].start
      /\ FlaggedIn(ticked) \subseteq FlaggedIn(scored)
  BY <1>2, <1>3, Ticked
<1> HIDE DEF ticked
<1>5. /\ IsTable(ipStats') /\ Held' = HeldIn(ticked) \ Expired(ticked, now)
      /\ \A s \in Held' : ipStats'[s].start = ticked[s].start
      /\ FlaggedIn(ipStats') \subseteq FlaggedIn(ticked) \ Expired(ticked, now)
  BY <1>1, <1>2, <1>4, Released DEF Held
<1>6. /\ ToBlock(scored) \subseteq FlaggedIn(scored) \ HeldIn(scored)
      /\ ToBlock(scored) \subseteq Sources
  BY <1>3 DEF ToBlock, FlaggedIn, HeldIn, IsTable
<1>7. Expired(ticked, now) \subseteq HeldIn(ticked)
  BY DEF Expired, HeldIn
<1>8. \A s \in HeldIn(ticked) : /\ ticked[s].start = Began(s)
                               /\ ticked[s].start \in Nat
  <2>1. \A s \in HeldIn(ticked) : ticked[s].start \in Times
    BY <1>4 DEF IsTable, HeldIn, IpRecords
  <2>2. QED
    BY <1>1, <1>3, <1>4, <2>1, Constants DEF Began, Times
<1>9. \A s \in HeldIn(ticked) :
        s \in Expired(ticked, now) <=> now >= ticked[s].start + ttl
  BY DEF Expired, HeldIn
<1>10. now \in Nat
  BY <1>2, Constants DEF Times
<1>11. \A s \in Held' : ipStats'[s].start = Began(s) /\ now < Began(s) + ttl
  BY <1>2, <1>5, <1>8, <1>9, <1>10
<1>12. \A s \in toUnblock' : now >= Began(s) + ttl
  BY <1>1, <1>7, <1>8, <1>9
<1>13. Held' \cup toUnblock' = Held \cup toBlock'
  BY <1>1, <1>4, <1>5, <1>7
<1>14. QED
  BY <1>1, <1>3, <1>4, <1>5, <1>6, <1>11, <1>12, <1>13

-----------------------------------------------------------------------------
(* The types are kept.                                                     *)

IsList(b) == b \subseteq Prefixes /\ IsFiniteSet(b) /\ Cardinality(b) <= BlacklistCap

LEMMA AddedList ==
    ASSUME IsList(blacklist), NEW e \in Prefixes
    PROVE  IsList(Added(e))
BY FS_AddElement DEF IsList, Added

LEMMA RemovedList ==
    ASSUME IsList(blacklist), NEW e
    PROVE  IsList(blacklist \ {e})
<1>1. IsFiniteSet(blacklist \ {e}) /\ Cardinality(blacklist \ {e}) <= Cardinality(blacklist)
  BY FS_Subset DEF IsList
<1>2. /\ Cardinality(blacklist \ {e}) \in Nat /\ Cardinality(blacklist) \in Nat
      /\ BlacklistCap \in Nat
  BY <1>1, FS_CardinalityType, Constants DEF IsList
<1>3. QED
  BY <1>1, <1>2 DEF IsList

LEMMA MoreStats ==
    /\ \A n \in 0..MaxPackets : StatsUpTo(n) \subseteq Stats
    /\ \A n \in Nat : StatsUpTo(n) \subseteq StatsUpTo(n + 1)
BY Constants DEF StatsUpTo, Stats

LEMMA ShapeInit == Init => Shape
<1> SUFFICES ASSUME Init PROVE Shape
  OBVIOUS
<1>1. 0 \in Times /\ 1 \in Times
  BY Constants DEF Times
<1>2. KernelShape
  <2>1. DOMAIN flowState = {}
    BY DEF Init
  <2>2. 0 \in 0..MaxPackets /\ 0 \in 0..packets
    BY Constants DEF Init
  <2>3. QED
    BY <1>1, <2>1, <2>2 DEF Init, KernelShape
<1>3. ListShape
  <2>1. Cardinality({}) <= BlacklistCap /\ IsFiniteSet({}) /\ 0 \in 0..MaxEdits
    BY Constants, FS_EmptySet
  <2>2. QED
    BY <2>1 DEF Init, ListShape
<1>4. CopyShape
  <2>1. 0 \in 0..NFlows /\ << >> \in Seq(Copies)
    BY Constants
  <2>2. QED
    BY <1>1, <2>1 DEF Init, CopyShape
<1>5. TrackerShape
  <2>1. DOMAIN ipStats = {}
    BY DEF Init
  <2>2. QED
    BY <1>1, <2>1 DEF Init, TrackerShape
<1>6. QED
  BY <1>2, <1>3, <1>4, <1>5 DEF Shape

\* The kernel's and the operators' steps.
LEMMA OutsideShape ==
    ASSUME Shape, Packet \/ Advance \/ Block \/ Unblock
    PROVE  Shape'
<1>1. CASE Packet
  <2>1. packets \in Nat /\ packets + 1 \in 0..MaxPackets /\ packets' = packets + 1
    BY <1>1, Constants DEF Packet, Shape, KernelShape
  <2>2. ASSUME NEW f \in DOMAIN flowState'
        PROVE  f \in Flows /\ flowState'[f] \in StatsUpTo(packets + 1)
    <3>1. CASE f \in DOMAIN flowState /\ flowState'[f] = flowState[f]
      BY <2>1, <3>1, MoreStats DEF Shape, KernelShape
    <3>2. QED
      BY <1>1, <3>1, PacketEffect
  <2>3. KernelShape'
    <3>1. clock' = clock
      BY <1>1 DEF Packet
    <3>2. QED
      BY <1>1, <2>1, <2>2, <3>1, PacketEffect DEF Shape, KernelShape
  <2>4. (ListShape /\ CopyShape /\ TrackerShape)'
    BY <1>1 DEF Packet, Shape, ListShape, CopyShape, TrackerShape, copyVars,
       workVars, listVars
  <2>5. QED
    BY <2>3, <2>4 DEF Shape
<1>2. CASE Advance
  <2>1. clock' \in Times
    BY <1>2, Constants DEF Advance, Shape, KernelShape, Times
  <2>2. QED
    BY <1>2, <2>1 DEF Advance, Shape, KernelShape, ListShape, CopyShape,
       TrackerShape, mapVars, copyVars, workVars, histVars, listVars
<1>3. CASE Block \/ Unblock
  <2>1. IsList(blacklist')
    BY <1>3, AddedList, RemovedList DEF Block, Unblock, Shape, ListShape, IsList
  <2>2. edits' \in 0..MaxEdits
    BY <1>3, Constants DEF Block, Unblock, Shape, ListShape
  <2>3. ListShape'
    BY <1>3, <2>1, <2>2 DEF Block, Unblock, Shape, ListShape, IsList, workVars
  <2>4. (KernelShape /\ CopyShape /\ TrackerShape)'
    BY <1>3 DEF Block, Unblock, Shape, KernelShape, CopyShape, TrackerShape,
       copyVars, histVars
  <2>5. QED
    BY <2>3, <2>4 DEF Shape
<1>4. QED
  BY <1>1, <1>2, <1>3

\* A sampled event can move the time a source was last seen, and no more.
LEMMA EventEffect ==
    ASSUME Shape, ProcessEvent
    PROVE  /\ IsTable(ipStats') /\ events' \subseteq events
           /\ Held' = Held /\ FlaggedIn(ipStats') = FlaggedIn(ipStats)
           /\ \A s \in Held : ipStats'[s].start = ipStats[s].start
<1>1. PICK e \in events :
        LET old == IF e.src \in DOMAIN ipStats THEN ipStats[e.src] ELSE NewIp
        IN  /\ ipStats' = [s \in DOMAIN ipStats \cup {e.src} |->
                 IF s = e.src THEN [old EXCEPT !.last = Max({@, e.ts})]
                 ELSE ipStats[s]]
            /\ events' = events \ {e}
  BY DEF ProcessEvent
<1> DEFINE old == IF e.src \in DOMAIN ipStats THEN ipStats[e.src] ELSE NewIp
           l == Max({old.last, e.ts})
           new == [old EXCEPT !.last = l]
<1>2. ipStats' = [s \in DOMAIN ipStats \cup {e.src} |->
                    IF s = e.src THEN new ELSE ipStats[s]]
  BY <1>1
<1>3. old \in IpRecords
  BY NewIpRecord DEF Shape, TrackerShape
<1>4. e.src \in Sources /\ e.ts \in Times
  BY DEF Shape, KernelShape
<1>5. e.src \notin DOMAIN ipStats => ~old.blocked /\ ~old.flagged
  BY NewIpRecord
<1>6. e.src \in DOMAIN ipStats => old = ipStats[e.src]
  OBVIOUS
<1> HIDE DEF old
<1>7. l \in Times
  <2>1. old.last \in Times
    BY <1>3 DEF IpRecords
  <2>2. old.last \in Int /\ e.ts \in Int
    BY <1>4, <2>1 DEF Times
  <2>3. QED
    BY <1>4, <2>1, <2>2, MaxOfTwo
<1> HIDE DEF l
<1>8. /\ new \in IpRecords /\ new.blocked = old.blocked
      /\ new.flagged = old.flagged /\ new.start = old.start
  BY <1>3, <1>7 DEF IpRecords
<1> HIDE DEF new
<1>9. IsTable(ipStats')
  BY <1>2, <1>4, <1>8 DEF IsTable, Shape, TrackerShape
<1>10. Held' = Held /\ FlaggedIn(ipStats') = FlaggedIn(ipStats)
  BY <1>2, <1>5, <1>6, <1>8 DEF Held, HeldIn, FlaggedIn
<1>11. \A s \in Held : ipStats'[s].start = ipStats[s].start
  BY <1>2, <1>6, <1>8 DEF Held, HeldIn
<1>12. QED
  BY <1>1, <1>9, <1>10, <1>11

\* The steps of the event loop.
LEMMA LoopShape ==
    ASSUME Shape, \/ ProcessEvent \/ TickBegin \/ NextKey \/ SnapshotFails
                  \/ LookupEntry \/ Decide \/ ApplyBlock \/ ApplyUnblock
    PROVE  Shape'
<1>1. CASE ProcessEvent
  <2>1. (ListShape /\ CopyShape)'
    BY <1>1 DEF ProcessEvent, Shape, ListShape, CopyShape, copyVars, workVars,
       mapVars, listVars
  <2>2. TrackerShape'
    <3>1. IsTable(ipStats') /\ UNCHANGED <<ttl, blockedAt>>
      BY <1>1, EventEffect DEF ProcessEvent, histVars
    <3>2. QED
      BY <3>1 DEF Shape, TrackerShape, IsTable
  <2>3. KernelShape'
    <3>1. events' \subseteq events /\ UNCHANGED <<clock, packets, flowState, sent, heard>>
      BY <1>1, EventEffect DEF ProcessEvent, mapVars, histVars
    <3>2. QED
      BY <3>1 DEF Shape, KernelShape
  <2>4. QED
    BY <2>1, <2>2, <2>3 DEF Shape
<1>2. CASE TickBegin
  <2>1. IsList(blacklist') /\ edits' \in 0..MaxEdits /\ byHand' \subseteq Prefixes
    <3>1. CASE UNCHANGED <<blacklist, edits, byHand>>
      BY <3>1 DEF Shape, ListShape, IsList
    <3>2. CASE \E e \in Prefixes : /\ edits < MaxEdits /\ edits' = edits + 1
                                   /\ blacklist' \in {Added(e), blacklist \ {e}}
                                   /\ byHand' = byHand \cup {e}
      <4>1. IsList(blacklist) /\ edits \in 0..MaxEdits /\ MaxEdits \in Nat
        BY Constants DEF Shape, ListShape, IsList
      <4>2. edits' \in 0..MaxEdits /\ byHand' \subseteq Prefixes
        BY <3>2, <4>1 DEF Shape, ListShape
      <4>3. QED
        BY <3>2, <4>1, <4>2, AddedList, RemovedList
    <3>3. QED
      BY <1>2, <3>1, <3>2 DEF TickBegin, HandleInput, Shape, ListShape
  <2>2. ListShape'
    BY <1>2, <2>1 DEF TickBegin, Shape, ListShape, IsList, workVars
  <2>3. CopyShape'
    <3>1. /\ phase' = "next" /\ now' = clock /\ cursor' = 0 /\ next' = next
          /\ entries' = << >> /\ copied' = copied
      BY <1>2 DEF TickBegin
    <3>2. 0 \in 0..NFlows /\ clock \in Times /\ << >> \in Seq(Copies)
      BY Constants DEF Shape, KernelShape
    <3>3. QED
      BY <3>1, <3>2 DEF Shape, CopyShape
  <2>4. (KernelShape /\ TrackerShape)'
    BY <1>2 DEF TickBegin, Shape, KernelShape, TrackerShape, histVars
  <2>5. QED
    BY <2>2, <2>3, <2>4 DEF Shape
<1>3. CASE NextKey \/ SnapshotFails
  <2>1. next' \in 0..NFlows
    <3>1. LaterKeys \subseteq Flows
      BY DEF LaterKeys, Shape, KernelShape
    <3>2. LaterKeys # {} => Min(LaterKeys) \in 0..NFlows
      <4>1. LaterKeys \subseteq Nat /\ LaterKeys \subseteq 0..NFlows
        BY <3>1, Constants DEF Flows
      <4>2. QED
        BY <4>1, MinOfNats
    <3>3. QED
      BY <1>3, <3>2 DEF NextKey, SnapshotFails, Shape, CopyShape, copyVars
  <2>2. CopyShape'
    BY <1>3, <2>1 DEF NextKey, SnapshotFails, Shape, CopyShape, copyVars
  <2>3. (KernelShape /\ ListShape /\ TrackerShape)'
    BY <1>3 DEF NextKey, SnapshotFails, Shape, KernelShape, ListShape,
       TrackerShape, mapVars, workVars, histVars, listVars
  <2>4. QED
    BY <2>2, <2>3 DEF Shape
<1>4. CASE LookupEntry
  <2>1. entries' \in Seq(Copies)
    <3>1. entries \in Seq(Copies)
      BY DEF Shape, CopyShape
    <3>2. ASSUME next \in DOMAIN flowState
          PROVE  [flow |-> next, stats |-> flowState[next]] \in Copies
      <4>1. flowState[next] \in Stats /\ next \in Flows
        BY <3>2, MoreStats DEF Shape, KernelShape
      <4>2. QED
        BY <4>1 DEF Copies
    <3>3. QED
      BY <1>4, <3>1, <3>2 DEF LookupEntry
  <2>2. CopyShape'
    BY <1>4, <2>1 DEF LookupEntry, Shape, CopyShape
  <2>3. (KernelShape /\ ListShape /\ TrackerShape)'
    BY <1>4 DEF LookupEntry, Shape, KernelShape, ListShape, TrackerShape,
       mapVars, workVars, histVars, listVars
  <2>4. QED
    BY <2>2, <2>3 DEF Shape
<1>5. CASE Decide
  <2>1. ListShape'
    <3>1. toBlock' \subseteq Sources /\ toUnblock' \subseteq Sources
      BY <1>5, DecideEffect DEF Held, HeldIn, Shape, TrackerShape
    <3>2. QED
      BY <1>5, <3>1 DEF Decide, Shape, ListShape, mapVars, listVars
  <2>2. TrackerShape'
    <3>1. IsTable(ipStats') /\ ttl' = ttl
      BY <1>5, DecideEffect DEF Decide
    <3>2. blockedAt' \in [Sources -> Times]
      <4>1. now \in Times /\ blockedAt \in [Sources -> Times]
        BY DEF Shape, CopyShape, TrackerShape
      <4>2. blockedAt' = [s \in Sources |-> IF s \in toBlock' THEN now ELSE blockedAt[s]]
        BY <1>5 DEF Decide
      <4>3. QED
        BY <4>1, <4>2
    <3>3. QED
      BY <3>1, <3>2 DEF Shape, TrackerShape, IsTable
  <2>3. CopyShape'
    <3>1. /\ phase' = "block" /\ now' = now /\ cursor' = 0 /\ next' = 0
          /\ entries' = << >> /\ copied' = copied
      BY <1>5 DEF Decide
    <3>2. 0 \in 0..NFlows /\ << >> \in Seq(Copies)
      BY Constants
    <3>3. QED
      BY <3>1, <3>2 DEF Shape, CopyShape
  <2>4. KernelShape'
    BY <1>5 DEF Decide, Shape, KernelShape, mapVars
  <2>5. QED
    BY <2>1, <2>2, <2>3, <2>4 DEF Shape
<1>6. CASE ApplyBlock \/ ApplyUnblock
  <2>1. IsList(blacklist')
    <3>1. \A s \in toBlock : s \in Prefixes
      BY DEF Shape, ListShape, Prefixes
    <3>2. \/ blacklist' = blacklist \/ \E s \in toBlock : blacklist' = Added(s)
          \/ \E s \in toUnblock : blacklist' = blacklist \ {s}
      BY <1>6 DEF ApplyBlock, ApplyUnblock
    <3>3. IsList(blacklist)
      BY DEF Shape, ListShape, IsList
    <3>4. QED
      BY <3>1, <3>2, <3>3, AddedList, RemovedList
  <2>2. ListShape'
    <3>1. byHand' \subseteq Prefixes /\ refused' \subseteq Sources
      <4>1. byHand \subseteq Prefixes /\ refused \subseteq Sources /\ toBlock \subseteq Sources
        BY DEF Shape, ListShape
      <4>2. byHand' \subseteq byHand /\ refused' \subseteq refused \cup toBlock
        BY <1>6 DEF ApplyBlock, ApplyUnblock, listVars
      <4>3. QED
        BY <4>1, <4>2
    <3>2. QED
      BY <1>6, <2>1, <3>1 DEF ApplyBlock, ApplyUnblock, FirewallSnapshot, Shape,
         ListShape, IsList
  <2>3. CopyShape'
    BY <1>6 DEF ApplyBlock, ApplyUnblock, Shape, CopyShape, copyVars
  <2>4. (KernelShape /\ TrackerShape)'
    BY <1>6 DEF ApplyBlock, ApplyUnblock, Shape, KernelShape, TrackerShape, histVars
  <2>5. QED
    BY <2>2, <2>3, <2>4 DEF Shape
<1>7. QED
  BY <1>1, <1>2, <1>3, <1>4, <1>5, <1>6

LEMMA ShapeInvariant == Spec => []Shape
<1>1. Shape /\ [Next]_vars => Shape'
  <2> SUFFICES ASSUME Shape, [Next]_vars PROVE Shape'
    OBVIOUS
  <2>1. CASE Next
    BY <2>1, OutsideShape, LoopShape DEF Next
  <2>2. CASE UNCHANGED vars
    BY <2>2 DEF vars, mapVars, copyVars, workVars, histVars, listVars, Shape,
       KernelShape, ListShape, CopyShape, TrackerShape
  <2>3. QED
    BY <2>1, <2>2
<1>2. QED
  BY <1>1, ShapeInit, PTL DEF Spec

\* Type correctness of cmd_top's loop and of the maps it shares: no counter of
\* flow_state exceeds the packets that came, and the blacklist never holds
\* more than max_entries.
THEOREM TypeCorrect == Spec => []TypeOK
<1>1. Shape => TypeOK
  <2> SUFFICES ASSUME Shape PROVE TypeOK
    OBVIOUS
  <2>1. /\ DOMAIN flowState \subseteq Flows
        /\ \A f \in DOMAIN flowState : flowState[f] \in Stats
    BY MoreStats DEF Shape, KernelShape
  <2>2. \A i \in DOMAIN entries : entries[i].flow \in Flows /\ entries[i].stats \in Stats
    <3>1. \A i \in DOMAIN entries : entries[i] \in Copies
      BY DEF Shape, CopyShape
    <3>2. QED
      BY <3>1 DEF Copies
  <2>3. sent \in [Sources -> 0..MaxPackets]
    BY Constants DEF Shape, KernelShape
  <2>4. \A s \in DOMAIN ipStats :
          ipStats[s] \in [syn : Nat, ack : Nat, last : Times, start : Times,
                         flagged : BOOLEAN, blocked : BOOLEAN]
    BY DEF Shape, TrackerShape, IpRecords
  <2>5. QED
    BY <2>1, <2>2, <2>3, <2>4
       DEF TypeOK, Shape, KernelShape, ListShape, CopyShape, TrackerShape
<1>2. QED
  BY <1>1, ShapeInvariant, PTL

-----------------------------------------------------------------------------
(* Times.                                                                  *)

\* A tick is never ahead of the clock, and no flow, in the map or copied out
\* of it, was seen later than a packet of its source that got through.
Timely ==
    /\ 1 <= clock /\ now <= clock /\ (phase # "idle" => now >= 1)
    /\ \A s \in Sources : heard[s] <= clock
FlowsHeard ==
    \A f \in DOMAIN flowState : flowState[f].last <= heard[SrcOf[f]]
CopiesHeard ==
    \A i \in DOMAIN entries : entries[i].stats.last <= heard[SrcOf[entries[i].flow]]
TimeInv == Timely /\ FlowsHeard /\ CopiesHeard

LEMMA Numbers ==
    ASSUME Shape
    PROVE  /\ clock \in Nat /\ now \in Nat /\ ttl \in Nat /\ Window \in Nat
           /\ \A s \in Sources : heard[s] \in Nat /\ blockedAt[s] \in Nat
           /\ \A f \in DOMAIN flowState :
                f \in Flows /\ SrcOf[f] \in Sources /\ flowState[f].last \in Nat
           /\ \A i \in DOMAIN entries :
                /\ entries[i].flow \in Flows /\ SrcOf[entries[i].flow] \in Sources
                /\ entries[i].stats.last \in Nat
<1>1. Times \subseteq Nat
  BY Constants DEF Times
<1>2. \A f \in DOMAIN flowState : f \in Flows /\ flowState[f].last \in Times
  BY DEF Shape, KernelShape, StatsUpTo
<1>3. \A i \in DOMAIN entries :
        entries[i].flow \in Flows /\ entries[i].stats.last \in Times
  <2>1. \A i \in DOMAIN entries : entries[i] \in Copies
    BY DEF Shape, CopyShape
  <2>2. QED
    BY <2>1 DEF Copies, Stats
<1>4. \A f \in Flows : SrcOf[f] \in Sources
  BY Constants
<1>5. ttl \in Nat /\ Window \in Nat
  BY Constants DEF Shape, TrackerShape
<1>6. QED
  BY <1>1, <1>2, <1>3, <1>4, <1>5 DEF Shape, KernelShape, CopyShape, TrackerShape

LEMMA TimeInvariant == Spec => []TimeInv
<1>1. Init => TimeInv
  <2> SUFFICES ASSUME Init PROVE TimeInv
    OBVIOUS
  <2>1. DOMAIN flowState = {} /\ DOMAIN entries = {}
    BY DEF Init
  <2>2. QED
    BY <2>1 DEF Init, TimeInv, Timely, FlowsHeard, CopiesHeard
<1>2. Shape /\ TimeInv /\ [Next]_vars => TimeInv'
  <2> SUFFICES ASSUME Shape, TimeInv, [Next]_vars PROVE TimeInv'
    OBVIOUS
  <2>1. CASE Packet
    <3>1. /\ clock \in Nat /\ now' = now /\ clock' = clock /\ phase' = phase
          /\ entries' = entries
      BY <2>1, Numbers DEF Packet, copyVars
    <3>2. \A s \in Sources : /\ heard'[s] \in Nat /\ heard[s] <= heard'[s]
                             /\ heard'[s] <= clock
      <4>1. \A s \in Sources : heard'[s] = heard[s] \/ heard'[s] = clock
        BY <2>1, PacketEffect
      <4>2. \A s \in Sources : heard[s] \in Nat /\ heard[s] <= clock
        BY Numbers DEF TimeInv, Timely
      <4>3. QED
        BY <3>1, <4>1, <4>2
    <3>3. Timely'
      BY <3>1, <3>2 DEF TimeInv, Timely
    <3>4. FlowsHeard'
      <4> SUFFICES ASSUME NEW f \in DOMAIN flowState'
                   PROVE  flowState'[f].last <= heard'[SrcOf[f]]
        BY DEF FlowsHeard
      <4>1. CASE f \in DOMAIN flowState /\ flowState'[f] = flowState[f]
        <5>1. /\ flowState[f].last \in Nat /\ SrcOf[f] \in Sources
              /\ flowState[f].last <= heard[SrcOf[f]]
          BY <4>1, Numbers DEF TimeInv, FlowsHeard
        <5>2. heard[SrcOf[f]] \in Nat
          BY <5>1, Numbers
        <5>3. QED
          BY <3>2, <4>1, <5>1, <5>2
      <4>2. CASE flowState'[f].last = clock /\ heard'[SrcOf[f]] = clock
        BY <3>1, <4>2
      <4>3. QED
        BY <2>1, <4>1, <4>2, PacketEffect
    <3>5. CopiesHeard'
      <4> SUFFICES ASSUME NEW i \in DOMAIN entries
                   PROVE  entries[i].stats.last <= heard'[SrcOf[entries[i].flow]]
        BY <3>1 DEF CopiesHeard
      <4>1. /\ entries[i].stats.last \in Nat /\ SrcOf[entries[i].flow] \in Sources
            /\ entries[i].stats.last <= heard[SrcOf[entries[i].flow]]
        BY Numbers DEF TimeInv, CopiesHeard
      <4>2. heard[SrcOf[entries[i].flow]] \in Nat
        BY <4>1, Numbers
      <4>3. QED
        BY <3>2, <4>1, <4>2
    <3>6. QED
      BY <3>3, <3>4, <3>5 DEF TimeInv
  <2>2. CASE Advance
    <3>1. /\ clock \in Nat /\ now \in Nat /\ clock' = clock + 1
          /\ \A s \in Sources : heard[s] \in Nat
          /\ UNCHANGED <<now, phase, heard, flowState, entries>>
      BY <2>2, Numbers DEF Advance, mapVars, copyVars, histVars
    <3>2. Timely'
      BY <3>1 DEF TimeInv, Timely
    <3>3. QED
      BY <3>1, <3>2 DEF TimeInv, FlowsHeard, CopiesHeard
  <2>3. CASE TickBegin
    <3>1. /\ clock \in Nat /\ phase' = "next" /\ now' = clock
          /\ DOMAIN entries' = {} /\ UNCHANGED <<clock, heard, flowState>>
      BY <2>3, Numbers DEF TickBegin, histVars
    <3>2. QED
      BY <3>1 DEF TimeInv, Timely, FlowsHeard, CopiesHeard
  <2>4. CASE LookupEntry
    <3>1. /\ phase = "lookup" /\ UNCHANGED <<clock, now, heard, flowState>>
          /\ entries' = IF next \in DOMAIN flowState
               THEN Append(entries, [flow |-> next, stats |-> flowState[next]])
               ELSE entries
      BY <2>4 DEF LookupEntry, mapVars, histVars
    <3>2. entries \in Seq(Copies)
      BY DEF Shape, CopyShape
    <3>3. CopiesHeard'
      <4>1. CASE next \notin DOMAIN flowState
        BY <3>1, <4>1 DEF TimeInv, CopiesHeard
      <4>2. CASE next \in DOMAIN flowState
        <5> SUFFICES ASSUME NEW i \in DOMAIN entries'
                     PROVE  entries'[i].stats.last <= heard[SrcOf[entries'[i].flow]]
          BY <3>1 DEF CopiesHeard
        <5>1. \/ i \in DOMAIN entries /\ entries'[i] = entries[i]
              \/ entries'[i] = [flow |-> next, stats |-> flowState[next]]
          BY <3>1, <3>2, <4>2
        <5>2. QED
          BY <4>2, <5>1 DEF TimeInv, CopiesHeard, FlowsHeard
      <4>3. QED
        BY <4>1, <4>2
    <3>4. QED
      BY <3>1, <3>3 DEF TimeInv, Timely, FlowsHeard
  <2>5. CASE Decide
    <3>1. /\ phase = "decide" /\ DOMAIN entries' = {}
          /\ UNCHANGED <<clock, now, heard, flowState>>
      BY <2>5 DEF Decide, mapVars
    <3>2. QED
      BY <3>1 DEF TimeInv, Timely, FlowsHeard, CopiesHeard
  <2>6. CASE /\ UNCHANGED <<clock, now, heard, flowState, entries>>
             /\ phase' # "idle" => phase # "idle"
    BY <2>6 DEF TimeInv, Timely, FlowsHeard, CopiesHeard
  <2>7. QED
    BY <2>1, <2>2, <2>3, <2>4, <2>5, <2>6
       DEF Next, Block, Unblock, ProcessEvent, NextKey, SnapshotFails,
           ApplyBlock, ApplyUnblock, vars, mapVars, copyVars, histVars
<1>3. QED
  BY <1>1, <1>2, ShapeInvariant, PTL DEF Spec

-----------------------------------------------------------------------------
(* Blocks and their deadlines.                                             *)

Copying == {"next", "lookup", "decide"}
Applying == {"block", "unblock"}

\* The record of a blocked source has the time of the decision.
Deadlines ==
    \A s \in Held : ipStats[s].start = blockedAt[s] /\ blockedAt[s] # 0

\* A source that is no longer held was released a TTL after the decision, in
\* a tick before the one that is being copied.
ReleasedInTime ==
    \A s \in Sources \ Held : blockedAt[s] # 0 =>
        /\ blockedAt[s] + ttl <= now
        /\ phase \in Copying => blockedAt[s] + ttl < now

\* A flag that outlived a block was earned by a later packet.
FlagsEarned ==
    ttl >= Window =>
        \A s \in FlaggedIn(ipStats) \ Held :
            blockedAt[s] # 0 => heard[s] > blockedAt[s]

\* Work is left over only while it is applied, the blocks first, and what is
\* to be released is due.
WorkInv ==
    /\ phase \notin Applying => toBlock = {} /\ toUnblock = {}
    /\ phase = "unblock" => toBlock = {}
    /\ \A s \in toUnblock : blockedAt[s] # 0 /\ now >= blockedAt[s] + ttl

BlockInv == Deadlines /\ ReleasedInTime /\ FlagsEarned /\ WorkInv

\* The flows that were counted for the earlier block are out of the window by
\* the time the source can be blocked again.
LEMMA HeardAgain ==
    ASSUME Shape, TimeInv, BlockInv, phase = "decide", ttl >= Window,
           NEW s \in Sources \ Held, blockedAt[s] # 0,
           s \in FlaggedIn(ipStats) \/ CountedFor(s, now) # {}
    PROVE  heard[s] > blockedAt[s]
<1>1. CASE s \in FlaggedIn(ipStats)
  BY <1>1 DEF BlockInv, FlagsEarned
<1>2. CASE CountedFor(s, now) # {}
  <2>1. PICK i \in DOMAIN entries : Fresh(entries[i], now) /\ SrcOf[entries[i].flow] = s
    BY <1>2 DEF CountedFor
  <2>2. now - entries[i].stats.last <= Window
    BY <2>1 DEF Fresh
  <2>3. entries[i].stats.last <= heard[s]
    BY <2>1 DEF TimeInv, CopiesHeard
  <2>4. blockedAt[s] + ttl < now
    BY DEF BlockInv, ReleasedInTime, Copying
  <2>5. /\ entries[i].stats.last \in Nat /\ now \in Nat /\ Window \in Nat
        /\ ttl \in Nat /\ heard[s] \in Nat /\ blockedAt[s] \in Nat
    BY <2>1, Numbers
  <2>6. QED
    BY <2>2, <2>3, <2>4, <2>5
<1>3. QED
  BY <1>1, <1>2

\* What a decision means in terms of the times of decisions.
LEMMA DecideTimes ==
    ASSUME Shape, TimeInv, BlockInv, Decide
    PROVE  /\ \A s \in Held' : /\ ipStats'[s].start = blockedAt'[s]
                                /\ blockedAt'[s] # 0
           /\ \A s \in toUnblock' : /\ blockedAt'[s] # 0
                                     /\ now >= blockedAt'[s] + ttl
           /\ \A s \in Sources : s \notin toBlock' => blockedAt'[s] = blockedAt[s]
<1>1. Held \subseteq Sources /\ toBlock' \subseteq Sources
  BY DecideEffect DEF Held, HeldIn, Shape, TrackerShape
<1>2. now # 0
  BY DEF Decide, TimeInv, Timely
<1>3. blockedAt' = [s \in Sources |-> IF s \in toBlock' THEN now ELSE blockedAt[s]]
  BY DEF Decide
<1>4. \A s \in Held \cup toBlock' : blockedAt'[s] = Began(s) /\ blockedAt'[s] # 0
  BY <1>1, <1>2, <1>3 DEF Began, BlockInv, Deadlines
<1>5. \A s \in Held' \cup toUnblock' : s \in Held \cup toBlock'
  BY DecideEffect
<1>6. QED
  BY <1>3, <1>4, <1>5, DecideEffect

LEMMA DecideBlocks ==
    ASSUME Shape, TimeInv, BlockInv, Decide
    PROVE  BlockInv'
<1>1. /\ phase' = "block" /\ UNCHANGED <<now, ttl, heard>>
      /\ phase = "decide"
  BY DEF Decide
<1>2. Deadlines'
  BY DecideTimes DEF Deadlines
<1>3. WorkInv'
  BY <1>1, DecideTimes DEF WorkInv, Applying
<1>4. ReleasedInTime'
  <2> SUFFICES ASSUME NEW s \in Sources, s \notin Held', blockedAt'[s] # 0
               PROVE  blockedAt'[s] + ttl <= now
    BY <1>1 DEF ReleasedInTime, Copying
  <2>1. now \in Nat /\ ttl \in Nat /\ blockedAt[s] \in Nat
    BY Numbers
  <2>2. CASE s \in Held \cup toBlock'
    <3>1. s \in toUnblock'
      BY <2>2, DecideEffect
    <3>2. now >= blockedAt'[s] + ttl
      BY <3>1, DecideTimes
    <3>3. blockedAt' \in [Sources -> Nat]
      <4>1. blockedAt' = [r \in Sources |-> IF r \in toBlock' THEN now ELSE blockedAt[r]]
        BY DEF Decide
      <4>2. QED
        BY <4>1, Numbers
    <3>4. QED
      BY <2>1, <3>2, <3>3
  <2>3. CASE s \notin Held \cup toBlock'
    BY <2>3, DecideTimes DEF BlockInv, ReleasedInTime
  <2>4. QED
    BY <2>2, <2>3
<1>5. FlagsEarned'
  <2> SUFFICES ASSUME ttl >= Window, NEW s \in FlaggedIn(ipStats'), s \notin Held',
                      blockedAt'[s] # 0
               PROVE  heard[s] > blockedAt'[s]
    BY <1>1 DEF FlagsEarned
  <2>1. s \in Sources /\ s \notin toUnblock'
    BY DecideEffect DEF FlaggedIn, IsTable
  <2>2. s \notin Held \cup toBlock'
    BY <2>1, DecideEffect
  <2>3. blockedAt'[s] = blockedAt[s]
    BY <2>1, <2>2, DecideTimes
  <2>4. s \in FlaggedIn(ipStats) \/ CountedFor(s, now) # {}
    BY DecideEffect
  <2>5. QED
    BY <1>1, <2>1, <2>2, <2>3, <2>4, HeardAgain
<1>6. QED
  BY <1>2, <1>3, <1>4, <1>5 DEF BlockInv

LEMMA BlockInvariant == Spec => []BlockInv
<1>1. Init => BlockInv
  <2> SUFFICES ASSUME Init PROVE BlockInv
    OBVIOUS
  <2>1. DOMAIN ipStats = {} /\ \A s \in Sources : blockedAt[s] = 0
    BY DEF Init
  <2>2. Held = {} /\ FlaggedIn(ipStats) = {}
    BY <2>1 DEF Held, HeldIn, FlaggedIn
  <2>3. QED
    BY <2>1, <2>2 DEF Init, BlockInv, Deadlines, ReleasedInTime, FlagsEarned, WorkInv
<1>2. Shape /\ TimeInv /\ BlockInv /\ [Next]_vars => BlockInv'
  <2> SUFFICES ASSUME Shape, TimeInv, BlockInv, [Next]_vars PROVE BlockInv'
    OBVIOUS
  <2> USE DEF BlockInv
  <2>1. CASE Decide
    BY <2>1, DecideBlocks
  <2>2. CASE Packet
    <3>1. UNCHANGED <<ipStats, blockedAt, now, phase, toBlock, toUnblock, ttl>>
      BY <2>2 DEF Packet, workVars
    <3>2. Held' = Held /\ FlaggedIn(ipStats') = FlaggedIn(ipStats)
      BY <3>1 DEF Held
    <3>3. FlagsEarned'
      <4> SUFFICES ASSUME ttl >= Window, NEW s \in FlaggedIn(ipStats) \ Held,
                          blockedAt[s] # 0
                   PROVE  heard'[s] > blockedAt[s]
        BY <3>1, <3>2 DEF FlagsEarned
      <4>1. s \in Sources /\ heard[s] > blockedAt[s]
        BY DEF FlagsEarned, FlaggedIn, Shape, TrackerShape
      <4>2. /\ heard[s] \in Nat /\ clock \in Nat /\ blockedAt[s] \in Nat
            /\ heard[s] <= clock
        BY <4>1, Numbers DEF TimeInv, Timely
      <4>3. heard'[s] = heard[s] \/ heard'[s] = clock
        BY <2>2, <4>1, PacketEffect
      <4>4. QED
        BY <4>1, <4>2, <4>3
    <3>4. QED
      BY <3>1, <3>2, <3>3 DEF Deadlines, ReleasedInTime, WorkInv
  <2>3. CASE ProcessEvent
    <3>1. UNCHANGED <<blockedAt, now, phase, toBlock, toUnblock, ttl, heard>>
      BY <2>3 DEF ProcessEvent, workVars, histVars
    <3>2. /\ Held' = Held /\ FlaggedIn(ipStats') = FlaggedIn(ipStats)
          /\ \A s \in Held : ipStats'[s].start = ipStats[s].start
      BY <2>3, EventEffect
    <3>3. QED
      BY <3>1, <3>2 DEF Deadlines, ReleasedInTime, FlagsEarned, WorkInv
  <2>4. CASE TickBegin
    <3>1. /\ phase = "idle" /\ phase' = "next" /\ now' = clock /\ clock > now
          /\ UNCHANGED <<ipStats, blockedAt, toBlock, toUnblock, ttl, heard>>
      BY <2>4 DEF TickBegin, workVars, histVars
    <3>2. Held' = Held /\ FlaggedIn(ipStats') = FlaggedIn(ipStats)
      BY <3>1 DEF Held
    <3>3. ReleasedInTime'
      <4> SUFFICES ASSUME NEW s \in Sources \ Held, blockedAt[s] # 0
                   PROVE  blockedAt[s] + ttl < clock
        <5>1. clock \in Nat /\ ttl \in Nat /\ \A s \in Sources : blockedAt[s] \in Nat
          BY Numbers
        <5>2. QED
          BY <3>1, <3>2, <5>1 DEF ReleasedInTime
      <4>1. blockedAt[s] + ttl <= now
        BY DEF ReleasedInTime
      <4>2. clock \in Nat /\ now \in Nat /\ ttl \in Nat /\ blockedAt[s] \in Nat
        BY Numbers
      <4>3. QED
        BY <3>1, <4>1, <4>2
    <3>4. QED
      BY <3>1, <3>2, <3>3 DEF Deadlines, FlagsEarned, WorkInv, Applying
  <2>5. CASE NextKey \/ SnapshotFails \/ LookupEntry
    <3>1. /\ phase \in Copying /\ phase' \in Copying
          /\ UNCHANGED <<ipStats, blockedAt, now, toBlock, toUnblock, ttl, heard>>
      BY <2>5 DEF NextKey, SnapshotFails, LookupEntry, Copying, workVars, histVars
    <3>2. Held' = Held /\ FlaggedIn(ipStats') = FlaggedIn(ipStats)
      BY <3>1 DEF Held
    <3>3. QED
      BY <3>1, <3>2 DEF Deadlines, ReleasedInTime, FlagsEarned, WorkInv, Applying,
         Copying
  <2>6. CASE ApplyBlock \/ ApplyUnblock
    <3>1. UNCHANGED <<ipStats, blockedAt, now, ttl, heard>>
      BY <2>6 DEF ApplyBlock, ApplyUnblock, histVars
    <3>2. Held' = Held /\ FlaggedIn(ipStats') = FlaggedIn(ipStats)
      BY <3>1 DEF Held
    <3>3. WorkInv'
      BY <2>6, <3>1 DEF ApplyBlock, ApplyUnblock, WorkInv, Applying
    <3>4. phase' \notin Copying
      BY <2>6 DEF ApplyBlock, ApplyUnblock, Copying
    <3>5. QED
      BY <3>1, <3>2, <3>3, <3>4 DEF Deadlines, ReleasedInTime, FlagsEarned
  <2>7. CASE UNCHANGED <<ipStats, blockedAt, now, phase, toBlock, toUnblock, ttl, heard>>
    <3>1. Held' = Held /\ FlaggedIn(ipStats') = FlaggedIn(ipStats)
      BY <2>7 DEF Held
    <3>2. QED
      BY <2>7, <3>1 DEF Deadlines, ReleasedInTime, FlagsEarned, WorkInv
  <2>8. QED
    BY <2>1, <2>2, <2>3, <2>4, <2>5, <2>6, <2>7
       DEF Next, Advance, Block, Unblock, vars, mapVars, copyVars, workVars, histVars
<1>3. QED
  BY <1>1, <1>2, ShapeInvariant, TimeInvariant, PTL DEF Spec

\* A source whose block ran out is blocked again only if a packet of it got
\* through after the earlier decision, whatever the scheduling of copies,
\* events, evictions and failed copies, when the TTL is at least the window.
THEOREM ReblockNeedsNewPacket == Spec => NoStaleReblock
<1> DEFINE Fine == ttl >= Window =>
             \A s \in Sources :
                blockedAt'[s] # blockedAt[s] /\ blockedAt[s] # 0
                  => heard[s] > blockedAt[s]
<1>1. Shape /\ TimeInv /\ BlockInv /\ [Next]_vars => [Fine]_vars
  <2> SUFFICES ASSUME Shape, TimeInv, BlockInv, Next PROVE Fine
    OBVIOUS
  <2>1. CASE Decide
    <3> SUFFICES ASSUME ttl >= Window, NEW s \in Sources,
                        blockedAt'[s] # blockedAt[s], blockedAt[s] # 0
                 PROVE  heard[s] > blockedAt[s]
      OBVIOUS
    <3>1. s \in toBlock'
      BY <2>1, DecideTimes
    <3>2. s \notin Held /\ (s \in FlaggedIn(ipStats) \/ CountedFor(s, now) # {})
      BY <2>1, <3>1, DecideEffect
    <3>3. QED
      BY <2>1, <3>2, HeardAgain DEF Decide
  <2>2. CASE UNCHANGED blockedAt
    BY <2>2
  <2>3. QED
    BY <2>1, <2>2 DEF Next, Packet, Advance, Block, Unblock, ProcessEvent,
       TickBegin, NextKey, SnapshotFails, LookupEntry, ApplyBlock, ApplyUnblock,
       histVars
<1>2. QED
  BY <1>1, ShapeInvariant, TimeInvariant, BlockInvariant, PTL
     DEF Spec, NoStaleReblock

\* The tracker deletes from the blacklist nothing but entries of its own, a
\* TTL old or more.
THEOREM OnlyExpiredAreDeleted == Spec => ExpiryTakesOnlyItsOwn
<1> DEFINE Fine == \A e \in blacklist \ blacklist' :
             edits' # edits \/
               (e \in Sources /\ blockedAt[e] # 0 /\ now >= blockedAt[e] + ttl)
<1>1. Shape /\ BlockInv /\ [Next]_vars => [Fine]_vars
  <2> SUFFICES ASSUME Shape, BlockInv, Next PROVE Fine
    OBVIOUS
  <2>1. CASE ApplyUnblock
    BY <2>1 DEF ApplyUnblock, BlockInv, WorkInv, Shape, ListShape
  <2>2. CASE ApplyBlock
    BY <2>2 DEF ApplyBlock, Added
  <2>3. CASE Block \/ Unblock
    <3>1. edits' # edits
      BY <2>3 DEF Block, Unblock, Shape, ListShape
    <3>2. QED
      BY <3>1
  <2>4. CASE TickBegin
    <3>1. blacklist' = blacklist \/ edits' = edits + 1
      BY <2>4 DEF TickBegin, HandleInput
    <3>2. edits \in Nat
      BY Constants DEF Shape, ListShape
    <3>3. QED
      BY <3>1, <3>2
  <2>5. CASE UNCHANGED blacklist
    BY <2>5
  <2>6. QED
    BY <2>1, <2>2, <2>3, <2>4, <2>5 DEF Next, Packet, Advance, ProcessEvent,
       NextKey, SnapshotFails, LookupEntry, Decide, mapVars
<1>2. QED
  BY <1>1, ShapeInvariant, BlockInvariant, PTL DEF Spec, ExpiryTakesOnlyItsOwn

-----------------------------------------------------------------------------
(* The blacklist and the tracker.                                          *)

\* Within a tick too: apart from what operators have touched, what is in the
\* blacklist is held or about to be released, and what is held or about to be
\* released is in the blacklist, about to be, or was refused there.
TrackInv ==
    /\ toBlock \subseteq Held \cup toUnblock
    /\ blacklist \ byHand \subseteq Held \cup toUnblock
    /\ (Held \cup toUnblock) \ byHand \subseteq blacklist \cup toBlock \cup refused
    /\ Held \cap toUnblock = {}
    /\ phase \notin Copying => \A s \in Held : now < ipStats[s].start + ttl

\* An operator's change touches one entry, and it is noted.
ByOperator ==
    \E e \in Prefixes : /\ blacklist' \subseteq blacklist \cup {e}
                        /\ blacklist \subseteq blacklist' \cup {e}
                        /\ byHand' = byHand \cup {e}

LEMMA OperatorStep ==
    ASSUME Shape
    PROVE  /\ Block \/ Unblock => ByOperator
           /\ HandleInput => ByOperator \/ UNCHANGED <<blacklist, byHand>>
<1>1. rows \subseteq Prefixes
  BY DEF Shape, ListShape
<1>2. \A e \in Prefixes : blacklist \subseteq Added(e) /\ Added(e) \subseteq blacklist \cup {e}
  BY DEF Added
<1>3. QED
  BY <1>1, <1>2 DEF Block, Unblock, HandleInput, ByOperator

LEMMA TrackInvariant == Spec => []TrackInv
<1>1. Init => TrackInv
  <2> SUFFICES ASSUME Init PROVE TrackInv
    OBVIOUS
  <2>1. DOMAIN ipStats = {}
    BY DEF Init
  <2>2. QED
    BY <2>1 DEF Init, TrackInv, Held, HeldIn
<1>2. Shape /\ BlockInv /\ TrackInv /\ [Next]_vars => TrackInv'
  <2> SUFFICES ASSUME Shape, BlockInv, TrackInv, [Next]_vars
               PROVE  TrackInv'
    OBVIOUS
  <2>1. CASE Block \/ Unblock
    <3>1. /\ UNCHANGED <<toBlock, toUnblock, ipStats, now, phase, ttl, refused>>
          /\ ByOperator
      BY <2>1, OperatorStep DEF Block, Unblock, workVars, histVars
    <3>2. Held' = Held
      BY <3>1 DEF Held
    <3>3. QED
      BY <3>1, <3>2 DEF TrackInv, ByOperator
  <2>2. CASE ProcessEvent
    <3>1. UNCHANGED <<blacklist, toBlock, toUnblock, now, phase, ttl, byHand, refused>>
      BY <2>2 DEF ProcessEvent, mapVars, workVars, histVars, listVars
    <3>2. Held' = Held /\ \A s \in Held : ipStats'[s].start = ipStats[s].start
      BY <2>2, EventEffect
    <3>3. QED
      BY <3>1, <3>2 DEF TrackInv
  <2>3. CASE TickBegin \/ NextKey \/ SnapshotFails \/ LookupEntry
    <3>1. /\ phase' \in Copying /\ UNCHANGED <<toBlock, toUnblock, ipStats, refused>>
          /\ ByOperator \/ UNCHANGED <<blacklist, byHand>>
      BY <2>3, OperatorStep DEF TickBegin, NextKey, SnapshotFails, LookupEntry,
         Copying, workVars, mapVars, listVars
    <3>2. Held' = Held
      BY <3>1 DEF Held
    <3>3. QED
      BY <3>1, <3>2 DEF TrackInv, ByOperator
  <2>4. CASE Decide
    <3>1. /\ toBlock = {} /\ toUnblock = {}
          /\ UNCHANGED <<blacklist, now, ttl, byHand, refused>>
      BY <2>4 DEF Decide, BlockInv, WorkInv, Applying, mapVars, listVars
    <3>2. /\ Held' \cup toUnblock' = Held \cup toBlock'
          /\ Held' \cap toUnblock' = {}
          /\ \A s \in Held' : now < ipStats'[s].start + ttl
      BY <2>4, DecideEffect
    <3>3. QED
      BY <3>1, <3>2 DEF TrackInv
  <2>5. CASE ApplyBlock
    <3>1. UNCHANGED <<ipStats, now, ttl, toUnblock>> /\ phase \notin Copying
      BY <2>5 DEF ApplyBlock, Copying, histVars
    <3>2. Held' = Held
      BY <3>1 DEF Held
    <3>3. CASE toBlock = {}
      BY <2>5, <3>1, <3>2, <3>3 DEF ApplyBlock, TrackInv, listVars
    <3>4. CASE toBlock # {}
      <4>1. PICK s \in toBlock :
              /\ blacklist' = Added(s) /\ toBlock' = toBlock \ {s}
              /\ IF s \in Added(s)
                   THEN byHand' = byHand \ {s} /\ refused' = refused \ {s}
                   ELSE refused' = refused \cup {s} /\ UNCHANGED byHand
        BY <2>5, <3>4 DEF ApplyBlock
      <4>2. blacklist' = blacklist \cup {s} \/ blacklist' = blacklist
        BY <4>1 DEF Added
      <4>3. QED
        BY <3>1, <3>2, <4>1, <4>2 DEF TrackInv
    <3>5. QED
      BY <3>3, <3>4
  <2>6. CASE ApplyUnblock
    <3>1. /\ UNCHANGED <<ipStats, now, ttl, toBlock>> /\ phase \notin Copying
          /\ toBlock = {}
      BY <2>6 DEF ApplyUnblock, Copying, BlockInv, WorkInv, histVars
    <3>2. Held' = Held
      BY <3>1 DEF Held
    <3>3. CASE toUnblock = {}
      BY <2>6, <3>1, <3>2, <3>3 DEF ApplyUnblock, TrackInv, listVars
    <3>4. CASE toUnblock # {}
      <4>1. PICK s \in toUnblock :
              /\ blacklist' = blacklist \ {s} /\ toUnblock' = toUnblock \ {s}
              /\ byHand' = byHand \ {s} /\ refused' = refused \ {s}
        BY <2>6, <3>4 DEF ApplyUnblock
      <4>2. QED
        BY <3>1, <3>2, <4>1 DEF TrackInv
    <3>5. QED
      BY <3>3, <3>4
  <2>7. CASE UNCHANGED <<blacklist, toBlock, toUnblock, ipStats, now, phase, ttl,
                         byHand, refused>>
    <3>1. Held' = Held
      BY <2>7 DEF Held
    <3>2. QED
      BY <2>7, <3>1 DEF TrackInv
  <2>8. QED
    BY <2>1, <2>2, <2>3, <2>4, <2>5, <2>6, <2>7
       DEF Next, Packet, Advance, vars, mapVars, workVars, histVars, listVars
<1>3. QED
  BY <1>1, <1>2, ShapeInvariant, BlockInvariant, PTL DEF Spec

\* No entry of the tracker's outlives its record or its TTL, and no block is
\* without its entry unless its update was refused, whatever operators do to
\* other entries meanwhile.
THEOREM BlacklistTracked == Spec => []BlacklistIsTracked
<1>1. BlockInv /\ TrackInv => BlacklistIsTracked
  BY DEF BlockInv, WorkInv, TrackInv, BlacklistIsTracked, Held, HeldIn, Applying,
     Copying
<1>2. QED
  BY <1>1, BlockInvariant, TrackInvariant, PTL

=============================================================================
