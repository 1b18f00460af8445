---------------------------- MODULE MapReaders -----------------------------
(***************************************************************************)
(* The commands that walk a live BPF map key by key: `stats` and the       *)
(* protocol breakdown of `top` over pkt_counts, `list` over the blacklist; *)
(* and what `top` makes of the breakdown: the packet rate, kept in class   *)
(* PpsWindow.                                                              *)
(*                                                                         *)
(* bpf_map_get_next_key returns the key after the given one in the map's   *)
(* own order, and starts over when that key is not in the map or is null.  *)
(* A key is its place in that order.  Counters are created and grow, and   *)
(* entries of the blacklist come and go, between any two system calls.     *)
(* Readers only read, so one at a time is all there is to see: Init        *)
(* chooses the command.                                                    *)
(***************************************************************************)
EXTENDS Integers, Sequences, FiniteSets, FiniteSetsExt, SequencesExt

CONSTANTS
    Readers,      \* the commands to choose from: "stats", "top", "list"
    NCounters,    \* the keys of pkt_counts are 1..NCounters
    ZeroKey,      \* the place of key 0 (IP protocol 0) in pkt_counts
    DroppedKey,   \* the place of key 0xFFFF
    NPrefixes,    \* the keys of the blacklist are 1..NPrefixes
    WindowSize,   \* the argument of PpsWindow
    MaxCount, MaxEdits, MaxPasses   \* bounds of the state space

ASSUME ReadersAssumption == Readers \subseteq {"stats", "top", "list"}
ASSUME KeysAssumption ==
    /\ {NCounters, NPrefixes, MaxCount, MaxEdits, MaxPasses} \subseteq Nat
    /\ ZeroKey \in 1..NCounters /\ DroppedKey \in 1..NCounters
    /\ WindowSize \in Nat \ {0}

VARIABLES
    counts, blacklist,          \* the maps; a count of 0 is an absent key
    reader,                     \* the command that walks
    phase, cursor, next,        \* its loop
    shown, stable,              \* keys it has read; keys present throughout
    total, dropped,             \* top: the breakdown being added up
    lastTotal,                  \* top: last_pkt_total
    window, head, count,        \* class PpsWindow
    edits, passes,              \* bounds
    pushed                      \* history: every rate given to push

mapVars == <<counts, blacklist>>
loopVars == <<reader, phase, cursor, next, shown>>
rateVars == <<total, dropped, lastTotal, window, head, count, pushed>>
vars == <<mapVars, loopVars, stable, rateVars, edits, passes>>

CounterKeys == 1..NCounters
MaxTotal == NCounters * MaxCount
Null == 0

TypeOK ==
    /\ counts \in [CounterKeys -> 0..MaxCount]
    /\ blacklist \subseteq 1..NPrefixes
    /\ reader \in Readers /\ phase \in {"off", "next", "lookup", "done"}
    /\ cursor \in Nat /\ next \in Nat
    /\ ToSet(shown) \cup stable \subseteq Nat
    /\ total \in 0..MaxTotal /\ dropped \in 0..MaxCount
    /\ lastTotal \in 0..MaxTotal
    /\ DOMAIN window = 0..(WindowSize - 1)
    /\ head \in 0..(WindowSize - 1) /\ count \in 0..WindowSize
    /\ edits \in 0..MaxEdits /\ passes \in 0..MaxPasses

Init ==
    /\ counts = [k \in CounterKeys |-> 0] /\ blacklist = {}
    /\ reader \in Readers /\ phase = "off"
    /\ cursor = Null /\ next = Null /\ shown = << >> /\ stable = {}
    /\ total = 0 /\ dropped = 0 /\ lastTotal = 0
    /\ window = [i \in 0..(WindowSize - 1) |-> 0] /\ head = 0 /\ count = 0
    /\ edits = 0 /\ passes = 0 /\ pushed = << >>

-----------------------------------------------------------------------------
(* The maps.                                                               *)

Present == {k \in CounterKeys : counts[k] > 0}
Live == IF reader = "list" THEN blacklist ELSE Present

\* inc_count: a counter is created or grows; none is ever deleted.  (What
\* happens to the map that is not walked is left out, here and in Edit.)
CountPacket ==
    /\ reader # "list"
    /\ \E k \in CounterKeys : /\ counts[k] < MaxCount
                              /\ counts' = [counts EXCEPT ![k] = @ + 1]
    /\ UNCHANGED <<blacklist, loopVars, stable, rateVars, edits, passes>>

\* block and unblock, from another process.
Edit ==
    /\ reader = "list"
    /\ edits < MaxEdits /\ edits' = edits + 1
    /\ \/ \E e \in 1..NPrefixes : blacklist' = blacklist \cup {e}
       \/ \E e \in blacklist : blacklist' = blacklist \ {e}
    /\ stable' = stable \cap blacklist'
    /\ UNCHANGED <<counts, loopVars, rateVars, passes>>

\* bpf_map_get_next_key.
LaterKeys == {k \in Live : cursor \in Live => k > cursor}

-----------------------------------------------------------------------------
(* The loops.                                                              *)

\* Mutant: top and list start as stats does, from a key and not from null.
FirstKeyAlways == 1

\* stats passes the address of a key that is 0, the others a null pointer.
FirstKey == IF reader = "stats" THEN ZeroKey ELSE Null

\* stats and list walk once and exit, top walks at every tick.
Start ==
    /\ phase = "off" \/ (phase = "done" /\ reader = "top")
    /\ passes < MaxPasses /\ passes' = passes + 1
    /\ phase' = "next" /\ cursor' = FirstKey
    /\ shown' = << >> /\ stable' = Live
    /\ total' = 0 /\ dropped' = 0
    /\ UNCHANGED <<mapVars, reader, next, lastTotal, window, head, count,
                   pushed, edits>>

NextKey ==
    /\ phase = "next" /\ LaterKeys # {}
    /\ next' = Min(LaterKeys)
    /\ phase' = "lookup"
    /\ UNCHANGED <<mapVars, reader, cursor, shown, stable, rateVars, edits,
                   passes>>

\* The value is printed, or added to its class; 0xFFFF is no part of the
\* total that the rate is made from.
Lookup ==
    LET value == IF reader = "top" THEN counts[next] ELSE 0
    IN  /\ phase = "lookup"
        /\ shown' = IF next \in Live THEN Append(shown, next) ELSE shown
        /\ total' = total + IF next = DroppedKey THEN 0 ELSE value
        /\ dropped' = dropped + IF next = DroppedKey THEN value ELSE 0
        /\ cursor' = next /\ phase' = "next"
        /\ UNCHANGED <<mapVars, reader, next, stable, lastTotal, window, head,
                       count, pushed, edits, passes>>

Finish ==
    /\ phase = "next" /\ LaterKeys = {} /\ reader # "top"
    /\ phase' = "done"
    /\ UNCHANGED <<mapVars, reader, cursor, next, shown, stable, rateVars,
                   edits, passes>>

\* Mutant: the head runs past the end of the window.
HeadUnwrapped == head + 1

\* PpsWindow::push: where the next rate goes.
HeadAfterPush == (head + 1) % WindowSize

\* Mutant: the dropped packets are part of the remembered total only.
WithDropped == total + dropped

RememberedTotal == total

\* top's tick, the breakdown being complete: two ticks make a second.
FinishBreakdown ==
    /\ phase = "next" /\ LaterKeys = {} /\ reader = "top"
    /\ phase' = "done"
    /\ IF lastTotal = 0 THEN UNCHANGED <<window, head, count, pushed>>
       ELSE LET pps == (total - lastTotal) * 2
            IN  /\ window' = [window EXCEPT ![head] = pps]
                /\ head' = HeadAfterPush
                /\ count' = Min({count + 1, WindowSize})
                /\ pushed' = Append(pushed, pps)
    /\ lastTotal' = RememberedTotal
    /\ UNCHANGED <<mapVars, reader, cursor, next, shown, stable, total, dropped,
                   edits, passes>>

Next ==
    \/ CountPacket \/ Edit
    \/ Start \/ NextKey \/ Lookup \/ Finish \/ FinishBreakdown

Spec == Init /\ [][Next]_vars

\* Mutant: the oldest rate is taken to be at the front for good.
OldestAtFront == 0

\* PpsWindow::copy_snapshot: where the oldest rate is.
OldestAt == IF count < WindowSize THEN 0 ELSE head

CopySnapshot ==
    [i \in 1..count |-> window[(OldestAt + i - 1) % WindowSize]]

Latest == window[IF head = 0 THEN WindowSize - 1 ELSE head - 1]

-----------------------------------------------------------------------------
\* A walk that starts at the first key shows every key that was in the map
\* from its first call to its last, whatever was added or deleted meanwhile.
WalkIsComplete ==
    phase = "done" /\ reader # "stats" => stable \subseteq ToSet(shown)

\* The breakdown reads each counter once, and later totals are never smaller,
\* so the unsigned subtraction that makes the rate does not wrap.
RateNeverWraps ==
    reader = "top" =>
        /\ IsInjective(shown)
        /\ phase = "done" => \A i \in DOMAIN pushed : pushed[i] >= 0

\* What the dashboard draws are the latest rates, oldest first, and the ring
\* never mixes up old and new when it wraps.
WindowIsRecent ==
    /\ CopySnapshot = SubSeq(pushed, Len(pushed) - count + 1, Len(pushed))
    /\ count = Min({Len(pushed), WindowSize})
    /\ pushed # << >> => Latest = Last(pushed)

\* PRD.md: stats prints the protocol counter snapshot of a running instance,
\* so every counter there was when it started.
StatsIsComplete ==
    phase = "done" /\ reader = "stats" => stable \subseteq ToSet(shown)

=============================================================================
