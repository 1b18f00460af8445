------------------------- MODULE MapReaders_proofs -------------------------
(***************************************************************************)
(* Proofs about MapReaders, for maps of any size, any window and any       *)
(* number of passes.                                                       *)
(***************************************************************************)
EXTENDS MapReaders, NumberLemmas, FiniteSetTheorems, SequenceTheorems

-----------------------------------------------------------------------------
(* Types.                                                                  *)

WalkShape ==
    /\ counts \in [CounterKeys -> 0..MaxCount]
    /\ blacklist \subseteq 1..NPrefixes
    /\ reader \in Readers /\ phase \in {"off", "next", "lookup", "done"}
    /\ cursor \in Nat /\ next \in Nat
    /\ phase = "lookup" /\ reader = "top" => next \in CounterKeys
    /\ shown \in Seq(Nat) /\ stable \subseteq Nat
    /\ edits \in 0..MaxEdits /\ passes \in 0..MaxPasses
RateShape ==
    /\ total \in Nat /\ dropped \in Nat /\ lastTotal \in Nat
    /\ window \in [0..(WindowSize - 1) -> Int]
    /\ head \in 0..(WindowSize - 1) /\ count \in 0..WindowSize
    /\ pushed \in Seq(Int)
Shape == WalkShape /\ RateShape

LEMMA Constants ==
    /\ NCounters \in Nat /\ NPrefixes \in Nat /\ MaxCount \in Nat
    /\ MaxEdits \in Nat /\ MaxPasses \in Nat
    /\ ZeroKey \in CounterKeys /\ DroppedKey \in CounterKeys
    /\ CounterKeys \subseteq Nat /\ 0 \notin CounterKeys
    /\ WindowSize \in Nat /\ WindowSize > 0
    /\ Readers \subseteq {"stats", "top", "list"}
BY ReadersAssumption, KeysAssumption DEF CounterKeys

LEMMA LiveKeys ==
    ASSUME WalkShape
    PROVE  /\ Live \subseteq Nat /\ 0 \notin Live /\ LaterKeys \subseteq Live
           /\ LaterKeys # {} => /\ Min(LaterKeys) \in LaterKeys
                                /\ \A k \in LaterKeys : Min(LaterKeys) <= k
<1>1. Live \subseteq Nat /\ 0 \notin Live
  <2>1. Present \subseteq CounterKeys /\ blacklist \subseteq 1..NPrefixes
    BY DEF WalkShape, Present
  <2>2. 1..NPrefixes \subseteq Nat /\ 0 \notin 1..NPrefixes
    BY Constants
  <2>3. QED
    BY <2>1, <2>2, Constants DEF Live
<1>2. LaterKeys \subseteq Live
  BY DEF LaterKeys
<1>3. QED
  BY <1>1, <1>2, MinOfNats

\* The index arithmetic of the ring: one subtraction stands for the modulus.
LEMMA Wrapped ==
    ASSUME NEW a \in Nat, a < 2 * WindowSize
    PROVE  a % WindowSize = IF a < WindowSize THEN a ELSE a - WindowSize
BY Constants

LEMMA PushShape ==
    ASSUME Shape, FinishBreakdown
    PROVE  RateShape'
<1>1. /\ head \in 0..(WindowSize - 1) /\ count \in 0..WindowSize
      /\ WindowSize \in Nat /\ WindowSize > 0
      /\ total \in Nat /\ lastTotal \in Nat /\ dropped \in Nat
      /\ window \in [0..(WindowSize - 1) -> Int] /\ pushed \in Seq(Int)
  BY Constants DEF Shape, RateShape
<1>2. HeadAfterPush \in 0..(WindowSize - 1)
  <2>1. HeadAfterPush = IF head + 1 < WindowSize THEN head + 1
                        ELSE head + 1 - WindowSize
    BY <1>1, Wrapped DEF HeadAfterPush
  <2>2. QED
    BY <1>1, <2>1
<1>3. Min({count + 1, WindowSize}) \in 0..WindowSize
  <2>1. Min({count + 1, WindowSize}) \in {count + 1, WindowSize}
        /\ Min({count + 1, WindowSize}) <= WindowSize
    <3>1. count + 1 \in Int /\ WindowSize \in Int
      BY <1>1
    <3>2. QED
      BY <3>1, MinOfTwo
  <2>2. QED
    BY <1>1, <2>1
<1>4. (total - lastTotal) * 2 \in Int
  BY <1>1
<1>5. /\ total' = total /\ dropped' = dropped /\ lastTotal' = total
  BY DEF FinishBreakdown, RememberedTotal
<1>6. CASE lastTotal = 0
  BY <1>1, <1>5, <1>6 DEF FinishBreakdown, RateShape
<1>7. CASE lastTotal # 0
  <2>1. /\ window' = [window EXCEPT ![head] = (total - lastTotal) * 2]
        /\ head' = HeadAfterPush /\ count' = Min({count + 1, WindowSize})
        /\ pushed' = Append(pushed, (total - lastTotal) * 2)
    BY <1>7 DEF FinishBreakdown
  <2>2. window' \in [0..(WindowSize - 1) -> Int] /\ pushed' \in Seq(Int)
    BY <1>1, <1>4, <2>1
  <2>3. QED
    BY <1>1, <1>2, <1>3, <1>5, <2>1, <2>2 DEF RateShape
<1>8. QED
  BY <1>6, <1>7

LEMMA ShapeInvariant == Spec => []Shape
<1>1. Init => Shape
  <2> SUFFICES ASSUME Init PROVE Shape
    OBVIOUS
  <2>1. WalkShape
    BY Constants DEF Init, WalkShape, Null
  <2>2. RateShape
    BY Constants DEF Init, RateShape
  <2>3. QED
    BY <2>1, <2>2 DEF Shape
<1>2. Shape /\ [Next]_vars => Shape'
  <2> SUFFICES ASSUME Shape, [Next]_vars PROVE Shape'
    OBVIOUS
  <2>1. WalkShape /\ RateShape
    BY DEF Shape
  <2>2. CASE CountPacket
    <3>1. counts' \in [CounterKeys -> 0..MaxCount]
      BY <2>1, <2>2, Constants DEF CountPacket, WalkShape
    <3>2. QED
      BY <2>1, <2>2, <3>1 DEF CountPacket, Shape, WalkShape, RateShape, loopVars,
         rateVars
  <2>3. CASE Edit
    <3>1. blacklist' \subseteq 1..NPrefixes /\ edits' \in 0..MaxEdits
      <4>1. \/ \E e \in 1..NPrefixes : blacklist' = blacklist \cup {e}
            \/ \E e \in blacklist : blacklist' = blacklist \ {e}
        BY <2>3 DEF Edit
      <4>2. blacklist \subseteq 1..NPrefixes /\ edits \in 0..MaxEdits /\ MaxEdits \in Nat
        BY <2>1, Constants DEF WalkShape
      <4>3. edits' = edits + 1 /\ edits < MaxEdits
        BY <2>3 DEF Edit
      <4>4. edits' \in 0..MaxEdits
        BY <4>2, <4>3
      <4>5. QED
        BY <4>1, <4>2, <4>4
    <3>2. stable' \subseteq Nat
      BY <2>1, <2>3 DEF Edit, WalkShape
    <3>3. QED
      BY <2>1, <2>3, <3>1, <3>2 DEF Edit, Shape, WalkShape, RateShape, loopVars,
         rateVars
  <2>4. CASE Start
    <3>1. passes' \in 0..MaxPasses /\ FirstKey \in Nat /\ << >> \in Seq(Nat)
      BY <2>1, <2>4, Constants DEF Start, WalkShape, FirstKey, Null
    <3>2. WalkShape'
      BY <2>1, <2>4, <3>1, LiveKeys DEF Start, WalkShape, mapVars
    <3>3. RateShape'
      BY <2>1, <2>4 DEF Start, RateShape
    <3>4. QED
      BY <3>2, <3>3 DEF Shape
  <2>5. CASE NextKey
    <3>1. next' \in Nat
      BY <2>1, <2>5, LiveKeys DEF NextKey
    <3>2. reader = "top" => next' \in CounterKeys
      BY <2>1, <2>5, LiveKeys DEF NextKey, Live, Present
    <3>3. QED
      BY <2>1, <2>5, <3>1, <3>2 DEF NextKey, Shape, WalkShape, RateShape, mapVars, rateVars
  <2>6. CASE Lookup
    <3>1. /\ shown' \in {shown, Append(shown, next)}
          /\ cursor' = next /\ phase' = "next"
          /\ UNCHANGED <<mapVars, reader, next, stable, edits, passes>>
      BY <2>6 DEF Lookup
    <3>2. shown' \in Seq(Nat)
      <4>1. shown \in Seq(Nat) /\ next \in Nat
        BY <2>1 DEF WalkShape
      <4>2. Append(shown, next) \in Seq(Nat)
        BY <4>1
      <4>3. QED
        BY <3>1, <4>1, <4>2
    <3>3. WalkShape'
      BY <2>1, <3>1, <3>2 DEF WalkShape, mapVars
    <3>4. total' \in Nat /\ dropped' \in Nat
      <4> DEFINE value == IF reader = "top" THEN counts[next] ELSE 0
      <4>1. /\ total' = total + IF next = DroppedKey THEN 0 ELSE value
            /\ dropped' = dropped + IF next = DroppedKey THEN value ELSE 0
        BY <2>6 DEF Lookup
      <4>2. value \in Nat
        BY <2>1, <2>6 DEF Lookup, WalkShape
      <4>3. QED
        BY <2>1, <4>1, <4>2 DEF RateShape
    <3>5. RateShape'
      BY <2>1, <2>6, <3>4 DEF Lookup, RateShape
    <3>6. QED
      BY <3>3, <3>5 DEF Shape
  <2>7. CASE Finish
    BY <2>1, <2>7 DEF Finish, Shape, WalkShape, RateShape, mapVars, rateVars
  <2>8. CASE FinishBreakdown
    <3>1. WalkShape'
      BY <2>1, <2>8 DEF FinishBreakdown, WalkShape, mapVars
    <3>2. QED
      BY <2>8, <3>1, PushShape DEF Shape
  <2>9. CASE UNCHANGED vars
    BY <2>1, <2>9 DEF vars, mapVars, loopVars, rateVars, Shape, WalkShape, RateShape
  <2>10. QED
    BY <2>2, <2>3, <2>4, <2>5, <2>6, <2>7, <2>8, <2>9 DEF Next
<1>3. QED
  BY <1>1, <1>2, PTL DEF Spec

-----------------------------------------------------------------------------
(* The walk.                                                               *)

LEMMA ToSetAppend ==
    ASSUME NEW s \in Seq(Nat), NEW e \in Nat
    PROVE  ToSet(Append(s, e)) = ToSet(s) \cup {e}
<1>1. /\ DOMAIN Append(s, e) = DOMAIN s \cup {Len(s) + 1}
      /\ Append(s, e)[Len(s) + 1] = e
      /\ \A i \in DOMAIN s : Append(s, e)[i] = s[i]
  OBVIOUS
<1>2. QED
  BY <1>1 DEF ToSet

Missing == stable \ ToSet(shown)

\* What is still to be shown lies ahead, although a walk whose key is deleted
\* under it starts over.
WalkInv ==
    /\ stable \subseteq Live
    /\ reader # "stats" =>
         /\ phase = "next" => \A k \in Missing : k > cursor
         /\ phase = "lookup" => \A k \in Missing : k >= next
         /\ phase = "done" => Missing = {}

LEMMA WalkInvariant == Spec => []WalkInv
<1>1. Init => WalkInv
  BY DEF Init, WalkInv, Missing
<1>2. Shape /\ WalkInv /\ [Next]_vars => WalkInv'
  <2> SUFFICES ASSUME WalkShape, WalkInv, [Next]_vars PROVE WalkInv'
    BY DEF Shape
  <2>1. CASE CountPacket
    <3>1. UNCHANGED <<blacklist, reader, phase, cursor, next, shown, stable>>
      BY <2>1 DEF CountPacket, loopVars
    <3>2. Live \subseteq Live'
      <4>1. counts \in [CounterKeys -> Nat]
        BY Constants DEF WalkShape
      <4>2. PICK k \in CounterKeys : counts' = [counts EXCEPT ![k] = @ + 1]
        BY <2>1 DEF CountPacket
      <4>3. Present \subseteq Present'
        BY <4>1, <4>2 DEF Present
      <4>4. QED
        BY <3>1, <4>3 DEF Live
    <3>3. QED
      BY <3>1, <3>2 DEF WalkInv, Missing
  <2>2. CASE Edit
    <3>1. /\ reader = "list" /\ stable' = stable \cap blacklist'
          /\ UNCHANGED <<reader, phase, cursor, next, shown>>
      BY <2>2 DEF Edit, loopVars
    <3>2. Missing' \subseteq Missing
      BY <3>1 DEF Missing
    <3>3. QED
      BY <3>1, <3>2 DEF WalkInv, Live
  <2>3. CASE Start
    <3>1. /\ phase' = "next" /\ cursor' = FirstKey /\ stable' = Live
          /\ UNCHANGED <<counts, blacklist, reader>>
      BY <2>3 DEF Start, mapVars
    <3>2. Live' = Live
      BY <3>1 DEF Live, Present
    <3>3. \A k \in Live : k > 0
      BY LiveKeys
    <3>4. QED
      BY <3>1, <3>2, <3>3 DEF WalkInv, Missing, FirstKey, Null
  <2>4. CASE NextKey
    <3>1. /\ phase = "next" /\ phase' = "lookup" /\ next' = Min(LaterKeys)
          /\ LaterKeys # {} /\ UNCHANGED <<counts, blacklist, reader, stable, shown>>
      BY <2>4 DEF NextKey, mapVars
    <3>2. Live' = Live /\ Missing' = Missing
      BY <3>1 DEF Live, Present, Missing
    <3>3. reader # "stats" => Missing \subseteq LaterKeys
      BY <3>1 DEF WalkInv, LaterKeys, Missing
    <3>4. \A k \in LaterKeys : next' <= k /\ k \in Nat /\ next' \in Nat
      BY <3>1, LiveKeys
    <3>5. QED
      BY <3>1, <3>2, <3>3, <3>4 DEF WalkInv
  <2>5. CASE Lookup
    <3>1. /\ phase = "lookup" /\ phase' = "next" /\ cursor' = next
          /\ shown' = IF next \in Live THEN Append(shown, next) ELSE shown
          /\ UNCHANGED <<counts, blacklist, reader, stable>>
      BY <2>5 DEF Lookup, mapVars
    <3>2. Live' = Live
      BY <3>1 DEF Live, Present
    <3>3. Missing' = Missing \ {next}
      <4>1. CASE next \in Live
        BY <3>1, <4>1, ToSetAppend DEF Missing, WalkShape
      <4>2. CASE next \notin Live
        BY <3>1, <4>2 DEF Missing, WalkInv
      <4>3. QED
        BY <4>1, <4>2
    <3>4. next \in Nat /\ Missing \subseteq Nat
      BY DEF WalkShape, Missing
    <3>5. QED
      BY <3>1, <3>2, <3>3, <3>4 DEF WalkInv
  <2>6. CASE Finish \/ FinishBreakdown
    <3>1. /\ phase = "next" /\ phase' = "done" /\ LaterKeys = {}
          /\ UNCHANGED <<counts, blacklist, reader, stable, shown>>
      BY <2>6 DEF Finish, FinishBreakdown, mapVars
    <3>2. Live' = Live /\ Missing' = Missing
      BY <3>1 DEF Live, Present, Missing
    <3>3. reader # "stats" => Missing \subseteq LaterKeys
      BY <3>1 DEF WalkInv, LaterKeys, Missing
    <3>4. QED
      BY <3>1, <3>2, <3>3 DEF WalkInv
  <2>7. CASE UNCHANGED vars
    BY <2>7 DEF vars, mapVars, loopVars, WalkInv, Missing, Live, Present
  <2>8. QED
    BY <2>1, <2>2, <2>3, <2>4, <2>5, <2>6, <2>7 DEF Next
<1>3. QED
  BY <1>1, <1>2, ShapeInvariant, PTL DEF Spec

\* A walk from a null key, of top's breakdown or of list, shows every key
\* that stays in the map, whatever is created or deleted around it.
THEOREM WalksAreComplete == Spec => []WalkIsComplete
<1>1. WalkInv => WalkIsComplete
  BY DEF WalkInv, WalkIsComplete, Missing
<1>2. QED
  BY <1>1, WalkInvariant, PTL

-----------------------------------------------------------------------------
(* PpsWindow.                                                              *)

\* The slot of the i-th rate from the end.
SlotOf(i) == IF i <= head THEN head - i ELSE head - i + WindowSize

\* The window holds the last count rates, and it is filled from the front.
RingInv ==
    /\ count <= Len(pushed)
    /\ count < WindowSize => head = count /\ Len(pushed) = count
    /\ \A i \in 1..count : window[SlotOf(i)] = pushed[Len(pushed) + 1 - i]

LEMMA PushKeepsRing ==
    ASSUME RateShape, RingInv, FinishBreakdown, lastTotal # 0
    PROVE  RingInv'
<1> DEFINE pps == (total - lastTotal) * 2
<1>1. /\ head \in 0..(WindowSize - 1) /\ count \in 0..WindowSize
      /\ WindowSize \in Nat /\ WindowSize > 0
      /\ window \in [0..(WindowSize - 1) -> Int] /\ pushed \in Seq(Int)
      /\ Len(pushed) \in Nat /\ pps \in Int
  BY Constants DEF RateShape
<1>2. /\ window' = [window EXCEPT ![head] = pps] /\ head' = HeadAfterPush
      /\ count' = Min({count + 1, WindowSize}) /\ pushed' = Append(pushed, pps)
  BY DEF FinishBreakdown
<1> HIDE DEF pps
<1>3. head' = IF head + 1 < WindowSize THEN head + 1 ELSE 0
  BY <1>1, <1>2, Wrapped DEF HeadAfterPush
<1>4. count' = IF count < WindowSize THEN count + 1 ELSE WindowSize
  <2>1. /\ count' \in {count + 1, WindowSize}
        /\ count' <= count + 1 /\ count' <= WindowSize
    <3>1. count + 1 \in Int /\ WindowSize \in Int
      BY <1>1
    <3>2. QED
      BY <1>2, <3>1, MinOfTwo
  <2>2. QED
    BY <1>1, <2>1
<1>5. /\ Len(pushed') = Len(pushed) + 1 /\ pushed'[Len(pushed) + 1] = pps
      /\ \A j \in 1..Len(pushed) : pushed'[j] = pushed[j]
  BY <1>1, <1>2
<1>6. count' <= Len(pushed') /\ (count' < WindowSize => head' = count' /\ Len(pushed') = count')
  BY <1>1, <1>3, <1>4, <1>5 DEF RingInv
<1>7. ASSUME NEW i \in 1..count'
      PROVE  window'[SlotOf(i)'] = pushed'[Len(pushed') + 1 - i]
  <2>1. SlotOf(i)' = IF i <= head' THEN head' - i ELSE head' - i + WindowSize
    BY DEF SlotOf
  <2>2. i \in Nat /\ i >= 1 /\ i <= WindowSize
    BY <1>1, <1>4
  <2>3. CASE i = 1
    <3>1. SlotOf(i)' = head
      BY <1>1, <1>3, <2>1, <2>3
    <3>2. QED
      BY <1>1, <1>2, <1>5, <2>3, <3>1
  <2>4. CASE i # 1
    <3>1. i - 1 \in 1..count
      BY <1>1, <1>4, <2>2, <2>4
    <3>2. SlotOf(i - 1) = IF i - 1 <= head THEN head - (i - 1)
                          ELSE head - (i - 1) + WindowSize
      BY DEF SlotOf
    <3>3. /\ SlotOf(i)' = SlotOf(i - 1) /\ SlotOf(i - 1) # head
          /\ SlotOf(i - 1) \in 0..(WindowSize - 1)
      <4> DEFINE new == SlotOf(i)'
                 old == SlotOf(i - 1)
      <4>1. /\ new = IF i <= head' THEN head' - i ELSE head' - i + WindowSize
            /\ old = IF i - 1 <= head THEN head - (i - 1)
                     ELSE head - (i - 1) + WindowSize
        BY <2>1, <3>2
      <4> HIDE DEF new, old
      <4>2. CASE head + 1 < WindowSize
        BY SMTT(30), <1>1, <1>3, <2>2, <2>4, <4>1, <4>2 DEF new, old
      <4>3. CASE head + 1 = WindowSize
        <5>1. new = WindowSize - i /\ old = WindowSize - i
          BY <1>1, <1>3, <2>2, <2>4, <4>1, <4>3
        <5>2. QED
          BY <1>1, <2>2, <2>4, <4>3, <5>1 DEF new, old
      <4>4. QED
        BY <1>1, <4>2, <4>3
    <3>4. window'[SlotOf(i - 1)] = window[SlotOf(i - 1)]
      BY <1>1, <1>2, <3>3
    <3>5. window[SlotOf(i - 1)] = pushed[Len(pushed) + 1 - (i - 1)]
      BY <3>1 DEF RingInv
    <3>6. /\ Len(pushed) + 1 - (i - 1) \in 1..Len(pushed)
          /\ Len(pushed) + 1 - (i - 1) = Len(pushed') + 1 - i
      BY <1>1, <1>5, <2>2, <3>1 DEF RingInv
    <3>7. QED
      BY <1>5, <3>3, <3>4, <3>5, <3>6
  <2>5. QED
    BY <2>3, <2>4
<1>8. QED
  BY <1>6, <1>7 DEF RingInv

LEMMA RingInvariant == Spec => []RingInv
<1>1. Init => RingInv
  BY Constants DEF Init, RingInv
<1>2. Shape /\ RingInv /\ [Next]_vars => RingInv'
  <2> SUFFICES ASSUME RateShape, RingInv, [Next]_vars PROVE RingInv'
    BY DEF Shape
  <2>1. CASE FinishBreakdown /\ lastTotal # 0
    BY <2>1, PushKeepsRing
  <2>2. CASE UNCHANGED <<window, head, count, pushed>>
    BY <2>2 DEF RingInv, SlotOf
  <2>3. QED
    BY <2>1, <2>2 DEF Next, CountPacket, Edit, Start, NextKey, Lookup, Finish,
       FinishBreakdown, vars, rateVars
<1>3. QED
  BY <1>1, <1>2, ShapeInvariant, PTL DEF Spec

\* copy_snapshot returns the latest rates, oldest first, before and after the
\* ring has wrapped, and latest the last of them.
THEOREM WindowShowsLatest == Spec => []WindowIsRecent
<1>1. Shape /\ RingInv => WindowIsRecent
  <2> SUFFICES ASSUME RateShape, RingInv PROVE WindowIsRecent
    BY DEF Shape
  <2>1. /\ head \in 0..(WindowSize - 1) /\ count \in 0..WindowSize
        /\ WindowSize \in Nat /\ WindowSize > 0 /\ pushed \in Seq(Int)
        /\ Len(pushed) \in Nat /\ count <= Len(pushed)
        /\ count < WindowSize => head = count /\ Len(pushed) = count
    BY Constants DEF RateShape, RingInv
  <2>2. count = Min({Len(pushed), WindowSize})
    <3>1. /\ Min({Len(pushed), WindowSize}) \in {Len(pushed), WindowSize}
          /\ Min({Len(pushed), WindowSize}) <= Len(pushed)
          /\ Min({Len(pushed), WindowSize}) <= WindowSize
      <4>1. Len(pushed) \in Int /\ WindowSize \in Int
        BY <2>1
      <4>2. QED
        BY <4>1, MinOfTwo
    <3>2. QED
      BY <2>1, <3>1
  <2>3. ASSUME NEW i \in 1..count
        PROVE  window[(OldestAt + i - 1) % WindowSize] = pushed[Len(pushed) - count + i]
    <3>1. OldestAt = IF count < WindowSize THEN 0 ELSE head
      BY DEF OldestAt
    <3>2. PICK a \in Nat : a = OldestAt + i - 1 /\ a < 2 * WindowSize
      BY <2>1, <3>1
    <3>3. a % WindowSize = IF a < WindowSize THEN a ELSE a - WindowSize
      BY <3>2, Wrapped
    <3>4. SlotOf(count + 1 - i) = IF count + 1 - i <= head THEN head - (count + 1 - i)
                                  ELSE head - (count + 1 - i) + WindowSize
      BY DEF SlotOf
    <3>5. SlotOf(count + 1 - i) = a % WindowSize
      <4>1. CASE count < WindowSize
        BY SMTT(30), <2>1, <3>1, <3>2, <3>3, <3>4, <4>1
      <4>2. CASE count = WindowSize
        BY <2>1, <3>1, <3>2, <3>3, <3>4, <4>2
      <4>3. QED
        BY <2>1, <4>1, <4>2
    <3>6. /\ count + 1 - i \in 1..count
          /\ Len(pushed) + 1 - (count + 1 - i) = Len(pushed) - count + i
      BY <2>1
    <3>7. window[SlotOf(count + 1 - i)] = pushed[Len(pushed) + 1 - (count + 1 - i)]
      BY <3>6 DEF RingInv
    <3>8. QED
      BY <3>2, <3>5, <3>6, <3>7
  <2>4. CopySnapshot = SubSeq(pushed, Len(pushed) - count + 1, Len(pushed))
    <3>1. SubSeq(pushed, Len(pushed) - count + 1, Len(pushed)) =
            [i \in 1..count |-> pushed[Len(pushed) - count + i]]
      BY SMTT(30), <2>1
    <3>2. QED
      BY <2>3, <3>1 DEF CopySnapshot
  <2>5. pushed # << >> => Latest = Last(pushed)
    <3> SUFFICES ASSUME pushed # << >> PROVE Latest = pushed[Len(pushed)]
      BY DEF Last
    <3>1. Len(pushed) # 0
      BY <2>1
    <3>2. 1 \in 1..count
      BY <2>1, <3>1
    <3>3. window[SlotOf(1)] = pushed[Len(pushed) + 1 - 1]
      BY <3>2 DEF RingInv
    <3>4. SlotOf(1) = IF head = 0 THEN WindowSize - 1 ELSE head - 1
      BY <2>1 DEF SlotOf
    <3>5. Len(pushed) + 1 - 1 = Len(pushed)
      BY <2>1
    <3>6. QED
      BY <3>3, <3>4, <3>5 DEF Latest
  <2>6. QED
    BY <2>2, <2>4, <2>5 DEF WindowIsRecent
<1>2. QED
  BY <1>1, ShapeInvariant, RingInvariant, PTL

-----------------------------------------------------------------------------
(* Sums over the counters, as the size of a set with an element for each   *)
(* packet counted.                                                         *)

Counters == [CounterKeys -> 0..MaxCount]
Units(f) == UNION {{k} \X (1..f[k]) : k \in CounterKeys}
Sum(f) == Cardinality(Units(f))
NoCounts == [k \in CounterKeys |-> 0]

LEMMA UnitsOf ==
    ASSUME NEW f \in Counters, NEW x
    PROVE  x \in Units(f) <=> \E k \in CounterKeys : \E n \in 1..f[k] : x = <<k, n>>
<1>1. ASSUME NEW k \in CounterKeys
      PROVE  x \in {k} \X (1..f[k]) <=> \E n \in 1..f[k] : x = <<k, n>>
  OBVIOUS
<1>2. x \in Units(f) <=> \E k \in CounterKeys : x \in {k} \X (1..f[k])
  BY DEF Units
<1>3. QED
  BY <1>1, <1>2

LEMMA SumBound ==
    ASSUME NEW f \in Counters
    PROVE  IsFiniteSet(Units(f)) /\ Sum(f) \in 0..MaxTotal
<1> DEFINE B == CounterKeys \X (1..MaxCount)
<1>1. /\ IsFiniteSet(CounterKeys) /\ Cardinality(CounterKeys) = NCounters
      /\ IsFiniteSet(1..MaxCount) /\ Cardinality(1..MaxCount) = MaxCount
  BY Constants, FS_Interval DEF CounterKeys
<1>2. IsFiniteSet(B) /\ Cardinality(B) = NCounters * MaxCount
  BY <1>1, FS_Product
<1>3. Units(f) \subseteq B
  <2> SUFFICES ASSUME NEW x \in Units(f) PROVE x \in B
    OBVIOUS
  <2>1. PICK k \in CounterKeys : \E n \in 1..f[k] : x = <<k, n>>
    BY UnitsOf
  <2>2. f[k] \in 0..MaxCount
    BY DEF Counters
  <2>3. QED
    BY <2>1, <2>2, Constants
<1> HIDE DEF B
<1>4. /\ IsFiniteSet(Units(f)) /\ Cardinality(Units(f)) <= Cardinality(B)
      /\ Cardinality(Units(f)) \in Nat /\ Cardinality(B) \in Nat
  BY <1>2, <1>3, FS_Subset, FS_CardinalityType
<1>5. QED
  BY <1>2, <1>4 DEF Sum, MaxTotal

LEMMA SumMonotone ==
    ASSUME NEW f \in Counters, NEW g \in Counters,
           \A k \in CounterKeys : f[k] <= g[k]
    PROVE  Sum(f) <= Sum(g)
<1>1. Units(f) \subseteq Units(g)
  <2> SUFFICES ASSUME NEW x \in Units(f) PROVE x \in Units(g)
    OBVIOUS
  <2>1. PICK k \in CounterKeys : \E n \in 1..f[k] : x = <<k, n>>
    BY UnitsOf
  <2>2. PICK n \in 1..f[k] : x = <<k, n>>
    BY <2>1
  <2>3. f[k] \in Nat /\ g[k] \in Nat /\ f[k] <= g[k]
    BY Constants DEF Counters
  <2>4. n \in 1..g[k]
    BY <2>3
  <2>5. QED
    BY <2>2, <2>4, UnitsOf
<1>2. QED
  BY <1>1, SumBound, FS_Subset DEF Sum

LEMMA SumZero == NoCounts \in Counters /\ Sum(NoCounts) = 0
<1>1. NoCounts \in Counters
  BY Constants DEF NoCounts, Counters
<1>2. Units(NoCounts) = {}
  <2> SUFFICES ASSUME NEW x \in Units(NoCounts) PROVE FALSE
    OBVIOUS
  <2>1. PICK k \in CounterKeys : \E n \in 1..NoCounts[k] : x = <<k, n>>
    BY <1>1, UnitsOf
  <2>2. QED
    BY <2>1 DEF NoCounts
<1>3. QED
  BY <1>1, <1>2, FS_EmptySet DEF Sum

LEMMA SumAdd ==
    ASSUME NEW f \in Counters, NEW k \in CounterKeys, f[k] = 0, NEW v \in 0..MaxCount
    PROVE  /\ [f EXCEPT ![k] = v] \in Counters
           /\ Sum([f EXCEPT ![k] = v]) = Sum(f) + v
<1> DEFINE g == [f EXCEPT ![k] = v]
           A == {k} \X (1..v)
<1>1. g \in Counters /\ g[k] = v /\ \A j \in CounterKeys : j # k => g[j] = f[j]
  BY DEF Counters
<1> HIDE DEF g
<1>2. \A x : x \in A <=> \E n \in 1..v : x = <<k, n>>
  OBVIOUS
<1> HIDE DEF A
<1>3. Units(g) = Units(f) \cup A
  <2>1. ASSUME NEW x \in Units(g) PROVE x \in Units(f) \cup A
    <3>1. PICK j \in CounterKeys : \E n \in 1..g[j] : x = <<j, n>>
      BY <1>1, UnitsOf
    <3>2. CASE j = k
      BY <1>1, <1>2, <3>1, <3>2
    <3>3. CASE j # k
      BY <1>1, <3>1, <3>3, UnitsOf
    <3>4. QED
      BY <3>2, <3>3
  <2>2. ASSUME NEW x \in Units(f) PROVE x \in Units(g)
    <3>1. PICK j \in CounterKeys : \E n \in 1..f[j] : x = <<j, n>>
      BY UnitsOf
    <3>2. j # k
      BY <3>1
    <3>3. QED
      BY <1>1, <3>1, <3>2, UnitsOf
  <2>3. ASSUME NEW x \in A PROVE x \in Units(g)
    BY <1>1, <1>2, <2>3, UnitsOf
  <2>4. QED
    BY <2>1, <2>2, <2>3
<1>4. Units(f) \cap A = {}
  <2> SUFFICES ASSUME NEW x \in Units(f), x \in A PROVE FALSE
    OBVIOUS
  <2>1. PICK j \in CounterKeys : \E n \in 1..f[j] : x = <<j, n>>
    BY UnitsOf
  <2>2. PICK m \in 1..v : x = <<k, m>>
    BY <1>2
  <2>3. j = k
    BY <2>1, <2>2
  <2>4. QED
    BY <2>1, <2>3
<1>5. IsFiniteSet(A) /\ Cardinality(A) = v
  <2>1. IsFiniteSet(1..v) /\ Cardinality(1..v) = v /\ v \in Nat
    <3>1. v \in Nat
      BY Constants
    <3>2. /\ IsFiniteSet(1..v)
          /\ Cardinality(1..v) = IF 1 > v THEN 0 ELSE v - 1 + 1
      BY <3>1, FS_Interval
    <3>3. QED
      BY <3>1, <3>2
  <2>2. IsFiniteSet({k}) /\ Cardinality({k}) = 1
    BY FS_Singleton
  <2>3. QED
    BY <2>1, <2>2, FS_Product DEF A
<1>6. Cardinality(Units(f) \cup A) = Cardinality(Units(f)) + Cardinality(A) - 0
  <2>1. IsFiniteSet(Units(f)) /\ IsFiniteSet(A)
    BY <1>5, SumBound
  <2>2. Cardinality(Units(f) \cup A) =
          Cardinality(Units(f)) + Cardinality(A) - Cardinality(Units(f) \cap A)
    BY <2>1, FS_Union
  <2>3. QED
    BY <1>4, <2>2, FS_EmptySet
<1>7. Sum(f) \in Nat /\ v \in Nat
  BY SumBound, Constants
<1>8. Sum(g) = Sum(f) + v
  BY <1>3, <1>5, <1>6, <1>7 DEF Sum
<1>9. QED
  BY <1>1, <1>8 DEF g

-----------------------------------------------------------------------------
(* top's breakdown and rate.                                               *)

\* top's walk goes strictly forward, since a counter is never deleted, so it
\* reads each counter once.
OnceInv ==
    /\ IsInjective(shown)
    /\ \A k \in ToSet(shown) : k <= cursor
    /\ cursor = 0 \/ cursor \in Present
    /\ phase = "lookup" => next > cursor /\ next \in Present
    /\ DroppedKey \notin ToSet(shown) => dropped = 0
    /\ dropped <= counts[DroppedKey]

\* The other commands leave the rate alone.
TopInv ==
    /\ reader = "top" => OnceInv
    /\ reader # "top" => total = 0 /\ dropped = 0 /\ lastTotal = 0

LEMMA InjectiveAppend ==
    ASSUME NEW s \in Seq(Nat), IsInjective(s), NEW e \in Nat, e \notin ToSet(s)
    PROVE  IsInjective(Append(s, e))
<1>1. /\ DOMAIN Append(s, e) = DOMAIN s \cup {Len(s) + 1}
      /\ Append(s, e)[Len(s) + 1] = e
      /\ \A i \in DOMAIN s : Append(s, e)[i] = s[i]
  OBVIOUS
<1>2. \A i \in DOMAIN s : s[i] # e
  BY DEF ToSet
<1>3. QED
  BY <1>1, <1>2 DEF IsInjective

\* One more packet counted.
LEMMA Counted ==
    ASSUME WalkShape, CountPacket
    PROVE  /\ Present \subseteq Present'
           /\ \A k \in CounterKeys : counts[k] <= counts'[k]
           /\ counts \in [CounterKeys -> Nat] /\ counts' \in [CounterKeys -> Nat]
<1>1. counts \in [CounterKeys -> Nat]
  BY Constants DEF WalkShape
<1>2. PICK k \in CounterKeys : counts' = [counts EXCEPT ![k] = @ + 1]
  BY DEF CountPacket
<1>3. counts' \in [CounterKeys -> Nat]
  BY <1>1, <1>2
<1>4. \A j \in CounterKeys : counts'[j] = counts[j] \/ counts'[j] = counts[j] + 1
  BY <1>1, <1>2
<1>5. \A j \in CounterKeys : counts[j] <= counts'[j]
  BY <1>1, <1>4
<1>6. QED
  BY <1>1, <1>3, <1>5 DEF Present

LEMMA TopInvariant == Spec => []TopInv
<1>1. Init => TopInv
  <2> SUFFICES ASSUME Init PROVE TopInv
    OBVIOUS
  <2>1. DOMAIN shown = {} /\ ToSet(shown) = {} /\ cursor = 0 /\ dropped = 0
    BY DEF Init, ToSet, Null
  <2>2. counts[DroppedKey] = 0
    BY Constants DEF Init
  <2>3. QED
    BY <2>1, <2>2 DEF Init, TopInv, OnceInv, IsInjective
<1>2. Shape /\ TopInv /\ [Next]_vars => TopInv'
  <2> SUFFICES ASSUME WalkShape, RateShape, TopInv, [Next]_vars PROVE TopInv'
    BY DEF Shape
  <2>1. CASE CountPacket
    <3>1. UNCHANGED <<reader, phase, cursor, next, shown, total, dropped, lastTotal>>
      BY <2>1 DEF CountPacket, loopVars, rateVars
    <3>2. dropped \in Nat /\ dropped <= counts[DroppedKey]
            => dropped <= counts'[DroppedKey]
      <4>1. /\ counts[DroppedKey] \in Nat /\ counts'[DroppedKey] \in Nat
            /\ counts[DroppedKey] <= counts'[DroppedKey]
        BY <2>1, Counted, Constants
      <4>2. QED
        BY <4>1
    <3>3. QED
      BY <2>1, <3>1, <3>2, Counted DEF TopInv, OnceInv, RateShape
  <2>2. CASE Start
    <3>1. /\ ToSet(shown') = {} /\ DOMAIN shown' = {} /\ phase' = "next"
          /\ total' = 0 /\ dropped' = 0
          /\ UNCHANGED <<reader, lastTotal, counts>>
      BY <2>2 DEF Start, ToSet, mapVars
    <3>2. reader = "top" => cursor' = 0
      BY <2>2 DEF Start, FirstKey, Null
    <3>3. 0 <= counts[DroppedKey]
      BY Constants DEF WalkShape
    <3>4. QED
      BY <3>1, <3>2, <3>3 DEF TopInv, OnceInv, IsInjective
  <2>3. CASE NextKey
    <3>1. /\ phase' = "lookup" /\ next' = Min(LaterKeys) /\ LaterKeys # {}
          /\ UNCHANGED <<counts, reader, cursor, shown, total, dropped, lastTotal>>
      BY <2>3 DEF NextKey, mapVars, rateVars
    <3>2. Present' = Present
      BY <3>1 DEF Present
    <3>3. reader = "top" => next' > cursor /\ next' \in Present
      <4> SUFFICES ASSUME reader = "top" PROVE next' > cursor /\ next' \in Present
        OBVIOUS
      <4>1. Live = Present /\ next' \in LaterKeys /\ next' \in Nat /\ next' # 0
        BY <3>1, LiveKeys DEF Live
      <4>2. CASE cursor = 0
        BY <4>1, <4>2 DEF LaterKeys
      <4>3. CASE cursor \in Present
        BY <4>1, <4>3 DEF LaterKeys
      <4>4. QED
        BY <4>2, <4>3 DEF TopInv, OnceInv
    <3>4. QED
      BY <3>1, <3>2, <3>3 DEF TopInv, OnceInv
  <2>4. CASE Lookup
    <3> DEFINE value == IF reader = "top" THEN counts[next] ELSE 0
    <3>1. /\ phase = "lookup" /\ phase' = "next" /\ cursor' = next
          /\ shown' = IF next \in Live THEN Append(shown, next) ELSE shown
          /\ total' = total + IF next = DroppedKey THEN 0 ELSE value
          /\ dropped' = dropped + IF next = DroppedKey THEN value ELSE 0
          /\ UNCHANGED <<counts, reader, lastTotal>>
      BY <2>4 DEF Lookup, mapVars
    <3>2. Present' = Present
      BY <3>1 DEF Present
    <3>3. CASE reader # "top"
      BY <3>1, <3>3 DEF TopInv
    <3>4. CASE reader = "top"
      <4>1. next \in Live /\ next \in Present /\ next > cursor
        BY <3>1, <3>4 DEF TopInv, OnceInv, Live
      <4>2. /\ shown \in Seq(Nat) /\ next \in Nat /\ cursor \in Nat
            /\ ToSet(shown) \subseteq Nat
        BY DEF WalkShape, ToSet
      <4>3. \A k \in ToSet(shown) : k <= cursor
        BY <3>4 DEF TopInv, OnceInv
      <4>4. next \notin ToSet(shown)
        BY <4>1, <4>2, <4>3
      <4>5. /\ shown' = Append(shown, next)
            /\ ToSet(shown') = ToSet(shown) \cup {next}
        BY <3>1, <4>1, <4>2, ToSetAppend
      <4>6. IsInjective(shown')
        BY <3>4, <4>2, <4>4, <4>5, InjectiveAppend DEF TopInv, OnceInv
      <4>7. \A k \in ToSet(shown') : k <= next
        BY <4>1, <4>2, <4>3, <4>5
      <4>8. /\ DroppedKey \notin ToSet(shown') => dropped' = 0
            /\ dropped' <= counts[DroppedKey]
        <5>1. CASE next = DroppedKey
          <6>1. dropped = 0 /\ dropped' = dropped + counts[DroppedKey]
            BY <3>1, <3>4, <4>4, <5>1 DEF TopInv, OnceInv
          <6>2. counts[DroppedKey] \in Nat
            BY Constants DEF WalkShape
          <6>3. QED
            BY <4>5, <5>1, <6>1, <6>2
        <5>2. CASE next # DroppedKey
          <6>1. dropped' = dropped
            BY <3>1, <5>2 DEF RateShape
          <6>2. QED
            BY <3>4, <4>5, <6>1 DEF TopInv, OnceInv
        <5>3. QED
          BY <5>1, <5>2
      <4>9. QED
        BY <3>1, <3>2, <3>4, <4>1, <4>6, <4>7, <4>8 DEF TopInv, OnceInv
    <3>5. QED
      BY <3>3, <3>4
  <2>5. CASE Finish \/ FinishBreakdown
    <3>1. /\ phase' = "done"
          /\ UNCHANGED <<counts, reader, cursor, shown, total, dropped>>
      BY <2>5 DEF Finish, FinishBreakdown, mapVars, rateVars
    <3>2. reader # "top" => lastTotal' = lastTotal
      BY <2>5 DEF Finish, FinishBreakdown, rateVars
    <3>3. Present' = Present
      BY <3>1 DEF Present
    <3>4. QED
      BY <3>1, <3>2, <3>3 DEF TopInv, OnceInv
  <2>6. CASE UNCHANGED <<counts, reader, phase, cursor, next, shown, total, dropped,
                         lastTotal>>
    BY <2>6 DEF TopInv, OnceInv, Present
  <2>7. QED
    BY <2>1, <2>2, <2>3, <2>4, <2>5, <2>6 DEF Next, Edit, vars, mapVars, loopVars, rateVars
<1>3. QED
  BY <1>1, <1>2, ShapeInvariant, PTL DEF Spec

\* The last total is the sum of the counters L as they were read, the present
\* one that of P, as far as the walk has come: P has caught up with L on what
\* is shown, and L has nothing that the walk will not come to.
Sums(L, P) ==
    /\ lastTotal = Sum(L) /\ total = Sum(P)
    /\ \A k \in CounterKeys : /\ L[k] <= counts[k] /\ P[k] <= counts[k]
                              /\ k \notin ToSet(shown) => P[k] = 0
    /\ L[DroppedKey] = 0 /\ P[DroppedKey] = 0
    /\ phase \in {"next", "lookup"} =>
         \A k \in CounterKeys : /\ L[k] > 0 => k \in stable
                                /\ k \in ToSet(shown) => L[k] <= P[k]
RateInv ==
    reader = "top" =>
        /\ \E L, P \in Counters : Sums(L, P)
        /\ \A i \in DOMAIN pushed : pushed[i] >= 0

\* A total is never smaller than the one before.
LEMMA TotalsGrow ==
    ASSUME Shape, WalkInv, reader = "top", phase = "next", LaterKeys = {},
           NEW L \in Counters, NEW P \in Counters, Sums(L, P)
    PROVE  lastTotal <= total
<1>1. \A k \in CounterKeys : L[k] \in Nat /\ P[k] \in Nat
  BY Constants DEF Counters
<1>2. Missing = {}
  BY DEF WalkInv, LaterKeys, Missing
<1>3. \A k \in CounterKeys : L[k] <= P[k]
  BY <1>1, <1>2 DEF Sums, Missing
<1>4. QED
  BY <1>3, SumMonotone DEF Sums

LEMMA RateInvariant == Spec => []RateInv
<1>1. Init => RateInv
  <2> SUFFICES ASSUME Init PROVE RateInv
    OBVIOUS
  <2>1. Sums(NoCounts, NoCounts)
    BY SumZero, Constants DEF Init, Sums, NoCounts
  <2>2. DOMAIN pushed = {}
    BY DEF Init
  <2>3. QED
    BY <2>1, <2>2, SumZero DEF RateInv
<1>2. Shape /\ WalkInv /\ TopInv /\ RateInv /\ [Next]_vars => RateInv'
  <2> SUFFICES ASSUME Shape, WalkInv, TopInv, RateInv, [Next]_vars, reader' = "top"
               PROVE  RateInv'
    BY DEF RateInv
  <2>1. reader = "top"
    BY DEF Next, CountPacket, Edit, Start, NextKey, Lookup, Finish, FinishBreakdown,
       vars, loopVars
  <2>2. PICK L \in Counters : \E P \in Counters : Sums(L, P)
    BY <2>1 DEF RateInv
  <2>3. PICK P \in Counters : Sums(L, P)
    BY <2>2
  <2>4. \A k \in CounterKeys : L[k] \in Nat /\ P[k] \in Nat /\ counts[k] \in Nat
    BY Constants DEF Counters, Shape, WalkShape
  <2>5. CASE CountPacket
    <3>1. UNCHANGED <<phase, shown, stable, total, lastTotal, pushed>>
      BY <2>5 DEF CountPacket, loopVars, rateVars
    <3>2. \A k \in CounterKeys : counts[k] <= counts'[k] /\ counts'[k] \in Nat
      BY <2>5, Counted DEF Shape
    <3>3. \A k \in CounterKeys : L[k] <= counts'[k] /\ P[k] <= counts'[k]
      BY <2>3, <2>4, <3>2 DEF Sums
    <3>4. Sums(L, P)'
      BY <2>3, <3>1, <3>3 DEF Sums
    <3>5. QED
      BY <2>1, <3>1, <3>4 DEF RateInv
  <2>6. CASE Start
    <3>1. /\ phase' = "next" /\ stable' = Live /\ total' = 0 /\ ToSet(shown') = {}
          /\ UNCHANGED <<counts, lastTotal, pushed>>
      BY <2>6 DEF Start, mapVars, ToSet
    <3>2. Live = Present
      BY <2>1 DEF Live
    <3>3. \A k \in CounterKeys : L[k] > 0 => k \in Present
      BY <2>3, <2>4 DEF Sums, Present
    <3>4. \A k \in CounterKeys : NoCounts[k] = 0
      BY DEF NoCounts
    <3>5. \A k \in CounterKeys : NoCounts[k] <= counts[k]
      BY <2>4, <3>4
    <3>6. Sums(L, NoCounts)'
      BY <2>3, <3>1, <3>2, <3>3, <3>4, <3>5, SumZero, Constants DEF Sums
    <3>7. QED
      BY <2>1, <3>1, <3>6, SumZero DEF RateInv
  <2>7. CASE NextKey
    <3>1. /\ phase = "next" /\ phase' = "lookup"
          /\ UNCHANGED <<counts, shown, stable, total, lastTotal, pushed>>
      BY <2>7 DEF NextKey, mapVars, rateVars
    <3>2. Sums(L, P)'
      BY <2>3, <3>1 DEF Sums
    <3>3. QED
      BY <2>1, <3>1, <3>2 DEF RateInv
  <2>8. CASE Lookup
    <3>1. /\ phase = "lookup" /\ phase' = "next"
          /\ shown' = IF next \in Live THEN Append(shown, next) ELSE shown
          /\ total' = total + IF next = DroppedKey THEN 0 ELSE counts[next]
          /\ UNCHANGED <<counts, stable, lastTotal, pushed>>
      BY <2>1, <2>8 DEF Lookup, mapVars
    <3>2. /\ next \in Present /\ next \in CounterKeys /\ Live = Present
          /\ next > cursor /\ cursor \in Nat /\ next \in Nat
      BY <2>1, <3>1 DEF TopInv, OnceInv, Present, Live, Shape, WalkShape
    <3>3. next \notin ToSet(shown)
      BY <2>1, <3>2 DEF TopInv, OnceInv
    <3>4. ToSet(shown') = ToSet(shown) \cup {next}
      BY <3>1, <3>2, ToSetAppend DEF Shape, WalkShape
    <3>5. P[next] = 0
      BY <2>3, <3>2, <3>3 DEF Sums
    <3>6. CASE next = DroppedKey
      <4>1. total' = total
        BY <3>1, <3>6 DEF Shape, RateShape
      <4>2. L[next] = 0
        BY <2>3, <3>6 DEF Sums
      <4>3. Sums(L, P)'
        BY <2>3, <3>1, <3>4, <3>5, <4>1, <4>2 DEF Sums
      <4>4. QED
        BY <2>1, <3>1, <4>3 DEF RateInv
    <3>7. CASE next # DroppedKey
      <4>0. PICK Q : Q = [P EXCEPT ![next] = counts[next]]
        OBVIOUS
      <4>1. counts[next] \in 0..MaxCount
        BY <3>2 DEF Shape, WalkShape
      <4>2. Q \in Counters /\ Sum(Q) = Sum(P) + counts[next]
        BY <3>2, <3>5, <4>0, <4>1, SumAdd
      <4>3. /\ Q[next] = counts[next]
            /\ \A k \in CounterKeys : k # next => Q[k] = P[k]
        BY <3>2, <4>0 DEF Counters
      <4>4. total' = Sum(Q)
        BY <2>3, <3>1, <3>7, <4>2 DEF Sums
      <4>5. ASSUME NEW k \in CounterKeys
            PROVE  /\ L[k] <= counts[k] /\ Q[k] <= counts[k]
                   /\ k \notin ToSet(shown') => Q[k] = 0
                   /\ L[k] > 0 => k \in stable
                   /\ k \in ToSet(shown') => L[k] <= Q[k]
        <5>1. CASE k = next
          BY <2>3, <2>4, <3>1, <3>4, <4>3, <5>1 DEF Sums
        <5>2. CASE k # next
          BY <2>3, <3>1, <3>4, <4>3, <5>2 DEF Sums
        <5>3. QED
          BY <5>1, <5>2
      <4>6. L[DroppedKey] = 0 /\ Q[DroppedKey] = 0
        BY <2>3, <3>7, <4>3, Constants DEF Sums
      <4>7. Sums(L, Q)'
        BY <2>3, <3>1, <4>4, <4>5, <4>6 DEF Sums
      <4>8. QED
        BY <2>1, <3>1, <4>2, <4>7 DEF RateInv
    <3>8. QED
      BY <3>6, <3>7
  <2>9. CASE FinishBreakdown
    <3>1. /\ phase = "next" /\ LaterKeys = {} /\ phase' = "done" /\ lastTotal' = total
          /\ UNCHANGED <<counts, shown, stable, total>>
      BY <2>9 DEF FinishBreakdown, RememberedTotal, mapVars
    <3>2. Sums(P, P)'
      BY <2>3, <3>1 DEF Sums
    <3>3. lastTotal <= total
      BY <2>1, <2>3, <3>1, TotalsGrow
    <3>4. \A i \in DOMAIN pushed' : pushed'[i] >= 0
      <4>1. total \in Nat /\ lastTotal \in Nat /\ pushed \in Seq(Int)
        BY DEF Shape, RateShape
      <4>2. pushed' \in {pushed, Append(pushed, (total - lastTotal) * 2)}
        BY <2>9 DEF FinishBreakdown
      <4>3. \A i \in DOMAIN pushed : pushed[i] >= 0
        BY <2>1 DEF RateInv
      <4>4. PICK pps : pps = (total - lastTotal) * 2
        OBVIOUS
      <4>5. pps \in Int /\ pps >= 0
        BY <3>3, <4>1, <4>4
      <4>6. CASE pushed' = pushed
        BY <4>3, <4>6
      <4>7. CASE pushed' = Append(pushed, pps)
        <5>1. \A i \in DOMAIN pushed' : i \in DOMAIN pushed \/ i = Len(pushed) + 1
          BY <4>1, <4>7
        <5>2. /\ pushed'[Len(pushed) + 1] = pps
              /\ \A i \in DOMAIN pushed : pushed'[i] = pushed[i]
          BY <4>1, <4>7
        <5>3. QED
          BY <4>3, <4>5, <5>1, <5>2
      <4>8. QED
        BY <4>2, <4>4, <4>6, <4>7
    <3>5. QED
      BY <2>1, <3>2, <3>4 DEF RateInv
  <2>10. CASE UNCHANGED <<phase, counts, shown, stable, total, lastTotal, pushed>>
    <3>1. Sums(L, P)'
      BY <2>3, <2>10 DEF Sums
    <3>2. QED
      BY <2>1, <2>10, <3>1 DEF RateInv
  <2>11. ~Edit /\ ~Finish
    BY <2>1 DEF Edit, Finish
  <2>12. QED
    BY <2>5, <2>6, <2>7, <2>8, <2>9, <2>10, <2>11 DEF Next, vars, mapVars, loopVars,
       rateVars
<1>3. QED
  BY <1>1, <1>2, ShapeInvariant, WalkInvariant, TopInvariant, PTL DEF Spec

\* top's breakdown reads no counter twice, and a total is never smaller than
\* the one before, so the unsigned subtraction of the rate does not wrap.
THEOREM RatesDoNotWrap == Spec => []RateNeverWraps
<1>1. TopInv /\ RateInv => RateNeverWraps
  BY DEF TopInv, OnceInv, RateInv, RateNeverWraps
<1>2. QED
  BY <1>1, TopInvariant, RateInvariant, PTL

\* Type correctness of the readers; in particular the breakdown fits: it is
\* no more than every counter at its maximum.
THEOREM TypeCorrect == Spec => []TypeOK
<1>1. Shape /\ TopInv /\ RateInv => TypeOK
  <2> SUFFICES ASSUME Shape, TopInv, RateInv PROVE TypeOK
    OBVIOUS
  <2>1. 0 \in 0..MaxTotal /\ 0 \in 0..MaxCount
    BY SumZero, SumBound, Constants
  <2>2. total \in 0..MaxTotal /\ lastTotal \in 0..MaxTotal
    <3>1. CASE reader = "top"
      BY <3>1, SumBound DEF RateInv, Sums
    <3>2. CASE reader # "top"
      BY <2>1, <3>2 DEF TopInv
    <3>3. QED
      BY <3>1, <3>2
  <2>3. dropped \in 0..MaxCount
    <3>1. CASE reader = "top"
      <4>1. /\ dropped \in Nat /\ dropped <= counts[DroppedKey]
            /\ counts[DroppedKey] \in 0..MaxCount /\ MaxCount \in Nat
        BY <3>1, Constants DEF TopInv, OnceInv, Shape, WalkShape, RateShape
      <4>2. QED
        BY <4>1
    <3>2. CASE reader # "top"
      BY <2>1, <3>2 DEF TopInv
    <3>3. QED
      BY <3>1, <3>2
  <2>4. ToSet(shown) \cup stable \subseteq Nat
    <3>1. shown \in Seq(Nat) /\ stable \subseteq Nat
      BY DEF Shape, WalkShape
    <3>2. \A i \in DOMAIN shown : shown[i] \in Nat
      BY <3>1
    <3>3. QED
      BY <3>1, <3>2 DEF ToSet
  <2>5. QED
    BY <2>2, <2>3, <2>4 DEF TypeOK, Shape, WalkShape, RateShape
<1>2. QED
  BY <1>1, ShapeInvariant, TopInvariant, RateInvariant, PTL

=============================================================================
