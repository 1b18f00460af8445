----------------------- MODULE OwnershipSerial_proofs -----------------------
(***************************************************************************)
(* What one claim at a time buys: if no Skeleton::pin and no cmd_detach    *)
(* overlaps another, then in every instance, whatever crashes, a streaming *)
(* run stays the recorded owner with all its maps pinned, and nobody       *)
(* else's clean-up takes a live run's state.                               *)
(***************************************************************************)
EXTENDS Ownership_proofs

\* Facts about the constants.
LEMMA Facts ==
    /\ \A r \in Runs : r # NoOne /\ r # Empty
    /\ NoOne # Empty
    /\ \A r \in Runs : r \notin Detachers
    /\ NMaps \in Nat /\ NMaps >= 1
    /\ \A m : m \in Maps <=> m \in Int /\ 1 <= m /\ m <= NMaps
BY NamesAssumption, ProcsAssumption, NMapsAssumption DEF Maps

\* A run that a signal ends drops out of every clause: nothing on the file
\* system moves, and what it held is left to the next claimant.
LEMMA DieSerial ==
    ASSUME TypeOK, SerialInv,
           NEW r \in Runs, Alive(r),
           NEW code \in {"sigterm", "killed"}, Die(r, code),
           \A e \in Detachers :
              dpc'[e] = dpc[e] \/ (dpc[e] = "stop" /\ dpc'[e] = "waitTerm"),
           UNCHANGED <<pins, ownerFile, target>>
    PROVE  SerialInv'
<1> USE DEF SerialInv, OneClaim, HoldersOwn, HoldersSeen, PinProgress, NoTrace,
            PinLabels, Holding, Taking, Traceless, UnpinLabels, CleanLabels
<1>1. \A q \in Runs : rpc'[q] = IF q = r THEN "dead" ELSE rpc[q]
  BY DEF Die, Goto, TypeOK
<1>2. OneClaim' /\ HoldersSeen'
  <2>1. \A q \in Runs : q # r => seen'[q] = seen[q]
    BY DEF Die, TypeOK
  <2>2. QED
    BY <1>1, <2>1
<1>3. HoldersOwn' /\ PinProgress'
  <2>1. \A q \in Runs : idx'[q] = IF q = r THEN 1 ELSE idx[q]
    BY DEF Die, TypeOK
  <2>2. \A q \in Runs : q # r => ownerFd'[q] = ownerFd[q]
    BY DEF Die, TypeOK
  <2>3. QED
    BY <1>1, <2>1, <2>2
<1>4. NoTrace'
  <2>1. \A q \in Runs : rc'[q] = IF q = r THEN code ELSE rc[q]
    BY TypeFacts DEF Die, TypeOK
  <2>2. QED
    BY <1>1, <2>1
<1>5. QED
  BY <1>2, <1>3, <1>4

\* SIGTERM, from an operator or from cmd_detach, ends the run or stays pending.
LEMMA TermSerial ==
    ASSUME TypeOK, SerialInv,
           NEW r \in Runs, Alive(r), DeliverTerm(r),
           \A e \in Detachers :
              dpc'[e] = dpc[e] \/ (dpc[e] = "stop" /\ dpc'[e] = "waitTerm"),
           UNCHANGED <<pins, ownerFile, target>>
    PROVE  SerialInv'
<1> USE DEF SerialInv, OneClaim, HoldersOwn, HoldersSeen, PinProgress, NoTrace,
            PinLabels, Holding, Taking, Traceless, UnpinLabels, CleanLabels
<1>1. CASE masked[r]
  <2>1. UNCHANGED <<ownerFd, rpc, idx, seen, rc>>
    BY <1>1 DEF DeliverTerm
  <2>2. QED
    BY <2>1
<1>2. CASE ~masked[r]
  BY SMTT(30), <1>2, DieSerial DEF DeliverTerm
<1>3. QED
  BY <1>1, <1>2

\* Every step of cmd_run preserves the invariant.
LEMMA RunStepSerial ==
    ASSUME Serial, TypeOK, SerialInv, NEW r \in Runs, RunStep(r)
    PROVE  SerialInv'
<1> USE DEF SerialInv, OneClaim, HoldersOwn, HoldersSeen, PinProgress, NoTrace,
            PinLabels, Holding, Taking, Traceless, UnpinLabels, CleanLabels
<1>1. CASE RunStart(r)
  BY <1>1, Facts DEF RunStart, Goto, NoClaimInProgress, fsVars, detachVars,
     TypeOK
<1>2. CASE RunStartFails(r)
  BY <1>2, Facts DEF RunStartFails, Die, detachVars, Goto, TypeOK
<1>3. CASE MakePinDir(r)
  BY <1>3, Facts DEF MakePinDir, At, Goto, detachVars, TypeOK
<1>4. CASE MakePinDirFails(r)
  BY <1>4, Facts DEF MakePinDirFails, At, Die, detachVars, Goto, TypeOK
<1>5. CASE ReadOwner(r)
  BY <1>5, Facts DEF ReadOwner, At, Goto, OwnerState, fsVars, detachVars,
     TypeOK
<1>6. CASE CheckOwner(r)
  BY <1>6, Facts DEF CheckOwner, At, Goto, Alive, fsVars, detachVars, TypeOK
<1>7. CASE CheckDir(r)
  BY <1>7, Facts DEF CheckDir, At, Goto, DirectoryIsEmpty, fsVars,
     detachVars, TypeOK
<1>8. CASE UnpinMap(r)
  <2>1. /\ sig[r] # "kill" /\ rpc[r] \in UnpinLabels /\ idx[r] \in Maps
        /\ pins' = [pins EXCEPT ![idx[r]] = NoOne]
        /\ UNCHANGED <<ownerFile, ownerFd, seen, dpc, target, rc>>
    BY <1>8 DEF UnpinMap, detachVars, TypeOK
  <2> idx[r] \in Int /\ 1 <= idx[r] /\ idx[r] <= NMaps /\ NMaps \in Int
    BY <2>1, Facts
  <2> \A m \in Maps : m \in Int /\ 1 <= m /\ m <= NMaps
    BY Facts
  <2>2. CASE pins[idx[r]] # NoOne /\ idx[r] < NMaps
    <3>1. idx' = [idx EXCEPT ![r] = @ + 1] /\ rpc' = rpc
      BY <1>8, <2>2 DEF UnpinMap
    <3>2. OneClaim' /\ HoldersSeen'
      BY <2>1, <3>1
    <3>3. HoldersOwn'
      BY SMTT(30), <2>1, <2>2, <3>1, Facts DEF TypeOK
    <3>4. PinProgress'
      <4>1. \A q \in Runs : q # r => idx'[q] = idx[q]
        BY <3>1 DEF TypeOK
      <4>2. idx'[r] = idx[r] + 1
        BY <3>1 DEF TypeOK
      <4>3. \A m \in Maps :
              pins'[m] = IF m = idx[r] THEN NoOne ELSE pins[m]
        BY <2>1 DEF TypeOK
      <4>4. \A q \in Runs : rpc[q] \in PinLabels => rpc[r] = "unpin" \/ q = r
        BY <2>1
      <4>5. QED
        BY <2>1, <3>1, <4>1, <4>2, <4>3, <4>4, NamesAssumption
    <3>5. NoTrace'
      BY <2>1, <3>1, Facts DEF TypeOK
    <3>6. QED
      BY <3>2, <3>3, <3>4, <3>5
  <2>3. CASE ~(pins[idx[r]] # NoOne /\ idx[r] < NMaps)
    <3>1. idx' = [idx EXCEPT ![r] = 1]
      BY <1>8, <2>3 DEF UnpinMap
    <3>2. rpc' = [rpc EXCEPT ![r] = AfterUnpin(rpc[r])]
      BY <1>8, <2>3 DEF UnpinMap, Goto
    <3>3. CASE rpc[r] \in {"reclaimStale", "reclaimUnowned"}
      <4>1. rpc'[r] \in {"dropOwner", "pin"}
        BY <3>2, <3>3 DEF AfterUnpin, TypeOK
      <4>2. \A q \in Runs : q # r => rpc'[q] = rpc[q]
        BY <3>2 DEF TypeOK
      <4>3. OneClaim' /\ HoldersOwn' /\ HoldersSeen'
        BY SMTT(30), <2>1, <3>1, <3>3, <4>1, <4>2, Facts DEF TypeOK
      <4>4. PinProgress' /\ NoTrace'
        BY <2>1, <3>1, <3>3, <4>1, <4>2, Facts DEF TypeOK
      <4>5. QED
        BY <4>3, <4>4
    <3>4. CASE rpc[r] = "undoPin"
      <4>1. rpc'[r] = "giveUp"
        BY <3>2, <3>4 DEF AfterUnpin, TypeOK
      <4>2. \A q \in Runs : q # r => rpc'[q] = rpc[q]
        BY <3>2 DEF TypeOK
      <4>3. idx[r] = NMaps
        <5>1. pins[idx[r]] = r
          BY <2>1, <3>4
        <5>2. QED
          BY <2>3, <5>1, Facts
      <4>4. OneClaim' /\ HoldersOwn' /\ HoldersSeen'
        BY <2>1, <3>1, <3>4, <4>1, <4>2, Facts DEF TypeOK
      <4>5. PinProgress' /\ NoTrace'
        BY <2>1, <3>1, <3>4, <4>1, <4>2, <4>3, Facts DEF TypeOK
      <4>6. QED
        BY <4>4, <4>5
    <3>5. CASE rpc[r] = "unpin"
      <4>1. rpc'[r] = "unlinkOwner"
        BY <3>2, <3>5 DEF AfterUnpin, TypeOK
      <4>2. \A q \in Runs : q # r => rpc'[q] = rpc[q]
        BY <3>2 DEF TypeOK
      <4>3. idx[r] = NMaps
        <5>1. pins[idx[r]] = r
          BY <2>1, <3>5
        <5>2. QED
          BY <2>3, <5>1, Facts
      <4>4. OneClaim' /\ HoldersOwn' /\ HoldersSeen'
        BY SMTT(30), <2>1, <3>1, <3>5, <4>1, <4>2, <4>3, Facts DEF TypeOK
      <4>5. PinProgress' /\ NoTrace'
        BY <2>1, <3>1, <3>5, <4>1, <4>2, <4>3, Facts DEF TypeOK
      <4>6. QED
        BY <4>4, <4>5
    <3>6. QED
      BY <2>1, <3>3, <3>4, <3>5
  <2>4. QED
    BY <2>2, <2>3
<1>9. CASE DropStaleOwner(r)
  <2>1. /\ rpc[r] = "dropOwner" /\ rpc' = [rpc EXCEPT ![r] = "pin"]
        /\ ownerFile' = NoOne /\ ownerFd' = [q \in Runs |-> FALSE]
        /\ UNCHANGED <<pins, idx, seen, dpc, target, rc>>
    BY <1>9 DEF DropStaleOwner, At, Goto, UnlinkOwnerFile, detachVars
  <2>2. \A q \in Runs : rpc'[q] = IF q = r THEN "pin" ELSE rpc[q]
    BY <2>1 DEF TypeOK
  <2>3. \A q \in Runs : rpc[q] \notin Holding /\ rpc'[q] \notin Holding
    BY <2>1, <2>2
  <2>4. OneClaim' /\ HoldersOwn' /\ HoldersSeen'
    BY <2>1, <2>2, <2>3
  <2>5. PinProgress'
    BY <2>1, <2>2, Facts DEF TypeOK
  <2>6. NoTrace'
    BY <2>1, <2>2, Facts
  <2>7. QED
    BY <2>4, <2>5, <2>6
<1>10. CASE PinMap(r)
  <2>1. /\ rpc[r] = "pin" /\ idx[r] \in Maps
        /\ pins' = [pins EXCEPT ![idx[r]] = r]
        /\ UNCHANGED <<ownerFile, ownerFd, seen, dpc, target, rc>>
    BY <1>10 DEF PinMap, At, detachVars, TypeOK
  <2>2. \A m \in Maps : pins'[m] = IF m = idx[r] THEN r ELSE pins[m]
    BY <2>1 DEF TypeOK
  <2>3. idx[r] \in Int /\ 1 <= idx[r] /\ idx[r] <= NMaps /\ NMaps \in Int
    BY <2>1, Facts
  <2>4. \A m \in Maps : m \in Int /\ 1 <= m /\ m <= NMaps
    BY Facts
  <2>5. \A q \in Runs : q # r =>
          rpc[q] \notin PinLabels /\ rpc[q] \notin Holding
    BY <2>1
  <2>6. CASE idx[r] < NMaps
    <3>1. rpc' = rpc /\ idx' = [idx EXCEPT ![r] = @ + 1]
      BY <1>10, <2>6 DEF PinMap, At, Goto, NextMap, TypeOK
    <3>2. OneClaim' /\ HoldersSeen' /\ HoldersOwn' /\ NoTrace'
      BY <2>1, <2>2, <2>5, <3>1
    <3>3. PinProgress'
      <4>1. idx'[r] = idx[r] + 1 /\ \A q \in Runs : q # r => idx'[q] = idx[q]
        BY <3>1 DEF TypeOK
      <4>2. QED
        BY <2>1, <2>2, <2>3, <2>4, <2>5, <3>1, <4>1
    <3>4. QED
      BY <3>2, <3>3
  <2>7. CASE ~(idx[r] < NMaps)
    <3>1. rpc' = [rpc EXCEPT ![r] = "ownerDir"] /\ idx' = [idx EXCEPT ![r] = 1]
      BY <1>10, <2>7 DEF PinMap, Goto, NextMap
    <3>2. \A q \in Runs : /\ rpc'[q] = IF q = r THEN "ownerDir" ELSE rpc[q]
                          /\ idx'[q] = IF q = r THEN 1 ELSE idx[q]
      BY <3>1 DEF TypeOK
    <3>3. OneClaim' /\ HoldersSeen' /\ HoldersOwn' /\ NoTrace'
      BY <2>1, <2>2, <2>5, <3>2
    <3>4. PinProgress'
      <4>1. \A m \in Maps : pins'[m] = r
        BY <2>1, <2>2, <2>3, <2>4, <2>7
      <4>2. QED
        BY <2>1, <2>2, <2>5, <3>2, <4>1
    <3>5. QED
      BY <3>3, <3>4
  <2>8. QED
    BY <2>6, <2>7
<1>11. CASE PinMapFails(r)
  <2>1. OneClaim'
    BY <1>11, Facts DEF PinMapFails, At, Goto, fsVars, detachVars, TypeOK
  <2>2. HoldersOwn'
    BY <1>11, Facts DEF PinMapFails, At, Goto, fsVars, detachVars, TypeOK
  <2>3. HoldersSeen'
    BY <1>11, Facts DEF PinMapFails, At, Goto, fsVars, detachVars, TypeOK
  <2>4. PinProgress'
    BY <1>11, Facts DEF PinMapFails, At, Goto, fsVars, detachVars, TypeOK
  <2>5. NoTrace'
    BY <1>11, Facts DEF PinMapFails, At, Goto, fsVars, detachVars, TypeOK
  <2>6. QED
    BY <2>1, <2>2, <2>3, <2>4, <2>5
<1>12. CASE RollbackPin(r)
  <2>1. CASE idx[r] > 1
    <3>1. /\ pins' = [pins EXCEPT ![idx[r] - 1] = NoOne]
          /\ idx' = [idx EXCEPT ![r] = @ - 1]
          /\ rpc' = rpc /\ rpc[r] = "rollback"
          /\ UNCHANGED <<ownerFile, ownerFd, seen, dpc, target, rc>>
      BY <1>12, <2>1 DEF RollbackPin, At, detachVars
    <3>2. OneClaim' /\ HoldersSeen' /\ HoldersOwn' /\ NoTrace'
      BY <3>1, Facts DEF TypeOK
    <3>3. PinProgress'
      <4>1. idx[r] \in Int /\ \A m \in Maps : m \in Int
        BY Facts DEF TypeOK
      <4>2. idx'[r] = idx[r] - 1 /\ \A q \in Runs : q # r => idx'[q] = idx[q]
        BY <3>1 DEF TypeOK
      <4>3. \A m \in Maps :
              pins'[m] = IF m = idx[r] - 1 THEN NoOne ELSE pins[m]
        BY <3>1 DEF TypeOK
      <4>4. QED
        BY <3>1, <4>1, <4>2, <4>3, Facts
    <3>4. QED
      BY <3>2, <3>3
  <2>2. CASE ~(idx[r] > 1)
    <3>1. /\ rpc' = [rpc EXCEPT ![r] = "giveUp"] /\ rpc[r] = "rollback"
          /\ UNCHANGED <<pins, idx, ownerFile, ownerFd, seen, dpc, target, rc>>
      BY <1>12, <2>2 DEF RollbackPin, At, Goto, detachVars
    <3>2. idx[r] = 1
      BY <2>2, Facts DEF TypeOK
    <3>3. QED
      BY <3>1, <3>2, Facts DEF TypeOK
  <2>3. QED
    BY <2>1, <2>2
<1>13. CASE GiveUp(r)
  BY <1>13, Facts DEF GiveUp, At, Die, DirectoryIsEmpty, detachVars, Goto,
     TypeOK
<1>14. CASE EnsureOwnerDir(r)
  BY <1>14, Facts DEF EnsureOwnerDir, At, Goto, detachVars, TypeOK
<1>15. CASE OpenOwnerFile(r)
  BY <1>15, Facts DEF OpenOwnerFile, At, Goto, detachVars, TypeOK
<1>16. CASE WriteOwnerFile(r)
  <2>1. OneClaim'
    BY <1>16, Facts DEF WriteOwnerFile, At, Goto, detachVars, TypeOK
  <2>2. HoldersOwn'
    BY <1>16, Facts DEF WriteOwnerFile, At, Goto, detachVars, TypeOK
  <2>3. HoldersSeen'
    BY <1>16, Facts DEF WriteOwnerFile, At, Goto, detachVars, TypeOK
  <2>4. PinProgress'
    BY <1>16, Facts DEF WriteOwnerFile, At, Goto, detachVars, TypeOK
  <2>5. NoTrace'
    BY <1>16, Facts DEF WriteOwnerFile, At, Goto, detachVars, TypeOK
  <2>6. QED
    BY <2>1, <2>2, <2>3, <2>4, <2>5
<1>17. CASE OwnerPathFails(r)
  BY <1>17, Facts DEF OwnerPathFails, At, Goto, fsVars, detachVars, TypeOK
<1>18. CASE WriteOwnerFails(r)
  BY <1>18, Facts DEF WriteOwnerFails, At, Goto, UnlinkOwnerFile, detachVars,
     TypeOK
<1>19. CASE Attach(r)
  BY <1>19, Facts DEF Attach, At, Goto, fsVars, detachVars, TypeOK
<1>20. CASE AttachFails(r)
  BY <1>20, Facts DEF AttachFails, At, Goto, fsVars, detachVars, TypeOK
<1>21. CASE SigInit(r)
  BY <1>21, Facts DEF SigInit, At, Goto, fsVars, detachVars, TypeOK
<1>22. CASE EnterLoop(r)
  BY <1>22, Facts DEF EnterLoop, At, Goto, fsVars, detachVars, TypeOK
<1>23. CASE InitFails(r)
  BY <1>23, Facts DEF InitFails, At, Goto, fsVars, detachVars, TypeOK
<1>24. CASE LoopTerm(r)
  BY <1>24, Facts DEF LoopTerm, At, Goto, fsVars, detachVars, TypeOK
<1>25. CASE LoopBreak(r)
  BY <1>25, Facts DEF LoopBreak, At, Goto, fsVars, detachVars, TypeOK
<1>26. CASE UnpinOwnerFile(r)
  BY <1>26, Facts DEF UnpinOwnerFile, At, Goto, UnlinkOwnerFile, detachVars,
     TypeOK
<1>27. CASE UnpinOwnerDir(r)
  BY <1>27, Facts DEF UnpinOwnerDir, At, Goto, detachVars, TypeOK
<1>28. CASE UnpinDir(r)
  BY <1>28, Facts DEF UnpinDir, At, Goto, detachVars, TypeOK
<1>29. CASE CloseLink(r)
  BY SMTT(30), <1>29, Facts DEF CloseLink, At, Die, detachVars, Goto, TypeOK
<1>30. QED
  BY ZenonT(30), <1>1, <1>2, <1>3, <1>4, <1>5, <1>6, <1>7, <1>8, <1>9, <1>10,
     <1>11, <1>12, <1>13, <1>14, <1>15, <1>16, <1>17, <1>18, <1>19, <1>20,
     <1>21, <1>22, <1>23, <1>24, <1>25, <1>26, <1>27, <1>28, <1>29 DEF RunStep

\* Every step of cmd_detach preserves the invariant.
LEMMA DetachStepSerial ==
    ASSUME Serial, TypeOK, SerialInv, NEW d \in Detachers, DetachStep(d)
    PROVE  SerialInv'
<1> USE DEF SerialInv, OneClaim, HoldersOwn, HoldersSeen, PinProgress, NoTrace,
            PinLabels, Holding, Taking, Traceless, UnpinLabels, CleanLabels
<1>1. CASE DetachStart(d)
  BY <1>1, Facts DEF DetachStart, DGoto, NoClaimInProgress, fsVars, runVars,
     TypeOK
<1>2. CASE DetachReadOwner(d)
  BY <1>2, Facts DEF DetachReadOwner, DGoto, OwnerState, fsVars, runVars,
     TypeOK
<1>3. CASE StopOwner(d)
  <2>1. CASE Alive(target[d])
    <3>1. DeliverTerm(target[d]) /\ target[d] \in Runs
      BY <1>3, <2>1 DEF StopOwner, Alive
    <3>2. \A e \in Detachers :
            dpc'[e] = dpc[e] \/ (dpc[e] = "stop" /\ dpc'[e] = "waitTerm")
      BY <1>3, <2>1 DEF StopOwner, DGoto, TypeOK
    <3>3. UNCHANGED <<pins, ownerFile, target>>
      BY <1>3 DEF StopOwner
    <3>4. QED
      BY <2>1, <3>1, <3>2, <3>3, TermSerial
  <2>2. CASE ~Alive(target[d])
    BY SMTT(30), <1>3, <2>2, Facts DEF StopOwner, DGoto, runVars, TypeOK
  <2>3. QED
    BY <2>1, <2>2
<1>4. CASE StopOwnerFails(d)
  BY <1>4, Facts DEF StopOwnerFails, DExit, Alive, fsVars, runVars, DGoto,
     TypeOK
<1>5. CASE OwnerExited(d)
  BY <1>5, Facts DEF OwnerExited, DGoto, Alive, fsVars, runVars, TypeOK
<1>6. CASE KillOwner(d)
  BY <1>6, Facts DEF KillOwner, DGoto, Alive, fsVars, TypeOK
<1>7. CASE OwnerStillAlive(d)
  BY <1>7, Facts DEF OwnerStillAlive, DExit, Alive, fsVars, runVars, DGoto,
     TypeOK
<1>8. CASE RereadOwner(d)
  BY <1>8, Facts DEF RereadOwner, DGoto, OwnerState, fsVars, runVars, TypeOK
<1>9. CASE RecheckOwner(d)
  <2>1. /\ dpc[d] = "recheck"
        /\ \A e \in Detachers : e # d => dpc'[e] = dpc[e]
        /\ dpc'[d] = IF Alive(target[d]) THEN "done" ELSE "cleanOwner"
        /\ target' = [target EXCEPT ![d] = NoOne]
        /\ UNCHANGED <<pins, ownerFile, ownerFd, rpc, idx, seen>>
    BY <1>9 DEF RecheckOwner, DGoto, DExit, fsVars, runVars, TypeOK
  <2>2. \A q \in Runs : rc'[q] = rc[q]
    BY <1>9, Facts, TypeFacts DEF RecheckOwner, DExit, TypeOK
  <2>3. OneClaim' /\ HoldersOwn' /\ PinProgress' /\ NoTrace'
    BY <2>1, <2>2
  <2>4. HoldersSeen'
    BY <2>1 DEF Alive, TypeOK
  <2>5. QED
    BY <2>3, <2>4
<1>10. CASE CleanOwnerFile(d)
  BY SMTT(30), <1>10, Facts DEF CleanOwnerFile, DGoto, UnlinkOwnerFile, runVars, TypeOK
<1>11. CASE CleanOwnerDir(d)
  BY <1>11, Facts DEF CleanOwnerDir, DGoto, runVars, TypeOK
<1>12. CASE CleanPin(d)
  BY SMTT(30), <1>12, Facts DEF CleanPin, runVars, TypeOK
<1>13. CASE CleanPinDir(d)
  BY <1>13, Facts DEF CleanPinDir, DGoto, runVars, TypeOK
<1>14. CASE CleanFails(d)
  BY <1>14, Facts DEF CleanFails, DExit, fsVars, runVars, DGoto, TypeOK
<1>15. CASE DetachXdp(d)
  BY <1>15, Facts DEF DetachXdp, DExit, fsVars, runVars, DGoto, TypeOK
<1>16. CASE DetachRefused(d)
  BY <1>16, Facts DEF DetachRefused, DExit, fsVars, runVars, DGoto, TypeOK
<1>17. QED
  BY <1>1, <1>2, <1>3, <1>4, <1>5, <1>6, <1>7, <1>8, <1>9, <1>10,
     <1>11, <1>12, <1>13, <1>14, <1>15, <1>16 DEF DetachStep

\* The invariant itself.
THEOREM SerialInvariant == ASSUME Serial PROVE Spec => []SerialInv
<1>1. Init => SerialInv
  BY Facts DEF Init, SerialInv, OneClaim, HoldersOwn, HoldersSeen, PinProgress,
     NoTrace, PinLabels, Holding, Taking, Traceless, UnpinLabels, CleanLabels
<1>2. TypeOK /\ SerialInv /\ [Next]_vars => SerialInv'
  <2> SUFFICES ASSUME TypeOK, SerialInv, [Next]_vars PROVE SerialInv'
    OBVIOUS
  <2>1. ASSUME NEW r \in Runs, RunStep(r) PROVE SerialInv'
    BY <2>1, RunStepSerial
  <2>2. ASSUME NEW r \in Runs, Terminate(r) PROVE SerialInv'
    BY <2>2, TermSerial DEF Terminate, detachVars
  <2>3. ASSUME NEW r \in Runs, Crash(r) PROVE SerialInv'
    BY <2>3, DieSerial DEF Crash, detachVars
  <2>4. ASSUME NEW d \in Detachers, DetachStep(d) PROVE SerialInv'
    BY <2>4, DetachStepSerial
  <2>5. ASSUME NEW c \in Clients, ClientStep(c) PROVE SerialInv'
    <3>1. /\ UNCHANGED <<pins, ownerFile, ownerFd, rpc, idx, seen, dpc, target>>
          /\ \A r \in Runs : rc'[r] = rc[r]
      BY <2>5, ProcsAssumption, TypeFacts DEF ClientStep, ClientReadOwner,
         ClientCheckOwner, ClientOpenMap, ClientUseMap, CExit, fsVars,
         runVars, detachVars, TypeOK
    <3>2. QED
      BY <3>1 DEF SerialInv, OneClaim, HoldersOwn, HoldersSeen, PinProgress,
         NoTrace
  <2>6. CASE UNCHANGED vars
    BY <2>6 DEF vars, fsVars, runVars, detachVars, SerialInv, OneClaim,
       HoldersOwn, HoldersSeen, PinProgress, NoTrace
  <2>7. QED
    BY <2>1, <2>2, <2>3, <2>4, <2>5, <2>6 DEF Next
<1>3. QED
  BY <1>1, <1>2, TypeCorrect, PTL DEF Spec

\* A streaming run is reachable through the pins and recorded as their owner.
THEOREM ReachableWhenSerial == ASSUME Serial PROVE Spec => []RunningReachable
<1>1. SerialInv => RunningReachable
  BY DEF SerialInv, HoldersOwn, Holding, RunningReachable
<1>2. QED
  BY <1>1, SerialInvariant, PTL

\* A run that returns from cmd_run leaves nothing of its own behind.
THEOREM CleanExitWhenSerial == ASSUME Serial PROVE Spec => []CleanExit
<1>1. SerialInv => CleanExit
  BY DEF SerialInv, NoTrace, CleanExit
<1>2. QED
  BY <1>1, SerialInvariant, PTL

\* What LiveStateRespected asks of a step, for one run.
Respects(r) ==
    Alive(r) =>
        /\ (\E m \in Maps : pins[m] = r /\ pins'[m] # r)
             => rpc[r] \in {"rollback", "undoPin", "unpin"}
        /\ ownerFile = r /\ ownerFile' # r => rpc[r] = "unlinkOwner"

\* Where a live run can be that has something on the file system.
LEMMA LiveTraces ==
    ASSUME TypeOK, SerialInv, NEW r \in Runs, Alive(r),
           ownerFile = r \/ \E m \in Maps : pins[m] = r
    PROVE  \/ rpc[r] \in {"pin", "rollback", "ownerDir", "openOwner",
                          "writeOwner", "undoPin"} /\ ownerFile # r
           \/ rpc[r] \in Holding
BY DEF TypeOK, RunLabels, PinLabels, ExitLabels, Alive, SerialInv, NoTrace,
   PinProgress, Traceless, Holding

\* A step of cmd_run takes only the stepping run's own state, or a dead one's.
LEMMA RunStepRespects ==
    ASSUME TypeOK, SerialInv, NEW q \in Runs, RunStep(q), NEW r \in Runs
    PROVE  Respects(r)
<1> USE DEF Respects, Alive, SerialInv, OneClaim, HoldersOwn, HoldersSeen,
            PinProgress, NoTrace, PinLabels, Holding, Taking, Traceless,
            UnpinLabels
<1>1. CASE UNCHANGED <<pins, ownerFile>>
  BY <1>1
<1>2. CASE UnpinMap(q)
  <2>1. /\ rpc[q] \in UnpinLabels /\ ownerFile' = ownerFile
        /\ \A m \in Maps : m # idx[q] => pins'[m] = pins[m]
    BY <1>2 DEF UnpinMap, TypeOK
  <2>2. CASE rpc[q] = "unpin"
    <3>1. pins[idx[q]] = q
      BY <2>2, Facts DEF TypeOK
    <3>2. QED
      BY <2>1, <2>2, <3>1
  <2>3. CASE rpc[q] # "unpin"
    <3>1. rpc[q] \in Taking
      BY <2>1, <2>3
    <3>2. QED
      BY <2>1, <2>3, <3>1, LiveTraces
  <2>4. QED
    BY <2>2, <2>3
<1>3. CASE DropStaleOwner(q)
  <2>1. rpc[q] = "dropOwner" /\ pins' = pins
    BY <1>3 DEF DropStaleOwner, At
  <2>2. QED
    BY <2>1, LiveTraces
<1>4. CASE PinMap(q)
  BY <1>4, Facts DEF PinMap, At, TypeOK
<1>5. CASE RollbackPin(q)
  <2>1. /\ rpc[q] = "rollback" /\ ownerFile' = ownerFile
        /\ \A m \in Maps : m # idx[q] - 1 => pins'[m] = pins[m]
    BY <1>5 DEF RollbackPin, At, TypeOK
  <2>2. \A m \in Maps : m = idx[q] - 1 => pins[m] = q
    BY <2>1, Facts DEF TypeOK
  <2>3. QED
    BY <2>1, <2>2
<1>6. CASE OpenOwnerFile(q)
  BY <1>6, Facts DEF OpenOwnerFile, At, TypeOK, RunLabels, ExitLabels
<1>7. CASE WriteOwnerFile(q)
  BY <1>7, Facts DEF WriteOwnerFile, At, TypeOK
<1>8. CASE WriteOwnerFails(q)
  BY <1>8, Facts DEF WriteOwnerFails, At, TypeOK
<1>9. CASE UnpinOwnerFile(q)
  BY <1>9, Facts DEF UnpinOwnerFile, At, TypeOK
<1>10. QED
  BY <1>1, <1>2, <1>3, <1>4, <1>5, <1>6, <1>7, <1>8, <1>9
     DEF RunStep, RunStart, RunStartFails, MakePinDir, MakePinDirFails,
         ReadOwner, CheckOwner, CheckDir, PinMapFails, GiveUp, EnsureOwnerDir,
         OwnerPathFails, Attach, AttachFails, SigInit, EnterLoop, InitFails,
         LoopTerm, LoopBreak, UnpinOwnerDir, UnpinDir, CloseLink, fsVars

\* A step of cmd_detach cleans up only after a run that is gone.
LEMMA DetachStepRespects ==
    ASSUME TypeOK, SerialInv, NEW d \in Detachers, DetachStep(d), NEW r \in Runs
    PROVE  Respects(r)
<1> USE DEF Respects, Alive, SerialInv, OneClaim, HoldersOwn, HoldersSeen,
            NoTrace, PinLabels, Holding, Traceless, CleanLabels
<1>1. CASE UNCHANGED <<pins, ownerFile>>
  BY <1>1
<1>2. CASE CleanOwnerFile(d)
  BY SMTT(30), <1>2, Facts DEF CleanOwnerFile, TypeOK, RunLabels, ExitLabels
<1>3. CASE CleanPin(d)
  BY SMTT(30), <1>3, Facts DEF CleanPin, TypeOK, RunLabels, ExitLabels
<1>4. QED
  BY <1>1, <1>2, <1>3
     DEF DetachStep, DetachStart, DetachReadOwner, StopOwner, StopOwnerFails,
         OwnerExited, KillOwner, OwnerStillAlive, RereadOwner, RecheckOwner,
         CleanOwnerDir, CleanPinDir, CleanFails, DetachXdp, DetachRefused,
         fsVars

\* No clean-up, by a second run or by detach, ever takes a live run's pins or
\* record while claims exclude each other.
THEOREM LiveStateSafe == ASSUME Serial PROVE Spec => LiveStateRespected
<1>1. TypeOK /\ SerialInv /\ [Next]_vars => [\A r \in Runs : Respects(r)]_vars
  <2> SUFFICES ASSUME TypeOK, SerialInv, Next, NEW r \in Runs
               PROVE  Respects(r)
    OBVIOUS
  <2>1. ASSUME NEW q \in Runs, RunStep(q) PROVE Respects(r)
    BY <2>1, RunStepRespects
  <2>2. ASSUME NEW q \in Runs, Terminate(q) \/ Crash(q) PROVE Respects(r)
    BY <2>2 DEF Terminate, Crash, Respects
  <2>3. ASSUME NEW d \in Detachers, DetachStep(d) PROVE Respects(r)
    BY <2>3, DetachStepRespects
  <2>4. ASSUME NEW c \in Clients, ClientStep(c) PROVE Respects(r)
    BY <2>4 DEF ClientStep, ClientReadOwner, ClientCheckOwner, ClientOpenMap,
       ClientUseMap, fsVars, Respects
  <2>5. QED
    BY <2>1, <2>2, <2>3, <2>4 DEF Next
<1>2. QED
  BY <1>1, TypeCorrect, SerialInvariant, PTL
     DEF Spec, LiveStateRespected, Respects

=============================================================================
