-------------------------- MODULE PathOwner_proofs --------------------------
(***************************************************************************)
(* What one claim at a time means to everybody who uses the path by name,  *)
(* in every instance: the system calls of cmd_run and cmd_detach implement *)
(* PathOwner, a detach that reports success has left nothing, and a client *)
(* never opens the map of a run that was dead when it looked.              *)
(***************************************************************************)
EXTENDS OwnershipSerial_proofs

(* The refinement: a run owns the path in the sense of PathOwner exactly   *)
(* at these control points, which only its own steps and its death change. *)

Owns(r) ==
    \/ rpc[r] \in {"attach", "sigInit", "init", "loop"}
    \/ rpc[r] = "unpin" /\ idx[r] = 1

OwnerTold ==
    /\ \A r \in Runs : Reachable = r <=> Owns(r)
    /\ Reachable \in Runs \cup {NoOne}

\* What a command finds at the path is told by the runs' control alone.
LEMMA OwnerByControl == TypeOK /\ SerialInv => OwnerTold
<1> SUFFICES ASSUME TypeOK, SerialInv PROVE OwnerTold
  OBVIOUS
<1> USE DEF SerialInv, HoldersOwn, Holding
<1>1. ASSUME NEW r \in Runs, Owns(r) PROVE Reachable = r
  <2>1. ownerFile = r /\ Alive(r)
    BY <1>1 DEF Owns, Alive
  <2>2. \A m \in Maps : pins[m] = r
    BY <1>1, Facts DEF Owns
  <2>3. QED
    BY <2>1, <2>2 DEF Reachable
<1>2. ASSUME NEW r \in Runs, Reachable = r PROVE Owns(r)
  <2>1. ownerFile = r /\ Alive(r) /\ pins[1] = r
    BY <1>2, Facts DEF Reachable
  <2>2. rpc[r] \in Holding
    BY <2>1, LiveTraces
  <2>3. idx[r] \in Int /\ idx[r] >= 1 /\ 1 \in Maps
    BY Facts DEF TypeOK
  <2>4. rpc[r] # "unlinkOwner" /\ (rpc[r] = "unpin" => ~(1 < idx[r]))
    BY <2>1, <2>2, <2>3, Facts
  <2>5. QED
    BY <2>2, <2>3, <2>4 DEF Owns
<1>3. Reachable \in Runs \cup {NoOne}
  BY DEF Reachable
<1>4. QED
  BY <1>1, <1>2, <1>3 DEF OwnerTold

\* A step that moves the control of no run leaves the abstract state alone.
LEMMA SameOwner ==
    ASSUME TypeOK, SerialInv, TypeOK', SerialInv', UNCHANGED <<rpc, idx>>
    PROVE  UNCHANGED Abstract!vars
<1>1. \A r \in Runs : Owns(r)' <=> Owns(r)
  BY DEF Owns
<1>2. OwnerTold /\ OwnerTold'
  BY OwnerByControl, PTL
<1>3. Reachable' = Reachable
  BY <1>1, <1>2 DEF OwnerTold
<1>4. QED
  BY <1>3 DEF Abstract!vars

\* A step that moves the control of one run is a step of PathOwner, or none,
\* as long as the event loop is entered from set-up only.
LEMMA OneRunMoves ==
    ASSUME TypeOK, SerialInv, TypeOK', SerialInv', NEW r \in Runs,
           \A q \in Runs : q # r => rpc'[q] = rpc[q] /\ idx'[q] = idx[q],
           rpc'[r] = "loop" => rpc[r] \in {"init", "loop"}
    PROVE  Abstract!Next \/ UNCHANGED Abstract!vars
<1> DEFINE Streams == {q \in Runs : rpc[q] = "loop"}
<1>1. \A q \in Runs : q # r => (Owns(q)' <=> Owns(q))
  BY DEF Owns
<1> OwnerTold /\ OwnerTold'
  BY OwnerByControl, PTL
<1>2. /\ \A q \in Runs : Reachable = q <=> Owns(q)
      /\ Reachable \in Runs \cup {NoOne}
  BY DEF OwnerTold
<1>3. /\ \A q \in Runs : Reachable' = q <=> Owns(q)'
      /\ Reachable' \in Runs \cup {NoOne}
  BY DEF OwnerTold
<1>4. /\ \A q \in Runs : q \in Streams => Owns(q)
      /\ \A q \in Runs : q \in Streams' => Owns(q)'
      /\ \A q \in Runs : q # r => (q \in Streams' <=> q \in Streams)
      /\ r \in Streams' => Owns(r)
      /\ Streams \subseteq Runs /\ Streams' \subseteq Runs
  BY DEF Owns
<1>5. \A q \in Runs : q # NoOne
  BY Facts
<1> HIDE DEF Streams
<1>6. CASE ~Owns(r) /\ Owns(r)'
  <2>1. Reachable' = r /\ \A q \in Runs : ~Owns(q)
    BY <1>1, <1>2, <1>3, <1>6
  <2>2. Reachable = NoOne /\ Streams = {} /\ Streams' = {}
    BY <1>2, <1>4, <2>1
  <2>3. QED
    BY <2>1, <2>2 DEF Abstract!Next, Abstract!Claim, Streams
<1>7. CASE Owns(r) /\ ~Owns(r)'
  <2>1. Reachable = r /\ \A q \in Runs : ~Owns(q)'
    BY <1>1, <1>2, <1>3, <1>7
  <2>2. Reachable' = NoOne /\ Streams' = {}
    BY <1>3, <1>4, <2>1
  <2>3. QED
    BY <1>5, <2>1, <2>2 DEF Abstract!Next, Abstract!Release, Streams
<1>8. CASE Owns(r) /\ Owns(r)'
  <2>1. Reachable = r /\ Reachable' = r
    BY <1>2, <1>3, <1>8
  <2>2. Streams \subseteq {r} /\ Streams' \subseteq {r}
    BY <1>2, <1>3, <1>4, <2>1
  <2>3. CASE r \in Streams'
    BY <2>1, <2>2, <2>3 DEF Abstract!Next, Abstract!Stream, Streams
  <2>4. CASE r \in Streams /\ r \notin Streams'
    <3>1. Streams = {r} /\ Streams' = {}
      BY <2>2, <2>4
    <3>2. QED
      BY <2>1, <3>1 DEF Abstract!Next, Abstract!Stop, Streams
  <2>5. CASE r \notin Streams /\ r \notin Streams'
    <3>1. Streams = {} /\ Streams' = {}
      BY <2>2, <2>5
    <3>2. QED
      BY <2>1, <3>1 DEF Abstract!vars, Streams
  <2>6. QED
    BY <2>3, <2>4, <2>5
<1>9. CASE ~Owns(r) /\ ~Owns(r)'
  <2>1. Reachable' = Reachable
    BY <1>1, <1>2, <1>3, <1>9
  <2>2. Streams' = Streams
    BY <1>4, <1>9
  <2>3. QED
    BY <2>1, <2>2 DEF Abstract!vars, Streams
<1>10. QED
  BY <1>6, <1>7, <1>8, <1>9

\* What a step does to the control of the runs: one run moves, or none, and
\* cmd_run enters its event loop from set-up only.
MovesOne ==
    \/ UNCHANGED <<rpc, idx>>
    \/ \E r \in Runs :
         /\ \A q \in Runs : q # r => rpc'[q] = rpc[q] /\ idx'[q] = idx[q]
         /\ rpc'[r] = "loop" => rpc[r] \in {"init", "loop"}

LEMMA DieMoves ==
    ASSUME TypeOK, NEW r \in Runs, NEW code, Die(r, code)
    PROVE  MovesOne
<1>1. \A q \in Runs : q # r => rpc'[q] = rpc[q] /\ idx'[q] = idx[q]
  BY DEF Die, Goto, TypeOK
<1>2. rpc'[r] = "dead"
  BY DEF Die, Goto, TypeOK
<1>3. QED
  BY <1>1, <1>2 DEF MovesOne

LEMMA RunStepMoves ==
    ASSUME TypeOK, NEW r \in Runs, RunStep(r)
    PROVE  MovesOne
<1>1. CASE RunStartFails(r) \/ MakePinDirFails(r) \/ GiveUp(r) \/ CloseLink(r)
  BY <1>1, DieMoves DEF RunStartFails, MakePinDirFails, GiveUp, CloseLink
<1>2. CASE UnpinMap(r)
  <2>1. \A q \in Runs : q # r => rpc'[q] = rpc[q] /\ idx'[q] = idx[q]
    BY <1>2 DEF UnpinMap, Goto, TypeOK
  <2>2. rpc'[r] # "loop"
    <3>1. rpc[r] \in UnpinLabels /\ (rpc' = rpc \/ Goto(r, AfterUnpin(rpc[r])))
      BY <1>2 DEF UnpinMap
    <3>2. CASE rpc' = rpc
      BY <3>1, <3>2 DEF UnpinLabels
    <3>3. CASE Goto(r, AfterUnpin(rpc[r]))
      BY <3>1, <3>3, AfterUnpinType DEF Goto, TypeOK
    <3>4. QED
      BY <3>1, <3>2, <3>3
  <2>3. QED
    BY <2>1, <2>2 DEF MovesOne
<1>3. CASE PinMap(r)
  BY <1>3 DEF PinMap, Goto, MovesOne, TypeOK
<1>4. CASE RollbackPin(r)
  BY <1>4 DEF RollbackPin, At, Goto, MovesOne, TypeOK
<1>5. CASE ReadOwner(r) \/ CheckOwner(r) \/ CheckDir(r)
  BY <1>5 DEF ReadOwner, CheckOwner, CheckDir, Goto, MovesOne, TypeOK
<1>6. CASE EnterLoop(r)
  BY <1>6 DEF EnterLoop, At, Goto, MovesOne, TypeOK
<1>7. ASSUME NEW l \in RunLabels \ {"loop"}, Goto(r, l), UNCHANGED idx
      PROVE  MovesOne
  BY <1>7 DEF Goto, MovesOne, TypeOK
<1>8. CASE RunStart(r) \/ MakePinDir(r) \/ DropStaleOwner(r) \/ PinMapFails(r)
             \/ EnsureOwnerDir(r) \/ OpenOwnerFile(r) \/ WriteOwnerFile(r)
             \/ OwnerPathFails(r) \/ WriteOwnerFails(r)
  BY <1>7, <1>8 DEF RunStart, MakePinDir, DropStaleOwner, PinMapFails,
     EnsureOwnerDir, OpenOwnerFile, WriteOwnerFile, OwnerPathFails,
     WriteOwnerFails, RunLabels, PinLabels
<1>9. CASE Attach(r) \/ AttachFails(r) \/ SigInit(r) \/ InitFails(r)
             \/ LoopTerm(r) \/ LoopBreak(r) \/ UnpinOwnerFile(r)
             \/ UnpinOwnerDir(r) \/ UnpinDir(r)
  BY <1>7, <1>9 DEF Attach, AttachFails, SigInit, InitFails, LoopTerm,
     LoopBreak, UnpinOwnerFile, UnpinOwnerDir, UnpinDir, RunLabels, ExitLabels
<1>10. QED
  BY <1>1, <1>2, <1>3, <1>4, <1>5, <1>6, <1>8, <1>9 DEF RunStep

LEMMA TermMoves ==
    ASSUME TypeOK, NEW r \in Runs, DeliverTerm(r)
    PROVE  MovesOne
BY DieMoves DEF DeliverTerm, MovesOne

LEMMA NextMoves ==
    ASSUME TypeOK, [Next]_vars
    PROVE  MovesOne
<1>1. ASSUME NEW r \in Runs, RunStep(r) PROVE MovesOne
  BY <1>1, RunStepMoves
<1>2. ASSUME NEW r \in Runs, Terminate(r) \/ Crash(r) PROVE MovesOne
  BY <1>2, TermMoves, DieMoves DEF Terminate, Crash
<1>3. ASSUME NEW d \in Detachers, DetachStep(d) PROVE MovesOne
  <2>1. CASE StopOwner(d)
    BY <2>1, TermMoves DEF StopOwner, Alive, runVars, MovesOne
  <2>2. CASE ~StopOwner(d)
    BY <1>3, <2>2 DEF DetachStep, DetachStart, DetachReadOwner,
       StopOwnerFails, OwnerExited, KillOwner, OwnerStillAlive, RereadOwner,
       RecheckOwner, CleanOwnerFile, CleanOwnerDir, CleanPin, CleanPinDir,
       CleanFails, DetachXdp, DetachRefused, runVars, MovesOne
  <2>3. QED
    BY <2>1, <2>2
<1>4. ASSUME NEW c \in Clients, ClientStep(c) PROVE MovesOne
  BY <1>4 DEF ClientStep, ClientReadOwner, ClientCheckOwner, ClientOpenMap,
     ClientUseMap, runVars, MovesOne
<1>5. CASE UNCHANGED vars
  BY <1>5 DEF vars, runVars, MovesOne
<1>6. QED
  BY <1>1, <1>2, <1>3, <1>4, <1>5 DEF Next

\* The system calls of Skeleton::pin, Skeleton::unpin and cmd_detach, cut
\* short anywhere, implement one owner at a time of the whole path.
THEOREM RefinesPathOwner == ASSUME Serial PROVE Spec => ImplementsPathOwner
<1>1. Init => Abstract!Init
  BY Facts DEF Init, Reachable, Abstract!Init
<1>2. /\ TypeOK /\ SerialInv /\ [Next]_vars /\ TypeOK' /\ SerialInv'
      => [Abstract!Next]_(Abstract!vars)
  <2> SUFFICES ASSUME TypeOK, SerialInv, [Next]_vars, TypeOK', SerialInv'
               PROVE  Abstract!Next \/ UNCHANGED Abstract!vars
    OBVIOUS
  <2>1. CASE UNCHANGED <<rpc, idx>>
    BY <2>1, SameOwner
  <2>2. ASSUME NEW r \in Runs,
               \A q \in Runs : q # r => rpc'[q] = rpc[q] /\ idx'[q] = idx[q],
               rpc'[r] = "loop" => rpc[r] \in {"init", "loop"}
        PROVE  Abstract!Next \/ UNCHANGED Abstract!vars
    BY <2>2, OneRunMoves
  <2>3. QED
    BY <2>1, <2>2, NextMoves DEF MovesOne
<1>3. QED
  BY <1>1, <1>2, TypeCorrect, SerialInvariant, PTL
     DEF Spec, ImplementsPathOwner, Abstract!Spec

-----------------------------------------------------------------------------
(* What a detach that gets to its end has removed.                         *)

\* From its clean-up on, a detach finds nothing back that it has removed:
\* whoever could put it there is a claim, and claims exclude each other.
DetachClears ==
    \A d \in Detachers :
        /\ dpc[d] \in {"cleanOwnerDir", "cleanPins", "netlink"}
             => ownerFile = NoOne
        /\ dpc[d] = "cleanPins"
             => \A m \in Maps : m \in left[d] \/ pins[m] = NoOne
        /\ dpc[d] = "netlink"
             => ~pinDir /\ \A m \in Maps : pins[m] = NoOne

\* A step that creates no name leaves removed what is removed.
OnlyRemoves ==
    /\ ownerFile = NoOne => ownerFile' = NoOne
    /\ \A m \in Maps : pins[m] = NoOne => pins'[m] = NoOne
    /\ ~pinDir => ~pinDir'

\* cmd_run touches no variable of a detach or of a client.
LEMMA RunStepFrame ==
    ASSUME NEW r \in Runs, RunStep(r)
    PROVE  UNCHANGED <<dpc, target, left, cpc, cseen, fd, deadAt>>
BY DEF RunStep, RunStart, RunStartFails, MakePinDir, MakePinDirFails,
   ReadOwner, CheckOwner, CheckDir, UnpinMap, DropStaleOwner, PinMap,
   PinMapFails, RollbackPin, GiveUp, EnsureOwnerDir, OpenOwnerFile,
   WriteOwnerFile, OwnerPathFails, WriteOwnerFails, Attach, AttachFails,
   SigInit, EnterLoop, InitFails, LoopTerm, LoopBreak, UnpinOwnerFile,
   UnpinOwnerDir, UnpinDir, CloseLink, detachVars, clientVars

\* Outside Skeleton::pin a run creates nothing.
LEMMA RunStepRemoves ==
    ASSUME TypeOK, NEW r \in Runs, RunStep(r), rpc[r] \notin PinLabels
    PROVE  OnlyRemoves
<1> USE DEF OnlyRemoves
<1>1. CASE UnpinMap(r)
  BY <1>1 DEF UnpinMap, TypeOK
<1>2. CASE UnpinOwnerFile(r) \/ UnpinOwnerDir(r) \/ UnpinDir(r)
  <2>1. ~pinDir => ~pinDir'
    BY <1>2 DEF UnpinOwnerFile, UnpinOwnerDir, UnpinDir, RmdirPinDir
  <2>2. UNCHANGED pins
    BY <1>2 DEF UnpinOwnerFile, UnpinOwnerDir, UnpinDir
  <2>3. ownerFile' \in {ownerFile, NoOne}
    BY <1>2 DEF UnpinOwnerFile, UnpinOwnerDir, UnpinDir, UnlinkOwnerFile
  <2>4. QED
    BY <2>1, <2>2, <2>3
<1>3. CASE UNCHANGED <<pinDir, pins, ownerFile>>
  BY <1>3
<1>4. QED
  BY <1>1, <1>2, <1>3
     DEF RunStep, RunStart, RunStartFails, MakePinDir, MakePinDirFails,
         ReadOwner, CheckOwner, CheckDir, DropStaleOwner, PinMap, PinMapFails,
         RollbackPin, GiveUp, EnsureOwnerDir, OpenOwnerFile, WriteOwnerFile,
         OwnerPathFails, WriteOwnerFails, Attach, AttachFails, SigInit,
         EnterLoop, InitFails, LoopTerm, LoopBreak, CloseLink, At, PinLabels,
         fsVars

LEMMA DetachStepClears ==
    ASSUME TypeOK, SerialInv, DetachClears, NEW d \in Detachers, DetachStep(d)
    PROVE  DetachClears'
<1> USE DEF DetachClears
<1>1. \A e \in Detachers : e # d => dpc'[e] = dpc[e]
  BY DEF DetachStep, DetachStart, DetachReadOwner, StopOwner, StopOwnerFails,
     OwnerExited, KillOwner, OwnerStillAlive, RereadOwner, RecheckOwner,
     CleanOwnerFile, CleanOwnerDir, CleanPin, CleanPinDir, CleanFails,
     DetachXdp, DetachRefused, DGoto, DExit, TypeOK
<1>2. CASE CleanOwnerFile(d)
  <2>1. dpc[d] = "cleanOwner" /\ dpc'[d] = "cleanOwnerDir" /\ ownerFile' = NoOne
    BY <1>2 DEF CleanOwnerFile, DGoto, UnlinkOwnerFile, TypeOK
  <2>2. \A e \in Detachers : e # d => dpc[e] \in {"idle", "done"}
    BY <2>1 DEF SerialInv, OneClaim
  <2>3. QED
    BY <1>1, <2>1, <2>2
<1>3. CASE CleanOwnerDir(d)
  <2>1. /\ dpc[d] = "cleanOwnerDir" /\ dpc'[d] = "cleanPins"
        /\ left'[d] = Maps /\ ownerFile' = ownerFile
    BY <1>3 DEF CleanOwnerDir, DGoto, TypeOK
  <2>2. \A e \in Detachers : e # d => dpc[e] \in {"idle", "done"}
    BY <2>1 DEF SerialInv, OneClaim
  <2>3. QED
    BY <1>1, <2>1, <2>2
<1>4. CASE CleanPin(d)
  <2>1. dpc[d] = "cleanPins" /\ dpc' = dpc /\ ownerFile' = ownerFile
    BY <1>4 DEF CleanPin
  <2>2. \A m \in Maps : m \in left'[d] \/ pins'[m] = NoOne
    BY <1>4 DEF CleanPin, TypeOK
  <2>3. \A e \in Detachers : e # d => dpc[e] \in {"idle", "done"}
    BY <2>1 DEF SerialInv, OneClaim
  <2>4. QED
    BY <2>1, <2>2, <2>3
<1>5. CASE CleanPinDir(d)
  <2>1. /\ dpc[d] = "cleanPins" /\ dpc'[d] = "netlink" /\ left[d] = {}
        /\ ownerFile' = ownerFile /\ pins' = pins /\ RmdirPinDir
    BY <1>5 DEF CleanPinDir, DGoto, TypeOK
  <2>2. ~pinDir'
    BY <2>1 DEF RmdirPinDir, DirectoryIsEmpty
  <2>3. \A e \in Detachers : e # d => dpc[e] \in {"idle", "done"}
    BY <2>1 DEF SerialInv, OneClaim
  <2>4. QED
    BY <1>1, <2>1, <2>2, <2>3
<1>6. CASE /\ UNCHANGED <<pinDir, pins, ownerFile, left>>
           /\ dpc'[d] \notin {"cleanOwnerDir", "cleanPins", "netlink"}
  BY <1>1, <1>6
<1>7. QED
  BY <1>2, <1>3, <1>4, <1>5, <1>6
     DEF DetachStep, DetachStart, DetachReadOwner, StopOwner, StopOwnerFails,
         OwnerExited, KillOwner, OwnerStillAlive, RereadOwner, RecheckOwner,
         CleanFails, DetachXdp, DetachRefused, DGoto, DExit, fsVars, TypeOK

LEMMA DetachClearsInvariant == ASSUME Serial PROVE Spec => []DetachClears
<1>1. Init => DetachClears
  BY DEF Init, DetachClears
<1>2. TypeOK /\ SerialInv /\ DetachClears /\ [Next]_vars => DetachClears'
  <2> SUFFICES ASSUME TypeOK, SerialInv, DetachClears, [Next]_vars
               PROVE  DetachClears'
    OBVIOUS
  <2>1. ASSUME NEW r \in Runs, RunStep(r) PROVE DetachClears'
    <3>1. UNCHANGED <<dpc, left>>
      BY <2>1, RunStepFrame
    <3>2. CASE rpc[r] \in PinLabels
      BY <3>1, <3>2 DEF SerialInv, OneClaim, DetachClears
    <3>3. CASE rpc[r] \notin PinLabels
      BY <2>1, <3>1, <3>3, RunStepRemoves DEF OnlyRemoves, DetachClears
    <3>4. QED
      BY <3>2, <3>3
  <2>2. ASSUME NEW r \in Runs, Terminate(r) \/ Crash(r) PROVE DetachClears'
    BY <2>2 DEF Terminate, Crash, detachVars, DetachClears
  <2>3. ASSUME NEW d \in Detachers, DetachStep(d) PROVE DetachClears'
    BY <2>3, DetachStepClears
  <2>4. ASSUME NEW c \in Clients, ClientStep(c) PROVE DetachClears'
    BY <2>4 DEF ClientStep, ClientReadOwner, ClientCheckOwner, ClientOpenMap,
       ClientUseMap, fsVars, detachVars, DetachClears
  <2>5. CASE UNCHANGED vars
    BY <2>5 DEF vars, fsVars, detachVars, DetachClears
  <2>6. QED
    BY <2>1, <2>2, <2>3, <2>4, <2>5 DEF Next
<1>3. QED
  BY <1>1, <1>2, TypeCorrect, SerialInvariant, PTL DEF Spec

\* A detach that reports success leaves no program on the hook, no pin, no
\* pin directory and no owner record, whatever the owner did meanwhile.
THEOREM DetachLeavesNothing == ASSUME Serial PROVE Spec => DetachPost
<1> DEFINE Post(d) ==
      dpc[d] # "done" /\ dpc'[d] = "done" /\ rc'[d] = "ok"
        => /\ hook' = NoOne /\ ownerFile' = NoOne /\ ~pinDir'
           /\ \A m \in Maps : pins'[m] = NoOne
<1>1. TypeOK /\ DetachClears /\ [Next]_vars => [\A d \in Detachers : Post(d)]_vars
  <2> SUFFICES ASSUME TypeOK, DetachClears, Next, NEW d \in Detachers
               PROVE  Post(d)
    OBVIOUS
  <2>1. CASE UNCHANGED dpc
    BY <2>1
  <2>2. ASSUME NEW e \in Detachers, DetachStep(e) PROVE Post(d)
    <3>1. CASE DetachXdp(e)
      <4>1. /\ dpc[e] = "netlink"
            /\ dpc' = [dpc EXCEPT ![e] = "done"]
            /\ rc'[e] = "ok" => hook \notin Runs
            /\ hook' = IF hook = Legacy THEN NoOne ELSE hook
            /\ UNCHANGED <<pinDir, pins, ownerFile>>
        BY <3>1, TypeFacts DEF DetachXdp, DExit, DGoto, DetachError, fsVars, TypeOK
      <4>2. CASE e = d
        <5>1. ownerFile = NoOne /\ ~pinDir /\ \A m \in Maps : pins[m] = NoOne
          BY <4>1, <4>2 DEF DetachClears
        <5>2. rc'[d] = "ok" => hook' = NoOne
          BY <4>1, <4>2 DEF TypeOK
        <5>3. QED
          BY <4>1, <5>1, <5>2
      <4>3. CASE e # d
        BY <4>1, <4>3 DEF TypeOK
      <4>4. QED
        BY <4>2, <4>3
    <3>2. CASE dpc'[d] = dpc[d] \/ dpc'[d] # "done"
      BY <3>2
    <3>3. CASE /\ dpc' = [dpc EXCEPT ![e] = "done"]
               /\ rc' = [rc EXCEPT ![e] = "fail"]
      BY <3>3, TypeFacts DEF TypeOK
    <3>4. ASSUME NEW l \in DetachLabels \ {"done"}, DGoto(e, l) PROVE Post(d)
      BY <3>4 DEF DGoto, TypeOK
    <3>5. QED
      BY <2>2, <3>1, <3>2, <3>3, <3>4
         DEF DetachStep, DetachStart, DetachReadOwner, StopOwner,
             StopOwnerFails, OwnerExited, KillOwner, OwnerStillAlive,
             RereadOwner, RecheckOwner, CleanOwnerFile, CleanOwnerDir,
             CleanPin, CleanPinDir, CleanFails, DetachRefused, DGoto, DExit,
             DetachLabels, CleanLabels
  <2>3. ASSUME NEW r \in Runs, RunStep(r) PROVE UNCHANGED dpc
    BY <2>3, RunStepFrame
  <2>4. ASSUME NEW r \in Runs, Terminate(r) \/ Crash(r) PROVE UNCHANGED dpc
    BY <2>4 DEF Terminate, Crash, detachVars
  <2>5. ASSUME NEW c \in Clients, ClientStep(c) PROVE UNCHANGED dpc
    BY <2>5 DEF ClientStep, ClientReadOwner, ClientCheckOwner, ClientOpenMap,
       ClientUseMap, detachVars
  <2>6. QED
    BY <2>1, <2>2, <2>3, <2>4, <2>5 DEF Next
<1>2. QED
  BY <1>1, TypeCorrect, DetachClearsInvariant, PTL DEF Spec, DetachPost

-----------------------------------------------------------------------------
(* Whose map a client opens.                                               *)

\* No pin leads to a map of a run that was dead when c read the record.
FreshPins(c) == \A m \in Maps : pins[m] \notin deadAt[c]

\* A dead run stays dead and makes no pin; a live recorded owner has seen to
\* it that no other run's pins are in place.  So the check that the owner is
\* alive, made after the record was read, is enough for a later open.
ClientSafe ==
    \A c \in Clients :
        /\ \A q \in deadAt[c] : q \in Runs /\ rpc[q] = "dead"
        /\ cpc[c] \in {"idle", "check", "open"} => fd[c] = NoOne
        /\ cpc[c] = "check" /\ cseen[c] \in Runs => rpc[cseen[c]] # "idle"
        /\ cpc[c] = "check" /\ Alive(cseen[c]) => FreshPins(c)
        /\ cpc[c] = "open" => FreshPins(c)
        /\ fd[c] \notin deadAt[c]

\* What a step of the other processes leaves true for the clients: nobody
\* comes back from the dead or to the start, and a new pin is a live run's.
NoGhosts ==
    /\ \A q \in Runs : rpc[q] = "dead" => rpc'[q] = "dead"
    /\ \A q \in Runs : rpc[q] # "idle" => rpc'[q] # "idle"
    /\ \A m \in Maps : \/ pins'[m] \in {pins[m], NoOne}
                       \/ pins'[m] \in Runs /\ rpc[pins'[m]] # "dead"
    /\ UNCHANGED <<cpc, cseen, fd, deadAt>>

LEMMA NoGhostsSafe ==
    ASSUME ClientSafe, NoGhosts
    PROVE  ClientSafe'
<1> SUFFICES ASSUME NEW c \in Clients
             PROVE  /\ \A q \in deadAt[c] : q \in Runs /\ rpc'[q] = "dead"
                    /\ cpc[c] = "check" /\ cseen[c] \in Runs
                         => rpc'[cseen[c]] # "idle"
                    /\ FreshPins(c) => FreshPins(c)'
                    /\ Alive(cseen[c])' /\ cpc[c] = "check"
                         => Alive(cseen[c])
  BY DEF ClientSafe, NoGhosts
<1>1. FreshPins(c) => FreshPins(c)'
  <2> SUFFICES ASSUME FreshPins(c), NEW m \in Maps
               PROVE  pins'[m] \notin deadAt[c]
    BY DEF FreshPins, NoGhosts
  <2>1. NoOne \notin deadAt[c]
    BY NamesAssumption DEF ClientSafe
  <2>2. QED
    BY <2>1 DEF FreshPins, NoGhosts, ClientSafe
<1>2. QED
  BY <1>1 DEF ClientSafe, NoGhosts, Alive

LEMMA RunStepNoGhosts ==
    ASSUME TypeOK, NEW r \in Runs, RunStep(r)
    PROVE  NoGhosts
<1>1. UNCHANGED <<cpc, cseen, fd, deadAt>>
  BY RunStepFrame
<1>2. rpc[r] # "dead"
  BY DEF RunStep, RunStart, RunStartFails, MakePinDir, MakePinDirFails,
     ReadOwner, CheckOwner, CheckDir, UnpinMap, DropStaleOwner, PinMap,
     PinMapFails, RollbackPin, GiveUp, EnsureOwnerDir, OpenOwnerFile,
     WriteOwnerFile, OwnerPathFails, WriteOwnerFails, Attach, AttachFails,
     SigInit, EnterLoop, InitFails, LoopTerm, LoopBreak, UnpinOwnerFile,
     UnpinOwnerDir, UnpinDir, CloseLink, At, UnpinLabels
<1>3. \A m \in Maps : pins'[m] \in {pins[m], NoOne, r}
  BY DEF RunStep, RunStart, RunStartFails, MakePinDir, MakePinDirFails,
     ReadOwner, CheckOwner, CheckDir, UnpinMap, DropStaleOwner, PinMap,
     PinMapFails, RollbackPin, GiveUp, EnsureOwnerDir, OpenOwnerFile,
     WriteOwnerFile, OwnerPathFails, WriteOwnerFails, Attach, AttachFails,
     SigInit, EnterLoop, InitFails, LoopTerm, LoopBreak, UnpinOwnerFile,
     UnpinOwnerDir, UnpinDir, CloseLink, fsVars, TypeOK
<1>4. \A q \in Runs : q # r => rpc'[q] = rpc[q]
  BY DEF RunStep, RunStart, RunStartFails, MakePinDir, MakePinDirFails,
     ReadOwner, CheckOwner, CheckDir, UnpinMap, DropStaleOwner, PinMap,
     PinMapFails, RollbackPin, GiveUp, EnsureOwnerDir, OpenOwnerFile,
     WriteOwnerFile, OwnerPathFails, WriteOwnerFails, Attach, AttachFails,
     SigInit, EnterLoop, InitFails, LoopTerm, LoopBreak, UnpinOwnerFile,
     UnpinOwnerDir, UnpinDir, CloseLink, Die, Goto, TypeOK
<1>5. rpc'[r] # "idle"
  <2>1. CASE UnpinMap(r)
    BY <2>1, AfterUnpinType DEF UnpinMap, UnpinLabels, Goto, TypeOK
  <2>2. CASE ~UnpinMap(r)
    BY <2>2 DEF RunStep, RunStart, RunStartFails, MakePinDir,
       MakePinDirFails, ReadOwner, CheckOwner, CheckDir, DropStaleOwner,
       PinMap, PinMapFails, RollbackPin, GiveUp, EnsureOwnerDir,
       OpenOwnerFile, WriteOwnerFile, OwnerPathFails, WriteOwnerFails,
       Attach, AttachFails, SigInit, EnterLoop, InitFails, LoopTerm,
       LoopBreak, UnpinOwnerFile, UnpinOwnerDir, UnpinDir, CloseLink, At,
       Die, Goto, TypeOK
  <2>3. QED
    BY <2>1, <2>2
<1>6. QED
  BY <1>1, <1>2, <1>3, <1>4, <1>5 DEF NoGhosts

LEMMA TermNoGhosts ==
    ASSUME TypeOK, NEW r \in Runs, Alive(r),
           DeliverTerm(r) \/ Die(r, "killed"),
           UNCHANGED <<pins, clientVars>>
    PROVE  NoGhosts
BY DEF DeliverTerm, Die, Goto, Alive, clientVars, NoGhosts, TypeOK

LEMMA DetachStepNoGhosts ==
    ASSUME TypeOK, NEW d \in Detachers, DetachStep(d)
    PROVE  NoGhosts
<1>1. CASE StopOwner(d) /\ Alive(target[d])
  BY <1>1, TermNoGhosts DEF StopOwner, Alive
<1>2. CASE CleanPin(d)
  BY <1>2 DEF CleanPin, runVars, clientVars, NoGhosts, TypeOK
<1>3. CASE UNCHANGED <<pins, rpc, clientVars>>
  BY <1>3 DEF clientVars, NoGhosts
<1>4. QED
  BY <1>1, <1>2, <1>3
     DEF DetachStep, DetachStart, DetachReadOwner, StopOwner, StopOwnerFails,
         OwnerExited, KillOwner, OwnerStillAlive, RereadOwner, RecheckOwner,
         CleanOwnerFile, CleanOwnerDir, CleanPinDir, CleanFails, DetachXdp,
         DetachRefused, fsVars, runVars

LEMMA ClientStepSafe ==
    ASSUME TypeOK, SerialInv, ClientSafe, NEW c \in Clients, ClientStep(c)
    PROVE  ClientSafe'
<1>1. UNCHANGED <<pins, rpc>>
  BY DEF ClientStep, ClientReadOwner, ClientCheckOwner, ClientOpenMap,
     ClientUseMap, fsVars, runVars
<1>2. \A b \in Clients : b # c => /\ cpc'[b] = cpc[b] /\ cseen'[b] = cseen[b]
                                 /\ fd'[b] = fd[b] /\ deadAt'[b] = deadAt[b]
  BY DEF ClientStep, ClientReadOwner, ClientCheckOwner, ClientOpenMap,
     ClientUseMap, CGoto, CExit, TypeOK
<1>3. SUFFICES
        /\ \A q \in deadAt'[c] : q \in Runs /\ rpc[q] = "dead"
        /\ cpc'[c] \in {"idle", "check", "open"} => fd'[c] = NoOne
        /\ cpc'[c] = "check" /\ cseen'[c] \in Runs => rpc[cseen'[c]] # "idle"
        /\ cpc'[c] = "check" /\ Alive(cseen'[c])
             => \A m \in Maps : pins[m] \notin deadAt'[c]
        /\ cpc'[c] = "open" => \A m \in Maps : pins[m] \notin deadAt'[c]
        /\ fd'[c] \notin deadAt'[c]
  BY <1>1, <1>2 DEF ClientSafe, FreshPins, Alive
<1>4. CASE ClientReadOwner(c)
  <2>1. /\ cpc[c] = "idle" /\ cpc'[c] = "check" /\ fd'[c] = fd[c]
        /\ cseen'[c] = OwnerState
        /\ deadAt'[c] = {r \in Runs : rpc[r] = "dead"}
    BY <1>4 DEF ClientReadOwner, CGoto, TypeOK
  <2>2. fd'[c] = NoOne
    BY <2>1 DEF ClientSafe
  <2>3. ASSUME OwnerState \in Runs
        PROVE  rpc[OwnerState] # "idle" /\ ownerFile = OwnerState
    BY <2>3, Facts DEF OwnerState, SerialInv, NoTrace, Traceless
  <2>4. ASSUME Alive(OwnerState), NEW m \in Maps
        PROVE  pins[m] \in {OwnerState, NoOne}
    <3>1. OwnerState \in Runs /\ rpc[OwnerState] \in Holding
      BY <2>3, <2>4, LiveTraces DEF Alive
    <3>2. QED
      BY <2>3, <2>4, <3>1 DEF SerialInv, HoldersOwn
  <2>5. QED
    BY <2>1, <2>2, <2>3, <2>4, NamesAssumption DEF Alive
<1>5. CASE ClientCheckOwner(c)
  <2>1. /\ cpc[c] = "check" /\ fd' = fd /\ cseen' = cseen /\ deadAt' = deadAt
        /\ cpc'[c] = IF Alive(cseen[c]) THEN "open" ELSE "done"
    BY <1>5 DEF ClientCheckOwner, CGoto, CExit, TypeOK
  <2>2. QED
    BY <2>1 DEF ClientSafe, FreshPins
<1>6. CASE ClientOpenMap(c)
  <2>1. /\ cpc[c] = "open" /\ cpc'[c] \in {"done", "use"}
        /\ cseen' = cseen /\ deadAt' = deadAt
        /\ fd'[c] = fd[c] \/ \E m \in Maps : fd'[c] = pins[m]
    BY <1>6 DEF ClientOpenMap, CGoto, CExit, TypeOK
  <2>2. QED
    BY <2>1 DEF ClientSafe, FreshPins
<1>7. CASE ClientUseMap(c)
  <2>1. /\ cpc'[c] = "done" /\ fd' = fd /\ cseen' = cseen /\ deadAt' = deadAt
    BY <1>7 DEF ClientUseMap, CGoto, CExit, TypeOK
  <2>2. QED
    BY <2>1 DEF ClientSafe
<1>8. QED
  BY <1>4, <1>5, <1>6, <1>7 DEF ClientStep

\* A client, block, unblock, list or stats, never works on a map of a run
\* that was already dead when the client read the owner record.
THEOREM ClientMapFresh == ASSUME Serial PROVE Spec => []ClientMapNotOfDead
<1>1. Init => ClientSafe
  BY NamesAssumption DEF Init, ClientSafe
<1>2. TypeOK /\ SerialInv /\ ClientSafe /\ [Next]_vars => ClientSafe'
  <2> SUFFICES ASSUME TypeOK, SerialInv, ClientSafe, [Next]_vars
               PROVE  ClientSafe'
    OBVIOUS
  <2>1. ASSUME NEW r \in Runs, RunStep(r) PROVE ClientSafe'
    BY <2>1, RunStepNoGhosts, NoGhostsSafe
  <2>2. ASSUME NEW r \in Runs, Terminate(r) \/ Crash(r) PROVE ClientSafe'
    BY <2>2, TermNoGhosts, NoGhostsSafe DEF Terminate, Crash
  <2>3. ASSUME NEW d \in Detachers, DetachStep(d) PROVE ClientSafe'
    BY <2>3, DetachStepNoGhosts, NoGhostsSafe
  <2>4. ASSUME NEW c \in Clients, ClientStep(c) PROVE ClientSafe'
    BY <2>4, ClientStepSafe
  <2>5. CASE UNCHANGED vars
    BY <2>5 DEF vars, fsVars, runVars, clientVars, ClientSafe, FreshPins, Alive
  <2>6. QED
    BY <2>1, <2>2, <2>3, <2>4, <2>5 DEF Next
<1>3. ClientSafe => ClientMapNotOfDead
  BY DEF ClientSafe, ClientMapNotOfDead
<1>4. QED
  BY <1>1, <1>2, <1>3, TypeCorrect, SerialInvariant, PTL DEF Spec

=============================================================================
