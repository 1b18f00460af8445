-------------------------- MODULE Ownership_proofs --------------------------
(***************************************************************************)
(* Theorems about Ownership, for every number of runs, detachers, clients  *)
(* and maps.                                                               *)
(***************************************************************************)
EXTENDS Ownership, TLAPS

\* Facts about the constants and the label sets that the type proofs use.
LEMMA TypeFacts ==
    /\ 1 \in Maps
    /\ NMaps \in Nat
    /\ Runs \subseteq Procs /\ Detachers \subseteq Procs /\ Clients \subseteq Procs
    /\ RunLabels = {"idle", "attach", "sigInit", "init", "loop", "dead",
          "mkdir", "readOwner", "checkOwner", "checkDir", "reclaimStale",
          "dropOwner", "reclaimUnowned", "pin", "rollback", "giveUp",
          "ownerDir", "openOwner", "writeOwner", "undoPin",
          "unpin", "unlinkOwner", "rmOwnerDir", "rmPinDir", "closeLink"}
    /\ DetachLabels = {"idle", "read", "stop", "waitTerm", "waitKill",
          "reread", "recheck", "netlink", "done",
          "cleanOwner", "cleanOwnerDir", "cleanPins"}
    /\ ClientLabels = {"idle", "check", "open", "use", "done"}
    /\ Codes = {"none", "ok", "fail", "sigterm", "killed"}
BY NMapsAssumption DEF Maps, Procs, RunLabels, PinLabels, ExitLabels,
   DetachLabels, CleanLabels, ClientLabels, Codes

\* The loops over the maps stay inside the maps.
LEMMA MapSteps ==
    \A i \in Maps :
        /\ i < NMaps => i + 1 \in Maps
        /\ i > 1 => i - 1 \in Maps
        /\ NextMap(i) \in Maps
BY NMapsAssumption DEF Maps, NextMap

\* Every use of bpf_object__unpin_maps goes on at a label of cmd_run.
LEMMA AfterUnpinType ==
    ASSUME NEW l \in UnpinLabels
    PROVE  /\ AfterUnpin(l) \in {"dropOwner", "pin", "giveUp", "unlinkOwner"}
           /\ AfterUnpin(l) = "unlinkOwner" <=> l = "unpin"
BY DEF UnpinLabels, AfterUnpin

\* What a process that ends, or that SIGTERM reaches, may change, and the
\* types of it.
TouchedType ==
    /\ hook \in Runs \cup {NoOne, Legacy}
    /\ rpc \in [Runs -> RunLabels] /\ idx \in [Runs -> Maps]
    /\ created \in [Runs -> BOOLEAN] /\ seen \in [Runs -> Runs \cup {NoOne}]
    /\ ownerFd \in [Runs -> BOOLEAN] /\ masked \in [Runs -> BOOLEAN]
    /\ sig \in [Runs -> {"none", "term", "kill"}]
    /\ rc \in [Procs -> Codes]

LEMMA DieType ==
    ASSUME TypeOK, NEW r \in Runs, NEW code \in Codes, Die(r, code)
    PROVE  TouchedType'
BY TypeFacts DEF TypeOK, TouchedType, Die, Goto

LEMMA DeliverTermType ==
    ASSUME TypeOK, NEW r \in Runs, DeliverTerm(r)
    PROVE  TouchedType'
<1>1. CASE masked[r]
  <2>1. sig' \in [Runs -> {"none", "term", "kill"}]
    BY <1>1 DEF TypeOK, DeliverTerm
  <2>2. UNCHANGED <<ownerFd, hook, rpc, idx, created, seen, masked, rc>>
    BY <1>1 DEF DeliverTerm
  <2>3. QED
    BY <2>1, <2>2 DEF TypeOK, TouchedType
<1>2. CASE ~masked[r]
  BY <1>2, DieType, TypeFacts DEF DeliverTerm
<1>3. QED
  BY <1>1, <1>2

\* Every step of cmd_run keeps the types, one case per system call.
LEMMA RunStepType ==
    ASSUME TypeOK, NEW r \in Runs, RunStep(r)
    PROVE  TypeOK'
<1>1. CASE RunStart(r)
    BY <1>1, TypeFacts DEF RunStart, Goto, NoClaimInProgress, fsVars,
        detachVars, clientVars, TypeOK
<1>2. CASE RunStartFails(r)
    BY <1>2, TypeFacts DEF RunStartFails, Die, detachVars, clientVars, Goto,
        TypeOK
<1>3. CASE MakePinDir(r)
    BY <1>3, TypeFacts DEF MakePinDir, At, Goto, detachVars, clientVars,
        TypeOK
<1>4. CASE MakePinDirFails(r)
    BY <1>4, TypeFacts DEF MakePinDirFails, At, Die, detachVars, clientVars,
        Goto, TypeOK
<1>5. CASE ReadOwner(r)
    BY <1>5, TypeFacts DEF ReadOwner, At, Goto, OwnerState, fsVars,
        detachVars, clientVars, TypeOK
<1>6. CASE CheckOwner(r)
    BY <1>6, TypeFacts DEF CheckOwner, At, Goto, Alive, fsVars, detachVars,
        clientVars, TypeOK
<1>7. CASE CheckDir(r)
    BY <1>7, TypeFacts DEF CheckDir, At, Goto, DirectoryIsEmpty, fsVars,
        detachVars, clientVars, Maps, TypeOK
<1>8. CASE UnpinMap(r)
  <2>1. idx[r] \in Maps /\ AfterUnpin(rpc[r]) \in RunLabels
    BY <1>8, TypeFacts, AfterUnpinType DEF UnpinMap, TypeOK
  <2>2. idx' \in [Runs -> Maps] /\ rpc' \in [Runs -> RunLabels]
    BY SMTT(30), <1>8, <2>1, TypeFacts, MapSteps DEF UnpinMap, Goto, TypeOK
  <2>3. QED
    BY <1>8, <2>2 DEF UnpinMap, detachVars, clientVars, TypeOK
<1>9. CASE DropStaleOwner(r)
    BY <1>9, TypeFacts DEF DropStaleOwner, At, Goto, UnlinkOwnerFile,
        detachVars, clientVars, TypeOK
<1>10. CASE PinMap(r)
    BY <1>10, TypeFacts, MapSteps DEF PinMap, At, Goto, detachVars,
        clientVars, TypeOK
<1>11. CASE PinMapFails(r)
    BY <1>11, TypeFacts DEF PinMapFails, At, Goto, fsVars, detachVars,
        clientVars, TypeOK
<1>12. CASE RollbackPin(r)
  <2>1. idx' \in [Runs -> Maps]
    BY <1>12, MapSteps DEF RollbackPin, TypeOK
  <2>2. pins' \in [Maps -> Runs \cup {NoOne}] /\ rpc' \in [Runs -> RunLabels]
    BY SMTT(30), <1>12, TypeFacts DEF RollbackPin, Goto, TypeOK
  <2>3. QED
    BY <1>12, <2>1, <2>2 DEF RollbackPin, detachVars, clientVars, TypeOK
<1>13. CASE GiveUp(r)
    BY <1>13, TypeFacts DEF GiveUp, At, Die, DirectoryIsEmpty, detachVars,
        clientVars, Goto, Maps, TypeOK
<1>14. CASE EnsureOwnerDir(r)
    BY <1>14, TypeFacts DEF EnsureOwnerDir, At, Goto, detachVars, clientVars,
        TypeOK
<1>15. CASE OpenOwnerFile(r)
    BY <1>15, TypeFacts DEF OpenOwnerFile, At, Goto, detachVars, clientVars,
        TypeOK
<1>16. CASE WriteOwnerFile(r)
    BY <1>16, TypeFacts DEF WriteOwnerFile, At, Goto, detachVars, clientVars,
        TypeOK
<1>17. CASE OwnerPathFails(r)
    BY <1>17, TypeFacts DEF OwnerPathFails, At, Goto, fsVars, detachVars,
        clientVars, TypeOK
<1>18. CASE WriteOwnerFails(r)
    BY <1>18, TypeFacts DEF WriteOwnerFails, At, Goto, UnlinkOwnerFile,
        detachVars, clientVars, TypeOK
<1>19. CASE Attach(r)
    BY <1>19, TypeFacts DEF Attach, At, Goto, HookFree, fsVars, detachVars,
        clientVars, TypeOK
<1>20. CASE AttachFails(r)
    BY <1>20, TypeFacts DEF AttachFails, At, Goto, fsVars, detachVars,
        clientVars, TypeOK
<1>21. CASE SigInit(r)
    BY <1>21, TypeFacts DEF SigInit, At, Goto, fsVars, detachVars,
        clientVars, TypeOK
<1>22. CASE EnterLoop(r)
    BY <1>22, TypeFacts DEF EnterLoop, At, Goto, fsVars, detachVars,
        clientVars, TypeOK
<1>23. CASE InitFails(r)
    BY <1>23, TypeFacts DEF InitFails, At, Goto, fsVars, detachVars,
        clientVars, TypeOK
<1>24. CASE LoopTerm(r)
    BY <1>24, TypeFacts DEF LoopTerm, At, Goto, fsVars, detachVars,
        clientVars, TypeOK
<1>25. CASE LoopBreak(r)
    BY <1>25, TypeFacts DEF LoopBreak, At, Goto, fsVars, detachVars,
        clientVars, TypeOK
<1>26. CASE UnpinOwnerFile(r)
    BY <1>26, TypeFacts DEF UnpinOwnerFile, At, Goto, UnlinkOwnerFile,
        detachVars, clientVars, TypeOK
<1>27. CASE UnpinOwnerDir(r)
    BY <1>27, TypeFacts DEF UnpinOwnerDir, At, Goto, RmdirOwnerDir,
        detachVars, clientVars, TypeOK
<1>28. CASE UnpinDir(r)
    BY <1>28, TypeFacts DEF UnpinDir, At, Goto, RmdirPinDir, detachVars,
        clientVars, DirectoryIsEmpty, Maps, TypeOK
<1>29. CASE CloseLink(r)
    BY <1>29, TypeFacts DEF CloseLink, At, Die, detachVars, clientVars, Goto,
        TypeOK
<1>30. QED
    BY <1>1, <1>2, <1>3, <1>4, <1>5, <1>6, <1>7, <1>8, <1>9,
        <1>10, <1>11, <1>12, <1>13, <1>14, <1>15, <1>16, <1>17, <1>18, <1>19,
        <1>20, <1>21, <1>22, <1>23, <1>24, <1>25, <1>26, <1>27, <1>28, <1>29 DEF RunStep

\* Every step of cmd_detach keeps the types; StopOwner may end the target.
LEMMA DetachStepType ==
    ASSUME TypeOK, NEW d \in Detachers, DetachStep(d)
    PROVE  TypeOK'
<1>1. CASE DetachStart(d)
    BY <1>1, TypeFacts DEF DetachStart, DGoto, NoClaimInProgress, fsVars,
        runVars, clientVars, TypeOK
<1>2. CASE DetachReadOwner(d)
    BY <1>2, TypeFacts DEF DetachReadOwner, DGoto, OwnerState, fsVars,
        runVars, clientVars, TypeOK
<1>3. CASE StopOwner(d)
  <2>1. CASE Alive(target[d])
    <3>1. DeliverTerm(target[d]) /\ target[d] \in Runs
      BY <1>3, <2>1 DEF StopOwner, Alive
    <3>2. QED
      BY SMTT(30), <1>3, <2>1, <3>1, DeliverTermType, TypeFacts DEF StopOwner, DGoto,
         clientVars, TypeOK, TouchedType
  <2>2. CASE ~Alive(target[d])
    BY SMTT(30), <1>3, <2>2, TypeFacts DEF StopOwner, DGoto, runVars, clientVars, TypeOK
  <2>3. QED
    BY <2>1, <2>2
<1>4. CASE StopOwnerFails(d)
    BY <1>4, TypeFacts DEF StopOwnerFails, DExit, Alive, fsVars, runVars,
        clientVars, DGoto, TypeOK
<1>5. CASE OwnerExited(d)
    BY <1>5, TypeFacts DEF OwnerExited, DGoto, Alive, fsVars, runVars,
        clientVars, TypeOK
<1>6. CASE KillOwner(d)
    BY <1>6, TypeFacts DEF KillOwner, DGoto, Alive, fsVars, clientVars,
        TypeOK
<1>7. CASE OwnerStillAlive(d)
    BY <1>7, TypeFacts DEF OwnerStillAlive, DExit, Alive, fsVars, runVars,
        clientVars, DGoto, TypeOK
<1>8. CASE RereadOwner(d)
    BY <1>8, TypeFacts DEF RereadOwner, DGoto, OwnerState, fsVars, runVars,
        clientVars, TypeOK
<1>9. CASE RecheckOwner(d)
    BY SMTT(30), <1>9, TypeFacts DEF RecheckOwner, DGoto, DExit, Alive, fsVars,
        runVars, clientVars, TypeOK
<1>10. CASE CleanOwnerFile(d)
    BY <1>10, TypeFacts DEF CleanOwnerFile, DGoto, UnlinkOwnerFile, runVars,
        clientVars, TypeOK
<1>11. CASE CleanOwnerDir(d)
    BY <1>11, TypeFacts DEF CleanOwnerDir, DGoto, RmdirOwnerDir, runVars,
        clientVars, Maps, TypeOK
<1>12. CASE CleanPin(d)
    BY <1>12, TypeFacts DEF CleanPin, runVars, clientVars, TypeOK
<1>13. CASE CleanPinDir(d)
    BY <1>13, TypeFacts DEF CleanPinDir, DGoto, RmdirPinDir, runVars,
        clientVars, DirectoryIsEmpty, Maps, TypeOK
<1>14. CASE CleanFails(d)
    BY <1>14, TypeFacts DEF CleanFails, DExit, fsVars, runVars, clientVars,
        CleanLabels, DGoto, TypeOK
<1>15. CASE DetachXdp(d)
    BY <1>15, TypeFacts DEF DetachXdp, DExit, DetachError, fsVars, runVars,
        clientVars, DGoto, TypeOK
<1>16. CASE DetachRefused(d)
    BY <1>16, TypeFacts DEF DetachRefused, DExit, fsVars, runVars,
        clientVars, DGoto, TypeOK
<1>17. QED
    BY <1>1, <1>2, <1>3, <1>4, <1>5, <1>6, <1>7, <1>8, <1>9,
        <1>10, <1>11, <1>12, <1>13, <1>14, <1>15, <1>16 DEF DetachStep

\* Every step of a client command keeps the types.
LEMMA ClientStepType ==
    ASSUME TypeOK, NEW c \in Clients, ClientStep(c)
    PROVE  TypeOK'
<1>1. CASE ClientReadOwner(c)
    BY <1>1, TypeFacts DEF ClientReadOwner, CGoto, OwnerState, fsVars,
        runVars, detachVars, TypeOK
<1>2. CASE ClientCheckOwner(c)
    BY SMTT(30), <1>2, TypeFacts DEF ClientCheckOwner, CGoto, CExit, Alive, fsVars,
        runVars, detachVars, TypeOK
<1>3. CASE ClientOpenMap(c)
  <2>1. PICK m \in Maps :
          IF pins[m] = NoOne
            THEN CExit(c, "fail") /\ UNCHANGED fd
            ELSE /\ fd' = [fd EXCEPT ![c] = pins[m]]
                 /\ CGoto(c, "use")
                 /\ UNCHANGED rc
    BY <1>3 DEF ClientOpenMap
  <2>2. QED
    BY SMTT(30), <1>3, <2>1, TypeFacts DEF ClientOpenMap, CGoto, CExit, fsVars, runVars,
       detachVars, TypeOK
<1>4. CASE ClientUseMap(c)
    BY <1>4, TypeFacts DEF ClientUseMap, CExit, fsVars, runVars, detachVars,
        CGoto, TypeOK
<1>5. QED
    BY <1>1, <1>2, <1>3, <1>4 DEF ClientStep

\* TypeOK is an invariant of every instance: every process stays at a label
\* of its command, every index within the maps, every pin and record a run's.
THEOREM TypeCorrect == Spec => []TypeOK
<1>1. Init => TypeOK
  <2> SUFFICES ASSUME Init PROVE TypeOK
    OBVIOUS
  <2>1. /\ pins \in [Maps -> Runs \cup {NoOne}]
        /\ rpc \in [Runs -> RunLabels] /\ idx \in [Runs -> Maps]
        /\ created \in [Runs -> BOOLEAN]
        /\ seen \in [Runs -> Runs \cup {NoOne}]
        /\ ownerFd \in [Runs -> BOOLEAN] /\ masked \in [Runs -> BOOLEAN]
        /\ sig \in [Runs -> {"none", "term", "kill"}]
    BY TypeFacts DEF Init
  <2>2. /\ dpc \in [Detachers -> DetachLabels]
        /\ target \in [Detachers -> Runs \cup {NoOne}]
        /\ left \in [Detachers -> SUBSET Maps]
    BY TypeFacts DEF Init
  <2>3. /\ cpc \in [Clients -> ClientLabels]
        /\ cseen \in [Clients -> Runs \cup {NoOne}]
        /\ fd \in [Clients -> Runs \cup {NoOne}]
        /\ deadAt \in [Clients -> SUBSET Runs]
        /\ rc \in [Procs -> Codes]
    BY TypeFacts DEF Init
  <2>4. QED
    BY <2>1, <2>2, <2>3 DEF Init, TypeOK
<1>2. TypeOK /\ [Next]_vars => TypeOK'
  <2> SUFFICES ASSUME TypeOK, [Next]_vars PROVE TypeOK'
    OBVIOUS
  <2>1. ASSUME NEW r \in Runs, RunStep(r) PROVE TypeOK'
    BY <2>1, RunStepType
  <2>2. ASSUME NEW r \in Runs, Terminate(r) PROVE TypeOK'
    BY <2>2, DeliverTermType DEF Terminate, detachVars, clientVars, TypeOK,
       TouchedType
  <2>3. ASSUME NEW r \in Runs, Crash(r) PROVE TypeOK'
    BY <2>3, TypeFacts DEF Crash, Die, Goto, detachVars, clientVars, TypeOK
  <2>4. ASSUME NEW d \in Detachers, DetachStep(d) PROVE TypeOK'
    BY <2>4, DetachStepType
  <2>5. ASSUME NEW c \in Clients, ClientStep(c) PROVE TypeOK'
    BY <2>5, ClientStepType
  <2>6. CASE UNCHANGED vars
    BY <2>6 DEF vars, fsVars, runVars, detachVars, clientVars, TypeOK
  <2>7. QED
    BY <2>1, <2>2, <2>3, <2>4, <2>5, <2>6 DEF Next
<1>3. QED
  BY <1>1, <1>2, PTL DEF Spec

\* cmd_run: only Attach takes the hook, when it is free, and only CloseLink
\* and the failures after Attach give it back.
LEMMA RunStepHook ==
    ASSUME TypeOK, HookIsHeld, NEW r \in Runs, RunStep(r)
    PROVE  HookIsHeld'
<1>1. CASE RunStart(r)
    BY <1>1, NamesAssumption DEF RunStart, Goto, fsVars, HookIsHeld,
        LinkHolders, ExitLabels, TypeOK
<1>2. CASE RunStartFails(r)
    BY <1>2, NamesAssumption DEF RunStartFails, Die, Goto, HookIsHeld,
        LinkHolders, ExitLabels, TypeOK
<1>3. CASE MakePinDir(r)
    BY <1>3, NamesAssumption DEF MakePinDir, At, Goto, HookIsHeld,
        LinkHolders, ExitLabels, TypeOK
<1>4. CASE MakePinDirFails(r)
    BY <1>4, NamesAssumption DEF MakePinDirFails, At, Die, Goto, HookIsHeld,
        LinkHolders, ExitLabels, TypeOK
<1>5. CASE ReadOwner(r)
    BY <1>5, NamesAssumption DEF ReadOwner, At, Goto, fsVars, HookIsHeld,
        LinkHolders, ExitLabels, TypeOK
<1>6. CASE CheckOwner(r)
    BY <1>6, NamesAssumption DEF CheckOwner, At, Goto, fsVars, HookIsHeld,
        LinkHolders, ExitLabels, TypeOK
<1>7. CASE CheckDir(r)
    BY <1>7, NamesAssumption DEF CheckDir, At, Goto, fsVars, HookIsHeld,
        LinkHolders, ExitLabels, TypeOK
<1>8. CASE UnpinMap(r)
    BY <1>8, AfterUnpinType DEF UnpinMap, Goto, UnpinLabels, HookIsHeld,
       LinkHolders, ExitLabels, TypeOK
<1>9. CASE DropStaleOwner(r)
    BY <1>9, NamesAssumption DEF DropStaleOwner, At, Goto, HookIsHeld,
        LinkHolders, ExitLabels, TypeOK
<1>10. CASE PinMap(r)
    BY <1>10, NamesAssumption DEF PinMap, At, Goto, HookIsHeld, LinkHolders,
        ExitLabels, TypeOK
<1>11. CASE PinMapFails(r)
    BY <1>11, NamesAssumption DEF PinMapFails, At, Goto, fsVars, HookIsHeld,
        LinkHolders, ExitLabels, TypeOK
<1>12. CASE RollbackPin(r)
    BY <1>12, NamesAssumption DEF RollbackPin, At, Goto, HookIsHeld,
        LinkHolders, ExitLabels, TypeOK
<1>13. CASE GiveUp(r)
    BY <1>13, NamesAssumption DEF GiveUp, At, Die, Goto, HookIsHeld,
        LinkHolders, ExitLabels, TypeOK
<1>14. CASE EnsureOwnerDir(r)
    BY <1>14, NamesAssumption DEF EnsureOwnerDir, At, Goto, HookIsHeld,
        LinkHolders, ExitLabels, TypeOK
<1>15. CASE OpenOwnerFile(r)
    BY <1>15, NamesAssumption DEF OpenOwnerFile, At, Goto, HookIsHeld,
        LinkHolders, ExitLabels, TypeOK
<1>16. CASE WriteOwnerFile(r)
    BY <1>16, NamesAssumption DEF WriteOwnerFile, At, Goto, HookIsHeld,
        LinkHolders, ExitLabels, TypeOK
<1>17. CASE OwnerPathFails(r)
    BY <1>17, NamesAssumption DEF OwnerPathFails, At, Goto, fsVars,
        HookIsHeld, LinkHolders, ExitLabels, TypeOK
<1>18. CASE WriteOwnerFails(r)
    BY <1>18, NamesAssumption DEF WriteOwnerFails, At, Goto, HookIsHeld,
        LinkHolders, ExitLabels, TypeOK
<1>19. CASE Attach(r)
    BY <1>19, NamesAssumption DEF Attach, At, Goto, HookFree, fsVars,
        HookIsHeld, LinkHolders, ExitLabels, TypeOK
<1>20. CASE AttachFails(r)
    BY <1>20, NamesAssumption DEF AttachFails, At, Goto, fsVars, HookIsHeld,
        LinkHolders, ExitLabels, TypeOK
<1>21. CASE SigInit(r)
    BY <1>21, NamesAssumption DEF SigInit, At, Goto, fsVars, HookIsHeld,
        LinkHolders, ExitLabels, TypeOK
<1>22. CASE EnterLoop(r)
    BY <1>22, NamesAssumption DEF EnterLoop, At, Goto, fsVars, HookIsHeld,
        LinkHolders, ExitLabels, TypeOK
<1>23. CASE InitFails(r)
    BY <1>23, NamesAssumption DEF InitFails, At, Goto, fsVars, HookIsHeld,
        LinkHolders, ExitLabels, TypeOK
<1>24. CASE LoopTerm(r)
    BY <1>24, NamesAssumption DEF LoopTerm, At, Goto, fsVars, HookIsHeld,
        LinkHolders, ExitLabels, TypeOK
<1>25. CASE LoopBreak(r)
    BY <1>25, NamesAssumption DEF LoopBreak, At, Goto, fsVars, HookIsHeld,
        LinkHolders, ExitLabels, TypeOK
<1>26. CASE UnpinOwnerFile(r)
    BY <1>26, NamesAssumption DEF UnpinOwnerFile, At, Goto, HookIsHeld,
        LinkHolders, ExitLabels, TypeOK
<1>27. CASE UnpinOwnerDir(r)
    BY <1>27, NamesAssumption DEF UnpinOwnerDir, At, Goto, HookIsHeld,
        LinkHolders, ExitLabels, TypeOK
<1>28. CASE UnpinDir(r)
    BY <1>28, NamesAssumption DEF UnpinDir, At, Goto, HookIsHeld,
        LinkHolders, ExitLabels, TypeOK
<1>29. CASE CloseLink(r)
    BY <1>29, NamesAssumption DEF CloseLink, At, Die, Goto, HookIsHeld,
        LinkHolders, ExitLabels, TypeOK
<1>30. QED
    BY <1>1, <1>2, <1>3, <1>4, <1>5, <1>6, <1>7, <1>8, <1>9,
        <1>10, <1>11, <1>12, <1>13, <1>14, <1>15, <1>16, <1>17, <1>18, <1>19,
        <1>20, <1>21, <1>22, <1>23, <1>24, <1>25, <1>26, <1>27, <1>28, <1>29 DEF RunStep

\* cmd_detach: DetachXdp leaves a link's program alone, and the SIGTERM of
\* StopOwner may end the holder, which releases the hook.
LEMMA DetachStepHook ==
    ASSUME TypeOK, HookIsHeld, NEW d \in Detachers, DetachStep(d)
    PROVE  HookIsHeld'
<1>1. CASE DetachStart(d)
    BY <1>1, NamesAssumption DEF DetachStart, DGoto, fsVars, runVars,
        HookIsHeld, LinkHolders, ExitLabels, TypeOK
<1>2. CASE DetachReadOwner(d)
    BY <1>2, NamesAssumption DEF DetachReadOwner, DGoto, fsVars, runVars,
        HookIsHeld, LinkHolders, ExitLabels, TypeOK
<1>3. CASE StopOwner(d)
    BY <1>3, NamesAssumption DEF StopOwner, DGoto, DeliverTerm, runVars, Die,
        Goto, HookIsHeld, LinkHolders, ExitLabels, TypeOK
<1>4. CASE StopOwnerFails(d)
    BY <1>4, NamesAssumption DEF StopOwnerFails, DExit, fsVars, runVars,
        DGoto, HookIsHeld, LinkHolders, ExitLabels, TypeOK
<1>5. CASE OwnerExited(d)
    BY <1>5, NamesAssumption DEF OwnerExited, DGoto, fsVars, runVars,
        HookIsHeld, LinkHolders, ExitLabels, TypeOK
<1>6. CASE KillOwner(d)
    BY <1>6, NamesAssumption DEF KillOwner, DGoto, fsVars, HookIsHeld,
        LinkHolders, ExitLabels, TypeOK
<1>7. CASE OwnerStillAlive(d)
    BY <1>7, NamesAssumption DEF OwnerStillAlive, DExit, fsVars, runVars,
        DGoto, HookIsHeld, LinkHolders, ExitLabels, TypeOK
<1>8. CASE RereadOwner(d)
    BY <1>8, NamesAssumption DEF RereadOwner, DGoto, fsVars, runVars,
        HookIsHeld, LinkHolders, ExitLabels, TypeOK
<1>9. CASE RecheckOwner(d)
    BY <1>9, NamesAssumption DEF RecheckOwner, DGoto, DExit, fsVars, runVars,
        HookIsHeld, LinkHolders, ExitLabels, TypeOK
<1>10. CASE CleanOwnerFile(d)
    BY <1>10, NamesAssumption DEF CleanOwnerFile, DGoto, runVars, HookIsHeld,
        LinkHolders, ExitLabels, TypeOK
<1>11. CASE CleanOwnerDir(d)
    BY <1>11, NamesAssumption DEF CleanOwnerDir, DGoto, runVars, HookIsHeld,
        LinkHolders, ExitLabels, TypeOK
<1>12. CASE CleanPin(d)
    BY <1>12, NamesAssumption DEF CleanPin, runVars, HookIsHeld, LinkHolders,
        ExitLabels, TypeOK
<1>13. CASE CleanPinDir(d)
    BY <1>13, NamesAssumption DEF CleanPinDir, DGoto, runVars, HookIsHeld,
        LinkHolders, ExitLabels, TypeOK
<1>14. CASE CleanFails(d)
    BY <1>14, NamesAssumption DEF CleanFails, DExit, fsVars, runVars, DGoto,
        HookIsHeld, LinkHolders, ExitLabels, TypeOK
<1>15. CASE DetachXdp(d)
    BY <1>15, NamesAssumption DEF DetachXdp, DExit, DetachError, fsVars,
        runVars, DGoto, HookIsHeld, LinkHolders, ExitLabels, TypeOK
<1>16. CASE DetachRefused(d)
    BY <1>16, NamesAssumption DEF DetachRefused, DExit, fsVars, runVars,
        DGoto, HookIsHeld, LinkHolders, ExitLabels, TypeOK
<1>17. QED
    BY <1>1, <1>2, <1>3, <1>4, <1>5, <1>6, <1>7, <1>8, <1>9,
        <1>10, <1>11, <1>12, <1>13, <1>14, <1>15, <1>16 DEF DetachStep

\* The hook is held exactly by the run between its attach and its close, in
\* every instance and whether or not claims overlap.
THEOREM HookExclusion == Spec => []HookIsHeld
<1>1. Init => HookIsHeld
  BY ZenonT(30), NamesAssumption DEF Init, HookIsHeld, LinkHolders
<1>2. TypeOK /\ HookIsHeld /\ [Next]_vars => HookIsHeld'
  <2> SUFFICES ASSUME TypeOK, HookIsHeld, [Next]_vars PROVE HookIsHeld'
    OBVIOUS
  <2>1. ASSUME NEW r \in Runs, RunStep(r) PROVE HookIsHeld'
    BY <2>1, RunStepHook
  <2>2. ASSUME NEW r \in Runs, Terminate(r) PROVE HookIsHeld'
    BY <2>2, NamesAssumption DEF Terminate, DeliverTerm, Die, Goto,
       HookIsHeld, LinkHolders, ExitLabels, TypeOK
  <2>3. ASSUME NEW r \in Runs, Crash(r) PROVE HookIsHeld'
    BY <2>3, NamesAssumption DEF Crash, Die, Goto,
       HookIsHeld, LinkHolders, ExitLabels, TypeOK
  <2>4. ASSUME NEW d \in Detachers, DetachStep(d) PROVE HookIsHeld'
    BY <2>4, DetachStepHook
  <2>5. ASSUME NEW c \in Clients, ClientStep(c) PROVE HookIsHeld'
    <3>1. UNCHANGED <<hook, rpc>>
      BY <2>5 DEF ClientStep, ClientReadOwner, ClientCheckOwner,
         ClientOpenMap, ClientUseMap, runVars
    <3>2. QED
      BY <3>1 DEF HookIsHeld
  <2>6. CASE UNCHANGED vars
    BY <2>6 DEF vars, runVars, HookIsHeld
  <2>7. QED
    BY <2>1, <2>2, <2>3, <2>4, <2>5, <2>6 DEF Next
<1>3. QED
  BY <1>1, <1>2, TypeCorrect, PTL DEF Spec

-----------------------------------------------------------------------------
(* What a record says of the run it names, without any discipline.  A step *)
(* is taken by one run, which once it has recorded itself only goes on     *)
(* towards its end; it writes no other name than its own, on its way out   *)
(* of Skeleton::pin.                                                       *)

ClaimLabels == LinkHolders \cup ExitLabels \cup {"attach", "dead"}
RecordOk(r) ==
    ownerFile = r =>
        \/ rpc[r] \in LinkHolders \cup {"attach", "unpin", "unlinkOwner"}
        \/ rpc[r] = "dead" /\ rc[r] \in {"sigterm", "killed"}

\* A step of r as the records see it.
OwnStep(r) ==
    /\ \A q \in Runs \ {r} :
         rpc'[q] = rpc[q] /\ seen'[q] = seen[q] /\ rc'[q] = rc[q]
    /\ rpc[r] \in ClaimLabels => rpc'[r] \in ClaimLabels
    /\ ownerFile' \in {ownerFile, NoOne, Empty, r}
    /\ RecordOk(r) => RecordOk(r)'
    /\ rpc'[r] = "checkOwner" =>
         \/ rpc[r] = "checkOwner" /\ seen'[r] = seen[r]
         \/ seen'[r] = ownerFile /\ ownerFile \in Runs

\* The rest of the state does not matter to them.
LEMMA OwnStepKeeps ==
    ASSUME TypeOK, TypeOK', RecordsAreClaims, NEW r \in Runs, OwnStep(r),
           \A d \in Detachers : target'[d] = target[d] /\
              (dpc'[d] = dpc[d] \/ dpc[d] = "stop")
    PROVE  RecordsAreClaims'
<1>1. \A q \in Runs : q \in Claimants => q \in Claimants'
  BY DEF OwnStep, Claimants, ClaimLabels
<1>2. \A q \in Runs : RecordOk(q)
  BY DEF RecordsAreClaims, RecordOk
<1>3. ASSUME NEW q \in Runs PROVE RecordOk(q)'
  <2>1. CASE q = r
    BY <1>2, <2>1 DEF OwnStep
  <2>2. CASE q # r
    BY <1>2, <2>2, NamesAssumption DEF OwnStep, RecordOk
  <2>3. QED
    BY <2>1, <2>2
<1>4. ASSUME NEW d \in Detachers, dpc'[d] \in {"stop", "waitTerm", "waitKill"}
      PROVE  target'[d] \in Claimants'
  BY <1>1, <1>4 DEF RecordsAreClaims, Claimants
<1>5. ASSUME NEW q \in Runs, rpc'[q] = "checkOwner" PROVE seen'[q] \in Claimants'
  <2>1. CASE rpc[q] = "checkOwner" /\ seen'[q] = seen[q]
    BY <1>1, <2>1 DEF RecordsAreClaims, Claimants
  <2>2. CASE q = r /\ seen'[r] = ownerFile /\ ownerFile \in Runs
    <3>1. ownerFile \in Claimants
      BY <2>2, <1>2 DEF RecordOk, Claimants, ExitLabels
    <3>2. QED
      BY <2>2, <3>1, <1>1
  <2>3. QED
    BY <1>5, <2>1, <2>2 DEF OwnStep
<1>6. QED
  BY <1>3, <1>4, <1>5 DEF RecordsAreClaims, RecordOk

LEMMA RunStepOwn ==
    ASSUME TypeOK, NEW r \in Runs, RunStep(r)
    PROVE  OwnStep(r) /\ UNCHANGED detachVars
<1> USE NamesAssumption DEF OwnStep, RecordOk, ClaimLabels, LinkHolders, ExitLabels
<1>1. CASE RunStart(r)
  BY <1>1 DEF RunStart, Goto, fsVars, TypeOK
<1>2. CASE RunStartFails(r)
  BY <1>2 DEF RunStartFails, Die, Goto, TypeOK
<1>3. CASE MakePinDir(r)
  BY <1>3 DEF MakePinDir, At, Goto, TypeOK
<1>4. CASE MakePinDirFails(r)
  BY <1>4 DEF MakePinDirFails, At, Die, Goto, TypeOK
<1>5. CASE ReadOwner(r)
  BY <1>5 DEF ReadOwner, At, Goto, OwnerState, fsVars, TypeOK
<1>6. CASE CheckOwner(r)
  BY <1>6 DEF CheckOwner, At, Goto, fsVars, TypeOK
<1>7. CASE CheckDir(r)
  BY <1>7 DEF CheckDir, At, Goto, fsVars, TypeOK
<1>8. CASE UnpinMap(r)
  BY <1>8 DEF UnpinMap, Goto, UnpinLabels, AfterUnpin, TypeOK
<1>9. CASE DropStaleOwner(r)
  BY <1>9 DEF DropStaleOwner, At, Goto, UnlinkOwnerFile, TypeOK
<1>10. CASE PinMap(r)
  BY <1>10 DEF PinMap, At, Goto, TypeOK
<1>11. CASE PinMapFails(r)
  BY <1>11 DEF PinMapFails, At, Goto, fsVars, TypeOK
<1>12. CASE RollbackPin(r)
  BY <1>12 DEF RollbackPin, At, Goto, TypeOK
<1>13. CASE GiveUp(r)
  BY <1>13 DEF GiveUp, At, Die, Goto, TypeOK
<1>14. CASE EnsureOwnerDir(r)
  BY <1>14 DEF EnsureOwnerDir, At, Goto, TypeOK
<1>15. CASE OpenOwnerFile(r)
  BY <1>15 DEF OpenOwnerFile, At, Goto, TypeOK
<1>16. CASE WriteOwnerFile(r)
  BY <1>16 DEF WriteOwnerFile, At, Goto, TypeOK
<1>17. CASE OwnerPathFails(r)
  BY <1>17 DEF OwnerPathFails, At, Goto, fsVars, TypeOK
<1>18. CASE WriteOwnerFails(r)
  BY <1>18 DEF WriteOwnerFails, At, Goto, UnlinkOwnerFile, TypeOK
<1>19. CASE Attach(r)
  BY <1>19 DEF Attach, At, Goto, fsVars, TypeOK
<1>20. CASE AttachFails(r)
  BY <1>20 DEF AttachFails, At, Goto, fsVars, TypeOK
<1>21. CASE SigInit(r)
  BY <1>21 DEF SigInit, At, Goto, fsVars, TypeOK
<1>22. CASE EnterLoop(r)
  BY <1>22 DEF EnterLoop, At, Goto, fsVars, TypeOK
<1>23. CASE InitFails(r)
  BY <1>23 DEF InitFails, At, Goto, fsVars, TypeOK
<1>24. CASE LoopTerm(r)
  BY <1>24 DEF LoopTerm, At, Goto, fsVars, TypeOK
<1>25. CASE LoopBreak(r)
  BY <1>25 DEF LoopBreak, At, Goto, fsVars, TypeOK
<1>26. CASE UnpinOwnerFile(r)
  BY <1>26 DEF UnpinOwnerFile, At, Goto, UnlinkOwnerFile, TypeOK
<1>27. CASE UnpinOwnerDir(r)
  BY <1>27 DEF UnpinOwnerDir, At, Goto, RmdirOwnerDir, TypeOK
<1>28. CASE UnpinDir(r)
  BY <1>28 DEF UnpinDir, At, Goto, RmdirPinDir, TypeOK
<1>29. CASE CloseLink(r)
  BY <1>29 DEF CloseLink, At, Die, Goto, TypeOK
<1>30. QED
  BY <1>1, <1>2, <1>3, <1>4, <1>5, <1>6, <1>7, <1>8, <1>9, <1>10, <1>11, <1>12, <1>13, <1>14, <1>15, <1>16, <1>17, <1>18, <1>19, <1>20, <1>21, <1>22, <1>23, <1>24, <1>25, <1>26, <1>27, <1>28, <1>29
     DEF RunStep

\* A signal ends a run at once or is left pending.
LEMMA DeliverTermOwn ==
    ASSUME TypeOK, NEW r \in Runs, DeliverTerm(r), UNCHANGED ownerFile
    PROVE  OwnStep(r)
<1> USE NamesAssumption DEF OwnStep, RecordOk, ClaimLabels, LinkHolders, ExitLabels
<1>1. CASE masked[r]
  BY <1>1 DEF DeliverTerm, TypeOK
<1>2. CASE ~masked[r]
  BY <1>2 DEF DeliverTerm, Die, Goto, Procs, TypeOK
<1>3. QED
  BY <1>1, <1>2

\* cmd_detach names as its target only what it reads, and unlinks records.
LEMMA DetachStepRecords ==
    ASSUME TypeOK, TypeOK', RecordsAreClaims, NEW d \in Detachers, DetachStep(d)
    PROVE  RecordsAreClaims'
<1>1. d \notin Runs
  BY ProcsAssumption
<1>2. CASE DetachStart(d)
  BY <1>1, <1>2, NamesAssumption
  DEF DetachStart, DGoto, fsVars, runVars, TypeOK,
      RecordsAreClaims, Claimants
<1>3. CASE DetachReadOwner(d)
  BY <1>1, <1>3, NamesAssumption
  DEF DetachReadOwner, DGoto, OwnerState, fsVars, runVars, TypeOK,
      ExitLabels, RecordsAreClaims, Claimants
<1>4. CASE StopOwner(d)
  <2>1. target[d] \in Claimants /\ dpc[d] = "stop"
    BY <1>4 DEF StopOwner, RecordsAreClaims
  <2>2. CASE Alive(target[d])
    <3>1. target[d] \in Runs /\ DeliverTerm(target[d]) /\ UNCHANGED ownerFile
      BY <1>4, <2>1, <2>2 DEF StopOwner, Claimants
    <3>2. OwnStep(target[d])
      BY <3>1, DeliverTermOwn
    <3>3. \A e \in Detachers : target'[e] = target[e] /\ (e # d => dpc'[e] = dpc[e])
      BY <1>4 DEF StopOwner, DGoto, TypeOK
    <3>4. QED
      BY <2>1, <3>1, <3>2, <3>3, OwnStepKeeps
  <2>3. CASE ~Alive(target[d])
    BY <1>4, <2>3 DEF StopOwner, DGoto, runVars, TypeOK, RecordsAreClaims, Claimants
  <2>4. QED
    BY <2>2, <2>3
<1>5. CASE StopOwnerFails(d)
  BY <1>1, <1>5, NamesAssumption
  DEF StopOwnerFails, DExit, fsVars, runVars, DGoto, TypeOK,
      RecordsAreClaims, Claimants
<1>6. CASE OwnerExited(d)
  BY <1>1, <1>6, NamesAssumption
  DEF OwnerExited, DGoto, fsVars, runVars, TypeOK,
      RecordsAreClaims, Claimants
<1>7. CASE KillOwner(d)
  BY <1>1, <1>7, NamesAssumption
  DEF KillOwner, DGoto, fsVars, TypeOK,
      RecordsAreClaims, Claimants
<1>8. CASE OwnerStillAlive(d)
  BY <1>1, <1>8, NamesAssumption
  DEF OwnerStillAlive, DExit, fsVars, runVars, DGoto, TypeOK,
      RecordsAreClaims, Claimants
<1>9. CASE RereadOwner(d)
  BY <1>1, <1>9, NamesAssumption
  DEF RereadOwner, DGoto, OwnerState, fsVars, runVars, TypeOK,
      RecordsAreClaims, Claimants
<1>10. CASE RecheckOwner(d)
  BY <1>1, <1>10, NamesAssumption
  DEF RecheckOwner, DGoto, DExit, fsVars, runVars, Procs, TypeOK,
      RecordsAreClaims, Claimants
<1>11. CASE CleanOwnerFile(d)
  BY <1>1, <1>11, NamesAssumption
  DEF CleanOwnerFile, DGoto, UnlinkOwnerFile, runVars, TypeOK,
      RecordsAreClaims, Claimants
<1>12. CASE CleanOwnerDir(d)
  BY <1>1, <1>12, NamesAssumption
  DEF CleanOwnerDir, DGoto, runVars, RmdirOwnerDir, TypeOK,
      RecordsAreClaims, Claimants
<1>13. CASE CleanPin(d)
  BY <1>1, <1>13, NamesAssumption
  DEF CleanPin, runVars, TypeOK,
      RecordsAreClaims, Claimants
<1>14. CASE CleanPinDir(d)
  BY <1>1, <1>14, NamesAssumption
  DEF CleanPinDir, DGoto, runVars, RmdirPinDir, TypeOK,
      RecordsAreClaims, Claimants
<1>15. CASE CleanFails(d)
  BY <1>1, <1>15, NamesAssumption
  DEF CleanFails, DExit, fsVars, runVars, DGoto, TypeOK,
      RecordsAreClaims, Claimants
<1>16. CASE DetachXdp(d)
  BY <1>1, <1>16, NamesAssumption
  DEF DetachXdp, DExit, fsVars, runVars, DGoto, TypeOK,
      RecordsAreClaims, Claimants
<1>17. CASE DetachRefused(d)
  BY <1>1, <1>17, NamesAssumption
  DEF DetachRefused, DExit, fsVars, runVars, DGoto, TypeOK,
      RecordsAreClaims, Claimants
<1>18. QED
  BY <1>2, <1>3, <1>4, <1>5, <1>6, <1>7, <1>8, <1>9, <1>10, <1>11, <1>12, <1>13, <1>14, <1>15, <1>16, <1>17
     DEF DetachStep

\* RecordsAreClaims: in every instance, and however the claims overlap, what a
\* detach or a second run has read in owner.pid and acts upon some system calls
\* later names a run that had finished Skeleton::pin.
THEOREM RecordsNameClaims == Spec => []RecordsAreClaims
<1>1. Init => RecordsAreClaims
  BY NamesAssumption DEF Init, RecordsAreClaims
<1>2. TypeOK /\ TypeOK' /\ RecordsAreClaims /\ [Next]_vars => RecordsAreClaims'
  <2> SUFFICES ASSUME TypeOK, TypeOK', RecordsAreClaims, [Next]_vars
               PROVE  RecordsAreClaims'
    OBVIOUS
  <2>1. ASSUME NEW r \in Runs, RunStep(r) PROVE RecordsAreClaims'
    BY <2>1, RunStepOwn, OwnStepKeeps DEF detachVars
  <2>2. ASSUME NEW r \in Runs, Terminate(r) PROVE RecordsAreClaims'
    <3>1. OwnStep(r) /\ UNCHANGED detachVars
      BY <2>2, DeliverTermOwn DEF Terminate
    <3>2. QED
      BY <3>1, OwnStepKeeps DEF detachVars
  <2>3. ASSUME NEW r \in Runs, Crash(r) PROVE RecordsAreClaims'
    <3>1. OwnStep(r) /\ UNCHANGED detachVars
      BY <2>3, NamesAssumption DEF Crash, Die, Goto, OwnStep, RecordOk,
         ClaimLabels, LinkHolders, ExitLabels, TypeOK
    <3>2. QED
      BY <3>1, OwnStepKeeps DEF detachVars
  <2>4. ASSUME NEW d \in Detachers, DetachStep(d) PROVE RecordsAreClaims'
    BY <2>4, DetachStepRecords
  <2>5. ASSUME NEW c \in Clients, ClientStep(c) PROVE RecordsAreClaims'
    <3>1. c \notin Runs /\ UNCHANGED <<ownerFile, rpc, seen, detachVars>>
      BY <2>5, ProcsAssumption DEF ClientStep, ClientReadOwner, ClientCheckOwner,
         ClientOpenMap, ClientUseMap, runVars, fsVars
    <3>2. \A r \in Runs : rc'[r] = rc[r]
      BY <2>5, <3>1 DEF ClientStep, ClientReadOwner, ClientCheckOwner,
         ClientOpenMap, ClientUseMap, CExit, CGoto, Procs, TypeOK
    <3>3. QED
      BY <3>1, <3>2 DEF RecordsAreClaims, Claimants, detachVars
  <2>6. CASE UNCHANGED vars
    BY <2>6 DEF vars, fsVars, runVars, detachVars, RecordsAreClaims, Claimants
  <2>7. QED
    BY <2>1, <2>2, <2>3, <2>4, <2>5, <2>6 DEF Next
<1>3. QED
  BY <1>1, <1>2, TypeCorrect, PTL DEF Spec

=============================================================================
