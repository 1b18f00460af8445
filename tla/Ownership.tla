----------------------------- MODULE Ownership -----------------------------
(***************************************************************************)
(* Who owns the pinned maps of one network interface.                      *)
(*                                                                         *)
(* `kwatch run` loads the BPF object, pins its maps under                  *)
(* /sys/fs/bpf/kwatch/<iface>, records itself in                           *)
(* /run/kwatch/<iface>/owner.pid, attaches the XDP program through a       *)
(* bpf_link and streams events until SIGINT or SIGTERM, when it unpins.    *)
(* `kwatch detach` stops the recorded owner and removes what it left.      *)
(* `block`, `unblock`, `list` and `stats` reach the maps through the pins. *)
(* Nothing locks: every process reads the file system, decides, and acts   *)
(* in later system calls.  One action is one such call (bpffs, /run, the   *)
(* XDP hook, kill); processes interleave freely and die anywhere.          *)
(*                                                                         *)
(* A member of Runs is one process, that is one (pid, start time) pair:    *)
(* OwnerState compares both, so a reused pid is a different member.        *)
(***************************************************************************)
EXTENDS Integers

CONSTANTS
    Runs,        \* processes that execute cmd_run
    Detachers,   \* processes that execute cmd_detach
    Clients,     \* processes that execute cmd_block, _unblock, _list, _stats
    NMaps,       \* maps of the BPF object, pinned in this order
    NoOne,       \* no pin, no owner file, no program on the hook
    Empty,       \* an owner file that read_owner_state cannot parse
    Legacy,      \* an XDP program attached by netlink, not by a bpf_link
    Serial       \* TRUE: no Skeleton::pin or cmd_detach overlaps another one

ASSUME NMapsAssumption == NMaps \in Nat \ {0}
ASSUME SerialAssumption == Serial \in BOOLEAN
ASSUME ProcsAssumption ==
    Runs \cap Detachers = {} /\ Runs \cap Clients = {}
        /\ Detachers \cap Clients = {}
ASSUME NamesAssumption ==
    /\ Runs \cap {NoOne, Empty, Legacy} = {}
    /\ NoOne # Empty /\ NoOne # Legacy /\ Empty # Legacy

VARIABLES
    pinDir, pins,                  \* bpffs: the directory, who pinned map m
    ownerDir, ownerFile,           \* /run/kwatch/<iface> and its owner.pid
    hook,                          \* the interface's XDP hook
    rpc, idx, created, seen,       \* cmd_run: control and locals
    ownerFd,                       \* r has the file now at owner.pid open
    masked, sig,                   \* SIGTERM blocked; signal pending
    dpc, target, left,             \* cmd_detach
    cpc, cseen, fd, deadAt,        \* clients; deadAt is history
    rc                             \* exit status of every process

fsVars == <<pinDir, pins, ownerDir, ownerFile, ownerFd>>
runVars == <<rpc, idx, created, seen, masked, sig>>
detachVars == <<dpc, target, left>>
clientVars == <<cpc, cseen, fd, deadAt>>
vars == <<fsVars, hook, runVars, detachVars, clientVars, rc>>

Maps == 1..NMaps
Procs == Runs \cup Detachers \cup Clients

\* The labels of Skeleton::pin, of the rest of start-up, and of the way out.
PinLabels == {"mkdir", "readOwner", "checkOwner", "checkDir", "reclaimStale",
              "dropOwner", "reclaimUnowned", "pin", "rollback", "giveUp",
              "ownerDir", "openOwner", "writeOwner", "undoPin"}
ExitLabels == {"unpin", "unlinkOwner", "rmOwnerDir", "rmPinDir", "closeLink"}
RunLabels == {"idle", "attach", "sigInit", "init", "loop", "dead"}
                \cup PinLabels \cup ExitLabels
CleanLabels == {"cleanOwner", "cleanOwnerDir", "cleanPins"}
DetachLabels == {"idle", "read", "stop", "waitTerm", "waitKill", "reread",
                 "recheck", "netlink", "done"} \cup CleanLabels
ClientLabels == {"idle", "check", "open", "use", "done"}
\* Exit status 0; any other one (64, 65, 69, 77, 125); ended by SIGTERM or by
\* another signal.
Codes == {"none", "ok", "fail", "sigterm", "killed"}

TypeOK ==
    /\ pinDir \in BOOLEAN /\ pins \in [Maps -> Runs \cup {NoOne}]
    /\ ownerDir \in BOOLEAN /\ ownerFile \in Runs \cup {NoOne, Empty}
    /\ hook \in Runs \cup {NoOne, Legacy}
    /\ rpc \in [Runs -> RunLabels] /\ idx \in [Runs -> Maps]
    /\ created \in [Runs -> BOOLEAN] /\ seen \in [Runs -> Runs \cup {NoOne}]
    /\ ownerFd \in [Runs -> BOOLEAN] /\ masked \in [Runs -> BOOLEAN]
    /\ sig \in [Runs -> {"none", "term", "kill"}]
    /\ dpc \in [Detachers -> DetachLabels]
    /\ target \in [Detachers -> Runs \cup {NoOne}]
    /\ left \in [Detachers -> SUBSET Maps]
    /\ cpc \in [Clients -> ClientLabels]
    /\ cseen \in [Clients -> Runs \cup {NoOne}]
    /\ fd \in [Clients -> Runs \cup {NoOne}]
    /\ deadAt \in [Clients -> SUBSET Runs]
    /\ rc \in [Procs -> Codes]

Init ==
    /\ pinDir = FALSE /\ pins = [m \in Maps |-> NoOne]
    /\ ownerDir = FALSE /\ ownerFile = NoOne
    /\ hook \in {NoOne, Legacy}
    /\ rpc = [r \in Runs |-> "idle"] /\ idx = [r \in Runs |-> 1]
    /\ created = [r \in Runs |-> FALSE] /\ seen = [r \in Runs |-> NoOne]
    /\ ownerFd = [r \in Runs |-> FALSE] /\ masked = [r \in Runs |-> FALSE]
    /\ sig = [r \in Runs |-> "none"]
    /\ dpc = [d \in Detachers |-> "idle"]
    /\ target = [d \in Detachers |-> NoOne]
    /\ left = [d \in Detachers |-> {}]
    /\ cpc = [c \in Clients |-> "idle"] /\ cseen = [c \in Clients |-> NoOne]
    /\ fd = [c \in Clients |-> NoOne] /\ deadAt = [c \in Clients |-> {}]
    /\ rc = [p \in Procs |-> "none"]

-----------------------------------------------------------------------------
(* What the processes read and the system calls they share.                *)

\* is_owner_alive: a process with this pid and start time, not a zombie.
Alive(r) == r \in Runs /\ rpc[r] \notin {"idle", "dead"}

\* read_owner_state: a missing or unparsable file is an error (NoOne).
OwnerState == IF ownerFile = Empty THEN NoOne ELSE ownerFile

\* The pin directory holds no entry; a missing directory counts as empty.
DirectoryIsEmpty == \A m \in Maps : pins[m] = NoOne

\* unlink of owner.pid: whoever has the old file open now writes to no path.
UnlinkOwnerFile ==
    /\ ownerFile' = NoOne
    /\ ownerFd' = [r \in Runs |-> FALSE]

\* rmdir fails, changing nothing, while the directory has an entry.
RmdirPinDir == pinDir' = (pinDir /\ ~DirectoryIsEmpty)
RmdirOwnerDir == ownerDir' = (ownerDir /\ ownerFile # NoOne)

\* Nothing in Skeleton::pin or cmd_detach is in progress.
NoClaimInProgress ==
    /\ \A r \in Runs : rpc[r] \notin PinLabels
    /\ \A d \in Detachers : dpc[d] \in {"idle", "done"}

\* r is at label l and no SIGKILL has been sent to it.
At(r, l) == rpc[r] = l /\ sig[r] # "kill"
Goto(r, l) == rpc' = [rpc EXCEPT ![r] = l]

\* The end of a process: its locals are gone, and the kernel closes its
\* descriptors, the bpf_link among them, before it can be seen as a zombie.
Die(r, code) ==
    /\ Goto(r, "dead")
    /\ idx' = [idx EXCEPT ![r] = 1]
    /\ created' = [created EXCEPT ![r] = FALSE]
    /\ seen' = [seen EXCEPT ![r] = NoOne]
    /\ masked' = [masked EXCEPT ![r] = FALSE]
    /\ sig' = [sig EXCEPT ![r] = "none"]
    /\ hook' = IF hook = r THEN NoOne ELSE hook
    /\ ownerFd' = [ownerFd EXCEPT ![r] = FALSE]
    /\ rc' = [rc EXCEPT ![r] = code]

-----------------------------------------------------------------------------
(* cmd_run up to and including Skeleton::pin.                              *)

\* Arguments and interface are good and the BPF object loads.
RunStart(r) ==
    /\ rpc[r] = "idle"
    /\ Serial => NoClaimInProgress
    /\ Goto(r, "mkdir")
    /\ UNCHANGED <<fsVars, hook, idx, created, seen, masked, sig,
                   detachVars, clientVars, rc>>

\* No such interface (65), no permission (77) or no kernel support (69).
RunStartFails(r) ==
    /\ rpc[r] = "idle"
    /\ Die(r, "fail")
    /\ UNCHANGED <<pinDir, pins, ownerDir, ownerFile, detachVars, clientVars>>

MakePinDir(r) ==
    /\ At(r, "mkdir")
    /\ created' = [created EXCEPT ![r] = ~pinDir]
    /\ pinDir' = TRUE
    /\ Goto(r, "readOwner")
    /\ UNCHANGED <<pins, ownerDir, ownerFile, ownerFd, hook, idx, seen,
                   masked, sig, detachVars, clientVars, rc>>

\* mkdir fails with another errno than EEXIST, or the path is no directory.
MakePinDirFails(r) ==
    /\ At(r, "mkdir")
    /\ Die(r, "fail")
    /\ UNCHANGED <<pinDir, pins, ownerDir, ownerFile, detachVars, clientVars>>

ReadOwner(r) ==
    /\ At(r, "readOwner")
    /\ seen' = [seen EXCEPT ![r] = OwnerState]
    /\ Goto(r, IF OwnerState = NoOne THEN "checkDir" ELSE "checkOwner")
    /\ UNCHANGED <<fsVars, hook, idx, created, masked, sig,
                   detachVars, clientVars, rc>>

\* Mutant: a live owner is reclaimed like a dead one.
CheckOwnerSkipped(r) ==
    /\ At(r, "checkOwner")
    /\ Goto(r, "reclaimStale")
    /\ UNCHANGED <<fsVars, hook, idx, created, seen, masked, sig,
                   detachVars, clientVars, rc>>

CheckOwner(r) ==
    /\ At(r, "checkOwner")
    /\ Goto(r, IF Alive(seen[r]) THEN "giveUp" ELSE "reclaimStale")
    /\ seen' = [seen EXCEPT ![r] = NoOne]
    /\ UNCHANGED <<fsVars, hook, idx, created, masked, sig,
                   detachVars, clientVars, rc>>

CheckDir(r) ==
    /\ At(r, "checkDir")
    /\ Goto(r, IF DirectoryIsEmpty THEN "pin" ELSE "reclaimUnowned")
    /\ UNCHANGED <<fsVars, hook, idx, created, seen, masked, sig,
                   detachVars, clientVars, rc>>

\* Mutant: unpin forgets the owner file.
AfterUnpinKeepOwner(l) ==
    CASE l = "reclaimStale" -> "dropOwner"
      [] l = "reclaimUnowned" -> "pin"
      [] l = "undoPin" -> "giveUp"
      [] l = "unpin" -> "rmOwnerDir"

\* bpf_object__unpin_maps unlinks the pins by path, in order, whoever made
\* them, and returns at the first one that is missing.  Where each of the
\* four calls goes on afterwards:
UnpinLabels == {"reclaimStale", "reclaimUnowned", "undoPin", "unpin"}
AfterUnpin(l) ==
    CASE l = "reclaimStale" -> "dropOwner"
      [] l = "reclaimUnowned" -> "pin"
      [] l = "undoPin" -> "giveUp"
      [] l = "unpin" -> "unlinkOwner"

UnpinMap(r) ==
    /\ sig[r] # "kill"
    /\ rpc[r] \in UnpinLabels
    /\ pins' = [pins EXCEPT ![idx[r]] = NoOne]
    /\ IF pins[idx[r]] # NoOne /\ idx[r] < NMaps
         THEN /\ idx' = [idx EXCEPT ![r] = @ + 1]
              /\ UNCHANGED rpc
         ELSE /\ idx' = [idx EXCEPT ![r] = 1]
              /\ Goto(r, AfterUnpin(rpc[r]))
    /\ UNCHANGED <<pinDir, ownerDir, ownerFile, ownerFd, hook, created, seen,
                   masked, sig, detachVars, clientVars, rc>>

\* The stale owner's record goes after its pins.
DropStaleOwner(r) ==
    /\ At(r, "dropOwner")
    /\ UnlinkOwnerFile
    /\ Goto(r, "pin")
    /\ UNCHANGED <<pinDir, pins, ownerDir, hook, idx, created, seen, masked,
                   sig, detachVars, clientVars, rc>>

\* Mutant: the index runs past the last map.
NextMapPastEnd(i) == i + 1

\* bpf_object__for_each_map.
NextMap(i) == IF i < NMaps THEN i + 1 ELSE 1

\* One map of bpf_object__pin_maps, which makes the directory when missing.
PinMap(r) ==
    /\ At(r, "pin")
    /\ pins[idx[r]] = NoOne
    /\ pins' = [pins EXCEPT ![idx[r]] = r]
    /\ pinDir' = TRUE
    /\ idx' = [idx EXCEPT ![r] = NextMap(@)]
    /\ Goto(r, IF idx[r] < NMaps THEN "pin" ELSE "ownerDir")
    /\ UNCHANGED <<ownerDir, ownerFile, ownerFd, hook, created, seen,
                   masked, sig, detachVars, clientVars, rc>>

\* BPF_OBJ_PIN fails: EEXIST when the name is taken, or no permission.
PinMapFails(r) ==
    /\ At(r, "pin")
    /\ Goto(r, "rollback")
    /\ UNCHANGED <<fsVars, hook, idx, created, seen, masked, sig,
                   detachVars, clientVars, rc>>

\* bpf_object__pin_maps then unlinks the maps it pinned, the last one first.
RollbackPin(r) ==
    /\ At(r, "rollback")
    /\ IF idx[r] > 1
         THEN /\ pins' = [pins EXCEPT ![idx[r] - 1] = NoOne]
              /\ idx' = [idx EXCEPT ![r] = @ - 1]
              /\ UNCHANGED rpc
         ELSE /\ Goto(r, "giveUp")
              /\ UNCHANGED <<pins, idx>>
    /\ UNCHANGED <<pinDir, ownerDir, ownerFile, ownerFd, hook, created, seen,
                   masked, sig, detachVars, clientVars, rc>>

\* Every failure of Skeleton::pin ends here: a directory this call made is
\* removed when nothing is in it, cmd_run returns 69 and, pinned_path being
\* empty, the destructor of Skeleton unpins nothing.
GiveUp(r) ==
    /\ At(r, "giveUp")
    /\ pinDir' = (pinDir /\ (created[r] => ~DirectoryIsEmpty))
    /\ Die(r, "fail")
    /\ UNCHANGED <<pins, ownerDir, ownerFile, detachVars, clientVars>>

EnsureOwnerDir(r) ==
    /\ At(r, "ownerDir")
    /\ ownerDir' = TRUE
    /\ Goto(r, "openOwner")
    /\ UNCHANGED <<pinDir, pins, ownerFile, ownerFd, hook, idx, created, seen,
                   masked, sig, detachVars, clientVars, rc>>

\* Mutant: the record is there before its write can fail.
RecordedAtOnce(r) ==
    /\ At(r, "openOwner")
    /\ ownerDir
    /\ ownerFile' = r
    /\ ownerFd' = [ownerFd EXCEPT ![r] = TRUE]
    /\ Goto(r, "writeOwner")
    /\ UNCHANGED <<pinDir, pins, ownerDir, hook, idx, created, seen,
                   masked, sig, detachVars, clientVars, rc>>

\* fopen(path, "w") truncates the file that is there.
OpenOwnerFile(r) ==
    /\ At(r, "openOwner")
    /\ ownerDir
    /\ ownerFile' = Empty
    /\ ownerFd' = [ownerFd EXCEPT ![r] = TRUE]
    /\ Goto(r, "writeOwner")
    /\ UNCHANGED <<pinDir, pins, ownerDir, hook, idx, created, seen,
                   masked, sig, detachVars, clientVars, rc>>

\* fprintf buffers; fclose writes the record and closes.
WriteOwnerFile(r) ==
    /\ At(r, "writeOwner")
    /\ ownerFile' = IF ownerFd[r] THEN r ELSE ownerFile
    /\ ownerFd' = [ownerFd EXCEPT ![r] = FALSE]
    /\ Goto(r, "attach")
    /\ UNCHANGED <<pinDir, pins, ownerDir, hook, idx, created, seen,
                   masked, sig, detachVars, clientVars, rc>>

\* mkdir or fopen fails.
OwnerPathFails(r) ==
    /\ At(r, "ownerDir") \/ At(r, "openOwner")
    /\ Goto(r, "undoPin")
    /\ UNCHANGED <<fsVars, hook, idx, created, seen, masked, sig,
                   detachVars, clientVars, rc>>

\* The write or the close fails; whatever is at the path is unlinked.
WriteOwnerFails(r) ==
    /\ At(r, "writeOwner")
    /\ UnlinkOwnerFile
    /\ Goto(r, "undoPin")
    /\ UNCHANGED <<pinDir, pins, ownerDir, hook, idx, created, seen, masked,
                   sig, detachVars, clientVars, rc>>

-----------------------------------------------------------------------------
(* cmd_run from XdpAttach::attach on.                                      *)

\* Mutant: a program that another link holds is replaced.
HookNotLegacy == hook # Legacy

\* bpf_link_create needs a free hook, in whichever mode is asked for.
HookFree == hook = NoOne

Attach(r) ==
    /\ At(r, "attach")
    /\ HookFree
    /\ hook' = r
    /\ Goto(r, "sigInit")
    /\ UNCHANGED <<fsVars, idx, created, seen, masked, sig,
                   detachVars, clientVars, rc>>

\* Hook busy, mode unsupported or no permission: the destructor unpins.
AttachFails(r) ==
    /\ At(r, "attach")
    /\ rc' = [rc EXCEPT ![r] = "fail"]
    /\ Goto(r, "unpin")
    /\ UNCHANGED <<fsVars, hook, idx, created, seen, masked, sig,
                   detachVars, clientVars>>

\* SignalHandler::init blocks SIGINT and SIGTERM, to be read from a signalfd.
SigInit(r) ==
    /\ At(r, "sigInit")
    /\ masked' = [masked EXCEPT ![r] = TRUE]
    /\ Goto(r, "init")
    /\ UNCHANGED <<fsVars, hook, idx, created, seen, sig,
                   detachVars, clientVars, rc>>

\* Tick timer, ring buffer and epoll are ready: the event loop starts.
EnterLoop(r) ==
    /\ At(r, "init")
    /\ Goto(r, "loop")
    /\ UNCHANGED <<fsVars, hook, idx, created, seen, masked, sig,
                   detachVars, clientVars, rc>>

\* One of the set-up calls fails (125): destructors run in reverse order, so
\* the link is closed before Skeleton unpins.
InitFails(r) ==
    /\ At(r, "sigInit") \/ At(r, "init")
    /\ hook' = IF hook = r THEN NoOne ELSE hook
    /\ rc' = [rc EXCEPT ![r] = "fail"]
    /\ Goto(r, "unpin")
    /\ UNCHANGED <<fsVars, idx, created, seen, masked, sig,
                   detachVars, clientVars>>

\* Mutant: the signal is read and the loop goes on.
LoopTermIgnored(r) ==
    /\ At(r, "loop")
    /\ sig[r] = "term"
    /\ sig' = [sig EXCEPT ![r] = "none"]
    /\ UNCHANGED <<fsVars, hook, rpc, idx, created, seen, masked,
                   detachVars, clientVars, rc>>

\* The loop ends on a signal read from the signalfd ...
LoopTerm(r) ==
    /\ At(r, "loop")
    /\ sig[r] = "term"
    /\ rc' = [rc EXCEPT ![r] = "ok"]
    /\ Goto(r, "unpin")
    /\ UNCHANGED <<fsVars, hook, idx, created, seen, masked, sig,
                   detachVars, clientVars>>

\* ... or when epoll_wait fails, with the same status.
LoopBreak(r) ==
    /\ At(r, "loop")
    /\ rc' = [rc EXCEPT ![r] = "ok"]
    /\ Goto(r, "unpin")
    /\ UNCHANGED <<fsVars, hook, idx, created, seen, masked, sig,
                   detachVars, clientVars>>

\* Skeleton::unpin: the pins (UnpinMap), the record, the two directories.
UnpinOwnerFile(r) ==
    /\ At(r, "unlinkOwner")
    /\ UnlinkOwnerFile
    /\ Goto(r, "rmOwnerDir")
    /\ UNCHANGED <<pinDir, pins, ownerDir, hook, idx, created, seen, masked,
                   sig, detachVars, clientVars, rc>>

UnpinOwnerDir(r) ==
    /\ At(r, "rmOwnerDir")
    /\ RmdirOwnerDir
    /\ Goto(r, "rmPinDir")
    /\ UNCHANGED <<pinDir, pins, ownerFile, ownerFd, hook, idx, created, seen,
                   masked, sig, detachVars, clientVars, rc>>

UnpinDir(r) ==
    /\ At(r, "rmPinDir")
    /\ RmdirPinDir
    /\ Goto(r, "closeLink")
    /\ UNCHANGED <<pins, ownerDir, ownerFile, ownerFd, hook, idx, created,
                   seen, masked, sig, detachVars, clientVars, rc>>

\* XdpAttach's destructor, when the link is still open, and the end of main.
CloseLink(r) ==
    /\ At(r, "closeLink")
    /\ Die(r, rc[r])
    /\ UNCHANGED <<pinDir, pins, ownerDir, ownerFile, detachVars, clientVars>>

-----------------------------------------------------------------------------
(* Signals and crashes.                                                    *)

\* SIGTERM is left pending once it is blocked, and until then it kills.
DeliverTerm(r) ==
    IF masked[r]
      THEN /\ sig' = [sig EXCEPT ![r] = IF @ = "none" THEN "term" ELSE @]
           /\ UNCHANGED <<ownerFd, hook, rpc, idx, created, seen, masked, rc>>
      ELSE Die(r, "sigterm")

\* kill -TERM, timeout(1) or Ctrl-C.
Terminate(r) ==
    /\ Alive(r)
    /\ DeliverTerm(r)
    /\ UNCHANGED <<pinDir, pins, ownerDir, ownerFile, detachVars, clientVars>>

\* A fatal signal (SIGSEGV, the OOM killer, SIGKILL) at any point.
Crash(r) ==
    /\ Alive(r)
    /\ Die(r, "killed")
    /\ UNCHANGED <<pinDir, pins, ownerDir, ownerFile, detachVars, clientVars>>

RunStep(r) ==
    \/ RunStart(r) \/ RunStartFails(r)
    \/ MakePinDir(r) \/ MakePinDirFails(r)
    \/ ReadOwner(r) \/ CheckOwner(r) \/ CheckDir(r)
    \/ UnpinMap(r) \/ DropStaleOwner(r)
    \/ PinMap(r) \/ PinMapFails(r) \/ RollbackPin(r) \/ GiveUp(r)
    \/ EnsureOwnerDir(r) \/ OpenOwnerFile(r) \/ WriteOwnerFile(r)
    \/ OwnerPathFails(r) \/ WriteOwnerFails(r)
    \/ Attach(r) \/ AttachFails(r)
    \/ SigInit(r) \/ EnterLoop(r) \/ InitFails(r)
    \/ LoopTerm(r) \/ LoopBreak(r)
    \/ UnpinOwnerFile(r) \/ UnpinOwnerDir(r) \/ UnpinDir(r) \/ CloseLink(r)

-----------------------------------------------------------------------------
(* cmd_detach.                                                             *)

DGoto(d, l) == dpc' = [dpc EXCEPT ![d] = l]
DExit(d, code) == DGoto(d, "done") /\ rc' = [rc EXCEPT ![d] = code]

DetachStart(d) ==
    /\ dpc[d] = "idle"
    /\ Serial => NoClaimInProgress
    /\ DGoto(d, "read")
    /\ UNCHANGED <<fsVars, hook, runVars, target, left, clientVars, rc>>

DetachReadOwner(d) ==
    /\ dpc[d] = "read"
    /\ target' = [target EXCEPT ![d] = OwnerState]
    /\ DGoto(d, IF OwnerState = NoOne THEN "reread" ELSE "stop")
    /\ UNCHANGED <<fsVars, hook, runVars, left, clientVars, rc>>

\* stop_owner_process: SIGTERM, unless the owner is gone by now.
StopOwner(d) ==
    /\ dpc[d] = "stop"
    /\ IF Alive(target[d])
         THEN /\ DeliverTerm(target[d])
              /\ DGoto(d, "waitTerm")
         ELSE /\ DGoto(d, "reread")
              /\ UNCHANGED <<ownerFd, hook, runVars, rc>>
    /\ UNCHANGED <<pinDir, pins, ownerDir, ownerFile, target, left,
                   clientVars>>

\* kill fails with EPERM (77) or otherwise (69).
StopOwnerFails(d) ==
    /\ dpc[d] \in {"stop", "waitTerm"}
    /\ Alive(target[d])
    /\ DExit(d, "fail")
    /\ UNCHANGED <<fsVars, hook, runVars, target, left, clientVars>>

\* wait_for_owner_exit sees the owner gone, within 2 s or, killed, 1 s.
OwnerExited(d) ==
    /\ dpc[d] \in {"waitTerm", "waitKill"}
    /\ ~Alive(target[d])
    /\ DGoto(d, "reread")
    /\ UNCHANGED <<fsVars, hook, runVars, target, left, clientVars, rc>>

\* Two seconds have passed.
KillOwner(d) ==
    /\ dpc[d] = "waitTerm"
    /\ Alive(target[d])
    /\ sig' = [sig EXCEPT ![target[d]] = "kill"]
    /\ DGoto(d, "waitKill")
    /\ UNCHANGED <<fsVars, hook, rpc, idx, created, seen, masked,
                   target, left, clientVars, rc>>

\* Mutant: the second wait has no limit.
WaitForever(d) == FALSE

\* A third second has passed: "owner still alive".
OwnerStillAlive(d) ==
    /\ dpc[d] = "waitKill"
    /\ Alive(target[d])
    /\ DExit(d, "fail")
    /\ UNCHANGED <<fsVars, hook, runVars, target, left, clientVars>>

\* cleanup_stale_state reads the record again.
RereadOwner(d) ==
    /\ dpc[d] = "reread"
    /\ target' = [target EXCEPT ![d] = OwnerState]
    /\ DGoto(d, "recheck")
    /\ UNCHANGED <<fsVars, hook, runVars, left, clientVars, rc>>

RecheckOwner(d) ==
    /\ dpc[d] = "recheck"
    /\ IF Alive(target[d])
         THEN DExit(d, "fail")
         ELSE DGoto(d, "cleanOwner") /\ UNCHANGED rc
    /\ target' = [target EXCEPT ![d] = NoOne]
    /\ UNCHANGED <<fsVars, hook, runVars, left, clientVars>>

CleanOwnerFile(d) ==
    /\ dpc[d] = "cleanOwner"
    /\ UnlinkOwnerFile
    /\ DGoto(d, "cleanOwnerDir")
    /\ UNCHANGED <<pinDir, pins, ownerDir, hook, runVars, target, left,
                   clientVars, rc>>

CleanOwnerDir(d) ==
    /\ dpc[d] = "cleanOwnerDir"
    /\ RmdirOwnerDir
    /\ left' = [left EXCEPT ![d] = Maps]
    /\ DGoto(d, "cleanPins")
    /\ UNCHANGED <<pinDir, pins, ownerFile, ownerFd, hook, runVars, target,
                   clientVars, rc>>

\* remove_dir_entries, in readdir's order: by name, whoever pinned them.
CleanPin(d) ==
    /\ dpc[d] = "cleanPins"
    /\ \E m \in left[d] :
         /\ pins' = [pins EXCEPT ![m] = NoOne]
         /\ left' = [left EXCEPT ![d] = @ \ {m}]
    /\ UNCHANGED <<pinDir, ownerDir, ownerFile, ownerFd, hook, runVars, dpc,
                   target, clientVars, rc>>

CleanPinDir(d) ==
    /\ dpc[d] = "cleanPins"
    /\ left[d] = {}
    /\ RmdirPinDir
    /\ DGoto(d, "netlink")
    /\ UNCHANGED <<pins, ownerDir, ownerFile, ownerFd, hook, runVars, target,
                   left, clientVars, rc>>

\* An unlink or rmdir fails with an errno cleanup_stale_state does not take.
CleanFails(d) ==
    /\ dpc[d] \in CleanLabels
    /\ DExit(d, "fail")
    /\ UNCHANGED <<fsVars, hook, runVars, target, left, clientVars>>

\* Mutant: EBUSY is ignored like EINVAL or ENOENT.
DetachErrorIgnored == FALSE

\* bpf_xdp_detach in each mode: the kernel answers EBUSY for a program that
\* a bpf_link holds, which is_ignorable_detach_error does not take, and
\* removes any other program.
DetachError == hook \in Runs

DetachXdp(d) ==
    /\ dpc[d] = "netlink"
    /\ hook' = IF hook = Legacy THEN NoOne ELSE hook
    /\ DExit(d, IF DetachError THEN "fail" ELSE "ok")
    /\ UNCHANGED <<fsVars, runVars, target, left, clientVars>>

\* No such interface (65), at the start, or no CAP_NET_ADMIN (77), here.
DetachRefused(d) ==
    /\ dpc[d] \in {"idle", "netlink"}
    /\ DExit(d, "fail")
    /\ UNCHANGED <<fsVars, hook, runVars, target, left, clientVars>>

DetachStep(d) ==
    \/ DetachStart(d) \/ DetachReadOwner(d) \/ StopOwner(d)
    \/ StopOwnerFails(d) \/ OwnerExited(d) \/ KillOwner(d)
    \/ OwnerStillAlive(d) \/ RereadOwner(d) \/ RecheckOwner(d)
    \/ CleanOwnerFile(d) \/ CleanOwnerDir(d) \/ CleanPin(d) \/ CleanPinDir(d)
    \/ CleanFails(d) \/ DetachXdp(d) \/ DetachRefused(d)

-----------------------------------------------------------------------------
(* block, unblock, list, stats: find the owner, open its map, use it.      *)

CGoto(c, l) == cpc' = [cpc EXCEPT ![c] = l]
CExit(c, code) == CGoto(c, "done") /\ rc' = [rc EXCEPT ![c] = code]

ClientReadOwner(c) ==
    /\ cpc[c] = "idle"
    /\ cseen' = [cseen EXCEPT ![c] = OwnerState]
    /\ deadAt' = [deadAt EXCEPT ![c] = {r \in Runs : rpc[r] = "dead"}]
    /\ CGoto(c, "check")
    /\ UNCHANGED <<fsVars, hook, runVars, detachVars, fd, rc>>

\* Mutant: any recorded owner will do, dead or alive.
ClientCheckSkipped(c) ==
    /\ cpc[c] = "check"
    /\ IF cseen[c] # NoOne
         THEN CGoto(c, "open") /\ UNCHANGED rc
         ELSE CExit(c, "fail")
    /\ UNCHANGED <<fsVars, hook, runVars, detachVars, cseen, fd, deadAt>>

ClientCheckOwner(c) ==
    /\ cpc[c] = "check"
    /\ IF Alive(cseen[c])
         THEN CGoto(c, "open") /\ UNCHANGED rc
         ELSE CExit(c, "fail")
    /\ UNCHANGED <<fsVars, hook, runVars, detachVars, cseen, fd, deadAt>>

\* bpf_obj_get of the one map the command needs.
ClientOpenMap(c) ==
    /\ cpc[c] = "open"
    /\ \E m \in Maps :
         IF pins[m] = NoOne
           THEN CExit(c, "fail") /\ UNCHANGED fd
           ELSE /\ fd' = [fd EXCEPT ![c] = pins[m]]
                /\ CGoto(c, "use")
                /\ UNCHANGED rc
    /\ UNCHANGED <<fsVars, hook, runVars, detachVars, cseen, deadAt>>

\* The map operations, all done (0) or some refused (65).
ClientUseMap(c) ==
    /\ cpc[c] = "use"
    /\ \E code \in {"ok", "fail"} : CExit(c, code)
    /\ UNCHANGED <<fsVars, hook, runVars, detachVars, cseen, fd, deadAt>>

ClientStep(c) ==
    ClientReadOwner(c) \/ ClientCheckOwner(c) \/ ClientOpenMap(c)
        \/ ClientUseMap(c)

-----------------------------------------------------------------------------
Next ==
    \/ \E r \in Runs : RunStep(r) \/ Terminate(r) \/ Crash(r)
    \/ \E d \in Detachers : DetachStep(d)
    \/ \E c \in Clients : ClientStep(c)

Spec == Init /\ [][Next]_vars

\* The kernel schedules every runnable process; a run in its event loop wakes
\* up for a pending signal (the signalfd is level-triggered in the epoll set).
\* Nothing makes a command start, a client finish, epoll_wait fail or a
\* killed process that sits in the kernel disappear.
RunProgress(r) ==
    /\ rpc[r] # "idle"
    /\ rpc[r] = "loop" => sig[r] = "term"
    /\ RunStep(r)
DetachProgress(d) == dpc[d] # "idle" /\ DetachStep(d)

Fairness ==
    /\ \A r \in Runs : WF_vars(RunProgress(r))
    /\ \A d \in Detachers : WF_vars(DetachProgress(d))

FairSpec == Spec /\ Fairness

-----------------------------------------------------------------------------
(* Properties that hold however the processes interleave.                  *)

\* Between XdpAttach::attach and the close of the link, and only then, the
\* hook is the run's: the kernel, not the owner file, is what keeps two runs
\* from filtering one interface, and no detach takes a live run's program.
LinkHolders == {"sigInit", "init", "loop"}
HookIsHeld ==
    \A r \in Runs :
        /\ rpc[r] \in LinkHolders => hook = r
        /\ hook = r => rpc[r] \in LinkHolders \cup ExitLabels

\* Runs that have recorded themselves, whatever has become of them.
Claimants ==
    {r \in Runs : rpc[r] \in LinkHolders \cup ExitLabels \cup {"attach", "dead"}}

\* A record leads to a run that holds the path or that a signal cut short,
\* never to one that is still inside Skeleton::pin or that let go in order.
\* So, although detach signals the owner it read some system calls ago, and
\* a second run gives way to it or takes over from it as late, neither acts
\* on a half-made claim: no detach cuts a run short between its first pin
\* and its record.
RecordsAreClaims ==
    /\ \A r \in Runs : ownerFile = r =>
         \/ rpc[r] \in LinkHolders \cup {"attach", "unpin", "unlinkOwner"}
         \/ rpc[r] = "dead" /\ rc[r] \in {"sigterm", "killed"}
    /\ \A d \in Detachers :
         dpc[d] \in {"stop", "waitTerm", "waitKill"} => target[d] \in Claimants
    /\ \A r \in Runs : rpc[r] = "checkOwner" => seen[r] \in Claimants

\* cmd_detach ends, whatever the owner does: its waits are bounded.
DetachEnds == \A d \in Detachers : dpc[d] = "read" ~> dpc[d] = "done"

\* A SIGTERM that the signalfd has taken ends the run, unless a SIGKILL
\* overtakes it.
TermStopsRun ==
    \A r \in Runs :
        sig[r] = "term" ~> (rpc[r] = "dead" \/ sig[r] = "kill")

-----------------------------------------------------------------------------
(* Properties of the Serial regime: runs may stop and crash at any point   *)
(* and clients come and go, but no two claims of the pin path overlap.     *)

\* While a run streams, its maps are reachable by the pins and it is the
\* recorded owner, so that list, block, unblock, stats and detach find it.
RunningReachable ==
    \A r \in Runs : rpc[r] = "loop" =>
        ownerFile = r /\ \A m \in Maps : pins[m] = r

\* A live run's pins and record go by its own hand only: a second run that
\* reclaims the path, or a detach that cleans it, never takes them.
LiveStateRespected ==
    [][\A r \in Runs : Alive(r) =>
         /\ (\E m \in Maps : pins[m] = r /\ pins'[m] # r)
              => rpc[r] \in {"rollback", "undoPin", "unpin"}
         /\ ownerFile = r /\ ownerFile' # r => rpc[r] = "unlinkOwner"]_vars

\* A run that returns from cmd_run, with any status, leaves no pin and no
\* record of its own behind, even when its start-up failed half way.
CleanExit ==
    \A r \in Runs : rpc[r] = "dead" /\ rc[r] \notin {"sigterm", "killed"} =>
        ownerFile # r /\ \A m \in Maps : pins[m] # r

\* A detach that reports success has left nothing: no program on the hook,
\* no pin, no record, whichever point the owner had reached or died at.
DetachPost ==
    [][\A d \in Detachers : dpc[d] # "done" /\ dpc'[d] = "done" /\ rc'[d] = "ok"
         => /\ hook' = NoOne /\ ownerFile' = NoOne /\ ~pinDir'
            /\ \A m \in Maps : pins'[m] = NoOne]_vars

\* The map a client opened belongs to a run that was alive when, or after,
\* the client read the owner record; never to one already dead by then.
ClientMapNotOfDead ==
    \A c \in Clients : fd[c] \notin deadAt[c]

\* The run that a command finds by name: it is on record, it is alive, and
\* every pin leads to a map of its own.
Reachable ==
    IF /\ ownerFile \in Runs /\ Alive(ownerFile)
       /\ \A m \in Maps : pins[m] = ownerFile
      THEN ownerFile
      ELSE NoOne

Abstract == INSTANCE PathOwner WITH
    owner <- Reachable, streaming <- {r \in Runs : rpc[r] = "loop"}

\* The dozen system calls of Skeleton::pin, Skeleton::unpin and cmd_detach,
\* cut short by crashes anywhere, amount to claims and releases of a path
\* that has one owner at a time: the record is written last and the first
\* pin is unlinked first, so no half-made claim is ever found.
ImplementsPathOwner == Abstract!Spec

-----------------------------------------------------------------------------
(* The inductive invariant behind the properties of the Serial regime.     *)

\* Labels at which a run is the recorded owner, and labels of Skeleton::pin
\* past its checks, where it unlinks or makes names under the pin path.
Holding == {"attach", "sigInit", "init", "loop", "unpin", "unlinkOwner"}
Taking == PinLabels \ {"mkdir", "readOwner", "checkOwner", "giveUp"}

\* Labels at which a run has put nothing of its own on the file system.
Traceless == {"idle", "mkdir", "readOwner", "checkOwner", "checkDir",
              "reclaimStale", "dropOwner", "reclaimUnowned", "giveUp",
              "rmOwnerDir", "rmPinDir", "closeLink"}

\* Claims exclude each other.
OneClaim ==
    /\ \A r, q \in Runs :
         rpc[r] \in PinLabels /\ rpc[q] \in PinLabels => r = q
    /\ \A r \in Runs, d \in Detachers :
         rpc[r] \in PinLabels => dpc[d] \in {"idle", "done"}
    /\ \A d, e \in Detachers :
         dpc[d] \notin {"idle", "done"} /\ dpc[e] \notin {"idle", "done"}
            => d = e

\* A holder's record and pins are in place, less what it has unpinned.
HoldersOwn ==
    \A r \in Runs : rpc[r] \in Holding =>
        /\ ownerFile = r
        /\ \A m \in Maps :
             IF rpc[r] = "unlinkOwner" \/ (rpc[r] = "unpin" /\ m < idx[r])
               THEN pins[m] = NoOne
               ELSE pins[m] = r

\* Whoever is about to take the path has seen every holder there is.
HoldersSeen ==
    /\ \A q, r \in Runs : rpc[r] \in Holding =>
         /\ rpc[q] \notin Taking
         /\ rpc[q] = "checkOwner" => r = seen[q]
    /\ \A d \in Detachers, r \in Runs : rpc[r] \in Holding =>
         /\ dpc[d] \notin CleanLabels
         /\ dpc[d] = "recheck" => r = target[d]

\* What a run inside Skeleton::pin has made so far.
PinProgress ==
    \A r \in Runs :
        /\ rpc[r] \in {"pin", "rollback"} => \A m \in Maps :
             IF m < idx[r] THEN pins[m] = r ELSE pins[m] # r
        /\ rpc[r] \in {"ownerDir", "openOwner", "writeOwner"} =>
             \A m \in Maps : pins[m] = r
        /\ rpc[r] = "undoPin" => \A m \in Maps :
             IF m < idx[r] THEN pins[m] = NoOne ELSE pins[m] = r
        /\ rpc[r] = "writeOwner" => ownerFile = Empty /\ ownerFd[r]
        /\ rpc[r] \in PinLabels => ownerFile # r
        /\ rpc[r] \notin UnpinLabels \cup {"pin", "rollback"}
             => idx[r] = 1

\* No pin and no record outlives its maker's orderly way out.
NoTrace ==
    \A r \in Runs :
        \/ rpc[r] \in Traceless
        \/ rpc[r] = "dead" /\ rc[r] \notin {"sigterm", "killed"}
        => ownerFile # r /\ \A m \in Maps : pins[m] # r

\* The conjunction: each part needs the others to be preserved.  It is what
\* makes the one read of owner.pid in Skeleton::pin enough.
SerialInv ==
    OneClaim /\ HoldersOwn /\ HoldersSeen /\ PinProgress /\ NoTrace

-----------------------------------------------------------------------------
(* What the repository says and the code does not do.                      *)

\* PRD R4.5: `timeout` or `kill -TERM` stops `kwatch run` and unpins maps.
\* A run that SIGTERM ended leaves no pins.  The code blocks SIGTERM only
\* after pinning and attaching.
TermUnpins ==
    \A r \in Runs : rpc[r] = "dead" /\ rc[r] = "sigterm" =>
        \A m \in Maps : pins[m] # r

=============================================================================
