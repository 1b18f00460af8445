# K-Watch in TLA+

K-Watch loads an XDP program onto a network interface, counts and filters
packets in the kernel, streams sampled events to a user-space process, and lets
short-lived commands edit a CIDR blacklist through pinned BPF maps. This
directory holds TLA+ models of its parts and of how they meet, TLC
configurations that check them on small instances, and TLAPS proofs, for every
value of the constants, of nearly all the safety properties that the runs check.

`PROJECT.json` lists the components, the runs, the mutants that show each
property can fail, the source lines behind every definition, the findings, the
hazards and the theorems.

## Inventory

| Part | State | Operations | What is hard | What makes it correct |
|---|---|---|---|---|
| `Skeleton`, `pin_state` | bpffs pins, `/run/kwatch/<iface>/owner.pid` | `pin`, `unpin`, `cleanup_stale_state`, `is_owner_alive` | no lock; check-then-act over many system calls; death at any of them | a live run stays reachable; nothing of an orderly exit stays |
| `run` (`top` starts and ends alike) | process, signal mask | start-up, event loop, both ways out | SIGTERM before it is blocked; unpin before link close | SIGTERM ends it; what failed is undone |
| `XdpAttach` | the interface's XDP hook, a `bpf_link` | `attach`, `detach` | two runs, a netlink program, process death | one holder at a time |
| `detach` | owner read, deadlines | stop, wait, kill, clean, netlink detach | owner exits late, or a new one starts | ends; success means nothing is left |
| `block`, `unblock`, `list`, `stats` | a descriptor of a pinned map | find owner, open, edit or walk | owner changes in between; map changes during the walk | never the map of a dead run; walks are complete |
| XDP program | `pkt_counts`, `flow_state`, `blacklist`, `events`, `ringbuf_drops` | one pass per packet and CPU | unlocked read-modify-write, LRU reuse, full maps | no invented counts; every loss counted |
| `RingBuf` | budget, loss counters | `consume`, `dispatch_event` | busy records, budget | every record leaves the ring, once |
| `FlowTracker`, `FlowStateSnapshot` | `ip_stats`, scratch lists | `process_event`, `process_flow_snapshot`, `tick_and_get_blocks`, `get_expired_blocks` | eviction, TTL, stale evidence, the walk starting over | automatic entries are tracked and end |
| `top` | rows, totals, rate window | the 2 Hz tick | packets, events and operators between its system calls | rates do not wrap; edits are its own |
| `PpsWindow` | ring of rates | `push`, `copy_snapshot`, `latest` | wrap-around | the latest rates in order |
| `main`, `parse_args` | index, command, options, operands | one pass over the tokens | options anywhere, values that look like options | a line means what it says, or exits 64 |
| `parse_cidr`, loops of `block`, `unblock` | the trie, `all_ok` | one edit per operand | bad operands among good ones, host bits, a full map | every good operand takes effect; the status tells |
| `demo`, the three generators | socket, clock, port and sequence counters | check, open, pace, send | integer pacing, wrap-around, checksums | bounded traffic, right packets, loopback only |
| `App`, `cmd_top` | view, selected row, demo thread, what the process holds | keys, frames, `launch_demo`, `~App` | joins that stop the loop, rows a tick old, detach's deadline | deletes what is marked; always ends, and clean |
| Event formatting, logging, other drawing | - | - | - | not modelled, see below |

The parts meet in four places: the file system (pins and owner record) and
signals between processes, the BPF maps between kernel and user space, the ring
buffer, and the demo thread that `top` starts and joins.

## Modules

* **`Ownership`** - one interface; any number of `run`, `detach` and client
  processes. One action is one system call that another process can notice.
  `pins[m]` names the run whose map `m` is pinned, `ownerFile` the run on record
  (or `Empty`, a file that `read_owner_state` rejects: it is created by `fopen`
  before the record is written), `hook` the holder of the XDP hook. `rpc`, `dpc`
  and `cpc` are the places in `cmd_run` with `Skeleton::pin`/`unpin`, in
  `cmd_detach`, and in the client commands. A member of `Runs` is one (pid, start
  time) pair. `Crash` and `Terminate` strike anywhere. Failing system calls are
  actions of their own (`...Fails`).
  The constant `Serial` states a discipline the code does not enforce: no
  `Skeleton::pin` or `cmd_detach` starts while another is in progress. Under it
  crashes, signals and failures still strike at every system call, but no claim falls
  between the check and the unlinks of another; what then happens is shown by
  `ownership_race`, and `ownership_concurrent` checks what holds without it.
* **`XdpDataplane`** - the XDP program on several CPUs over shared maps, one
  action per helper call or plain store; the ring and its consumer. The LRU map
  is a set of slots, so that a pointer can outlive the flow it was looked up for.
* **`AutoBlock`** - the tick of `top`: copying `flow_state` key by key, scoring,
  and the blacklist edits, each a step; packets, sampled events and operators'
  edits in between. The `FlowTracker` operations are functions of `ipStats`. The
  TTL of the command line is chosen in `Init` from `Ttls`.
* **`MapReaders`** - the loops over `bpf_map_get_next_key` in `stats`, `list` and
  `top`, and the rate and its window that `top` makes of the counters. Readers do
  not affect each other, so `Init` chooses one.
* **`PathOwner`** - the abstract specification of `Ownership`: a path belongs to
  one live run or to nobody, is handed over by way of nobody, and only its owner
  streams. The refinement mapping in `Ownership` takes as owner the live run on
  record whose pins are all there (what `stats`, `list`, `block`, `unblock` and
  `detach` find by name) and as streaming the runs in their event loop.
* **`DemoTraffic`** - `run_ping_flood`, `run_udp_storm`, `run_syn_flood` as one
  thread: target check, socket, pacing, packets with their checksums word by
  word, the ways to return. Time is discrete and counts down; the thread may wake
  late, never early.
* **`CommandLine`** (extends it) - `main`, `parse_args` and `cmd_demo`, one step
  per token. What number or address a token spells is given by constants.
* **`PrefixEdit`** (extends `CommandLine`) - `parse_cidr` and the operand loops of
  `block` and `unblock` over an LPM trie of narrow addresses.
* **`Dashboard`** (extends `CommandLine`) - `cmd_top` and `App`: set-up, epoll
  batches, one key per tick, frames, `launch_demo`, the way out.
* **`Kwatch`** (extends both) - composes them to one process from its command line
  to its end, with a `detach` that sends SIGTERM and, `Grace` later, SIGKILL, and
  with other processes that edit the blacklist.
* **`MC...`** - values for the constants, model values, symmetry.
* **`Ownership_proofs`**, **`OwnershipSerial_proofs`**, **`PathOwner_proofs`**,
  **`XdpDataplane_proofs`**, **`AutoBlock_proofs`**, **`MapReaders_proofs`**,
  **`Kwatch_proofs`** - the theorems; **`NumberLemmas`** - what they share about
  the least and the greatest of a set of numbers and about recursions along `0..N`.

Code outside the repository is modelled from how it is used and marked external
in the map: `bpf_object__pin_maps` rolls back what it pinned when one pin fails;
`bpf_object__unpin_maps` stops at the first missing pin; a `bpf_link` needs a
free hook and netlink cannot remove its program (`EBUSY`); an LRU update may
evict any element even when it then fails; `bpf_map_get_next_key` starts over
when its key is gone; `ring_buffer__consume` goes on until it meets a busy
record or the end. A full LPM trie takes the replacement of an entry it has; older
kernels refuse that too (`ENOSPC`), and `block` of an entry that is there then exits
65 with the entry in place.

## Runs

| Run | Instance | Shows |
|---|---|---|
| `ownership_serial` | 2 runs, 1 detach, 1 client, 2 maps, serial | `RunningReachable`, `CleanExit`, `LiveStateRespected`, `DetachPost`, `ClientMapNotOfDead`, the inductive invariant `SerialInv`, and `ImplementsPathOwner`: the refinement of `PathOwner` |
| `ownership_concurrent` | 2 runs, 1 detach, 2 maps, free | `HookIsHeld`, `RecordsAreClaims`: with no discipline at all the kernel keeps the hook exclusive, and whoever acts on a record acts on a finished claim |
| `ownership_live` | 2 runs, 1 detach, 1 map, fair | `DetachEnds`, `TermStopsRun` |
| `dataplane_races` | 2 CPUs, 3 packets, 2 flows, 2 slots, 2 counters for 3 keys, ring of 1, window of 1, 1 blacklist edit | `CountLossBounded`, `NoPhantomSyn`, `StraySynsBounded`, `EventsAccounted` |
| `dataplane_drain` | 2 CPUs, 4 packets, ring of 2, budget of 1, fair | `RecordsConsumed` |
| `autoblock` | 2 sources, 2 packets, `flow_state` of 1, 3 instants, TTL 0 and 1, tracker limit 1, blacklist of 2, 1 operator edit | `BlacklistIsTracked`, `NoStaleReblock`, `ExpiryTakesOnlyItsOwn` |
| `readers` | `top`: 3 counters up to 3, 5 ticks, window of 2; `list`: 4 entries, 7 edits | `RateNeverWraps`, `WindowIsRecent`, `WalkIsComplete` |
| `kwatch` | all lines of up to 3 of 18 tokens, 1000 lines of `run`, 1600 of `demo`, 98 of `block` and `unblock`; sessions of `top` with the firewall keys (6 presses, 2 edits by others), the demo keys (3 presses), or those that launch two demos, set the rate and leave (4 presses); a detach | `ParsedAsWritten`, `EditsAreComplete`, `RemoteOnlyByOverride`, `TrafficIsBounded`, `PacketsVerify`, `FaultOnlyFromTop`, `DeletesWhatIsMarked`, `TopEndsClean`, `DemoRunsItsCourse`, `KilledUnpinned`, `TopEnds` |

The other runs expect a violation; each is a place where the code does not do
what the repository says (quoted in `PROJECT.json`):

| Run | What happens |
|---|---|
| `ownership_race` | two runs start together; the second unpins the first as "unowned", and a streaming run is unreachable |
| `ownership_term` | SIGTERM after pinning and before `SignalHandler::init` leaves the pins |
| `autoblock_score` | an eviction during the copy makes a flow count twice |
| `readers_stats` | `stats` skips counters once protocol 0 was seen |

### Bounds

Two runs are the least for "one died or owns, one comes"; all that
`ownership_serial` checks is proved for any number (below). Two maps are the
least for a gap between pins. Two CPUs suffice for every race of a lookup with an
update. The limits of tables (ring, counters, slots, blacklist, `ip_stats`) are
set below what the packets can fill, so that every limit is met. Time is counted
in units in which a window and a TTL are 0 or 1; the comparisons of the code
depend on the order of instants only. `MaxPackets`, `MaxTime`, `MaxEdits`,
`MaxEvents`, `MaxCount` and `MaxPasses` only bound the state space. In `kwatch` a
second has two units, one for each tick of the 2 Hz timer, a grace period is 2
units (`top` may be waiting for a demo of up to 4), `uint16_t` and `uint32_t` end
at 3 and 7, the source port wraps at 1026 and the echo sequence at 3, a screen
shows 2 of up to 3 rows, an address has 2 bits and the trie room for 2 entries:
each limit is met and passed within the bounds. The words of a packet keep their
16 bits, and the far address is chosen so that its sums carry. A session uses one
group of keys (`Sessions`), since those of the firewall and of the demos share only
the view and `q`. Processes
end and bounds run out, so deadlock is not checked. Symmetry (runs, CPUs) is used
where no temporal property is checked but `[][A]_vars`.

### Fairness

`Ownership`: a process that has started is scheduled; a run in its loop wakes up
for a pending signal, the signalfd being level-triggered in its epoll set.
Nothing makes a command start, `epoll_wait` fail, or a killed process disappear:
that last point is why `DetachEnds` needs the second deadline. `XdpDataplane`: an
XDP program runs to completion, and the loop answers a readable ring. `AutoBlock`
and `MapReaders` claim no liveness: the promise that a block ends is stated as
safety: after each tick no entry is older than its TTL. `Kwatch`: both threads
of `top` are scheduled, and time goes on. Time stands still while the main thread
has something to do: it takes milliseconds where the timers count in half
seconds. Nothing makes a key be pressed, a signal be sent or another process act.
`TopEnds` needs the fairness of the demo thread: the main thread joins it.

## Proofs

Proved for all values of the constants that meet the assumptions: any number of
processes, maps, CPUs, packets, flows, sources, tokens and keys pressed, any rate,
duration, window, TTL, grace and limit. The assumptions only say what kind of
value a constant is and are evaluated by TLC on every run; those that say more are
named below. Each proof has one step per action, or per group of actions that
leave the parts of the invariant alone.

**Ownership** (`Ownership_proofs`, `OwnershipSerial_proofs`). `TypeCorrect`.
`HookExclusion` follows from typing and the kernel's rule for links, without any
discipline. So does `RecordsNameClaims`: a run writes no other name than its own, only
when it is done pinning, and from then on it only goes towards its end, so that the
name a detach or a second run has read stays that of a claimant however late it acts
on it. `SerialInvariant`, and from it
`ReachableWhenSerial`, `CleanExitWhenSerial` and `LiveStateSafe`, assume `Serial`.
`RunningReachable` is not inductive. `SerialInv` adds: claims exclude each other
(`OneClaim`); a run from its record to its unlinking has all its pins, less those
it has itself unlinked (`HoldersOwn`); whoever is past its checks has seen every
holder there is (`HoldersSeen`), which is where one read of `owner.pid` turns out
to be enough, since holders only appear inside `Skeleton::pin`; what a run inside
`pin` has made so far (`PinProgress`); and nothing of a run that went through
its exit (`NoTrace`). Each part needs the others. The kinds of processes are
assumed disjoint, the markers no processes, and `NMaps > 0`.

**Refinement** (`PathOwner_proofs`, assuming `Serial`). `RefinesPathOwner`: the
initial states map to initial states and each of the system calls to a step of
`PathOwner` or a stutter; `SerialInv` gives that what is reachable at the path is
told by the runs' control alone (`OwnerTold`), which a step changes for one run
only. `DetachLeavesNothing` follows the detach through its clean-up (what it has
removed stays removed while its claim lasts, `DetachClears`), and `ClientMapFresh`
the clients: a dead run makes no pin, and a live recorded owner has seen to it that
no other run's pins are there, so the check of the owner made after the record was
read is enough for the later open (`ClientSafe`).

**Data plane** (`XdpDataplane_proofs`). The proofs first bound what counts packets
by the packets received: a packet is counted, stored and reported once, and the
CPUs that have yet to do so are added (`Bounds`); this is what makes `TypeOK`
inductive. `CountsAlmostExact` rests on `CountInv`: before the counter exists
nothing is lost, and the CPU that creates it loses nothing, so that at most the
others do. `SynsAreReal` rests on `SynInv`, which adds the SYNs that a CPU has
counted and not yet stored; sums over slots are cardinalities of sets of pairs, so
that the library's theorems apply. `StraysAreFew` asks whose SYNs they are: a CPU is a
stray while it holds a pointer to an element that has changed its flow, only an
eviction makes strays, and never one of the CPU that evicts; the SYNs on record of a
flow, the CPUs still to add one and the strays stay within the flow's own SYNs and the
allowance of the evictions (`StrayInv`). `NoEventUnaccounted`. Assumed: finitely many
CPUs, at least one, and at least one packet and one slot.

**Automatic blocks** (`AutoBlock_proofs`). `TimeInv`: no flow, in the map or in
the copy, was seen later than the last packet heard of its source, and nothing is
ahead of the clock. `BlockInv`: the record of a held source has the time of the
decision, one no longer held was released a TTL after it, and a flag that outlived
a block was earned by a later packet. `TrackInv`: at every point of
the tick, and apart from what operators have touched (`byHand`) and a full map has
refused (`refused`), entries and pending edits correspond to the held sources. From these `ReblockNeedsNewPacket` (which needs
a TTL of at least the window, as its property says), `OnlyExpiredAreDeleted` and
`BlacklistTracked`. The proof brought out that `MaxTime` must not be 0, since the
clock starts at 1.

**Readers** (`MapReaders_proofs`). `WalksAreComplete`: what is still to be shown lies
ahead of the cursor, although a walk whose key is deleted under it starts over
(`WalkInv`). `WindowShowsLatest`: the slot of the i-th latest rate, modulo the size
(`RingInv`). `RatesDoNotWrap`: `top` reads each counter once (`OnceInv`), and the
last and the present total are sums of two vectors of counters, of which the
present one has caught up with the last on every key read so far (`RateInv`).

**The process** (`Kwatch_proofs`). Lemmas say first what each part leaves alone of
the others' state. On them rest invariants for the configurations (`ConfigInv`), the
phases (`ProcessInv`), the way out of `top` (`WayOutInv`), the pacing (`TrafficInv`:
the packets so far have taken `SleepTime` each, less what is left of the nap), the
override (`OptionInv`: the loop of `cmd_demo` never stands at a value, unless the
scenario is spelt like an option, and then it is refused; `OverrideInv`), the rows
of the firewall view (`RowInv`) and the trie (`EditInv`: what `EditsAreComplete`
says, for the operands taken so far); `CounterInv`, `LineInv` and `ScreenInv` add the
ranges for `TypeCorrect`. They give `FaultIsFromTop`, `TopLeavesNothing`,
`DemosAreNotCutShort` (a demo that runs is joinable, and every launch and every way out
joins first), `KillFindsNoPins`, `TrafficBounded`, `RemoteNeedsOverride`, `DeleteTakesTheMarked`
and `EditsComplete`.

`PacketsAreRight` has the one's complement sum of a list of words as its centre: a
list verifies when the plain sum of its words is a positive multiple of 65535
(`Verified`). Both functions leave their sum unchanged modulo 65535 when they fold a
carry, so the checksum filled into a field that held 0 completes the sum to such a
multiple (`ChecksumVerifies`, `CsumVerifies`). For `csum` it is shown besides that
exchanging the bytes of every word multiplies the sum by 256 modulo 65535, and that
its two folds leave no carry for up to sixteen words, the longest list `run_syn_flood`
gives it. `PacketInv` adds to the property that a thread past `validate_target` has
an address to send to.

`LineMeansWhatItSays` relates a loop that skips two tokens at a time to a statement
about the whole line. `ParsedInv`: the parser never stands at a value; command and
operands so far are the words before it; and each option is what its last (for the
flags, any; for `-v`, every) occurrence before it makes it. A flag, an option with its
value and a word are each shown to carry this on (`FlagMeans`, `ValueMeans`,
`OneMoreSaid`).

Assumed for the process: the words of the addresses, the ports and the sequence
numbers have 16 bits, as their fields do; every number a token spells within `uint16_t` or
`uint32_t` is a port, or a rate and a duration; durations are bounded; the operands
spell addresses of `Bits` bits; the trie has an entry to show, and the prompts
answer with values of their field.

Induction over data is done where it is needed by taking a least counterexample
(`MinOfNats`, from the library's `WFMin`; `UpTo` states it for `0..N`): that a
recursion along `0..N` has a solution (`RecursionExists`; for `RowsUpTo`, whose step
needs its types, directly), for the sums of the words of a packet and the words of a line put together
(`FlattenSeq`); that the rows are entries; what the sums are modulo 65535; and that
the set of a line's values exists.

Every invariant and every action property that a passing run checks is thereby
proved. Only model-checked is liveness (`DetachEnds`, `TermStopsRun`,
`RecordsConsumed`, `TopEnds`), which needs fairness and ENABLED.

## What the runs say about the code

Apart from the violations above, some statements that hold are narrower than one
might expect:

* `KilledUnpinned`: detach's SIGKILL can find `top` with its maps pinned, while
  `launch_demo` waits for the demo before; SIGTERM is not read meanwhile. On the
  way out the maps are unpinned before the destructor of `App` waits.
* `FaultOnlyFromTop`: a rate of 0 typed into the demo view divides by zero and
  kills `top`; no command line leads there (PRD R3.4 asks for positive values).
* `DeletesWhatIsMarked`: a frame may mark no row (the index is corrected after
  the rows are drawn, and rows beyond the screen can be selected); `d` then
  deletes the last row or one below the screen.
* `TrafficIsBounded` is stated for rates up to 10^9; above, `sleep_ns` is 0.
* `ExpiryTakesOnlyItsOwn`: a delete goes by key, so the expiry of an automatic
  block also takes a /32 entry that an operator added for that source.
* `BlacklistIsTracked`: an automatic block that a full blacklist refuses is not
  noticed; the tracker holds the source blocked, without an entry, until its TTL.
* `StraySynsBounded`: a flow can be charged a SYN of another one whose element it was
  given, but at most one for each eviction and each other CPU.
* `EditsAreComplete`: `unblock` of the same prefix twice in a line exits 65, `block`
  exits 0.
* A run killed between two unlinks of `unpin` can leave pins behind a gap, where
  `bpf_object__unpin_maps` of the next reclaim stops; that run then fails to pin
  and exits 69 until a `detach`, which removes the entries one by one
  (`DetachPost`).
* The prompts of `top` do not wait: `nodelay` makes `getnstr` return at once, with
  what was typed ahead or with nothing. The model has both.

Plain from the code and without a run: a full ring loses the first packet of a
flow too (`emit_event`; `docs/design/ring-buffer-sampling.md` says it is always
sent), and `tests/integration/auto_block.sh` expects `run` to block automatically
where only `top` does.

## Not modelled

Event formatting, the text of help and version, logging, the sparkline and the
drawing of the views other than the firewall's (wording and layout); the list of
recent events and the order of the threat rows (display only, one thread);
`firewall_meta` (ages and drop baselines on the screen; no document says what they
count from); 32-bit wrap of the SYN sums (needs 2^32 SYNs in a window); pid reuse
between a check and a `kill`; `PpsWindow::current_average` (used by its test only);
what `inet_pton` and `stoul` accept character by character.

## Plan

1. Done: the models of all components, their runs, and the proofs above.
2. Open: what of `SerialInv` survives without `Serial`.
3. Open: composing `AutoBlock` with several CPUs of `XdpDataplane`, to see what the
   races of the window reset do to the score.
