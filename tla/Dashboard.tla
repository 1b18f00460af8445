----------------------------- MODULE Dashboard -----------------------------
(***************************************************************************)
(* cmd_top and class App: the main thread of `kwatch top`.  It waits in    *)
(* epoll_wait; a tick handles one key and draws a frame, a signal ends the *)
(* loop.  A key may start a demo in a second thread, after joining the one *)
(* before: until that one returns the loop stands still.  The way out      *)
(* unpins first and then joins, in the destructor of App.                  *)
(*                                                                         *)
(* What the tick does with flow_state is in AutoBlock, its counters are in *)
(* MapReaders, the system calls of pinning in Ownership.  A prompt answers *)
(* at once, with what was typed ahead or with nothing.                     *)
(***************************************************************************)
EXTENDS CommandLine

CONSTANTS
    Entries,      \* prefixes, in the order in which the trie hands them out
    Height,       \* rows of the firewall view that fit the screen
    TuiRate,      \* 50, App's rate_pps
    Typed,        \* what the prompts of t, o, r and d may be answered with
    Sessions,     \* bound: the keys an operator uses in one session, and how often
    MaxEdits      \* bound: edits by other processes

ASSUME DashboardAssumption ==
    /\ Entries \in Seq(ToSet(Entries)) /\ Entries # << >>
    /\ Height \in Nat /\ TuiRate \in Rates /\ MaxEdits \in Nat
    /\ DOMAIN Typed \subseteq {"target", "port", "rate", "duration"}
    /\ \A f \in DOMAIN Typed : /\ f = "port" => Typed[f] \subseteq Ports
                               /\ f = "rate" => Typed[f] \subseteq Rates
                               /\ f = "duration" => Typed[f] \subseteq Durations
    /\ \A s \in Sessions : s.presses \in Nat

VARIABLES
    main,                     \* where cmd_top is; "off" in other commands
    running, view, selected,  \* App::running, current_view, firewall_selected_index
    blacklist, rows, frame,   \* the map, firewall_rows, what the screen shows
    tui,                      \* App::demo_cfg
    launching, joinable,      \* launch_demo's argument, demo_thread.joinable()
    term, tickDue, batch,     \* SIGTERM pending, timer expired, ep_events
    held,                     \* what the process holds: pins, screen, link
    session, keys, edits      \* bounds

topVars == <<main, running, view, selected, blacklist, rows, frame, tui,
             launching, joinable, term, tickDue, batch, held,
             session, keys, edits>>
\* What a key other than those of the firewall view, or a draw, leaves alone.
loopVars == <<joinable, term, held, session, edits>>

Views == {"dashboard", "threats", "firewall", "demos"}
NoFrame == [view |-> "none", rows |-> << >>, marked |-> 0]

TopInit ==
    /\ main = "off" /\ running = TRUE /\ view = "dashboard" /\ selected = 0
    /\ blacklist = {} /\ rows = << >> /\ frame = NoFrame
    /\ tui = [DemoDefaults EXCEPT !.rate = TuiRate]
    /\ launching = "none" /\ joinable = FALSE
    /\ term = FALSE /\ tickDue = FALSE /\ batch = {} /\ held = {}
    /\ session = [keys |-> {}, presses |-> 0] /\ keys = 0 /\ edits = 0

-----------------------------------------------------------------------------
(* Start.                                                                  *)

\* refresh_firewall_snapshot: one row per entry, in the trie's order.
RowsUpTo[n \in 0..Len(Entries)] ==
    IF n = 0 THEN << >>
    ELSE IF Entries[n] \in blacklist THEN Append(RowsUpTo[n - 1], Entries[n])
    ELSE RowsUpTo[n - 1]
FirewallRows == RowsUpTo[Len(Entries)]

\* App::render.  A row is marked when it is the selected one and fits.
Drawn(v, r) ==
    [view |-> v, rows |-> IF v = "firewall" THEN r ELSE << >>,
     marked |-> IF v = "firewall" /\ selected < Len(r) /\ selected < Height
                  THEN selected + 1 ELSE 0]

\* The index is put right only after the rows have been drawn.
Clamped(v, r) ==
    IF v = "firewall" /\ selected >= Len(r) /\ r # << >> THEN Len(r) - 1
    ELSE selected

\* cmd_top has its one argument: main's switch calls it.  What the line said
\* is of no more consequence here.
TopBegin ==
    /\ phase = "dispatch" /\ UsageOk /\ cmd = "top"
    /\ phase' = "top" /\ main' = "setup"
    /\ argv' = << >> /\ args' = << >> /\ at' = 1 /\ globals' = Defaults
    /\ session' \in Sessions
    /\ UNCHANGED <<cmd, cfg, rc, running, view, selected, blacklist, rows, frame,
                   tui, launching, joinable, term, tickDue, batch, held, keys,
                   edits>>

\* Load, pin, attach, signals, timer, ring, App::init, epoll, first frame.
TopReady ==
    /\ main = "setup"
    /\ main' = "wait" /\ held' = {"pins", "link", "screen"}
    /\ rows' = FirewallRows /\ frame' = Drawn(view, FirewallRows)
    /\ selected' = Clamped(view, FirewallRows)
    /\ UNCHANGED <<cliVars, running, view, blacklist, tui, launching, joinable,
                   term, tickDue, batch, session, keys, edits>>

\* No interface, no support, no permission, or a later call fails; the
\* destructors undo what was done (Ownership has their steps).
TopFails ==
    /\ main = "setup"
    /\ main' = "dead" /\ \E code \in {65, 69, 77, 125} : Exit(code)
    /\ UNCHANGED <<argv, at, cmd, globals, args, cfg, running, view, selected,
                   blacklist, rows, frame, tui, launching, tickDue, batch, keys,
                   loopVars>>

-----------------------------------------------------------------------------
(* The event loop.                                                         *)

\* Mutant: the pins are left to the destructor of Skeleton.
WayOutByDestructor(l) ==
    CASE l = "loop" -> "join" [] l = "join" -> "endwin"
      [] l = "endwin" -> "unpin" [] l = "unpin" -> "close"

\* The way out of the loop: unpin, and then the destructors.
WayOut(l) ==
    CASE l = "loop" -> "unpin" [] l = "unpin" -> "join"
      [] l = "join" -> "endwin" [] l = "endwin" -> "close"

\* Mutant: the signalfd is not in the epoll set.
TickOnly == IF tickDue THEN {"tick"} ELSE {}

\* The descriptors of the epoll set with something to read.
Ready == {x \in {"signal", "tick"} :
            (x = "signal" /\ term) \/ (x = "tick" /\ tickDue)}

\* epoll_wait returns all that is ready: there is room for all three.  The
\* third is the ring buffer, whose consumption is in XdpDataplane.
EpollWait ==
    /\ main = "wait" /\ Ready # {}
    /\ batch' = Ready /\ main' = "events"
    /\ UNCHANGED <<cliVars, running, view, selected, blacklist, rows, frame, tui,
                   launching, tickDue, keys, loopVars>>

\* epoll_wait fails with another errno than EINTR.
EpollFails ==
    /\ main = "wait"
    /\ main' = WayOut("loop")
    /\ UNCHANGED <<cliVars, running, view, selected, blacklist, rows, frame, tui,
                   launching, tickDue, batch, keys, loopVars>>

\* The rest of the batch is dropped.
ReadSignal ==
    /\ main = "events" /\ "signal" \in batch
    /\ main' = WayOut("loop") /\ term' = FALSE /\ batch' = {}
    /\ UNCHANGED <<cliVars, running, view, selected, blacklist, rows, frame, tui,
                   launching, joinable, tickDue, held, session, keys, edits>>

\* tick.consume and getch, which gives a key or nothing.
Tick ==
    /\ main = "events" /\ "tick" \in batch
    /\ batch' = batch \ {"tick"} /\ tickDue' = FALSE
Key(k) ==
    /\ Tick /\ k \in session.keys
    /\ keys < session.presses /\ keys' = keys + 1

NoKey ==
    /\ Tick
    /\ main' = "show"
    /\ UNCHANGED <<cliVars, running, view, selected, blacklist, rows, frame, tui,
                   launching, keys, loopVars>>

KeyQuit ==
    /\ Key("q")
    /\ running' = FALSE /\ main' = "show"
    /\ UNCHANGED <<cliVars, view, selected, blacklist, rows, frame, tui, launching,
                   loopVars>>

KeyView ==
    /\ \E v \in Views : Key(v) /\ view' = v
    /\ main' = "show"
    /\ UNCHANGED <<cliVars, running, selected, blacklist, rows, frame, tui,
                   launching, loopVars>>

KeyMove ==
    /\ view = "firewall"
    /\ \/ Key("up") /\ selected' = IF selected > 0 THEN selected - 1 ELSE selected
       \/ Key("down") /\ selected' = IF selected + 1 < Len(rows) THEN selected + 1
                                     ELSE selected
    /\ main' = "show"
    /\ UNCHANGED <<cliVars, running, view, blacklist, rows, frame, tui, launching,
                   loopVars>>

\* Nothing happens when the answer is no prefix or the map is full.
KeyAdd ==
    /\ view = "firewall" /\ Key("add")
    /\ \/ \E e \in ToSet(Entries) : blacklist' = blacklist \cup {e}
       \/ UNCHANGED blacklist
    /\ main' = "show"
    /\ UNCHANGED <<cliVars, running, view, selected, rows, frame, tui, launching,
                   loopVars>>

\* Mutant: the index is taken for one that starts at 1.
RowBefore(r, i) == r[IF i = 0 THEN 1 ELSE i]

SelectedRow(r, i) == r[i + 1]

\* The row of the last tick, by its key, whatever the map holds by now.
KeyDelete ==
    /\ view = "firewall" /\ Key("delete")
    /\ blacklist' = IF selected < Len(rows)
                      THEN blacklist \ {SelectedRow(rows, selected)} ELSE blacklist
    /\ main' = "show"
    /\ UNCHANGED <<cliVars, running, view, selected, rows, frame, tui, launching,
                   loopVars>>

\* prompt_input and the parse functions: what parses is taken, 0 included,
\* and anything else ignored.
Answered(f) == {tui} \cup {[tui EXCEPT ![f] = a] : a \in Typed[f]}

\* t, o, r and d.
KeyConfig ==
    /\ view = "demos"
    /\ \E f \in DOMAIN Typed : Key(f) /\ tui' \in Answered(f)
    /\ main' = "show"
    /\ UNCHANGED <<cliVars, running, view, selected, blacklist, rows, frame,
                   launching, loopVars>>

KeyLaunch ==
    /\ view = "demos"
    /\ \E s \in Scenarios : Key(s) /\ launching' = s
    /\ main' = "launch"
    /\ UNCHANGED <<cliVars, running, view, selected, blacklist, rows, frame, tui,
                   loopVars>>

\* Mutant: whoever assigns or destroys the thread object does not wait.
JoinedNever == TRUE

\* demo_thread.join() has returned, or there was nothing to join.
Joined == joinable => step = "returned"

\* Mutant: launch_demo assigns to demo_thread at once.
LaunchesAtOnce == main = "launch"

\* launch_demo waits for the demo before.
CanLaunch == main = "launch" /\ Joined

\* launch_demo: join, start a thread with a copy of the configuration; the
\* view changes when it is back.
LaunchDemo ==
    /\ CanLaunch
    /\ StartDemo(launching, tui)
    /\ joinable' = TRUE /\ launching' = "none"
    /\ view' = IF launching = "syn-flood" THEN "threats" ELSE "dashboard"
    /\ main' = "show"
    /\ UNCHANGED <<cliVars, running, selected, blacklist, rows, frame, tui, term,
                   tickDue, batch, held, session, keys, edits>>

\* The rest of the tick ends with the new rows and a frame; then the next
\* event of the batch, or the loop's condition.
Show ==
    /\ main = "show"
    /\ rows' = FirewallRows /\ frame' = Drawn(view, FirewallRows)
    /\ selected' = Clamped(view, FirewallRows)
    /\ main' = IF batch # {} THEN "events" ELSE IF running THEN "wait"
                ELSE WayOut("loop")
    /\ UNCHANGED <<cliVars, running, view, blacklist, tui, launching, tickDue,
                   batch, keys, loopVars>>

-----------------------------------------------------------------------------
(* The way out: Skeleton::unpin, ~App, ~XdpAttach.                         *)

Unpin ==
    /\ main = "unpin"
    /\ held' = held \ {"pins"} /\ main' = WayOut("unpin")
    /\ UNCHANGED <<cliVars, running, view, selected, blacklist, rows, frame, tui,
                   launching, joinable, term, tickDue, batch, session, keys, edits>>

JoinDemo ==
    /\ main = "join" /\ Joined
    /\ joinable' = FALSE /\ main' = WayOut("join")
    /\ UNCHANGED <<cliVars, running, view, selected, blacklist, rows, frame, tui,
                   launching, term, tickDue, batch, held, session, keys, edits>>

RestoreScreen ==
    /\ main = "endwin"
    /\ held' = held \ {"screen"} /\ main' = WayOut("endwin")
    /\ UNCHANGED <<cliVars, running, view, selected, blacklist, rows, frame, tui,
                   launching, joinable, term, tickDue, batch, session, keys, edits>>

TopExit ==
    /\ main = "close"
    /\ held' = held \ {"link"} /\ main' = "dead" /\ Exit(0)
    /\ UNCHANGED <<argv, at, cmd, globals, args, cfg, running, view, selected,
                   blacklist, rows, frame, tui, launching, joinable, term, tickDue,
                   batch, session, keys, edits>>

\* The steps that leave the demo thread alone.
TopStep ==
    \/ TopReady \/ TopFails \/ EpollWait \/ EpollFails \/ ReadSignal
    \/ NoKey \/ KeyQuit \/ KeyView \/ KeyMove \/ KeyAdd \/ KeyDelete
    \/ KeyConfig \/ KeyLaunch \/ Show
    \/ Unpin \/ JoinDemo \/ RestoreScreen \/ TopExit

-----------------------------------------------------------------------------
(* Around the process.                                                     *)

\* block, unblock and the automatic blocks of AutoBlock.
EditBlacklist ==
    /\ main \notin {"off", "dead"} /\ "firewall" \in session.keys
    /\ edits < MaxEdits /\ edits' = edits + 1
    /\ \E e \in ToSet(Entries) : \/ blacklist' = blacklist \cup {e}
                                 \/ blacklist' = blacklist \ {e}
    /\ UNCHANGED <<cliVars, main, running, view, selected, rows, frame, tui,
                   launching, joinable, term, tickDue, batch, held, session, keys>>

TopTypeOK ==
    /\ main \in {"off", "setup", "wait", "events", "launch", "show", "unpin",
                 "join", "endwin", "close", "dead"}
    /\ {running, joinable, term, tickDue} \subseteq BOOLEAN /\ view \in Views
    /\ selected \in 0..Len(Entries) - 1 /\ blacklist \subseteq ToSet(Entries)
    /\ ToSet(rows) \cup ToSet(frame.rows) \subseteq ToSet(Entries)
    /\ frame.marked \in 0..Height /\ DOMAIN tui = DOMAIN DemoDefaults
    /\ launching \in Scenarios \cup {"none"} /\ batch \subseteq {"signal", "tick"}
    /\ held \subseteq {"pins", "link", "screen"}

\* A delete takes the row that the screen marked.  When the screen marks none,
\* because the rows have become fewer than the index or because the selected
\* row does not fit, it takes the last row or one below the screen's end:
\* never another one in sight.
DeletesWhatIsMarked ==
    [][\A e \in blacklist \ blacklist' : edits' # edits \/
         IF frame.marked # 0 THEN e = frame.rows[frame.marked]
         ELSE e \in {frame.rows[k] : k \in {j \in DOMAIN frame.rows :
                                              j = Len(frame.rows) \/ j > Height}}]_topVars

=============================================================================
