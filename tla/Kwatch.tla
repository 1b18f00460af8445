------------------------------- MODULE Kwatch -------------------------------
(***************************************************************************)
(* One kwatch process from its command line to its end: the parser, then   *)
(* `kwatch demo` with the traffic in the main thread, or `kwatch top` with *)
(* a demo in a second thread, while other processes edit the blacklist and *)
(* a `kwatch detach` asks it to stop and, Grace later, kills it.           *)
(*                                                                         *)
(* The main thread of top is fast: time passes only when it waits, in      *)
(* epoll_wait or for the demo thread.  A unit is the period of its timer.  *)
(***************************************************************************)
EXTENDS Dashboard, PrefixEdit

CONSTANT Grace     \* the wait of stop_owner_process between its signals

ASSUME GraceAssumption == Grace \in Nat \ {0}

VARIABLE deadline  \* of the detach; -1 before it has sent SIGTERM

vars == <<demoVars, cliVars, topVars, editVars, deadline>>

Init == DemoInit /\ CliInit /\ TopInit /\ EditInit /\ deadline = -1

\* The process is there, and past the set-up in which SIGTERM would kill it.
TopAlive == main \notin {"off", "setup", "dead"}

\* The end of the process, threads included; the kernel closes the link, and
\* the terminal is left as it is.
Killed(status) ==
    /\ Exit(status) /\ main' = IF main = "off" THEN "off" ELSE "dead"
    /\ held' = held \ {"link"}
    /\ UNCHANGED <<argv, at, cmd, globals, args, cfg, running, view, selected,
                   blacklist, rows, frame, tui, launching, joinable, term, tickDue,
                   batch, session, keys, edits, deadline, editVars>>

Parse == ParseStep /\ UNCHANGED <<demoVars, topVars, deadline, editVars>>
StartTop == TopBegin /\ UNCHANGED <<demoVars, deadline, editVars>>
StartDemoCommand == DemoRun /\ UNCHANGED <<topVars, deadline, editVars>>
Edit == EditStep /\ UNCHANGED <<demoVars, topVars, deadline>>
EndDemoCommand == DemoExit /\ UNCHANGED <<demoVars, topVars, deadline, editVars>>
Main == TopStep /\ UNCHANGED <<demoVars, deadline, editVars>>
Launch == LaunchDemo /\ UNCHANGED <<deadline, editVars>>

\* The demo, in whichever thread.
Traffic ==
    /\ phase \in {"demo", "top"}
    /\ DemoStep
    /\ UNCHANGED <<cliVars, topVars, deadline, editVars>>

\* SIGFPE is not among the blocked signals: it kills the process.
Fault ==
    /\ phase \in {"demo", "top"}
    /\ DivideByZero
    /\ Killed(Sigfpe)

\* Nothing takes SIGTERM in cmd_demo.
Interrupt ==
    /\ phase = "demo"
    /\ Killed(Sigterm)
    /\ UNCHANGED demoVars

\* kill -TERM or Ctrl-C: pending until the signalfd is read.
Terminate ==
    /\ TopAlive
    /\ term' = TRUE
    /\ UNCHANGED <<demoVars, cliVars, main, running, view, selected, blacklist,
                   rows, frame, tui, launching, joinable, tickDue, batch, held,
                   session, keys, edits, deadline, editVars>>

\* cmd_detach finds the process by its record, and sends SIGTERM ...
DetachTerm ==
    /\ TopAlive /\ "pins" \in held /\ deadline = -1
    /\ term' = TRUE /\ deadline' = Grace
    /\ UNCHANGED <<demoVars, cliVars, main, running, view, selected, blacklist,
                   rows, frame, tui, launching, joinable, tickDue, batch, held,
                   session, keys, edits, editVars>>

\* The main thread of top has nothing to do but wait.
MainWaits ==
    \/ main \in {"off", "dead"}
    \/ main = "wait" /\ Ready = {}
    \/ main \in {"launch", "join"} /\ ~Joined

\* ... and SIGKILL when it is still there Grace later.
DetachKill ==
    /\ TopAlive /\ MainWaits /\ deadline = 0
    /\ Killed(Sigkill)
    /\ UNCHANGED demoVars

OtherEdits == EditBlacklist /\ UNCHANGED <<demoVars, deadline, editVars>>

Pass ==
    /\ phase \in {"demo", "top"} /\ MainWaits
    /\ DemoPass
    /\ tickDue' = (main # "off")
    /\ deadline' = IF deadline = -1 THEN -1 ELSE Lower(deadline)
    /\ UNCHANGED <<cliVars, main, running, view, selected, blacklist, rows, frame,
                   tui, launching, joinable, term, batch, held, session, keys,
                   edits, editVars>>

Next ==
    \/ Parse \/ Edit \/ StartTop \/ StartDemoCommand \/ EndDemoCommand
    \/ Main \/ Launch \/ Traffic \/ Fault \/ Interrupt
    \/ Terminate \/ DetachTerm \/ DetachKill \/ OtherEdits \/ Pass

\* Both threads of top are scheduled and time goes on.  Nothing makes a key
\* be pressed, a signal be sent or another process act.
Fairness ==
    /\ WF_vars(Main \/ Launch)
    /\ WF_vars(Traffic \/ Fault)
    /\ WF_vars(Pass)

Spec == Init /\ [][Next]_vars /\ Fairness

-----------------------------------------------------------------------------
TypeOK ==
    DemoTypeOK /\ CliTypeOK /\ TopTypeOK /\ EditTypeOK /\ deadline \in -1..Grace

\* PRD: `--duration` and `--rate` are validated as positive.  No command line
\* leads to the division by zero; only a rate typed into top does.
FaultOnlyFromTop ==
    rc = Sigfpe => cmd = "top" /\ config.rate = 0

\* A top that ends by itself has let go of everything it held, and its demo
\* thread has returned: a std::thread that is destroyed while it runs would
\* end the process by std::terminate.
TopEndsClean ==
    /\ main = "dead" /\ rc \notin {Sigfpe, Sigkill} => held = {}
    /\ main \in {"endwin", "close"} => ~DemoRunning

\* A demo of top runs to its end with the scenario and the configuration it was
\* launched with: no other launch takes its std::thread, no prompt reaches its
\* copy of demo_cfg, and no way out of cmd_top, an error of epoll_wait
\* included, leaves before it.  Only a signal that kills the process cuts it
\* short.
DemoRunsItsCourse ==
    [][phase = "top" /\ DemoRunning =>
         \/ phase' = "top" /\ UNCHANGED <<scenario, config, joinable>>
         \/ rc' \in {Sigfpe, Sigkill}]_vars

\* The pins survive detach's SIGKILL only when it strikes while launch_demo
\* waits for the demo before: a demo that the destructor of App waits for
\* outlasts the grace as well, but then the maps are unpinned already.
KilledUnpinned ==
    [][rc' = Sigkill /\ rc # Sigkill /\ "pins" \in held => main = "launch"]_vars

\* q, SIGTERM and SIGINT end top, however many demos it has to wait for.
TopEnds == (TopAlive /\ (term \/ ~running)) ~> main = "dead"

=============================================================================
