---------------------------- MODULE Kwatch_proofs ---------------------------
(***************************************************************************)
(* Proofs about one kwatch process: its demo traffic, the way out of top,  *)
(* and what a command line can and cannot make it do.                      *)
(***************************************************************************)
EXTENDS Kwatch, NumberLemmas, FiniteSetTheorems

LEMMA Constants ==
    /\ Second \in Nat \ {0} /\ FirstPort \in Nat /\ PortEnd \in Nat
    /\ SeqEnd \in Nat \ {0} /\ FirstPort < PortEnd
    /\ Ports \subseteq Nat /\ Rates \subseteq Nat /\ Durations \subseteq Nat
    /\ Height \in Nat /\ Grace \in Nat \ {0}
BY DemoAssumption, DashboardAssumption, GraceAssumption

-----------------------------------------------------------------------------
(* Configurations: the one of cmd_demo, the one of App, and the copy that  *)
(* the demo was started with.                                              *)

Fields == {"target", "port", "rate", "duration", "override"}
IsConfig(c) ==
    /\ DOMAIN c = Fields
    /\ c.port \in Ports /\ c.rate \in Rates /\ c.duration \in Durations
    /\ c.override \in BOOLEAN
ConfigInv ==
    /\ IsConfig(cfg) /\ IsConfig(tui) /\ tui.override = FALSE
    /\ step # "none" => IsConfig(config)

\* What --target, --port, --duration and --rate accept keeps a configuration
\* one, and leaves the override as it is.
LEMMA DemoValueKeepsConfig ==
    ASSUME NEW c, IsConfig(c), NEW t \in DemoOptions, NEW v, DemoValueOk(t, v)
    PROVE  /\ IsConfig(WithDemoValue(c, t, v))
           /\ WithDemoValue(c, t, v).override = c.override
<1> DEFINE w == WithDemoValue(c, t, v)
<1>1. CASE t = "--target"
  <2>1. CASE PortOf(v) = ""
    <3>1. w = [c EXCEPT !.target = HostOf(v), !.port = @]
      BY <1>1, <2>1 DEF WithDemoValue
    <3>2. QED
      BY <3>1 DEF IsConfig, Fields
  <2>2. CASE PortOf(v) # ""
    <3>1. w = [c EXCEPT !.target = HostOf(v), !.port = Number[PortOf(v)].n]
      BY <1>1, <2>2 DEF WithDemoValue
    <3>2. Number[PortOf(v)].n \in Ports
      BY <1>1, <2>2, CommandLineAssumption DEF DemoValueOk, IsNumber
    <3>3. QED
      BY <3>1, <3>2 DEF IsConfig, Fields
  <2>3. QED
    BY <2>1, <2>2
<1>2. CASE t = "--port"
  <2>1. w = [c EXCEPT !.port = Number[v].n]
    BY <1>2 DEF WithDemoValue
  <2>2. Number[v].n \in Ports
    BY <1>2, CommandLineAssumption DEF DemoValueOk, IsNumber
  <2>3. QED
    BY <2>1, <2>2 DEF IsConfig, Fields
<1>3. CASE t = "--duration"
  <2>1. w = [c EXCEPT !.duration = Number[v].n]
    BY <1>3 DEF WithDemoValue
  <2>2. Number[v].n \in Durations
    BY <1>3, CommandLineAssumption DEF DemoValueOk, IsNumber
  <2>3. QED
    BY <2>1, <2>2 DEF IsConfig, Fields
<1>4. CASE t = "--rate"
  <2>1. w = [c EXCEPT !.rate = Number[v].n]
    BY <1>4 DEF WithDemoValue
  <2>2. Number[v].n \in Rates
    BY <1>4, CommandLineAssumption DEF DemoValueOk, IsNumber
  <2>3. QED
    BY <2>1, <2>2 DEF IsConfig, Fields
<1>5. QED
  BY <1>1, <1>2, <1>3, <1>4 DEF DemoOptions

LEMMA DefaultsAreConfig ==
    /\ IsConfig(DemoDefaults) /\ DemoDefaults.override = FALSE
    /\ IsConfig([DemoDefaults EXCEPT !.rate = TuiRate])
    /\ [DemoDefaults EXCEPT !.rate = TuiRate].override = FALSE
<1>1. /\ DOMAIN DemoDefaults = Fields
      /\ DemoDefaults.port = DefaultPort /\ DemoDefaults.rate = DefaultRate
      /\ DemoDefaults.duration = DefaultDuration /\ DemoDefaults.override = FALSE
  BY DEF DemoDefaults, Fields
<1>2. TuiRate \in Rates
  BY DashboardAssumption
<1>3. QED
  BY <1>1, <1>2, CommandLineAssumption DEF IsConfig, Fields

-----------------------------------------------------------------------------
(* What the steps of each part can change of the others' state.            *)

\* The parser and the commands before they begin.
LEMMA ParseFrame ==
    ASSUME Parse
    PROVE  /\ UNCHANGED <<demoVars, topVars, deadline, editVars>>
           /\ phase \in {"parse", "dispatch", "options"}
           /\ \/ phase' \in {"parse", "dispatch", "options", "handed"} /\ rc' = rc
              \/ phase' = "exit" /\ rc' \in {0, 64}
<1>1. UNCHANGED <<demoVars, topVars, deadline, editVars>> /\ ParseStep
  BY DEF Parse
<1>2. CASE TakeFlag \/ TakeValue \/ TakeCommand \/ TakeOperand
  BY <1>1, <1>2 DEF TakeFlag, TakeValue, TakeCommand, TakeOperand, AtToken
<1>3. CASE BadValue \/ HelpOrVersion \/ UnknownWord
  BY <1>1, <1>3 DEF BadValue, HelpOrVersion, UnknownWord, AtToken, Refuse, Exit
<1>4. CASE EndOfLine \/ Misused \/ HandOver \/ DemoBegin
  BY <1>1, <1>4 DEF EndOfLine, Misused, HandOver, DemoBegin, Refuse, Exit
<1>5. CASE DemoValue \/ DemoOverride
  BY <1>1, <1>5 DEF DemoValue, DemoOverride, AtOption
<1>6. CASE DemoOptionBad \/ DemoRefused
  BY <1>1, <1>6 DEF DemoOptionBad, DemoRefused, AtOption, Exit
<1>7. QED
  BY <1>1, <1>2, <1>3, <1>4, <1>5, <1>6 DEF ParseStep

\* block and unblock.
LEMMA EditFrame ==
    ASSUME Edit
    PROVE  /\ UNCHANGED <<demoVars, topVars, deadline>>
           /\ UNCHANGED <<argv, cmd, globals, args, cfg>>
           /\ phase \in {"dispatch", "edit"}
           /\ \/ phase' = "edit" /\ rc' = rc
              \/ phase' = "exit" /\ rc' \in {0, 65}
<1>1. UNCHANGED <<demoVars, topVars, deadline>> /\ EditStep
  BY DEF Edit
<1>2. CASE EditBegin
  BY <1>1, <1>2 DEF EditBegin
<1>3. CASE EditFails
  BY <1>1, <1>3 DEF EditFails, Exit
<1>4. CASE EditOperand
  BY <1>1, <1>4 DEF EditOperand
<1>5. CASE EditEnd
  BY <1>1, <1>5 DEF EditEnd, Exit
<1>6. QED
  BY <1>1, <1>2, <1>3, <1>4, <1>5 DEF EditStep

\* The demo's thread runs, and either goes on or returns.
Working == {"validate", "socket", "hdrincl", "pace", "check", "send", "sleep"}
LEMMA TrafficFrame ==
    ASSUME Traffic
    PROVE  /\ UNCHANGED <<scenario, config, cliVars, topVars, deadline, editVars>>
           /\ phase \in {"demo", "top"}
           /\ step \in Working /\ step' \in Working \cup {"returned"}
           /\ step' = "returned" => result' \in {"ok", "denied", "error"}
<1>1. /\ UNCHANGED <<cliVars, topVars, deadline, editVars>> /\ DemoStep
      /\ phase \in {"demo", "top"}
  BY DEF Traffic
<1>2. CASE Validate \/ OpenSocket \/ OpenSocketFails
  BY <1>1, <1>2 DEF Validate, OpenSocket, OpenSocketFails, Return, Working
<1>3. CASE SetHdrIncl \/ SetHdrInclFails
  BY <1>1, <1>3 DEF SetHdrIncl, SetHdrInclFails, Return, Working
<1>4. CASE Pace \/ CheckTime \/ SendFails \/ Wake
  BY <1>1, <1>4 DEF Pace, CheckTime, SendFails, Wake, Return, Working
<1>5. CASE Send
  BY <1>1, <1>5 DEF Send, Working
<1>6. QED
  BY <1>1, <1>2, <1>3, <1>4, <1>5 DEF DemoStep

\* The main thread of top.
LEMMA MainFrame ==
    ASSUME Main
    PROVE  /\ UNCHANGED <<demoVars, deadline, editVars>>
           /\ UNCHANGED <<argv, at, cmd, globals, args, cfg>>
           /\ tui' = tui \/ \E f \in DOMAIN Typed : tui' \in Answered(f)
           /\ main \notin {"off", "dead"}
           /\ \/ UNCHANGED <<phase, rc>> /\ main' \notin {"off", "setup", "dead"}
              \/ /\ main \in {"setup", "close"} /\ main' = "dead"
                 /\ phase' = "exit" /\ rc' \in {0, 65, 69, 77, 125}
<1>1. UNCHANGED <<demoVars, deadline, editVars>> /\ TopStep
  BY DEF Main
<1>2. CASE TopReady
  BY <1>1, <1>2 DEF TopReady, cliVars
<1>3. CASE TopFails \/ TopExit
  BY <1>1, <1>3 DEF TopFails, TopExit, Exit
<1>4. CASE EpollWait \/ EpollFails \/ ReadSignal
  BY <1>1, <1>4 DEF EpollWait, EpollFails, ReadSignal, WayOut, cliVars
<1>5. CASE NoKey \/ KeyQuit \/ KeyView \/ KeyMove
  BY <1>1, <1>5 DEF NoKey, KeyQuit, KeyView, KeyMove, Key, Tick, cliVars
<1>6. CASE KeyAdd \/ KeyDelete
  BY <1>1, <1>6 DEF KeyAdd, KeyDelete, Key, Tick, cliVars
<1>7. CASE KeyConfig
  BY <1>1, <1>7 DEF KeyConfig, Key, Tick, cliVars
<1>8. CASE KeyLaunch
  BY <1>1, <1>8 DEF KeyLaunch, Key, Tick, cliVars
<1>9. CASE Show
  BY <1>1, <1>9 DEF Show, WayOut, cliVars
<1>10. CASE Unpin \/ JoinDemo \/ RestoreScreen
  BY <1>1, <1>10 DEF Unpin, JoinDemo, RestoreScreen, WayOut, cliVars
<1>11. QED
  BY <1>1, <1>2, <1>3, <1>4, <1>5, <1>6, <1>7, <1>8, <1>9, <1>10 DEF TopStep

\* SIGFPE, SIGTERM and SIGKILL.
LEMMA KillFrame ==
    ASSUME Fault \/ Interrupt \/ DetachKill
    PROVE  /\ UNCHANGED <<argv, at, cmd, globals, args, cfg, tui, config, joinable,
                          term, wire, sent, result, deadline>>
           /\ phase' = "exit" /\ held' = held \ {"link"}
           /\ main' = IF main = "off" THEN "off" ELSE "dead"
           /\ \/ /\ Fault /\ rc' = Sigfpe /\ step' = "fault" /\ step = "pace"
                 /\ phase \in {"demo", "top"} /\ config.rate = 0
              \/ Interrupt /\ rc' = Sigterm /\ step' = step /\ phase = "demo"
              \/ DetachKill /\ rc' = Sigkill /\ step' = step
<1>1. CASE Fault
  BY <1>1 DEF Fault, DivideByZero, Killed, Exit
<1>2. CASE Interrupt
  BY <1>2 DEF Interrupt, Killed, Exit, demoVars
<1>3. CASE DetachKill
  BY <1>3 DEF DetachKill, Killed, Exit, demoVars
<1>4. QED
  BY <1>1, <1>2, <1>3

\* What others do to the process, and time.
LEMMA OutsideFrame ==
    ASSUME Terminate \/ DetachTerm \/ OtherEdits \/ Pass
    PROVE  /\ UNCHANGED <<cliVars, step, scenario, config, seq, sport, sent, wire,
                          result>>
           /\ UNCHANGED <<main, view, selected, rows, frame, tui, joinable, held>>
           /\ term' = term \/ (TopAlive /\ term' = TRUE)
<1>1. CASE Terminate
  BY <1>1 DEF Terminate, demoVars
<1>2. CASE DetachTerm
  BY <1>2 DEF DetachTerm, demoVars
<1>3. CASE OtherEdits
  BY <1>3 DEF OtherEdits, EditBlacklist, demoVars
<1>4. CASE Pass
  BY <1>4 DEF Pass, DemoPass
<1>5. QED
  BY <1>1, <1>2, <1>3, <1>4

-----------------------------------------------------------------------------
\* Every configuration keeps its fields and their ranges, and top never
\* overrides the check of the target.
LEMMA ConfigInvariant == Spec => []ConfigInv
<1>1. Init => ConfigInv
  BY DefaultsAreConfig DEF Init, CliInit, TopInit, DemoInit, ConfigInv
<1>2. ConfigInv /\ [Next]_vars => ConfigInv'
  <2> SUFFICES ASSUME ConfigInv, [Next]_vars PROVE ConfigInv'
    OBVIOUS
  <2>1. CASE Parse
    <3>1. UNCHANGED <<tui, step, config>> /\ ParseStep
      BY <2>1 DEF Parse, demoVars, topVars
    <3>2. CASE DemoValue
      <4>1. PICK t \in DemoOptions : /\ DemoValueOk(t, args[at + 1])
                                     /\ cfg' = WithDemoValue(cfg, t, args[at + 1])
        BY <3>2 DEF DemoValue
      <4>2. IsConfig(cfg')
        BY <4>1, DemoValueKeepsConfig DEF ConfigInv
      <4>3. QED
        BY <3>1, <4>2 DEF ConfigInv
    <3>3. CASE DemoOverride
      <4>1. cfg' = [cfg EXCEPT !.override = TRUE]
        BY <3>3 DEF DemoOverride
      <4>2. IsConfig(cfg')
        BY <4>1 DEF ConfigInv, IsConfig, Fields
      <4>3. QED
        BY <3>1, <4>2 DEF ConfigInv
    <3>4. CASE ~DemoValue /\ ~DemoOverride
      <4>1. cfg' = cfg
        BY <3>1, <3>4 DEF ParseStep, TakeFlag, TakeValue, BadValue, HelpOrVersion,
              TakeCommand, UnknownWord, TakeOperand, EndOfLine, Misused, HandOver,
              DemoBegin, DemoOptionBad, DemoRefused
      <4>2. QED
        BY <3>1, <4>1 DEF ConfigInv
    <3>5. QED
      BY <3>2, <3>3, <3>4
  <2>2. CASE Main
    <3>1. UNCHANGED <<cfg, step, config>>
      BY <2>2, MainFrame DEF demoVars
    <3>2. CASE tui' = tui
      BY <3>1, <3>2 DEF ConfigInv
    <3>3. CASE tui' # tui
      <4>1. PICK f \in DOMAIN Typed : tui' \in Answered(f)
        BY <2>2, <3>3, MainFrame
      <4>2. PICK a \in Typed[f] : tui' = [tui EXCEPT ![f] = a]
        BY <3>3, <4>1 DEF Answered
      <4>3. /\ f \in {"target", "port", "rate", "duration"}
            /\ f = "port" => a \in Ports
            /\ f = "rate" => a \in Rates
            /\ f = "duration" => a \in Durations
        BY DashboardAssumption
      <4>4. IsConfig(tui') /\ tui'.override = FALSE
        BY <4>2, <4>3 DEF ConfigInv, IsConfig, Fields
      <4>5. QED
        BY <3>1, <4>4 DEF ConfigInv
    <3>4. QED
      BY <3>2, <3>3
  <2>3. CASE StartDemoCommand \/ Launch
    <3>1. UNCHANGED <<cfg, tui>> /\ config' \in {cfg, tui}
      BY <2>3 DEF StartDemoCommand, DemoRun, Launch, LaunchDemo, StartDemo, topVars,
            cliVars
    <3>2. QED
      BY <3>1 DEF ConfigInv
  <2>4. CASE Edit \/ Traffic
    <3>1. UNCHANGED <<cfg, tui, config>> /\ (step' # "none" => step # "none")
      BY <2>4, EditFrame, TrafficFrame DEF demoVars, topVars, cliVars, Working
    <3>2. QED
      BY <3>1 DEF ConfigInv
  <2>5. CASE StartTop \/ EndDemoCommand
    <3>1. UNCHANGED <<cfg, tui, step, config>>
      BY <2>5 DEF StartTop, TopBegin, EndDemoCommand, DemoExit, demoVars, topVars
    <3>2. QED
      BY <3>1 DEF ConfigInv
  <2>6. CASE Fault \/ Interrupt \/ DetachKill
    <3>1. UNCHANGED <<cfg, tui, config>> /\ (step' # "none" => step # "none")
      BY <2>6, KillFrame
    <3>2. QED
      BY <3>1 DEF ConfigInv
  <2>7. CASE Terminate \/ DetachTerm \/ OtherEdits \/ Pass
    <3>1. UNCHANGED <<cfg, tui, step, config>>
      BY <2>7, OutsideFrame DEF cliVars
    <3>2. QED
      BY <3>1 DEF ConfigInv
  <2>8. CASE UNCHANGED vars
    BY <2>8 DEF ConfigInv, vars, cliVars, demoVars, topVars
  <2>9. QED
    BY <2>1, <2>2, <2>3, <2>4, <2>5, <2>6, <2>7, <2>8 DEF Next
<1>3. QED
  BY <1>1, <1>2, PTL DEF Spec

-----------------------------------------------------------------------------
(* The phases of the process, and what each implies for the two threads.   *)

Early == {"parse", "dispatch", "options", "edit", "handed"}
ProcessInv ==
    /\ phase \in Early \cup {"demo", "top", "exit"}
    /\ phase \in Early => step = "none"
    /\ step = "returned" => result \in {"ok", "denied", "error"}
    /\ phase \in Early \cup {"demo"} => main = "off"
    /\ phase = "demo" => config.rate # 0
    /\ phase = "top" => cmd = "top" /\ main \notin {"off", "dead"}
    /\ phase = "exit" => main \in {"off", "dead"}
    /\ rc # Running => phase = "exit"
    /\ rc = Sigfpe => cmd = "top" /\ config.rate = 0

LEMMA ProcessInvariant == Spec => []ProcessInv
<1> USE DEF Early, Running, Sigfpe, Sigkill, Sigterm
<1>1. Init => ProcessInv
  BY DEF Init, CliInit, TopInit, DemoInit, ProcessInv
<1>2. ProcessInv /\ [Next]_vars => ProcessInv'
  <2> SUFFICES ASSUME ProcessInv, [Next]_vars PROVE ProcessInv'
    OBVIOUS
  <2>1. CASE Parse
    <3>1. UNCHANGED <<main, step, config, result>>
      BY <2>1, ParseFrame DEF demoVars, topVars
    <3>2. QED
      BY <2>1, <3>1, ParseFrame DEF ProcessInv
  <2>2. CASE Edit
    <3>1. UNCHANGED <<main, step, config, result>>
      BY <2>2, EditFrame DEF demoVars, topVars
    <3>2. QED
      BY <2>2, <3>1, EditFrame DEF ProcessInv
  <2>3. CASE StartTop
    BY <2>3 DEF StartTop, TopBegin, ProcessInv, demoVars
  <2>4. CASE StartDemoCommand
    BY <2>4 DEF StartDemoCommand, DemoRun, DemoAccepted, StartDemo, ProcessInv,
          topVars
  <2>5. CASE EndDemoCommand
    <3>1. /\ phase = "demo" /\ phase' = "exit"
          /\ UNCHANGED <<cmd, main, config, step, result>>
      BY <2>5 DEF EndDemoCommand, DemoExit, Exit, demoVars, topVars
    <3>2. rc' \in {0, 77, 125}
      BY <2>5 DEF EndDemoCommand, DemoExit, Exit, ProcessInv
    <3>3. QED
      BY <3>1, <3>2 DEF ProcessInv
  <2>6. CASE Main
    <3>1. UNCHANGED <<cmd, step, config, result>>
      BY <2>6, MainFrame DEF demoVars
    <3>2. QED
      BY <2>6, <3>1, MainFrame DEF ProcessInv
  <2>7. CASE Launch
    <3>1. /\ UNCHANGED <<cmd, phase, rc>>
          /\ main = "launch" /\ main' = "show" /\ step' = "validate"
      BY <2>7 DEF Launch, LaunchDemo, CanLaunch, StartDemo, cliVars
    <3>2. QED
      BY <3>1 DEF ProcessInv
  <2>8. CASE Traffic
    <3>1. UNCHANGED <<cmd, phase, rc, main, config>> /\ phase \in {"demo", "top"}
      BY <2>8, TrafficFrame DEF cliVars, topVars
    <3>2. QED
      BY <2>8, <3>1, TrafficFrame DEF ProcessInv
  <2>9. CASE Fault \/ Interrupt \/ DetachKill
    <3>1. /\ UNCHANGED <<cmd, config, result>> /\ step' \in {step, "fault"}
          /\ phase' = "exit" /\ main' \in {"off", "dead"}
          /\ rc' = Sigfpe => phase \in {"demo", "top"} /\ config.rate = 0
      BY <2>9, KillFrame
    <3>2. QED
      BY <3>1 DEF ProcessInv
  <2>10. CASE Terminate \/ DetachTerm \/ OtherEdits \/ Pass
    <3>1. UNCHANGED <<cmd, phase, rc, main, step, config, result>>
      BY <2>10, OutsideFrame DEF cliVars
    <3>2. QED
      BY <3>1 DEF ProcessInv
  <2>11. CASE UNCHANGED vars
    BY <2>11 DEF ProcessInv, vars, cliVars, demoVars, topVars
  <2>12. QED
    BY <2>1, <2>2, <2>3, <2>4, <2>5, <2>6, <2>7, <2>8, <2>9, <2>10, <2>11 DEF Next
<1>3. QED
  BY <1>1, <1>2, PTL DEF Spec

\* FaultOnlyFromTop: whatever the constants and the command line, the division
\* by zero of the pacing is reached only with a rate typed into top.
THEOREM FaultIsFromTop == Spec => []FaultOnlyFromTop
<1>1. ProcessInv => FaultOnlyFromTop
  BY DEF ProcessInv, FaultOnlyFromTop
<1>2. QED
  BY <1>1, ProcessInvariant, PTL

-----------------------------------------------------------------------------
(* The way out of top.                                                     *)

\* What is still held at each stage; who runs has to be joined; a detach that
\* has asked the process to stop has left it a signal to read, until it is on
\* its way out.
WayOutInv ==
    /\ held \subseteq {"pins", "link", "screen"}
    /\ main \in {"off", "setup"} => held = {} /\ deadline = -1
    /\ main \in {"join", "endwin"} => held \subseteq {"link", "screen"}
    /\ main = "close" => held \subseteq {"link"}
    /\ main = "dead" /\ rc \notin {Sigfpe, Sigkill} => held = {}
    /\ phase = "top" /\ DemoRunning => joinable
    /\ main \in {"setup", "endwin", "close"} => ~DemoRunning
    /\ deadline # -1 =>
         term = TRUE \/ main \in {"unpin", "join", "endwin", "close", "dead"}

LEMMA MainKeepsWayOut ==
    ASSUME WayOutInv, ProcessInv, Main
    PROVE  WayOutInv'
<1>1. /\ UNCHANGED <<step, deadline>> /\ phase' \in {phase, "exit"}
      /\ main \notin {"off", "dead"} /\ (DemoRunning' <=> DemoRunning)
      /\ phase = "top"
  BY MainFrame DEF demoVars, DemoRunning, ProcessInv, Early
<1>2. CASE TopReady
  BY <1>1, <1>2 DEF TopReady, WayOutInv
<1>3. CASE TopFails
  BY <1>1, <1>3 DEF TopFails, Exit, loopVars, WayOutInv
<1>4. CASE TopExit
  BY <1>1, <1>4 DEF TopExit, Exit, WayOutInv
<1>5. CASE \/ EpollWait \/ EpollFails \/ NoKey \/ KeyQuit \/ KeyView \/ KeyMove
           \/ KeyAdd \/ KeyDelete \/ KeyConfig \/ KeyLaunch \/ Show
  <2>1. /\ UNCHANGED <<held, term, joinable>>
        /\ main \in {"wait", "events", "show"}
        /\ main' \in {"wait", "events", "show", "launch", "unpin"}
    BY <1>5 DEF EpollWait, EpollFails, NoKey, KeyQuit, KeyView, KeyMove,
          KeyAdd, KeyDelete, KeyConfig, KeyLaunch, Show, WayOut, loopVars, Key, Tick
  <2>2. QED
    BY <1>1, <2>1 DEF WayOutInv
<1>6. CASE ReadSignal
  BY <1>1, <1>6 DEF ReadSignal, WayOut, WayOutInv
<1>7. CASE Unpin
  BY <1>1, <1>7 DEF Unpin, WayOut, WayOutInv
<1>8. CASE JoinDemo
  <2>1. /\ main = "join" /\ main' = "endwin" /\ joinable' = FALSE
        /\ UNCHANGED <<held, term>> /\ (joinable => step = "returned")
    BY <1>8 DEF JoinDemo, WayOut, Joined
  <2>2. ~DemoRunning
    BY <1>1, <2>1 DEF WayOutInv, DemoRunning
  <2>3. QED
    BY <1>1, <2>1, <2>2 DEF WayOutInv
<1>9. CASE RestoreScreen
  BY <1>1, <1>9 DEF RestoreScreen, WayOut, WayOutInv
<1>10. QED
  BY <1>2, <1>3, <1>4, <1>5, <1>6, <1>7, <1>8, <1>9 DEF Main, TopStep

LEMMA WayOutInvariant == Spec => []WayOutInv
<1> USE DEF Running, Sigfpe, Sigkill, Sigterm
<1>1. Init => WayOutInv
  BY DEF Init, CliInit, TopInit, DemoInit, DemoRunning, WayOutInv
<1>2. WayOutInv /\ ProcessInv /\ [Next]_vars => WayOutInv'
  <2> SUFFICES ASSUME WayOutInv, ProcessInv, [Next]_vars PROVE WayOutInv'
    OBVIOUS
  <2>1. CASE Parse
    <3>1. /\ UNCHANGED <<main, held, joinable, term, step, deadline>>
          /\ main = "off" /\ phase' # "top"
      BY <2>1, ParseFrame DEF demoVars, topVars, ProcessInv, Early
    <3>2. QED
      BY <3>1 DEF WayOutInv
  <2>2. CASE Edit
    <3>1. /\ UNCHANGED <<main, held, joinable, term, step, deadline>>
          /\ main = "off" /\ phase' # "top"
      BY <2>2, EditFrame DEF demoVars, topVars, ProcessInv, Early
    <3>2. QED
      BY <3>1 DEF WayOutInv
  <2>3. CASE StartTop
    <3>1. /\ UNCHANGED <<held, joinable, term, step, deadline>>
          /\ main = "off" /\ main' = "setup" /\ step = "none"
      BY <2>3 DEF StartTop, TopBegin, demoVars, ProcessInv, Early
    <3>2. QED
      BY <3>1 DEF WayOutInv, DemoRunning
  <2>4. CASE StartDemoCommand \/ EndDemoCommand
    <3>1. /\ UNCHANGED <<main, held, joinable, term, deadline>>
          /\ main = "off" /\ phase' # "top"
      BY <2>4 DEF StartDemoCommand, DemoRun, EndDemoCommand, DemoExit, Exit,
            topVars, ProcessInv, Early
    <3>2. QED
      BY <3>1 DEF WayOutInv
  <2>5. CASE Main
    BY <2>5, MainKeepsWayOut
  <2>6. CASE Launch
    BY <2>6 DEF Launch, LaunchDemo, CanLaunch, WayOutInv
  <2>7. CASE Traffic
    <3>1. /\ UNCHANGED <<main, held, joinable, term, deadline, phase, rc>>
          /\ DemoRunning /\ phase \in {"demo", "top"}
      BY <2>7, TrafficFrame DEF cliVars, topVars, DemoRunning, Working
    <3>2. QED
      BY <3>1 DEF WayOutInv
  <2>8. CASE Fault \/ Interrupt \/ DetachKill
    <3>1. /\ UNCHANGED <<joinable, term, deadline>> /\ held' \subseteq held
          /\ phase' = "exit"
      BY <2>8, KillFrame
    <3>2. /\ main' = IF main = "off" THEN "off" ELSE "dead"
          /\ main # "off" => rc' \in {Sigfpe, Sigkill}
      BY <2>8, KillFrame DEF ProcessInv, Early
    <3>3. QED
      BY <3>1, <3>2 DEF WayOutInv
  <2>9. CASE Terminate \/ OtherEdits \/ Pass
    <3>1. /\ UNCHANGED <<main, held, joinable, step, phase, rc>>
          /\ term' = term \/ term' = TRUE
      BY <2>9, OutsideFrame DEF cliVars
    <3>2. deadline = -1 => deadline' = -1
      BY <2>9 DEF Terminate, OtherEdits, Pass
    <3>3. QED
      BY <3>1, <3>2 DEF WayOutInv, DemoRunning
  <2>10. CASE DetachTerm
    <3>1. /\ UNCHANGED <<main, held, joinable, step, phase, rc>>
          /\ term' = TRUE /\ main \notin {"off", "setup"}
      BY <2>10 DEF DetachTerm, TopAlive, demoVars, cliVars
    <3>2. QED
      BY <3>1 DEF WayOutInv, DemoRunning
  <2>11. CASE UNCHANGED vars
    BY <2>11 DEF WayOutInv, DemoRunning, vars, cliVars, demoVars, topVars
  <2>12. QED
    BY <2>1, <2>2, <2>3, <2>4, <2>5, <2>6, <2>7, <2>8, <2>9, <2>10, <2>11 DEF Next
<1>3. QED
  BY <1>1, <1>2, ProcessInvariant, PTL DEF Spec

\* TopEndsClean: a top that ends by itself holds nothing, and no demo thread
\* runs once the destructor of App has begun to give the screen back.
THEOREM TopLeavesNothing == Spec => []TopEndsClean
<1>1. WayOutInv => TopEndsClean
  BY DEF WayOutInv, TopEndsClean
<1>2. QED
  BY <1>1, WayOutInvariant, PTL

\* DemoRunsItsCourse: whatever keys are pressed, prompts answered, signals read
\* and errors met, a demo that top has started is neither replaced nor left
\* behind; WayOutInv has its thread joinable until it has returned.
THEOREM DemosAreNotCutShort == Spec => DemoRunsItsCourse
<1> USE DEF Running, Sigfpe, Sigkill, Sigterm
<1> DEFINE Fine == \/ phase' = "top" /\ UNCHANGED <<scenario, config, joinable>>
                   \/ rc' \in {Sigfpe, Sigkill}
<1>1. WayOutInv /\ ProcessInv /\ [Next]_vars =>
        [phase = "top" /\ DemoRunning => Fine]_vars
  <2> SUFFICES ASSUME WayOutInv, ProcessInv, Next, phase = "top", DemoRunning
               PROVE  Fine
    OBVIOUS
  <2>1. /\ joinable /\ ~Joined
        /\ main \notin {"off", "setup", "endwin", "close", "dead"}
    BY DEF WayOutInv, ProcessInv, Early, Joined, DemoRunning
  <2>2. CASE Parse \/ Edit
    BY <2>2, ParseFrame, EditFrame
  <2>3. CASE StartTop \/ StartDemoCommand \/ EndDemoCommand
    BY <2>1, <2>3 DEF StartTop, TopBegin, StartDemoCommand, DemoRun,
       EndDemoCommand, DemoExit
  <2>4. CASE Main
    <3>1. UNCHANGED <<scenario, config, phase>>
      BY <2>1, <2>4, MainFrame DEF demoVars
    <3>2. ~JoinDemo /\ ~TopFails /\ ~TopExit /\ ~TopReady
      BY <2>1 DEF JoinDemo, TopFails, TopExit, TopReady
    <3>3. joinable' = joinable
      BY <2>4, <3>2 DEF Main, TopStep, EpollWait, EpollFails, ReadSignal, NoKey,
         KeyQuit, KeyView, KeyMove, KeyAdd, KeyDelete, KeyConfig, KeyLaunch, Key,
         Tick, Show, Unpin, RestoreScreen, loopVars
    <3>4. QED
      BY <3>1, <3>3
  <2>5. CASE Launch
    BY <2>1, <2>5 DEF Launch, LaunchDemo, CanLaunch
  <2>6. CASE Traffic
    BY <2>6, TrafficFrame DEF cliVars, topVars
  <2>7. CASE Fault \/ Interrupt \/ DetachKill
    BY <2>7, KillFrame
  <2>8. CASE Terminate \/ DetachTerm \/ OtherEdits \/ Pass
    BY <2>8, OutsideFrame DEF cliVars
  <2>9. QED
    BY <2>2, <2>3, <2>4, <2>5, <2>6, <2>7, <2>8 DEF Next
<1>2. QED
  BY <1>1, WayOutInvariant, ProcessInvariant, PTL DEF Spec, DemoRunsItsCourse

\* KilledUnpinned: however long the grace is, the SIGKILL of a detach finds the
\* maps pinned only when launch_demo waits for the demo before.
THEOREM KillFindsNoPins == Spec => KilledUnpinned
<1> USE DEF Running, Sigfpe, Sigkill, Sigterm
<1>1. WayOutInv /\ ProcessInv /\ [Next]_vars =>
        [rc' = Sigkill /\ rc # Sigkill /\ "pins" \in held => main = "launch"]_vars
  <2> SUFFICES ASSUME WayOutInv, ProcessInv, Next,
                      rc' = Sigkill, rc # Sigkill, "pins" \in held
               PROVE  main = "launch"
    OBVIOUS
  <2>1. CASE DetachKill
    <3>1. /\ main \notin {"off", "setup", "dead"} /\ deadline = 0
          /\ \/ main = "wait" /\ Ready = {}
             \/ main \in {"launch", "join"}
      BY <2>1 DEF DetachKill, TopAlive, MainWaits
    <3>2. CASE main = "wait" /\ Ready = {}
      <4>1. term = TRUE
        BY <3>1, <3>2 DEF WayOutInv
      <4>2. "signal" \in Ready
        BY <4>1 DEF Ready
      <4>3. QED
        BY <3>2, <4>2
    <3>3. CASE main \in {"launch", "join"}
      BY <3>3 DEF WayOutInv
    <3>4. QED
      BY <3>1, <3>2, <3>3
  <2>2. CASE Parse
    BY <2>2, ParseFrame
  <2>3. CASE Edit
    BY <2>3, EditFrame
  <2>4. CASE Main
    BY <2>4, MainFrame
  <2>5. CASE Traffic
    BY <2>5, TrafficFrame DEF cliVars
  <2>6. CASE Fault
    BY <2>6 DEF Fault, Killed, Exit
  <2>7. CASE Interrupt
    BY <2>7 DEF Interrupt, Killed, Exit
  <2>8. CASE Terminate \/ DetachTerm \/ OtherEdits \/ Pass
    BY <2>8, OutsideFrame DEF cliVars
  <2>9. CASE StartTop \/ StartDemoCommand \/ Launch
    BY <2>9 DEF StartTop, TopBegin, StartDemoCommand, DemoRun, Launch, LaunchDemo,
          cliVars
  <2>10. CASE EndDemoCommand
    BY <2>10 DEF EndDemoCommand, DemoExit, Exit, ProcessInv
  <2>11. QED
    BY <2>1, <2>2, <2>3, <2>4, <2>5, <2>6, <2>7, <2>8, <2>9, <2>10 DEF Next
<1>2. QED
  BY <1>1, WayOutInvariant, ProcessInvariant, PTL DEF Spec, KilledUnpinned

-----------------------------------------------------------------------------
(* Demo traffic.                                                           *)

\* While it paces, the packets sent so far have taken their time: SleepTime
\* each, less what is left of the last nap.
TrafficInv ==
    /\ remaining \in Nat /\ nap \in Nat /\ sent \in Nat
    /\ step \in {"none", "validate", "socket", "hdrincl", "pace"} => sent = 0
    /\ step \in {"check", "send", "sleep"} \/ sent > 0 =>
         step # "none" /\ config.rate # 0
    /\ step \in {"check", "send"} /\ remaining > 0 =>
         sent * SleepTime <= Allotted - remaining
    /\ step = "send" => sent * SleepTime < Allotted
    /\ step = "sleep" /\ remaining > 0 =>
         sent * SleepTime - nap <= Allotted - remaining
    /\ sent > 0 => (sent - 1) * SleepTime < Allotted

LEMMA PacingTypes ==
    ASSUME ConfigInv, step # "none"
    PROVE  /\ Allotted \in Nat
           /\ config.rate # 0 => SleepTime \in Nat
<1>1. config.rate \in Nat /\ config.duration \in Nat
  BY Constants DEF ConfigInv, IsConfig
<1>2. Second \in Nat
  BY Constants
<1>3. QED
  BY <1>1, <1>2 DEF Allotted, SleepTime

\* One more packet takes one more nap.
LEMMA OneMorePacket ==
    ASSUME NEW n \in Nat, NEW s \in Nat
    PROVE  /\ n * s \in Nat /\ (n + 1) * s = n * s + s
           /\ n > 0 => (n - 1) * s = n * s - s
OBVIOUS

LEMMA TrafficKeepsPace ==
    ASSUME TrafficInv, ConfigInv, Traffic
    PROVE  TrafficInv'
<1>1. /\ UNCHANGED config /\ step # "none" /\ step' # "none"
      /\ SleepTime' = SleepTime /\ Allotted' = Allotted /\ Allotted \in Nat
      /\ config.rate # 0 => SleepTime \in Nat
  BY TrafficFrame, PacingTypes DEF Working, SleepTime, Allotted
<1>2. CASE \/ Validate \/ OpenSocket \/ OpenSocketFails \/ SetHdrIncl
           \/ SetHdrInclFails
  <2>1. /\ UNCHANGED <<remaining, nap, sent>>
        /\ step \in {"validate", "socket", "hdrincl"}
        /\ step' \in {"socket", "hdrincl", "pace", "returned"}
    BY <1>2 DEF Validate, OpenSocket, OpenSocketFails, SetHdrIncl, SetHdrInclFails,
          Return
  <2>2. QED
    BY <2>1, <1>1 DEF TrafficInv
<1>3. CASE Pace
  <2>1. /\ UNCHANGED <<nap, sent>> /\ step = "pace" /\ step' = "check"
        /\ remaining' = Allotted /\ config.rate # 0
    BY <1>3 DEF Pace
  <2>2. sent = 0 /\ SleepTime \in Nat /\ 0 * SleepTime = 0
    BY <1>1, <2>1 DEF TrafficInv
  <2>3. QED
    BY <1>1, <2>1, <2>2 DEF TrafficInv
<1>4. CASE CheckTime
  <2>1. /\ UNCHANGED <<remaining, nap, sent>> /\ step = "check"
        /\ step' = IF remaining = 0 THEN "returned" ELSE "send"
    BY <1>4 DEF CheckTime, Return
  <2>2. SleepTime \in Nat /\ sent * SleepTime \in Nat
    BY <1>1, <2>1, OneMorePacket DEF TrafficInv
  <2>3. QED
    BY <1>1, <2>1, <2>2 DEF TrafficInv
<1>5. CASE Send
  <2>1. /\ UNCHANGED remaining /\ step = "send" /\ step' = "sleep"
        /\ nap' = SleepTime /\ sent' \in {sent, sent + 1}
    BY <1>5 DEF Send
  <2>2. SleepTime \in Nat /\ sent \in Nat /\ remaining \in Nat
    BY <1>1, <2>1 DEF TrafficInv
  <2>3. PICK s \in Nat : s = SleepTime
    BY <2>2
  <2>4. PICK a \in Nat : a = Allotted
    BY <1>1
  <2>5. PICK k \in Nat : k = sent * s
    BY <2>2, OneMorePacket
  <2>6. /\ remaining > 0 => k <= a - remaining
        /\ k < a /\ config.rate # 0
    BY <2>1, <2>3, <2>4, <2>5 DEF TrafficInv
  <2>7. sent' * s \in {k, k + s} /\ (sent' > 0 => (sent' - 1) * s \in {k, k - s})
    <3>1. CASE sent' = sent
      BY <2>2, <2>5, <3>1, OneMorePacket
    <3>2. CASE sent' = sent + 1
      <4>1. (sent + 1) * s = k + s /\ (sent + 1) - 1 = sent
        BY <2>2, <2>5, OneMorePacket
      <4>2. QED
        BY <2>5, <3>2, <4>1
    <3>3. QED
      BY <2>1, <3>1, <3>2
  <2>8. /\ remaining' > 0 => sent' * s - nap' <= a - remaining'
        /\ sent' > 0 => (sent' - 1) * s < a
    <3>1. PICK p : p = sent' * s
      OBVIOUS
    <3>2. PICK q : q = (sent' - 1) * s
      OBVIOUS
    <3>3. remaining > 0 => p - s <= a - remaining
      BY <2>2, <2>6, <2>7, <3>1
    <3>4. sent' > 0 => q < a
      BY <2>6, <2>7, <3>2
    <3>5. QED
      BY <2>1, <2>3, <3>1, <3>2, <3>3, <3>4
  <2>9. sent' \in Nat /\ nap' \in Nat /\ remaining' \in Nat
    BY <2>1, <2>2
  <2>10. QED
    BY <1>1, <2>1, <2>3, <2>4, <2>6, <2>8, <2>9 DEF TrafficInv
<1>6. CASE SendFails
  <2>1. UNCHANGED <<remaining, nap, sent>> /\ step = "send" /\ step' = "returned"
    BY <1>6 DEF SendFails, Return
  <2>2. QED
    BY <1>1, <2>1 DEF TrafficInv
<1>7. CASE Wake
  <2>1. /\ UNCHANGED <<remaining, nap, sent>> /\ step = "sleep" /\ step' = "check"
        /\ nap = 0
    BY <1>7 DEF Wake
  <2>2. SleepTime \in Nat /\ sent * SleepTime \in Nat
    BY <1>1, <2>1, OneMorePacket DEF TrafficInv
  <2>3. QED
    BY <1>1, <2>1, <2>2 DEF TrafficInv
<1>8. QED
  BY <1>2, <1>3, <1>4, <1>5, <1>6, <1>7 DEF Traffic, DemoStep

LEMMA PassKeepsPace ==
    ASSUME TrafficInv, ConfigInv, Pass
    PROVE  TrafficInv'
<1>1. /\ UNCHANGED <<config, step, sent>>
      /\ remaining' = Lower(remaining) /\ nap' = Lower(nap)
      /\ SleepTime' = SleepTime /\ Allotted' = Allotted
  BY DEF Pass, DemoPass, SleepTime, Allotted
<1>2. /\ remaining' \in Nat /\ nap' \in Nat /\ nap' >= nap - 1 /\ nap \in Nat
      /\ remaining' > 0 => remaining' = remaining - 1 /\ remaining > 0
      /\ remaining \in Nat /\ sent \in Nat
  BY <1>1 DEF TrafficInv, Lower
<1>3. CASE step \in {"check", "send", "sleep"}
  <2>1. SleepTime \in Nat /\ sent * SleepTime \in Nat /\ Allotted \in Nat
    BY <1>2, <1>3, PacingTypes, OneMorePacket DEF TrafficInv
  <2>2. PICK k \in Nat : k = sent * SleepTime
    BY <2>1
  <2>3. step \in {"check", "send"} /\ remaining' > 0 =>
          k <= Allotted - remaining'
    BY <1>2, <2>1, <2>2 DEF TrafficInv
  <2>4. step = "sleep" /\ remaining' > 0 => k - nap' <= Allotted - remaining'
    <3>1. step = "sleep" /\ remaining > 0 => k - nap <= Allotted - remaining
      BY <2>2 DEF TrafficInv
    <3>2. PICK a \in Nat : a = Allotted
      BY <2>1
    <3>3. ASSUME step = "sleep", remaining' > 0
          PROVE  k - nap' <= a - remaining'
      <4>1. remaining' = remaining - 1 /\ k - nap <= a - remaining
        BY <1>2, <3>1, <3>2, <3>3
      <4>2. k \in Nat /\ a \in Nat
        OBVIOUS
      <4>3. nap' \in Nat /\ nap \in Nat /\ nap' >= nap - 1 /\ remaining \in Nat
        BY <1>2
      <4>4. \A x, y, z, w \in Nat :
              k - x <= a - z /\ y >= x - 1 /\ w = z - 1 => k - y <= a - w
        BY <4>2
      <4>5. QED
        BY <1>2, <4>1, <4>3, <4>4
    <3>4. QED
      BY <3>2, <3>3
  <2>5. QED
    BY <1>1, <1>2, <2>2, <2>3, <2>4 DEF TrafficInv
<1>4. CASE step \notin {"check", "send", "sleep"}
  BY <1>1, <1>2, <1>4 DEF TrafficInv
<1>5. QED
  BY <1>3, <1>4

LEMMA TrafficInvariant == Spec => []TrafficInv
<1>1. Init => TrafficInv
  BY DEF Init, DemoInit, TrafficInv
<1>2. TrafficInv /\ ConfigInv /\ ConfigInv' /\ [Next]_vars => TrafficInv'
  <2> SUFFICES ASSUME TrafficInv, ConfigInv, [Next]_vars PROVE TrafficInv'
    OBVIOUS
  <2>1. CASE Traffic
    BY <2>1, TrafficKeepsPace
  <2>2. CASE Pass
    BY <2>2, PassKeepsPace
  <2>3. CASE StartDemoCommand \/ Launch
    <3>1. step' = "validate" /\ sent' = 0 /\ remaining' = 0 /\ nap' = 0
      BY <2>3 DEF StartDemoCommand, DemoRun, Launch, LaunchDemo, StartDemo
    <3>2. QED
      BY <3>1 DEF TrafficInv
  <2>4. CASE Fault
    <3>1. /\ UNCHANGED <<remaining, nap, sent>>
          /\ step = "pace" /\ step' = "fault"
      BY <2>4 DEF Fault, DivideByZero
    <3>2. QED
      BY <3>1 DEF TrafficInv
  <2>5. CASE UNCHANGED demoVars
    BY <2>5 DEF TrafficInv, SleepTime, Allotted, demoVars
  <2>6. CASE \/ Parse \/ Edit \/ StartTop \/ EndDemoCommand \/ Main \/ Interrupt
             \/ Terminate \/ DetachTerm \/ DetachKill \/ OtherEdits
             \/ UNCHANGED vars
    <3>1. UNCHANGED demoVars
      BY <2>6 DEF Parse, Edit, StartTop, EndDemoCommand, Main, Interrupt, Terminate,
            DetachTerm, DetachKill, OtherEdits, vars
    <3>2. QED
      BY <2>5, <3>1
  <2>7. QED
    BY <2>1, <2>2, <2>3, <2>4, <2>6 DEF Next
<1>3. QED
  BY <1>1, <1>2, ConfigInvariant, PTL DEF Spec

\* TrafficIsBounded: for every rate, every duration and every lateness of the
\* thread, the packets are at most one for every SleepTime of the duration.
THEOREM TrafficBounded == Spec => []TrafficIsBounded
<1>1. TrafficInv => TrafficIsBounded
  BY DEF TrafficInv, TrafficIsBounded, Allotted
<1>2. QED
  BY <1>1, TrafficInvariant, PTL

-----------------------------------------------------------------------------
(* The override of a demo's target.                                        *)

\* There is one way to tell values from options, found from the left.
LEMMA ValuesExist ==
    ASSUME NEW line, NEW options, NEW n \in Nat
    PROVE  \E V \in SUBSET (1..n) : \A k \in 1..n :
             k \in V <=> k > 1 /\ line[k - 1] \in options /\ k - 1 \notin V
<1> DEFINE Told(m, V) ==
        \A k \in 1..m : k \in V <=> k > 1 /\ line[k - 1] \in options /\ k - 1 \notin V
    Bad == {m \in Nat : ~\E V \in SUBSET (1..m) : Told(m, V)}
<1>1. SUFFICES Bad = {}
  OBVIOUS
<1>2. SUFFICES ASSUME Bad # {} PROVE FALSE
  OBVIOUS
<1>3. PICK m \in Bad : \A y \in Bad : m <= y
  <2>1. Bad \subseteq Nat
    OBVIOUS
  <2>2. QED
    BY <1>2, <2>1, MinOfNats
<1>4. m # 0
  <2>1. Told(0, {}) /\ {} \in SUBSET (1..0)
    OBVIOUS
  <2> HIDE DEF Told
  <2>2. 0 \notin Bad
    BY <2>1
  <2>3. QED
    BY <2>2
<1>5. m - 1 \in Nat /\ m - 1 \notin Bad
  <2>1. m \in Nat
    OBVIOUS
  <2> HIDE DEF Bad
  <2>2. QED
    BY <1>3, <1>4, <2>1
<1>6. PICK V \in SUBSET (1..(m - 1)) : Told(m - 1, V)
  BY <1>5
<1>7. PICK W : W = V \cup {k \in {m} : /\ k > 1 /\ line[k - 1] \in options
                                       /\ k - 1 \notin V}
  OBVIOUS
<1>8. Told(m, W) /\ W \in SUBSET (1..m)
  <2>1. \A k \in 1..(m - 1) : k \in W <=> k \in V
    BY <1>5, <1>7
  <2>2. m - 1 \in W <=> m - 1 \in V
    BY <1>5, <1>7
  <2>3. m \notin V
    BY <1>5, <1>6
  <2>4. m \in W <=> m > 1 /\ line[m - 1] \in options /\ m - 1 \notin W
    BY <1>7, <2>2, <2>3
  <2>5. ASSUME NEW k \in 1..(m - 1)
        PROVE  k \in W <=> k > 1 /\ line[k - 1] \in options /\ k - 1 \notin W
    <3>1. k - 1 \in W <=> k - 1 \in V
      BY <1>5, <1>7, <2>1
    <3>2. k \in V <=> k > 1 /\ line[k - 1] \in options /\ k - 1 \notin V
      BY <1>6
    <3>3. QED
      BY <2>1, <3>1, <3>2
  <2>6. \A k \in 1..m : k = m \/ k \in 1..(m - 1)
    BY <1>5
  <2>7. W \in SUBSET (1..m)
    <3>1. V \subseteq 1..(m - 1) /\ W \subseteq V \cup {m} /\ m \in Nat
      BY <1>5, <1>6, <1>7
    <3>2. QED
      BY <1>4, <3>1
  <2>8. QED
    BY <2>4, <2>5, <2>6, <2>7
<1>9. QED
  BY <1>8

LEMMA ValuesAreTold ==
    ASSUME NEW line \in Seq(STRING), NEW options
    PROVE  /\ ValuesIn(line, options) \subseteq DOMAIN line
           /\ \A k \in DOMAIN line :
                k \in ValuesIn(line, options) <=>
                    /\ k > 1 /\ line[k - 1] \in options
                    /\ k - 1 \notin ValuesIn(line, options)
<1>1. Len(line) \in Nat /\ DOMAIN line = 1..Len(line)
  OBVIOUS
<1>2. \E V \in SUBSET DOMAIN line : \A k \in DOMAIN line :
        k \in V <=> k > 1 /\ line[k - 1] \in options /\ k - 1 \notin V
  BY <1>1, ValuesExist
<1>3. QED
  BY <1>2 DEF ValuesIn

Overridden ==
    \E k \in DOMAIN args \ ValuesIn(args, DemoOptions) :
        k > 1 /\ args[k] = Override

\* The loop of cmd_demo stands at an option, never at a value, unless the
\* scenario is spelt like an option (it is refused then); what it has taken
\* for the override is one.
OptionInv ==
    /\ argv \in Seq(STRING) /\ args \in Seq(STRING) /\ at \in Nat \ {0}
    /\ phase = "options" => cmd = "demo" /\ at >= 2
    /\ phase = "options" /\ at \in DOMAIN args /\ args[1] \notin DemoOptions =>
         at \notin ValuesIn(args, DemoOptions)
    /\ cfg.override = TRUE =>
         /\ phase \in {"options", "demo", "exit"} /\ cmd = "demo"
         /\ args[1] \notin DemoOptions => Overridden

LEMMA ParseKeepsOptions ==
    ASSUME OptionInv, ConfigInv, Parse
    PROVE  OptionInv'
<1>1. ParseStep /\ argv \in Seq(STRING) /\ args \in Seq(STRING) /\ at \in Nat \ {0}
  BY DEF Parse, OptionInv
<1>2. CASE TakeFlag \/ TakeValue \/ TakeCommand
  <2>1. /\ phase = "parse" /\ phase' = "parse" /\ at' \in {at + 1, at + 2}
        /\ UNCHANGED <<argv, args, cfg>>
    BY <1>2 DEF TakeFlag, TakeValue, TakeCommand, AtToken, AfterValue
  <2>2. QED
    BY <1>1, <2>1 DEF OptionInv
<1>3. CASE TakeOperand
  <2>1. /\ phase = "parse" /\ phase' = "parse" /\ at' = at + 1
        /\ UNCHANGED <<argv, cfg>> /\ at <= Len(argv)
        /\ args' = Append(args, argv[at])
    BY <1>3 DEF TakeOperand, AtToken
  <2>2. argv[at] \in STRING
    BY <1>1, <2>1
  <2>3. args' \in Seq(STRING)
    BY <1>1, <2>1, <2>2
  <2>4. QED
    BY <1>1, <2>1, <2>3 DEF OptionInv
<1>4. CASE BadValue \/ HelpOrVersion \/ UnknownWord \/ EndOfLine \/ Misused \/ HandOver
  <2>1. /\ phase \in {"parse", "dispatch"}
        /\ phase' \in {"dispatch", "handed", "exit"}
        /\ UNCHANGED <<argv, args, at, cfg>>
    BY <1>4 DEF BadValue, HelpOrVersion, UnknownWord, EndOfLine, Misused, HandOver,
          AtToken, Refuse, Exit
  <2>2. QED
    BY <1>1, <2>1 DEF OptionInv
<1>5. CASE DemoBegin
  <2>1. /\ phase = "dispatch" /\ cmd = "demo" /\ phase' = "options" /\ at' = 2
        /\ UNCHANGED <<argv, args, cfg, cmd>>
    BY <1>5 DEF DemoBegin
  <2>2. ASSUME 2 \in DOMAIN args, args[1] \notin DemoOptions
        PROVE  2 \notin ValuesIn(args, DemoOptions)
    <3>1. 2 \in ValuesIn(args, DemoOptions) => args[2 - 1] \in DemoOptions
      BY <1>1, <2>2, ValuesAreTold
    <3>2. QED
      BY <2>2, <3>1
  <2>3. QED
    BY <1>1, <2>1, <2>2 DEF OptionInv
<1>6. CASE DemoValue
  <2>1. PICK t \in DemoOptions :
          /\ phase = "options" /\ at < Len(args) /\ t = args[at]
          /\ DemoValueOk(t, args[at + 1])
          /\ cfg' = WithDemoValue(cfg, t, args[at + 1])
    BY <1>6 DEF DemoValue, AtOption
  <2>2. /\ UNCHANGED <<argv, args, cmd, phase>> /\ at' = at + 2
        /\ cfg'.override = cfg.override
    BY <1>6, <2>1, DemoValueKeepsConfig DEF DemoValue, ConfigInv
  <2>3. ASSUME at + 2 \in DOMAIN args, args[1] \notin DemoOptions
        PROVE  at + 2 \notin ValuesIn(args, DemoOptions)
    <3>1. at \in DOMAIN args /\ at + 1 \in DOMAIN args /\ at + 1 > 1
      BY <1>1, <2>1
    <3>2. at \notin ValuesIn(args, DemoOptions)
      BY <2>1, <2>3, <3>1 DEF OptionInv
    <3>3. (at + 1) - 1 = at /\ (at + 2) - 1 = at + 1
      BY <1>1
    <3>4. at + 1 \in ValuesIn(args, DemoOptions)
      BY <1>1, <2>1, <3>1, <3>2, <3>3, ValuesAreTold
    <3>5. QED
      BY <1>1, <2>3, <3>3, <3>4, ValuesAreTold
  <2>4. Overridden' <=> Overridden
    BY <2>2 DEF Overridden
  <2>5. QED
    BY <1>1, <2>1, <2>2, <2>3, <2>4 DEF OptionInv
<1>7. CASE DemoOverride
  <2>1. /\ phase = "options" /\ at <= Len(args) /\ args[at] = Override
        /\ UNCHANGED <<argv, args, cmd, phase>> /\ at' = at + 1
    BY <1>7 DEF DemoOverride, AtOption
  <2>2. at \in DOMAIN args /\ at >= 2 /\ cmd = "demo"
    BY <1>1, <2>1 DEF OptionInv
  <2>3. args[1] \notin DemoOptions => Overridden
    BY <2>1, <2>2 DEF OptionInv, Overridden
  <2>4. ASSUME at + 1 \in DOMAIN args
        PROVE  at + 1 \notin ValuesIn(args, DemoOptions)
    <3>1. (at + 1) - 1 = at /\ Override \notin DemoOptions
      BY <1>1 DEF Override, DemoOptions
    <3>2. QED
      BY <1>1, <2>1, <2>4, <3>1, ValuesAreTold
  <2>5. Overridden' <=> Overridden
    BY <2>1 DEF Overridden
  <2>6. QED
    BY <1>1, <2>1, <2>2, <2>3, <2>4, <2>5 DEF OptionInv
<1>8. CASE DemoOptionBad \/ DemoRefused
  <2>1. /\ phase = "options" /\ phase' = "exit"
        /\ UNCHANGED <<argv, args, at, cfg, cmd>>
    BY <1>8 DEF DemoOptionBad, DemoRefused, AtOption, Exit
  <2>2. Overridden' <=> Overridden
    BY <2>1 DEF Overridden
  <2>3. QED
    BY <1>1, <2>1, <2>2 DEF OptionInv
<1>9. QED
  BY <1>1, <1>2, <1>3, <1>4, <1>5, <1>6, <1>7, <1>8 DEF ParseStep

LEMMA OptionInvariant == Spec => []OptionInv
<1>1. Init => OptionInv
  <2>1. Init => /\ argv \in Seq(STRING) /\ args \in Seq(STRING) /\ at = 1
                /\ phase = "parse" /\ cfg.override = FALSE
    BY CommandLineAssumption, DefaultsAreConfig DEF Init, CliInit
  <2>2. QED
    BY <2>1 DEF OptionInv
<1>2. OptionInv /\ ConfigInv /\ ProcessInv /\ [Next]_vars => OptionInv'
  <2> SUFFICES ASSUME OptionInv, ConfigInv, ProcessInv, [Next]_vars
               PROVE  OptionInv'
    OBVIOUS
  <2>1. CASE Parse
    BY <2>1, ParseKeepsOptions
  <2>2. CASE Edit
    <3>1. /\ UNCHANGED <<argv, args, cfg, cmd>> /\ phase \in {"dispatch", "edit"}
          /\ phase' \in {"edit", "exit"}
      BY <2>2, EditFrame
    <3>2. at' \in Nat \ {0}
      BY <2>2 DEF Edit, EditStep, EditBegin, EditFails, EditOperand, EditEnd,
            NextOperand, OptionInv
    <3>3. QED
      BY <3>1, <3>2 DEF OptionInv
  <2>3. CASE StartTop
    <3>1. /\ phase = "dispatch" /\ phase' = "top" /\ cfg' = cfg
          /\ argv' = << >> /\ args' = << >> /\ at' = 1
      BY <2>3 DEF StartTop, TopBegin
    <3>2. << >> \in Seq(STRING)
      OBVIOUS
    <3>3. QED
      BY <3>1, <3>2 DEF OptionInv
  <2>4. CASE StartDemoCommand
    <3>1. /\ UNCHANGED <<argv, args, cfg, cmd, at>>
          /\ phase = "options" /\ phase' = "demo"
      BY <2>4 DEF StartDemoCommand, DemoRun
    <3>2. Overridden' <=> Overridden
      BY <3>1 DEF Overridden
    <3>3. QED
      BY <3>1, <3>2 DEF OptionInv
  <2>5. CASE EndDemoCommand \/ Main \/ Fault \/ Interrupt \/ DetachKill
    <3>1. /\ UNCHANGED <<argv, args, cfg, cmd, at>>
          /\ phase' = "exit" \/ (phase' = phase /\ phase = "top")
      <4>1. CASE EndDemoCommand
        BY <4>1 DEF EndDemoCommand, DemoExit, Exit
      <4>2. CASE Main
        BY <4>2, MainFrame DEF ProcessInv, Early
      <4>3. CASE Fault \/ Interrupt \/ DetachKill
        BY <4>3, KillFrame
      <4>4. QED
        BY <2>5, <4>1, <4>2, <4>3
    <3>2. Overridden' <=> Overridden
      BY <3>1 DEF Overridden
    <3>3. QED
      BY <3>1, <3>2 DEF OptionInv
  <2>6. CASE \/ Launch \/ Traffic \/ Terminate \/ DetachTerm \/ OtherEdits \/ Pass
             \/ UNCHANGED vars
    <3>1. UNCHANGED cliVars
      BY <2>6, TrafficFrame, OutsideFrame DEF Launch, LaunchDemo, vars
    <3>2. Overridden' <=> Overridden
      BY <3>1 DEF Overridden, cliVars
    <3>3. QED
      BY <3>1, <3>2 DEF OptionInv, cliVars
  <2>7. QED
    BY <2>1, <2>2, <2>3, <2>4, <2>5, <2>6 DEF Next
<1>3. QED
  BY <1>1, <1>2, ConfigInvariant, ProcessInvariant, PTL DEF Spec

\* The override of the running demo is the line's; past validate_target the
\* target is one that it allows; and the last packet went there.
OverrideInv ==
    /\ step # "none" /\ config.override = TRUE => cmd = "demo" /\ Overridden
    /\ step \in Working \ {"validate"} =>
         config.target \in Loopback \/ config.override = TRUE
    /\ wire # << >> =>
         step # "none" /\ (wire.to \in Loopback \/ config.override = TRUE)

LEMMA TrafficKeepsOverride ==
    ASSUME OverrideInv, ConfigInv, Traffic
    PROVE  OverrideInv'
<1>1. /\ UNCHANGED <<config, cmd, args>> /\ step # "none" /\ step' # "none"
      /\ Overridden' <=> Overridden
  BY TrafficFrame DEF Working, cliVars, Overridden
<1>2. CASE Validate
  <2>1. /\ wire' = wire /\ step' \in {"socket", "returned"}
        /\ step' = "socket" => TargetAllowed(config.target, config.override)
    BY <1>2 DEF Validate, Return
  <2>2. config.override \in BOOLEAN
    BY <1>1 DEF ConfigInv, IsConfig
  <2>3. step' = "socket" => config.target \in Loopback \/ config.override = TRUE
    BY <2>1, <2>2 DEF TargetAllowed
  <2>4. QED
    BY <1>1, <2>1, <2>3 DEF OverrideInv, Working
<1>3. CASE Send
  <2>1. /\ step = "send" /\ step' = "sleep"
        /\ wire' = wire \/ wire' = PacketOf(scenario, config)
    BY <1>3 DEF Send
  <2>2. PacketOf(scenario, config).to = config.target
    BY DEF PacketOf
  <2>3. config.target \in Loopback \/ config.override = TRUE
    BY <2>1 DEF OverrideInv, Working
  <2>4. QED
    BY <1>1, <2>1, <2>2, <2>3 DEF OverrideInv
<1>4. CASE ~Validate /\ ~Send
  <2>1. wire' = wire /\ step \in Working \ {"validate"}
    BY <1>4 DEF Traffic, DemoStep, OpenSocket, OpenSocketFails, SetHdrIncl,
          SetHdrInclFails, Pace, CheckTime, SendFails, Wake, Working
  <2>2. QED
    BY <1>1, <2>1 DEF OverrideInv
<1>5. QED
  BY <1>2, <1>3, <1>4

LEMMA OverrideInvariant == Spec => []OverrideInv
<1>1. Init => OverrideInv
  BY DEF Init, DemoInit, OverrideInv, Working
<1>2. /\ OverrideInv /\ OptionInv /\ ConfigInv /\ ProcessInv /\ [Next]_vars
      => OverrideInv'
  <2> SUFFICES ASSUME OverrideInv, OptionInv, ConfigInv, ProcessInv, [Next]_vars
               PROVE  OverrideInv'
    OBVIOUS
  <2>1. CASE Parse \/ Edit \/ StartTop
    <3>1. UNCHANGED demoVars /\ phase \in Early
      BY <2>1, ParseFrame, EditFrame DEF StartTop, TopBegin, Early
    <3>2. step = "none" /\ UNCHANGED <<step, wire, config>>
      BY <3>1 DEF ProcessInv, demoVars
    <3>3. QED
      BY <3>2 DEF OverrideInv, Working
  <2>2. CASE StartDemoCommand
    <3>1. /\ step' = "validate" /\ config' = cfg /\ wire' = << >>
          /\ UNCHANGED <<cmd, args>> /\ DemoAccepted
      BY <2>2 DEF StartDemoCommand, DemoRun, StartDemo
    <3>2. args[1] \notin DemoOptions
      BY <3>1 DEF DemoAccepted, DemoOptions, Enabled
    <3>3. cfg.override = TRUE => cmd = "demo" /\ Overridden
      BY <3>2 DEF OptionInv
    <3>4. Overridden' <=> Overridden
      BY <3>1 DEF Overridden
    <3>5. QED
      BY <3>1, <3>3, <3>4 DEF OverrideInv
  <2>3. CASE Launch
    <3>1. step' = "validate" /\ config' = tui /\ wire' = << >>
      BY <2>3 DEF Launch, LaunchDemo, StartDemo
    <3>2. tui.override = FALSE
      BY DEF ConfigInv
    <3>3. QED
      BY <3>1, <3>2 DEF OverrideInv
  <2>4. CASE Traffic
    BY <2>4, TrafficKeepsOverride
  <2>5. CASE \/ EndDemoCommand \/ Main \/ Fault \/ Interrupt \/ DetachKill
             \/ Terminate \/ DetachTerm \/ OtherEdits \/ Pass \/ UNCHANGED vars
    <3>1. /\ UNCHANGED <<config, wire, cmd, args>>
          /\ step' = step \/ (step = "pace" /\ step' = "fault")
      <4>1. CASE EndDemoCommand \/ UNCHANGED vars
        BY <4>1 DEF EndDemoCommand, DemoExit, vars, demoVars, cliVars
      <4>2. CASE Main
        BY <4>2, MainFrame DEF demoVars
      <4>3. CASE Fault \/ Interrupt \/ DetachKill
        BY <4>3, KillFrame
      <4>4. CASE Terminate \/ DetachTerm \/ OtherEdits \/ Pass
        BY <4>4, OutsideFrame DEF cliVars
      <4>5. QED
        BY <2>5, <4>1, <4>2, <4>3, <4>4
    <3>2. Overridden' <=> Overridden
      BY <3>1 DEF Overridden
    <3>3. QED
      BY <3>1, <3>2 DEF OverrideInv, Working
  <2>6. QED
    BY <2>1, <2>2, <2>3, <2>4, <2>5 DEF Next
<1>3. QED
  BY <1>1, <1>2, OptionInvariant, ConfigInvariant, ProcessInvariant, PTL DEF Spec

\* RemoteOnlyByOverride: no line and no session of top sends a packet out of
\* 127.0.0.0/8, except a demo whose line has the override as an option.
THEOREM RemoteNeedsOverride == Spec => []RemoteOnlyByOverride
<1>1. OverrideInv => RemoteOnlyByOverride
  BY DEF OverrideInv, RemoteOnlyByOverride, Overridden
<1>2. QED
  BY <1>1, OverrideInvariant, PTL

-----------------------------------------------------------------------------
(* The firewall view.                                                      *)

LEMMA EntriesTypes ==
    /\ Len(Entries) \in Nat \ {0} /\ DOMAIN Entries = 1..Len(Entries)
    /\ \A n \in 1..Len(Entries) : Entries[n] \in ToSet(Entries)
<1>1. Entries \in Seq(ToSet(Entries)) /\ Entries # << >>
  BY DashboardAssumption
<1>2. QED
  BY <1>1

\* The recursion of RowsUpTo has a solution.
LEMMA RowsDefined ==
    \A n \in 0..Len(Entries) :
        RowsUpTo[n] = IF n = 0 THEN << >>
                      ELSE IF Entries[n] \in blacklist
                             THEN Append(RowsUpTo[n - 1], Entries[n])
                           ELSE RowsUpTo[n - 1]
<1> DEFINE Row(f, n) == IF n = 0 THEN << >>
                        ELSE IF Entries[n] \in blacklist
                               THEN Append(f[n - 1], Entries[n])
                             ELSE f[n - 1]
    Solved(m) == \E f : f = [n \in 0..m |-> Row(f, n)]
    Bad == {m \in Nat : ~Solved(m)}
<1>1. Bad = {}
  <2>1. SUFFICES ASSUME Bad # {} PROVE FALSE
    OBVIOUS
  <2>2. PICK m \in Bad : \A y \in Bad : m <= y
    <3>1. Bad \subseteq Nat
      OBVIOUS
    <3>2. QED
      BY <2>1, <3>1, MinOfNats
  <2>3. m \in Nat /\ ~Solved(m)
    OBVIOUS
  <2>4. m # 0
    <3>1. PICK f : f = [n \in 0..0 |-> << >>]
      OBVIOUS
    <3>2. f = [n \in 0..0 |-> Row(f, n)]
      BY <3>1
    <3>3. Solved(0)
      BY <3>2
    <3>4. QED
      BY <2>3, <3>3
  <2>5. m - 1 \in Nat /\ Solved(m - 1)
    <3>1. m - 1 \in Nat /\ m - 1 \notin Bad
      <4> HIDE DEF Bad
      <4>1. QED
        BY <2>2, <2>3, <2>4
    <3>2. QED
      BY <3>1
  <2>6. PICK f : f = [n \in 0..(m - 1) |-> Row(f, n)]
    BY <2>5
  <2>7. PICK g : g = [n \in 0..m |-> IF n = m THEN Row(f, m) ELSE f[n]]
    OBVIOUS
  <2>8. ASSUME NEW n \in 0..m PROVE g[n] = Row(g, n)
    <3>1. CASE n = 0
      BY <2>4, <2>6, <2>7, <2>5, <3>1
    <3>2. CASE n # 0
      <4>1. n - 1 \in 0..(m - 1) /\ n - 1 # m /\ n - 1 \in 0..m
        BY <2>3, <3>2
      <4>2. g[n - 1] = f[n - 1]
        BY <2>7, <4>1
      <4>3. g[n] = Row(f, n)
        <5> HIDE DEF Row
        <5>1. CASE n = m
          BY <2>7, <5>1
        <5>2. CASE n # m
          <6>1. n \in 0..(m - 1)
            BY <2>3, <5>2
          <6>2. g[n] = f[n] /\ f[n] = Row(f, n)
            BY <2>6, <2>7, <5>2, <6>1
          <6>3. QED
            BY <6>2
        <5>3. QED
          BY <5>1, <5>2
      <4>4. QED
        BY <3>2, <4>2, <4>3
    <3>3. QED
      BY <3>1, <3>2
  <2>9. g = [n \in 0..m |-> Row(g, n)]
    <3>1. g = [n \in 0..m |-> g[n]]
      BY <2>7
    <3> HIDE DEF Row
    <3>2. QED
      BY <2>8, <3>1
  <2>10. Solved(m)
    BY SMTT(30), <2>9
  <2>11. QED
    BY <2>3, <2>10
<1>2. Solved(Len(Entries))
  BY <1>1, EntriesTypes
<1>3. RowsUpTo = [n \in 0..Len(Entries) |-> Row(RowsUpTo, n)]
  BY <1>2 DEF RowsUpTo
<1>4. QED
  BY <1>3

\* The rows are entries, and no more than there are of those.
LEMMA RowsAreEntries ==
    /\ FirewallRows \in Seq(ToSet(Entries))
    /\ Len(FirewallRows) <= Len(Entries)
<1> DEFINE Good(n) == /\ RowsUpTo[n] \in Seq(ToSet(Entries))
                      /\ Len(RowsUpTo[n]) <= n
    Bad == {n \in 0..Len(Entries) : ~Good(n)}
<1>1. Bad = {}
  <2>1. SUFFICES ASSUME Bad # {} PROVE FALSE
    OBVIOUS
  <2>2. PICK m \in Bad : \A y \in Bad : m <= y
    <3>1. Bad \subseteq Nat
      BY EntriesTypes
    <3>2. QED
      BY <2>1, <3>1, MinOfNats
  <2>3. m \in 0..Len(Entries) /\ ~Good(m) /\ Len(Entries) \in Nat
    BY EntriesTypes
  <2>4. m # 0
    <3>1. 0 \in 0..Len(Entries)
      BY <2>3
    <3>2. RowsUpTo[0] = << >>
      BY <3>1, RowsDefined
    <3>3. Good(0)
      BY <3>2
    <3>4. QED
      BY <2>3, <3>3
  <2>5. m - 1 \in 0..Len(Entries) /\ Good(m - 1)
    <3>1. m - 1 \in 0..Len(Entries) /\ m - 1 \notin Bad
      <4> HIDE DEF Bad
      <4>1. QED
        BY <2>2, <2>3, <2>4
    <3>2. QED
      BY <3>1
  <2>6. PICK r : r = RowsUpTo[m - 1]
    OBVIOUS
  <2>7. r \in Seq(ToSet(Entries)) /\ Len(r) <= m - 1 /\ Len(r) \in Nat
    BY <2>5, <2>6
  <2>8. PICK e : e = Entries[m]
    OBVIOUS
  <2>9. e \in ToSet(Entries)
    BY <2>3, <2>4, <2>8, EntriesTypes
  <2>10. RowsUpTo[m] = r \/ RowsUpTo[m] = Append(r, e)
    BY <2>3, <2>4, <2>6, <2>8, RowsDefined
  <2>11. Append(r, e) \in Seq(ToSet(Entries)) /\ Len(Append(r, e)) = Len(r) + 1
    BY <2>7, <2>9
  <2>12. Good(m)
    BY SMTT(30), <2>3, <2>7, <2>10, <2>11
  <2>13. QED
    BY <2>3, <2>12
<1>2. Good(Len(Entries))
  BY <1>1, EntriesTypes
<1>3. QED
  BY <1>2 DEF FirewallRows

\* Whenever a key can be handled the frame shows the rows it will be applied
\* to, and marks the selected one, unless that is the last, to which the index
\* has fallen back after the frame was drawn, or one that does not fit.
RowInv ==
    /\ selected \in Nat /\ selected < Len(Entries) /\ edits \in Nat
    /\ rows \in Seq(ToSet(Entries)) /\ Len(rows) <= Len(Entries)
    /\ main \in {"wait", "events"} /\ view = "firewall" =>
         /\ frame.rows = rows
         /\ frame.marked # 0 => frame.marked = selected + 1
         /\ frame.marked = 0 /\ selected < Len(rows) =>
              selected + 1 = Len(rows) \/ selected + 1 > Height

\* Drawing the new rows, and then putting the index right.
LEMMA DrawKeepsRows ==
    ASSUME RowInv, UNCHANGED <<view, edits>>,
           rows' = FirewallRows, frame' = Drawn(view, FirewallRows),
           selected' = Clamped(view, FirewallRows)
    PROVE  RowInv'
<1>1. PICK r : r = FirewallRows
  OBVIOUS
<1>2. r \in Seq(ToSet(Entries)) /\ Len(r) <= Len(Entries) /\ Len(r) \in Nat
  BY <1>1, RowsAreEntries
<1>3. r # << >> => Len(r) # 0
  BY <1>2
<1>4. selected \in Nat /\ selected < Len(Entries) /\ Len(Entries) \in Nat
      /\ Height \in Nat
  BY EntriesTypes, Constants DEF RowInv
<1>5. CASE view = "firewall" /\ selected >= Len(r) /\ r # << >>
  <2>1. /\ selected' = Len(r) - 1 /\ rows' = r
        /\ frame' = [view |-> view, rows |-> r, marked |-> 0]
    BY <1>1, <1>2, <1>4, <1>5 DEF Clamped, Drawn
  <2>2. frame'.rows = r /\ frame'.marked = 0
    BY <2>1
  <2>3. QED
    BY <1>2, <1>3, <1>4, <1>5, <2>1, <2>2 DEF RowInv
<1>6. CASE ~(view = "firewall" /\ selected >= Len(r) /\ r # << >>)
  <2>1. selected' = selected /\ rows' = r
    BY <1>1, <1>6 DEF Clamped
  <2>2. ASSUME view = "firewall"
        PROVE  /\ frame'.rows = r
               /\ frame'.marked = IF selected < Len(r) /\ selected < Height
                                    THEN selected + 1 ELSE 0
    BY <1>1, <2>2 DEF Drawn
  <2>3. QED
    BY <1>2, <1>4, <2>1, <2>2 DEF RowInv
<1>7. QED
  BY <1>5, <1>6

LEMMA MainKeepsRows ==
    ASSUME RowInv, Main
    PROVE  RowInv'
<1>1. CASE TopReady
  BY <1>1, DrawKeepsRows DEF TopReady
<1>2. CASE Show
  BY <1>2, DrawKeepsRows DEF Show, loopVars
<1>3. CASE EpollWait
  BY <1>3 DEF EpollWait, loopVars, RowInv
<1>4. CASE KeyMove
  <2>1. /\ main' = "show" /\ UNCHANGED <<rows, edits>>
        /\ \/ selected' = selected
           \/ selected > 0 /\ selected' = selected - 1
           \/ selected + 1 < Len(rows) /\ selected' = selected + 1
    BY <1>4 DEF KeyMove, loopVars
  <2>2. Len(rows) \in Nat /\ Len(Entries) \in Nat
    BY EntriesTypes DEF RowInv
  <2>3. QED
    BY <2>1, <2>2 DEF RowInv
<1>5. CASE \/ TopFails \/ EpollFails \/ ReadSignal \/ NoKey \/ KeyQuit \/ KeyView
           \/ KeyAdd \/ KeyDelete \/ KeyConfig \/ KeyLaunch
           \/ Unpin \/ JoinDemo \/ RestoreScreen \/ TopExit
  <2>1. UNCHANGED <<rows, selected, edits>> /\ main' \notin {"wait", "events"}
    BY <1>5 DEF TopFails, EpollFails, ReadSignal, NoKey, KeyQuit, KeyView, KeyAdd,
          KeyDelete, KeyConfig, KeyLaunch, Unpin, JoinDemo, RestoreScreen, TopExit,
          WayOut, loopVars
  <2>2. QED
    BY <2>1 DEF RowInv
<1>6. QED
  BY <1>1, <1>2, <1>3, <1>4, <1>5 DEF Main, TopStep

LEMMA RowInvariant == Spec => []RowInv
<1>1. Init => RowInv
  <2>1. << >> \in Seq(ToSet(Entries)) /\ Len(<< >>) = 0
    OBVIOUS
  <2>2. QED
    BY <2>1, EntriesTypes DEF Init, TopInit, RowInv
<1>2. RowInv /\ [Next]_vars => RowInv'
  <2> SUFFICES ASSUME RowInv, [Next]_vars PROVE RowInv'
    OBVIOUS
  <2>1. CASE Main
    BY <2>1, MainKeepsRows
  <2>2. CASE Launch \/ StartTop
    <3>1. UNCHANGED <<rows, selected, edits>> /\ main' \notin {"wait", "events"}
      BY <2>2 DEF Launch, LaunchDemo, StartTop, TopBegin
    <3>2. QED
      BY <3>1 DEF RowInv
  <2>3. CASE Fault \/ Interrupt \/ DetachKill
    <3>1. /\ UNCHANGED <<rows, selected, edits>>
          /\ main' = IF main = "off" THEN "off" ELSE "dead"
      BY <2>3 DEF Fault, Interrupt, DetachKill, Killed
    <3>2. QED
      BY <3>1 DEF RowInv
  <2>4. CASE OtherEdits
    <3>1. UNCHANGED <<rows, selected, frame, view, main>> /\ edits' = edits + 1
      BY <2>4 DEF OtherEdits, EditBlacklist
    <3>2. QED
      BY <3>1 DEF RowInv
  <2>5. CASE \/ Parse \/ Edit \/ StartDemoCommand \/ EndDemoCommand \/ Traffic
             \/ Terminate \/ DetachTerm \/ Pass \/ UNCHANGED vars
    <3>1. UNCHANGED <<rows, selected, frame, view, main, edits>>
      BY <2>5 DEF Parse, Edit, StartDemoCommand, EndDemoCommand, Traffic, Terminate,
            DetachTerm, Pass, vars, topVars
    <3>2. QED
      BY <3>1 DEF RowInv
  <2>6. QED
    BY <2>1, <2>2, <2>3, <2>4, <2>5 DEF Next
<1>3. QED
  BY <1>1, <1>2, PTL DEF Spec

\* DeletesWhatIsMarked: for every list of entries, every height of the screen
\* and every edit in between, a delete takes the row that was marked, or one
\* that the user could not see marked: the last, or one below the screen.
THEOREM DeleteTakesTheMarked == Spec => DeletesWhatIsMarked
<1> DEFINE Chosen(e) ==
        IF frame.marked # 0 THEN e = frame.rows[frame.marked]
        ELSE e \in {frame.rows[k] : k \in {j \in DOMAIN frame.rows :
                                             j = Len(frame.rows) \/ j > Height}}
<1>1. RowInv /\ [Next]_vars =>
        [\A e \in blacklist \ blacklist' : edits' # edits \/ Chosen(e)]_topVars
  <2> SUFFICES ASSUME RowInv, [Next]_vars, UNCHANGED topVars => FALSE,
                      NEW e \in blacklist \ blacklist'
               PROVE  edits' # edits \/ Chosen(e)
    OBVIOUS
  <2>1. CASE KeyDelete
    <3>1. /\ main = "events" /\ view = "firewall" /\ selected < Len(rows)
          /\ e = rows[selected + 1]
      BY <2>1 DEF KeyDelete, Key, Tick, SelectedRow
    <3>2. selected + 1 \in DOMAIN rows /\ frame.rows = rows
      BY <3>1 DEF RowInv
    <3>3. CASE frame.marked # 0
      BY <3>1, <3>2, <3>3 DEF RowInv
    <3>4. CASE frame.marked = 0
      <4>1. selected + 1 = Len(rows) \/ selected + 1 > Height
        BY <3>1, <3>4 DEF RowInv
      <4>2. QED
        BY <3>1, <3>2, <3>4, <4>1
    <3>5. QED
      BY <3>3, <3>4
  <2>2. CASE OtherEdits
    BY <2>2 DEF OtherEdits, EditBlacklist, RowInv
  <2>3. CASE KeyAdd
    BY <2>3 DEF KeyAdd
  <2>4. CASE Main /\ ~KeyDelete /\ ~KeyAdd
    <3>1. blacklist' = blacklist
      BY <2>4 DEF Main, TopStep, TopReady, TopFails, EpollWait, EpollFails,
            ReadSignal, NoKey, KeyQuit, KeyView, KeyMove, KeyConfig, KeyLaunch, Show,
            Unpin, JoinDemo, RestoreScreen, TopExit
    <3>2. QED
      BY <3>1
  <2>5. CASE Next /\ ~Main /\ ~OtherEdits
    <3>1. blacklist' = blacklist
      BY <2>5 DEF Next, Parse, Edit, StartTop, TopBegin, StartDemoCommand,
            EndDemoCommand, Launch, LaunchDemo, Traffic, Fault, Interrupt, Terminate,
            DetachTerm, DetachKill, Pass, Killed, topVars
    <3>2. QED
      BY <3>1
  <2>6. CASE UNCHANGED vars
    BY <2>6 DEF vars
  <2>7. QED
    BY <2>1, <2>2, <2>3, <2>4, <2>5, <2>6
<1>2. QED
  BY <1>1, RowInvariant, PTL DEF Spec, DeletesWhatIsMarked

-----------------------------------------------------------------------------
(* block and unblock.                                                      *)

\* The operands that the loop has been through, the entries that the
\* well-formed ones among them ask for.
Taken(n) == {args[j] : j \in 2..n}
Good(S) == {v \in S : CidrOk(v)}
Asked(S) == EntriesOf({KeyOf(v) : v \in Good(S)})

\* What block, or unblock, has made of the trie.
Blocked(S, new, old) ==
    /\ old \subseteq new /\ new \subseteq old \cup Asked(S)
    /\ Cardinality(trie) < TrieCap => new = old \cup Asked(S)
    /\ allOk = TRUE <=> Good(S) = S /\ Asked(S) \subseteq new
Unblocked(S, new, old) ==
    /\ new = old \ Asked(S)
    /\ IsFiniteSet(Asked(S)) /\ Cardinality(Asked(S)) <= at - 2
    /\ allOk = TRUE <=> /\ Good(S) = S /\ Asked(S) \subseteq old
                        /\ Cardinality(Asked(S)) = at - 2
EditInv ==
    /\ allOk \in BOOLEAN /\ trie \in Tries /\ before \in Tries
    /\ phase \in {"parse", "dispatch"} => allOk = TRUE
    /\ phase = "edit" =>
         /\ cmd \in {"block", "unblock"} /\ at \in 2..(Len(args) + 1)
         /\ cmd = "block" =>
              Blocked(Taken(at - 1), EntriesOf(trie), EntriesOf(before))
         /\ cmd = "unblock" =>
              Unblocked(Taken(at - 1), EntriesOf(trie), EntriesOf(before))

LEMMA TrieTypes ==
    ASSUME NEW K \in Tries
    PROVE  /\ K \subseteq Keys /\ IsFiniteSet(K)
           /\ Cardinality(K) \in Nat /\ Cardinality(K) <= TrieCap
           /\ \A k, l \in K : Entry(k) = Entry(l) => k = l
BY FS_CardinalityType DEF Tries

\* One more operand.
LEMMA OneMoreAsked ==
    ASSUME NEW S, NEW v
    PROVE  /\ CidrOk(v) =>
                /\ Good(S \cup {v}) = Good(S) \cup {v}
                /\ Asked(S \cup {v}) = Asked(S) \cup {Entry(KeyOf(v))}
                /\ Good(S \cup {v}) = S \cup {v} <=> Good(S) = S
           /\ ~CidrOk(v) =>
                /\ Good(S \cup {v}) = Good(S) /\ Asked(S \cup {v}) = Asked(S)
                /\ Good(S \cup {v}) # S \cup {v}
<1>1. CASE CidrOk(v)
  <2>1. Good(S \cup {v}) = Good(S) \cup {v}
    BY <1>1 DEF Good
  <2>2. Asked(S \cup {v}) = Asked(S) \cup {Entry(KeyOf(v))}
    BY <2>1 DEF Asked, EntriesOf
  <2>3. Good(S \cup {v}) = S \cup {v} <=> Good(S) = S
    BY <1>1 DEF Good
  <2>4. QED
    BY <1>1, <2>1, <2>2, <2>3
<1>2. CASE ~CidrOk(v)
  <2>1. Good(S \cup {v}) = Good(S) /\ v \notin Good(S)
    BY <1>2 DEF Good
  <2>2. QED
    BY <1>2, <2>1 DEF Asked
<1>3. QED
  BY <1>1, <1>2

\* The trie without an entry, and what is in it with the entry as it is now.
LEMMA OthersEntries ==
    ASSUME trie \in Tries, NEW key
    PROVE  /\ Others(key) \in Tries
           /\ EntriesOf(Others(key)) = EntriesOf(trie) \ {Entry(key)}
           /\ EntriesOf(Others(key) \cup {key}) = EntriesOf(trie) \cup {Entry(key)}
           /\ Others(key) = trie <=> Entry(key) \notin EntriesOf(trie)
           /\ Cardinality(Others(key)) <= Cardinality(trie)
           /\ Cardinality(Others(key)) = Cardinality(trie) => Others(key) = trie
           /\ Others(key) # trie => Cardinality(Others(key)) + 1 = Cardinality(trie)
<1>1. /\ trie \subseteq Keys /\ IsFiniteSet(trie) /\ Cardinality(trie) \in Nat
      /\ Cardinality(trie) <= TrieCap
      /\ \A k, l \in trie : Entry(k) = Entry(l) => k = l
  BY TrieTypes
<1>2. Others(key) \subseteq trie
  BY DEF Others
<1>3. /\ IsFiniteSet(Others(key)) /\ Cardinality(Others(key)) \in Nat
      /\ Cardinality(Others(key)) <= Cardinality(trie)
      /\ Cardinality(Others(key)) = Cardinality(trie) => Others(key) = trie
  BY <1>1, <1>2, FS_Subset, FS_CardinalityType
<1>4. Others(key) \in Tries
  <2>1. Cardinality(Others(key)) <= TrieCap
    BY <1>1, <1>3, BitsAssumption
  <2>2. QED
    BY <1>1, <1>2, <1>3, <2>1 DEF Tries
<1>5. EntriesOf(Others(key)) = EntriesOf(trie) \ {Entry(key)}
  BY DEF EntriesOf, Others
<1>6. EntriesOf(Others(key) \cup {key}) = EntriesOf(Others(key)) \cup {Entry(key)}
  BY DEF EntriesOf
<1>7. Others(key) = trie <=> Entry(key) \notin EntriesOf(trie)
  BY DEF EntriesOf, Others
<1>8. Others(key) # trie => Cardinality(Others(key)) + 1 = Cardinality(trie)
  <2> SUFFICES ASSUME Others(key) # trie
               PROVE  Cardinality(Others(key)) + 1 = Cardinality(trie)
    OBVIOUS
  <2>1. PICK k \in trie : Entry(k) = Entry(key)
    BY DEF Others
  <2>2. Others(key) = trie \ {k}
    BY <1>1, <2>1 DEF Others
  <2>3. Cardinality(trie \ {k}) = Cardinality(trie) - 1
    BY <1>1, <2>1, FS_RemoveElement
  <2>4. QED
    BY <1>1, <2>2, <2>3
<1>9. QED
  BY <1>3, <1>4, <1>5, <1>6, <1>7, <1>8

\* A step of the loop, as a fact about the trie before and after it.
LEMMA OperandTaken ==
    ASSUME EditInv, OptionInv, EditOperand
    PROVE  /\ phase = "edit" /\ at \in Nat /\ at <= Len(args) /\ at >= 2 /\ at' = at + 1
           /\ UNCHANGED <<phase, cmd, args, before>> /\ Len(args) \in Nat
           /\ Taken(at' - 1) = Taken(at - 1) \cup {args[at]}
           /\ IF CidrOk(args[at]) /\ Accepts(KeyOf(args[at]))
                THEN trie' = Edited(KeyOf(args[at])) /\ allOk' = allOk
                ELSE trie' = trie /\ allOk' = FALSE
<1>1. /\ phase = "edit" /\ at <= Len(args) /\ at' = at + 1
      /\ UNCHANGED <<phase, cmd, args, before>>
  BY DEF EditOperand, NextOperand
<1>2. at \in Nat /\ at >= 2 /\ Len(args) \in Nat /\ allOk \in BOOLEAN
  BY <1>1 DEF EditInv, OptionInv
<1>3. 2..at = 2..(at - 1) \cup {at} /\ at' - 1 = at
  BY <1>1, <1>2
<1>4. Taken(at) = Taken(at - 1) \cup {args[at]}
  BY <1>3 DEF Taken
<1>5. CASE CidrOk(args[at]) /\ Accepts(KeyOf(args[at]))
  BY <1>1, <1>2, <1>3, <1>4, <1>5 DEF EditOperand
<1>6. CASE ~(CidrOk(args[at]) /\ Accepts(KeyOf(args[at])))
  BY <1>1, <1>2, <1>3, <1>4, <1>6 DEF EditOperand
<1>7. QED
  BY <1>5, <1>6

LEMMA KeyOfTypes ==
    ASSUME NEW v, CidrOk(v)
    PROVE  KeyOf(v) \in Keys
<1>1. Cidr[v].addr \in Addresses
  BY BitsAssumption DEF CidrOk, Addresses
<1>2. Bits \in 0..Bits
  BY BitsAssumption
<1>3. (IF Cidr[v].slash = NoSlash THEN Bits ELSE Cidr[v].slash) \in 0..Bits
  BY <1>2 DEF CidrOk
<1>4. QED
  BY <1>1, <1>3 DEF KeyOf, Keys

\* The trie stays one: an entry replaces itself, or finds room.
LEMMA OperandKeepsTrie ==
    ASSUME EditInv, OptionInv, EditOperand
    PROVE  trie' \in Tries
<1>1. trie \in Tries /\ cmd \in {"block", "unblock"}
  BY OperandTaken DEF EditInv
<1>2. CASE CidrOk(args[at]) /\ Accepts(KeyOf(args[at]))
  <2>1. PICK key : key = KeyOf(args[at])
    OBVIOUS
  <2>2. trie' = Edited(key) /\ Accepts(key) /\ key \in Keys
    BY <1>2, <2>1, OperandTaken, KeyOfTypes
  <2>3. Others(key) \in Tries
    BY <1>1, OthersEntries
  <2>4. CASE cmd = "unblock"
    BY <2>2, <2>3, <2>4 DEF Edited
  <2>5. CASE cmd = "block"
    <3>1. trie' = Others(key) \cup {key} /\ Cardinality(Others(key)) < TrieCap
      BY <2>2, <2>5 DEF Edited, Accepts
    <3>2. /\ Others(key) \subseteq Keys /\ IsFiniteSet(Others(key))
          /\ Cardinality(Others(key)) \in Nat
          /\ \A k, l \in Others(key) : Entry(k) = Entry(l) => k = l
      BY <2>3, TrieTypes
    <3>3. key \notin Others(key) /\ \A k \in Others(key) : Entry(k) # Entry(key)
      BY DEF Others
    <3>4. /\ IsFiniteSet(Others(key) \cup {key})
          /\ Cardinality(Others(key) \cup {key}) = Cardinality(Others(key)) + 1
      BY <3>2, <3>3, FS_AddElement
    <3>5. Cardinality(trie') <= TrieCap
      BY <3>1, <3>2, <3>4, BitsAssumption
    <3>6. \A k, l \in trie' : Entry(k) = Entry(l) => k = l
      BY <3>1, <3>2, <3>3
    <3>7. QED
      BY <2>2, <3>1, <3>2, <3>4, <3>5, <3>6 DEF Tries
  <2>6. QED
    BY <1>1, <2>4, <2>5
<1>3. CASE ~(CidrOk(args[at]) /\ Accepts(KeyOf(args[at])))
  BY <1>1, <1>3, OperandTaken
<1>4. QED
  BY <1>2, <1>3

LEMMA BlockOperand ==
    ASSUME EditInv, OptionInv, EditOperand, cmd = "block"
    PROVE  Blocked(Taken(at - 1), EntriesOf(trie), EntriesOf(before))'
<1>1. PICK S : S = Taken(at - 1)
  OBVIOUS
<1>2. PICK v : v = args[at]
  OBVIOUS
<1>3. PICK new : new = EntriesOf(trie)
  OBVIOUS
<1>4. PICK old : old = EntriesOf(before)
  OBVIOUS
<1>5. /\ old \subseteq new /\ new \subseteq old \cup Asked(S)
      /\ Cardinality(trie) < TrieCap => new = old \cup Asked(S)
      /\ allOk = TRUE <=> Good(S) = S /\ Asked(S) \subseteq new
  BY <1>1, <1>3, <1>4, OperandTaken DEF EditInv, Blocked
<1>6. /\ Taken(at - 1)' = S \cup {v} /\ EntriesOf(before)' = old
      /\ Asked(S \cup {v})' = Asked(S \cup {v}) /\ Good(S \cup {v})' = Good(S \cup {v})
  BY <1>1, <1>2, <1>4, OperandTaken DEF Taken, EntriesOf, Asked, Good
<1>7. PICK T : T = S \cup {v}
  OBVIOUS
<1>8. SUFFICES /\ old \subseteq EntriesOf(trie')
               /\ EntriesOf(trie') \subseteq old \cup Asked(T)
               /\ Cardinality(trie') < TrieCap => EntriesOf(trie') = old \cup Asked(T)
               /\ allOk' = TRUE <=> Good(T) = T /\ Asked(T) \subseteq EntriesOf(trie')
  BY <1>6, <1>7 DEF Blocked
<1>9. trie \in Tries /\ Cardinality(trie) \in Nat /\ Cardinality(trie) <= TrieCap
      /\ TrieCap \in Nat
  BY TrieTypes, BitsAssumption DEF EditInv
<1>10. CASE ~CidrOk(v)
  BY <1>2, <1>3, <1>5, <1>7, <1>10, OperandTaken, OneMoreAsked
<1>11. CASE CidrOk(v)
  <2>1. PICK key : key = KeyOf(v)
    OBVIOUS
  <2>2. PICK e : e = Entry(key)
    OBVIOUS
  <2>3. /\ Asked(T) = Asked(S) \cup {e} /\ (Good(T) = T <=> Good(S) = S)
    BY <1>7, <1>11, <2>1, <2>2, OneMoreAsked
  <2>4. /\ EntriesOf(Others(key) \cup {key}) = new \cup {e}
        /\ Others(key) = trie <=> e \notin new
        /\ Cardinality(Others(key)) <= Cardinality(trie)
        /\ Cardinality(Others(key)) = Cardinality(trie) => Others(key) = trie
        /\ Others(key) # trie => Cardinality(Others(key)) + 1 = Cardinality(trie)
        /\ Others(key) \in Tries
    BY <1>3, <1>9, <2>2, OthersEntries
  <2>5. Cardinality(Others(key)) \in Nat /\ IsFiniteSet(Others(key))
    BY <2>4, TrieTypes
  <2>6. CASE Accepts(key)
    <3>1. /\ trie' = Others(key) \cup {key} /\ allOk' = allOk
          /\ Cardinality(Others(key)) < TrieCap
      BY <1>2, <1>11, <2>1, <2>6, OperandTaken DEF Accepts, Edited
    <3>2. EntriesOf(trie') = new \cup {e}
      BY <2>4, <3>1
    <3>3. Cardinality(trie') = Cardinality(Others(key)) + 1
      <4>1. key \notin Others(key)
        BY DEF Others
      <4>2. QED
        BY <2>5, <3>1, <4>1, FS_AddElement
    <3>4. Cardinality(trie') < TrieCap => Cardinality(trie) < TrieCap
      BY <1>9, <2>4, <2>5, <3>3
    <3>5. e \notin new => Cardinality(trie) < TrieCap
      BY <2>4, <3>1
    <3>6. Asked(T) \subseteq EntriesOf(trie') <=> Asked(S) \subseteq new
      BY <1>5, <2>3, <3>2, <3>5
    <3>7. QED
      BY <1>5, <2>3, <3>1, <3>2, <3>4, <3>6
  <2>7. CASE ~Accepts(key)
    <3>1. /\ trie' = trie /\ allOk' = FALSE /\ ~(Cardinality(Others(key)) < TrieCap)
      BY <1>2, <1>11, <2>1, <2>7, OperandTaken DEF Accepts
    <3>2. Cardinality(trie) = TrieCap /\ e \notin new
      BY <1>9, <2>4, <2>5, <3>1
    <3>3. EntriesOf(trie') = new
      BY <1>3, <3>1
    <3>4. QED
      BY <1>5, <1>9, <2>3, <3>1, <3>2, <3>3
  <2>8. QED
    BY <2>6, <2>7
<1>12. QED
  BY <1>10, <1>11

LEMMA UnblockOperand ==
    ASSUME EditInv, OptionInv, EditOperand, cmd = "unblock"
    PROVE  Unblocked(Taken(at - 1), EntriesOf(trie), EntriesOf(before))'
<1>1. PICK S : S = Taken(at - 1)
  OBVIOUS
<1>2. PICK v : v = args[at]
  OBVIOUS
<1>3. PICK new : new = EntriesOf(trie)
  OBVIOUS
<1>4. PICK old : old = EntriesOf(before)
  OBVIOUS
<1>5. /\ new = old \ Asked(S) /\ IsFiniteSet(Asked(S))
      /\ Cardinality(Asked(S)) <= at - 2 /\ Cardinality(Asked(S)) \in Nat
      /\ allOk = TRUE <=> /\ Good(S) = S /\ Asked(S) \subseteq old
                          /\ Cardinality(Asked(S)) = at - 2
  BY <1>1, <1>3, <1>4, OperandTaken, FS_CardinalityType DEF EditInv, Unblocked
<1>6. /\ Taken(at - 1)' = S \cup {v} /\ EntriesOf(before)' = old
      /\ Asked(S \cup {v})' = Asked(S \cup {v}) /\ Good(S \cup {v})' = Good(S \cup {v})
  BY <1>1, <1>2, <1>4, OperandTaken DEF Taken, EntriesOf, Asked, Good
<1>7. PICK T : T = S \cup {v}
  OBVIOUS
<1>8. /\ at' - 2 = (at - 2) + 1 /\ at - 2 \in Nat /\ trie \in Tries
  <2>1. at' = at + 1 /\ at \in Nat /\ at >= 2
    BY OperandTaken
  <2>2. QED
    BY <2>1 DEF EditInv
<1>9. SUFFICES /\ EntriesOf(trie') = old \ Asked(T)
               /\ IsFiniteSet(Asked(T)) /\ Cardinality(Asked(T)) <= at' - 2
               /\ allOk' = TRUE <=> /\ Good(T) = T /\ Asked(T) \subseteq old
                                    /\ Cardinality(Asked(T)) = at' - 2
  BY <1>6, <1>7 DEF Unblocked
<1>10. CASE ~CidrOk(v)
  <2>1. /\ Asked(T) = Asked(S) /\ Good(T) # T /\ trie' = trie /\ allOk' = FALSE
    BY <1>2, <1>7, <1>10, OperandTaken, OneMoreAsked
  <2>2. Cardinality(Asked(T)) <= at' - 2
    BY <1>5, <1>8, <2>1
  <2>3. QED
    BY <1>3, <1>5, <2>1, <2>2
<1>11. CASE CidrOk(v)
  <2>1. PICK key : key = KeyOf(v)
    OBVIOUS
  <2>2. PICK e : e = Entry(key)
    OBVIOUS
  <2>3. Asked(T) = Asked(S) \cup {e} /\ (Good(T) = T <=> Good(S) = S)
    BY <1>7, <1>11, <2>1, <2>2, OneMoreAsked
  <2>4. /\ EntriesOf(Others(key)) = new \ {e}
        /\ Others(key) = trie <=> e \notin new
    BY <1>3, <1>8, <2>2, OthersEntries
  <2>5. /\ IsFiniteSet(Asked(T)) /\ Cardinality(Asked(T)) \in Nat
        /\ e \in Asked(S) => Cardinality(Asked(T)) = Cardinality(Asked(S))
        /\ e \notin Asked(S) => Cardinality(Asked(T)) = Cardinality(Asked(S)) + 1
    BY <1>5, <2>3, FS_AddElement, FS_CardinalityType
  <2>6. Cardinality(Asked(T)) <= at' - 2
    BY <1>5, <1>8, <2>5
  <2>7. CASE Accepts(key)
    <3>1. trie' = Others(key) /\ allOk' = allOk /\ Others(key) # trie
      BY <1>2, <1>11, <2>1, <2>7, OperandTaken DEF Accepts, Edited
    <3>2. e \in old /\ e \notin Asked(S)
      BY <1>5, <2>4, <3>1
    <3>3. EntriesOf(trie') = old \ Asked(T)
      BY <1>5, <2>3, <2>4, <3>1
    <3>4. Asked(T) \subseteq old <=> Asked(S) \subseteq old
      BY <2>3, <3>2
    <3>5. Cardinality(Asked(T)) = at' - 2 <=> Cardinality(Asked(S)) = at - 2
      BY <1>5, <1>8, <2>5, <3>2
    <3>6. QED
      BY <1>5, <2>3, <2>5, <2>6, <3>1, <3>3, <3>4, <3>5
  <2>8. CASE ~Accepts(key)
    <3>1. trie' = trie /\ allOk' = FALSE /\ Others(key) = trie
      BY <1>2, <1>11, <2>1, <2>8, OperandTaken DEF Accepts
    <3>2. e \notin new
      BY <2>4, <3>1
    <3>3. EntriesOf(trie') = old \ Asked(T)
      BY <1>3, <1>5, <2>3, <3>1, <3>2
    <3>4. ~(Asked(T) \subseteq old /\ Cardinality(Asked(T)) = at' - 2)
      <4>1. CASE e \in Asked(S)
        BY <1>5, <1>8, <2>5, <4>1
      <4>2. CASE e \notin Asked(S)
        BY <1>5, <2>3, <3>2, <4>2
      <4>3. QED
        BY <4>1, <4>2
    <3>5. QED
      BY <2>5, <2>6, <3>1, <3>3, <3>4
  <2>9. QED
    BY <2>7, <2>8
<1>12. QED
  BY <1>10, <1>11

LEMMA EditInvariant == Spec => []EditInv
<1>1. Init => EditInv
  <2>1. {} \in Tries
    BY FS_EmptySet, BitsAssumption DEF Tries
  <2>2. QED
    BY <2>1 DEF Init, EditInit, CliInit, EditInv
<1>2. EditInv /\ OptionInv /\ ProcessInv /\ [Next]_vars => EditInv'
  <2> SUFFICES ASSUME EditInv, OptionInv, ProcessInv, [Next]_vars PROVE EditInv'
    OBVIOUS
  <2>1. CASE EditOperand
    <3>1. /\ phase' = "edit" /\ at' \in 2..(Len(args') + 1) /\ UNCHANGED <<cmd, before>>
          /\ allOk' \in BOOLEAN /\ cmd \in {"block", "unblock"} /\ before \in Tries
      <4>1. /\ phase' = "edit" /\ at' = at + 1 /\ at \in Nat /\ at >= 2
            /\ at <= Len(args) /\ Len(args) \in Nat /\ UNCHANGED <<cmd, args, before>>
            /\ allOk' \in {allOk, FALSE}
        BY <2>1, OperandTaken
      <4>2. at' \in 2..(Len(args) + 1)
        BY <4>1
      <4>3. QED
        BY <2>1, <4>1, <4>2 DEF EditInv, EditOperand
    <3>2. trie' \in Tries
      BY <2>1, OperandKeepsTrie
    <3>3. cmd = "block" => Blocked(Taken(at - 1), EntriesOf(trie), EntriesOf(before))'
      BY <2>1, BlockOperand
    <3>4. cmd = "unblock" =>
            Unblocked(Taken(at - 1), EntriesOf(trie), EntriesOf(before))'
      BY <2>1, UnblockOperand
    <3>5. QED
      BY <3>1, <3>2, <3>3, <3>4 DEF EditInv
  <2>2. CASE EditBegin
    <3>1. /\ phase = "dispatch" /\ phase' = "edit" /\ at' = 2 /\ UsageOk
          /\ cmd \in {"block", "unblock"} /\ UNCHANGED <<cmd, args, allOk>>
          /\ trie' \in Tries /\ before' = trie'
      BY <2>2 DEF EditBegin
    <3>2. allOk = TRUE /\ Len(args) \in Nat /\ Len(args) >= 2
      BY <3>1 DEF EditInv, OptionInv, UsageOk
    <3>3. Taken(at - 1)' = {}
      BY <3>1 DEF Taken
    <3>4. PICK S : S = {}
      OBVIOUS
    <3>5. Good(S)' = S /\ Asked(S)' = S
      BY <3>4 DEF Good, Asked, EntriesOf
    <3>6. IsFiniteSet(S) /\ Cardinality(S) = 0
      BY <3>4, FS_EmptySet
    <3>7. PICK new : new = EntriesOf(trie')
      OBVIOUS
    <3>8. EntriesOf(trie)' = new /\ EntriesOf(before)' = new /\ at' - 2 = 0
      BY <3>1, <3>7 DEF EntriesOf
    <3>9. Blocked(S, new, new)'
      BY <3>1, <3>2, <3>4, <3>5 DEF Blocked
    <3>10. Unblocked(S, new, new)'
      BY SMTT(30), <3>1, <3>2, <3>4, <3>5, <3>6, <3>8 DEF Unblocked
    <3>11. at' \in 2..(Len(args') + 1)
      BY <3>1, <3>2
    <3>12. QED
      BY <3>1, <3>2, <3>3, <3>4, <3>8, <3>9, <3>10, <3>11 DEF EditInv
  <2>3. CASE EditFails \/ EditEnd
    <3>1. phase' = "exit" /\ UNCHANGED editVars
      BY <2>3 DEF EditFails, EditEnd, Exit
    <3>2. QED
      BY <3>1 DEF EditInv, editVars
  <2>4. CASE Next /\ ~Edit
    <3>1. UNCHANGED editVars /\ phase' # "edit"
          /\ (phase' \in {"parse", "dispatch"} => phase \in {"parse", "dispatch"})
      <4>1. CASE Parse
        <5>1. phase' # "edit" /\ UNCHANGED editVars
          BY <4>1, ParseFrame
        <5>2. phase = "options" => phase' \in {"options", "exit"}
          BY <4>1 DEF Parse, ParseStep, TakeFlag, TakeValue, BadValue, HelpOrVersion,
                TakeCommand, UnknownWord, TakeOperand, EndOfLine, Misused, HandOver,
                DemoBegin, DemoValue, DemoOverride, DemoOptionBad, DemoRefused,
                AtToken, Exit
        <5>3. QED
          BY <4>1, <5>1, <5>2, ParseFrame
      <4>2. CASE Main
        BY <4>2, MainFrame DEF ProcessInv, Early
      <4>3. CASE StartTop \/ StartDemoCommand \/ EndDemoCommand
        BY <4>3 DEF StartTop, TopBegin, StartDemoCommand, DemoRun, EndDemoCommand,
              DemoExit, Exit
      <4>4. CASE Fault \/ Interrupt \/ DetachKill
        BY <4>4 DEF Fault, Interrupt, DetachKill, Killed, Exit, editVars
      <4>5. CASE Launch
        BY <4>5 DEF Launch, LaunchDemo, CanLaunch, cliVars, ProcessInv, Early
      <4>6. CASE Traffic
        BY <4>6, TrafficFrame DEF cliVars
      <4>7. CASE OtherEdits \/ Terminate \/ DetachTerm
        BY <4>7 DEF OtherEdits, EditBlacklist, Terminate, DetachTerm, cliVars,
              TopAlive, ProcessInv, Early
      <4>8. CASE Pass
        BY <4>8 DEF Pass, cliVars
      <4>9. QED
        BY <2>4, <4>1, <4>2, <4>3, <4>4, <4>5, <4>6, <4>7, <4>8 DEF Next
    <3>2. QED
      BY <3>1 DEF EditInv, editVars
  <2>5. CASE UNCHANGED vars
    <3>1. UNCHANGED <<phase, cmd, at, args, trie, before, allOk>>
      BY <2>5 DEF vars, cliVars, editVars
    <3>2. /\ Taken(at - 1)' = Taken(at - 1) /\ EntriesOf(trie)' = EntriesOf(trie)
          /\ EntriesOf(before)' = EntriesOf(before)
      BY <3>1 DEF Taken, EntriesOf
    <3>3. ASSUME NEW S, NEW new, NEW old
          PROVE  /\ Blocked(S, new, old)' <=> Blocked(S, new, old)
                 /\ Unblocked(S, new, old)' <=> Unblocked(S, new, old)
      BY <3>1 DEF Blocked, Unblocked, Asked, Good, EntriesOf
    <3>4. QED
      BY <3>1, <3>2, <3>3 DEF EditInv
  <2>6. QED
    BY <2>1, <2>2, <2>3, <2>4, <2>5 DEF Edit, EditStep
<1>3. QED
  BY <1>1, <1>2, OptionInvariant, ProcessInvariant, PTL DEF Spec

\* EditsAreComplete: for every address width, every capacity and every list of
\* operands, well-formed or not, block and unblock leave the entries that were
\* asked for, and their status says whether they could.
THEOREM EditsComplete == Spec => []EditsAreComplete
<1>1. EditInv /\ OptionInv => EditsAreComplete
  <2> SUFFICES ASSUME EditInv, OptionInv, phase = "edit", at > Len(args)
               PROVE  EditsAreComplete
    BY DEF EditsAreComplete
  <2>1. /\ args \in Seq(STRING) /\ Len(args) \in Nat /\ at \in 2..(Len(args) + 1)
        /\ cmd \in {"block", "unblock"} /\ allOk \in BOOLEAN
    BY DEF EditInv, OptionInv
  <2>2. at = Len(args) + 1 /\ at - 1 = Len(args) /\ args # << >>
    BY <2>1
  <2>3. PICK operands : operands = Tail(args)
    OBVIOUS
  <2>4. /\ operands \in Seq(STRING) /\ Len(operands) = Len(args) - 1
        /\ \A j \in 1..(Len(args) - 1) : operands[j] = args[j + 1]
    BY <2>1, <2>2, <2>3
  <2>5. Taken(at - 1) = ToSet(operands)
    <3>1. DOMAIN operands = 1..(Len(args) - 1)
      BY <2>1, <2>4
    <3>2. ASSUME NEW j \in 2..Len(args) PROVE args[j] \in ToSet(operands)
      <4>1. j - 1 \in DOMAIN operands /\ (j - 1) + 1 = j
        BY <2>1, <3>1
      <4>2. operands[j - 1] = args[j]
        BY <2>4, <3>1, <4>1
      <4>3. QED
        BY <4>1, <4>2 DEF ToSet
    <3>3. ASSUME NEW i \in DOMAIN operands PROVE operands[i] \in Taken(at - 1)
      <4>1. i + 1 \in 2..Len(args) /\ operands[i] = args[i + 1]
        BY <2>1, <2>4, <3>1
      <4>2. QED
        BY <2>2, <4>1 DEF Taken
    <3>4. QED
      BY <2>2, <3>2, <3>3 DEF Taken, ToSet
  <2>6. PICK S : S = ToSet(operands)
    OBVIOUS
  <2>7. PICK wellFormed : wellFormed = {v \in S : CidrOk(v)}
    OBVIOUS
  <2>8. PICK asked : asked = EntriesOf({KeyOf(v) : v \in wellFormed})
    OBVIOUS
  <2>9. Good(S) = wellFormed /\ Asked(S) = asked
    BY <2>7, <2>8 DEF Good, Asked
  <2>10. PICK new : new = EntriesOf(trie)
    OBVIOUS
  <2>11. PICK old : old = EntriesOf(before)
    OBVIOUS
  <2>12. CASE cmd = "block"
    <3>1. /\ old \subseteq new /\ new \subseteq old \cup asked
          /\ Cardinality(trie) < TrieCap => new = old \cup asked
          /\ allOk <=> wellFormed = S /\ asked \subseteq new
      BY <2>1, <2>5, <2>6, <2>9, <2>10, <2>11, <2>12 DEF EditInv, Blocked
    <3>2. ASSUME allOk, NEW v \in wellFormed, NEW a \in Addresses,
                 Entry([KeyOf(v) EXCEPT !.data = a]) = Entry(KeyOf(v))
          PROVE  \E e \in new : a \div 2^(Bits - e.len) = e.net
      <4>1. PICK key : key = KeyOf(v)
        OBVIOUS
      <4>2. PICK other : other = [key EXCEPT !.data = a]
        OBVIOUS
      <4>3. other.data = a /\ other.len = key.len
        BY <4>1, <4>2 DEF KeyOf
      <4>4. PICK e : e = Entry(key)
        OBVIOUS
      <4>5. e \in new
        BY <2>8, <3>1, <3>2, <4>1, <4>4 DEF EntriesOf
      <4>6. Entry(other) = e
        BY <3>2, <4>1, <4>2, <4>4
      <4>7. e.len = key.len /\ e.net = a \div 2^(Bits - key.len)
        BY <4>3, <4>6, <4>4 DEF Entry
      <4>8. QED
        BY <4>5, <4>7
    <3>3. QED
      BY <2>3, <2>6, <2>7, <2>8, <2>10, <2>11, <2>12, <3>1, <3>2
      DEF EditsAreComplete
  <2>13. CASE cmd = "unblock"
    <3>1. /\ new = old \ asked
          /\ allOk <=> /\ wellFormed = S /\ asked \subseteq old
                       /\ Cardinality(asked) = at - 2
      BY <2>1, <2>5, <2>6, <2>9, <2>10, <2>11, <2>13 DEF EditInv, Unblocked
    <3>2. at - 2 = Len(operands)
      BY <2>1, <2>2, <2>4
    <3>3. QED
      BY <2>3, <2>6, <2>7, <2>8, <2>10, <2>11, <2>13, <3>1, <3>2
      DEF EditsAreComplete
  <2>14. QED
    BY <2>1, <2>12, <2>13
<1>2. QED
  BY <1>1, EditInvariant, OptionInvariant, PTL

-----------------------------------------------------------------------------
(* Types.                                                                  *)

LEMMA MaxSentType == MaxSent \in Nat \ {0}
<1>1. PICK d : d = CHOOSE x \in Durations : \A e \in Durations : e <= x
  OBVIOUS
<1>2. d \in Nat
  BY <1>1, DemoAssumption
<1>3. MaxSent = Second * d + 1
  BY <1>1 DEF MaxSent
<1>4. QED
  BY <1>2, <1>3, Constants

\* The demo's counters stay in their ranges.
CounterInv ==
    /\ step \in Steps /\ scenario \in Scenarios \cup {"none"}
    /\ launching \in Scenarios \cup {"none"}
    /\ seq \in 0..(SeqEnd - 1) /\ sport \in FirstPort..(PortEnd - 1)
    /\ sent \in 0..MaxSent /\ result \in Results

LEMMA CounterInvariant == Spec => []CounterInv
<1>1. Init => CounterInv
  <2>1. /\ 0 \in 0..(SeqEnd - 1) /\ FirstPort \in FirstPort..(PortEnd - 1)
        /\ 0 \in 0..MaxSent
    BY Constants, MaxSentType
  <2>2. QED
    BY <2>1 DEF Init, DemoInit, TopInit, CounterInv, Steps, Results
<1>2. CounterInv /\ [Next]_vars => CounterInv'
  <2> SUFFICES ASSUME CounterInv, [Next]_vars PROVE CounterInv'
    OBVIOUS
  <2>1. CASE StartDemoCommand \/ Launch
    <3>1. /\ step' = "validate" /\ seq' = 0 /\ sport' = FirstPort /\ sent' = 0
          /\ result' = "none"
      BY <2>1 DEF StartDemoCommand, DemoRun, Launch, LaunchDemo, StartDemo
    <3>2. /\ scenario' \in Scenarios \cup {"none"}
          /\ launching' \in Scenarios \cup {"none"}
      BY <2>1 DEF StartDemoCommand, DemoRun, DemoAccepted, Enabled, Launch,
            LaunchDemo, StartDemo, Scenarios, CounterInv, topVars
    <3>3. 0 \in 0..(SeqEnd - 1) /\ FirstPort \in FirstPort..(PortEnd - 1)
          /\ 0 \in 0..MaxSent
      BY Constants, MaxSentType
    <3>4. QED
      BY <3>1, <3>2, <3>3 DEF CounterInv, Steps, Results
  <2>2. CASE Traffic /\ Send
    <3>1. /\ step' = "sleep" /\ UNCHANGED <<scenario, result, launching>>
          /\ seq' \in {seq, (seq + 1) % SeqEnd} /\ sport' \in {sport, PortAfter(sport)}
          /\ sent' = IF sent < MaxSent THEN sent + 1 ELSE sent
      BY <2>2 DEF Traffic, Send, topVars
    <3>2. seq' \in 0..(SeqEnd - 1)
      BY <3>1, Constants DEF CounterInv
    <3>3. sport' \in FirstPort..(PortEnd - 1)
      BY <3>1, Constants DEF CounterInv, PortAfter
    <3>4. sent' \in 0..MaxSent
      BY <3>1, MaxSentType DEF CounterInv
    <3>5. QED
      BY <3>1, <3>2, <3>3, <3>4 DEF CounterInv, Steps
  <2>3. CASE Traffic /\ ~Send
    <3>1. UNCHANGED <<scenario, launching, seq, sport, sent>>
      BY <2>3 DEF Traffic, DemoStep, Validate, OpenSocket, OpenSocketFails,
            SetHdrIncl, SetHdrInclFails, Pace, CheckTime, SendFails, Wake, topVars
    <3>2. result' = result \/ result' \in {"ok", "denied", "error"}
      BY <2>3 DEF Traffic, DemoStep, Validate, OpenSocket, OpenSocketFails,
            SetHdrIncl, SetHdrInclFails, Pace, CheckTime, SendFails, Wake, Return
    <3>3. step' \in Steps
      BY <2>3, TrafficFrame DEF Working, Steps
    <3>4. QED
      BY <3>1, <3>2, <3>3 DEF CounterInv, Results
  <2>4. CASE Main
    <3>1. UNCHANGED demoVars
      BY <2>4, MainFrame
    <3>2. launching' \in Scenarios \cup {"none"}
      BY <2>4 DEF Main, TopStep, TopReady, TopFails, EpollWait, EpollFails,
            ReadSignal, NoKey, KeyQuit, KeyView, KeyMove, KeyAdd, KeyDelete,
            KeyConfig, KeyLaunch, Show, Unpin, JoinDemo, RestoreScreen, TopExit,
            CounterInv
    <3>3. QED
      BY <3>1, <3>2 DEF CounterInv, demoVars
  <2>5. CASE Fault
    <3>1. /\ step' = "fault" /\ UNCHANGED <<scenario, launching, seq, sport, sent,
                                           result>>
      BY <2>5 DEF Fault, DivideByZero, Killed
    <3>2. QED
      BY <3>1 DEF CounterInv, Steps
  <2>6. CASE \/ Parse \/ Edit \/ StartTop \/ EndDemoCommand \/ Interrupt \/ Terminate
             \/ DetachTerm \/ DetachKill \/ OtherEdits \/ Pass \/ UNCHANGED vars
    <3>1. UNCHANGED <<step, scenario, launching, seq, sport, sent, result>>
      BY <2>6 DEF Parse, Edit, StartTop, TopBegin, EndDemoCommand, Interrupt,
            Terminate, DetachTerm, DetachKill, OtherEdits, EditBlacklist, Pass,
            DemoPass, Killed, vars, demoVars, topVars
    <3>2. QED
      BY <3>1 DEF CounterInv
  <2>7. QED
    BY <2>1, <2>2, <2>3, <2>4, <2>5, <2>6 DEF Next
<1>3. QED
  BY <1>1, <1>2, PTL DEF Spec

\* The parser never runs past the end of the line, the loops of cmd_demo and
\* of block and unblock never past the end of the operands, and the
\* operands are words of the line.
LineInv ==
    /\ at \in Nat /\ 1 <= at /\ at <= Len(argv) + 1
    /\ Len(args) <= Len(argv) /\ \A k \in DOMAIN args : args[k] \in ToSet(argv)
    /\ phase = "parse" => Len(args) + 1 <= at
    /\ phase = "options" => at <= Len(args) + 1
    /\ cmd \in Commands \cup {"none"} /\ DOMAIN globals = DOMAIN Defaults
    /\ globals.verbose \in Nat /\ globals.verbose <= 2 * Len(argv)
    /\ phase = "parse" => globals.verbose <= 2 * (at - 1)
    /\ rc \in {Running, Sigfpe, Sigkill, Sigterm, 0, 64, 65, 69, 77, 125}

LEMMA FlagCounts ==
    ASSUME DOMAIN globals = DOMAIN Defaults, globals.verbose \in Nat,
           NEW t \in Flags
    PROVE  /\ DOMAIN WithFlag(globals, t) = DOMAIN Defaults
           /\ WithFlag(globals, t).verbose
                \in {globals.verbose, globals.verbose + 1, globals.verbose + 2}
<1>1. "verbose" \in DOMAIN globals
  BY DEF Defaults
<1>2. t \in {"--json", "-v", "--verbose", "-vv", "--auto-block"}
  BY DEF Flags, Enabled
<1>3. CASE t \in {"--json", "--auto-block"}
  BY <1>1, <1>3 DEF WithFlag
<1>4. CASE t \in {"-v", "--verbose"}
  <2>1. WithFlag(globals, t) = [globals EXCEPT !.verbose = @ + 1]
    BY <1>4 DEF WithFlag
  <2>2. QED
    BY <1>1, <2>1
<1>5. CASE t = "-vv"
  <2>1. WithFlag(globals, t) = [globals EXCEPT !.verbose = @ + 2]
    BY <1>5 DEF WithFlag
  <2>2. QED
    BY <1>1, <2>1
<1>6. QED
  BY <1>2, <1>3, <1>4, <1>5

LEMMA ValueLeavesVerbose ==
    ASSUME DOMAIN globals = DOMAIN Defaults, NEW t \in ValueOptions, NEW v
    PROVE  /\ DOMAIN WithValue(globals, t, v) = DOMAIN Defaults
           /\ WithValue(globals, t, v).verbose = globals.verbose
<1>1. "verbose" \in DOMAIN globals
  BY DEF Defaults
<1>2. CASE t = "--xdp-mode"
  BY <1>1, <1>2 DEF WithValue
<1>3. CASE t # "--xdp-mode"
  <2>1. t \in DOMAIN FieldOf
    BY <1>3 DEF ValueOptions
  <2>2. t \in {"--sample-n", "--syn-threshold", "--syn-window", "--auto-block-ttl"}
    BY <2>1 DEF FieldOf, Enabled
  <2>3. FieldOf[t] # "verbose"
    BY <2>1, <2>2 DEF FieldOf
  <2>4. PICK f : f = FieldOf[t]
    OBVIOUS
  <2>5. WithValue(globals, t, v) = [globals EXCEPT ![f] = Number[v].n]
    BY <1>3, <2>4 DEF WithValue
  <2>6. QED
    BY <1>1, <2>3, <2>4, <2>5
<1>4. QED
  BY <1>2, <1>3

LEMMA ParseKeepsLine ==
    ASSUME LineInv, OptionInv, Parse
    PROVE  LineInv'
<1>1. /\ ParseStep /\ argv \in Seq(STRING) /\ args \in Seq(STRING)
      /\ Len(argv) \in Nat /\ Len(args) \in Nat /\ at \in Nat /\ 1 <= at
      /\ globals.verbose \in Nat /\ at <= Len(argv) + 1 /\ Len(args) <= Len(argv)
  BY DEF Parse, OptionInv, LineInv
<1>2. CASE TakeFlag
  <2>1. PICK t \in Flags : AtToken(t) /\ globals' = WithFlag(globals, t)
    BY <1>2 DEF TakeFlag
  <2>2. /\ phase = "parse" /\ at <= Len(argv) /\ at' = at + 1
        /\ UNCHANGED <<argv, cmd, args, phase, rc>>
    BY <1>2, <2>1 DEF TakeFlag, AtToken
  <2>3. /\ DOMAIN globals' = DOMAIN Defaults
        /\ globals'.verbose
             \in {globals.verbose, globals.verbose + 1, globals.verbose + 2}
    BY <2>1, FlagCounts DEF LineInv
  <2>4. globals'.verbose \in Nat /\ globals'.verbose <= 2 * (at' - 1)
        /\ globals'.verbose <= 2 * Len(argv)
    BY SMTT(30), <1>1, <2>2, <2>3 DEF LineInv
  <2>5. QED
    BY <1>1, <2>2, <2>3, <2>4 DEF LineInv
<1>3. CASE TakeValue
  <2>1. PICK t \in ValueOptions :
          /\ AtToken(t) /\ at < Len(argv)
          /\ globals' = WithValue(globals, t, argv[at + 1])
    BY <1>3 DEF TakeValue
  <2>2. phase = "parse" /\ at' = at + 2 /\ UNCHANGED <<argv, cmd, args, phase, rc>>
    BY <1>3, <2>1 DEF TakeValue, AtToken, AfterValue
  <2>3. DOMAIN globals' = DOMAIN Defaults /\ globals'.verbose = globals.verbose
    BY <2>1, ValueLeavesVerbose DEF LineInv
  <2>4. QED
    BY <1>1, <2>1, <2>2, <2>3 DEF LineInv
<1>4. CASE TakeCommand
  <2>1. /\ phase = "parse" /\ at <= Len(argv) /\ at' = at + 1 /\ cmd' \in Commands
        /\ UNCHANGED <<argv, globals, args, phase, rc>>
    BY <1>4 DEF TakeCommand, AtToken
  <2>2. QED
    BY <1>1, <2>1 DEF LineInv
<1>5. CASE TakeOperand
  <2>1. /\ phase = "parse" /\ at <= Len(argv) /\ at' = at + 1
        /\ args' = Append(args, argv[at])
        /\ UNCHANGED <<argv, cmd, globals, phase, rc>>
    BY <1>5 DEF TakeOperand, AtToken
  <2>2. argv[at] \in ToSet(argv) /\ argv[at] \in STRING
    BY <1>1, <2>1 DEF ToSet
  <2>3. /\ Len(args') = Len(args) + 1 /\ DOMAIN args' = 1..(Len(args) + 1)
        /\ \A k \in 1..Len(args) : args'[k] = args[k]
        /\ args'[Len(args) + 1] = argv[at]
    BY <1>1, <2>1, <2>2
  <2>4. \A k \in DOMAIN args' : args'[k] \in ToSet(argv)
    <3>1. \A k \in 1..Len(args) : args[k] \in ToSet(argv)
      BY <1>1 DEF LineInv
    <3>2. \A k \in 1..(Len(args) + 1) : k \in 1..Len(args) \/ k = Len(args) + 1
      BY <1>1
    <3>3. QED
      BY <2>2, <2>3, <3>1, <3>2
  <2>5. QED
    BY <1>1, <2>1, <2>3, <2>4 DEF LineInv
<1>6. CASE \/ BadValue \/ HelpOrVersion \/ UnknownWord \/ EndOfLine \/ Misused
           \/ HandOver \/ DemoOptionBad \/ DemoRefused
  <2>1. /\ UNCHANGED <<argv, at, cmd, globals, args>>
        /\ phase' \in {"dispatch", "handed", "exit"} /\ rc' \in {rc, 0, 64}
    BY <1>6 DEF BadValue, HelpOrVersion, UnknownWord, EndOfLine, Misused, HandOver,
          DemoOptionBad, DemoRefused, Refuse, Exit
  <2>2. QED
    BY <2>1 DEF LineInv
<1>7. CASE DemoBegin
  <2>1. /\ phase' = "options" /\ at' = 2 /\ cmd = "demo" /\ UsageOk
        /\ UNCHANGED <<argv, cmd, globals, args, rc>>
    BY <1>7 DEF DemoBegin
  <2>2. Len(args) >= 1
    BY <2>1 DEF UsageOk
  <2>3. QED
    BY <1>1, <2>1, <2>2 DEF LineInv
<1>8. CASE DemoValue \/ DemoOverride
  <2>1. /\ phase = "options" /\ at' \in Nat /\ at' >= at /\ at' <= Len(args) + 1
        /\ UNCHANGED <<argv, cmd, globals, args, phase, rc>>
    BY <1>1, <1>8 DEF DemoValue, DemoOverride, AtOption
  <2>2. QED
    BY <1>1, <2>1 DEF LineInv
<1>9. QED
  BY <1>1, <1>2, <1>3, <1>4, <1>5, <1>6, <1>7, <1>8 DEF ParseStep

LEMMA LineInvariant == Spec => []LineInv
<1>1. Init => LineInv
  <2>1. Init => /\ argv \in Seq(STRING) /\ args = << >> /\ at = 1 /\ cmd = "none"
                /\ globals = Defaults /\ phase = "parse" /\ rc = Running
    BY CommandLineAssumption DEF Init, CliInit
  <2>2. Defaults.verbose = 0
    BY DEF Defaults
  <2>3. QED
    BY <2>1, <2>2 DEF LineInv
<1>2. LineInv /\ OptionInv /\ ProcessInv /\ [Next]_vars => LineInv'
  <2> SUFFICES ASSUME LineInv, OptionInv, ProcessInv, [Next]_vars
               PROVE  LineInv'
    OBVIOUS
  <2>1. CASE Parse
    BY <2>1, ParseKeepsLine
  <2>2. CASE Edit
    <3>1. /\ UNCHANGED <<argv, cmd, globals, args>> /\ phase' \in {"edit", "exit"}
          /\ rc' \in {rc, 0, 65}
      BY <2>2, EditFrame
    <3>2. at' = at \/ (at' = 2 /\ Len(args) >= 2) \/ (at' = at + 1 /\ at <= Len(args))
      BY <2>2 DEF Edit, EditStep, EditBegin, EditFails, EditOperand, EditEnd,
            NextOperand, UsageOk
    <3>3. Len(args) \in Nat /\ Len(argv) \in Nat
      BY DEF OptionInv
    <3>4. at' \in Nat /\ 1 <= at' /\ at' <= Len(argv) + 1
      BY <3>2, <3>3 DEF LineInv
    <3>5. QED
      BY <3>1, <3>4 DEF LineInv
  <2>3. CASE StartTop
    <3>1. /\ argv' = << >> /\ args' = << >> /\ at' = 1 /\ globals' = Defaults
          /\ phase' = "top" /\ UNCHANGED <<cmd, rc>>
      BY <2>3 DEF StartTop, TopBegin
    <3>2. Defaults.verbose = 0
      BY DEF Defaults
    <3>3. QED
      BY <3>1, <3>2 DEF LineInv
  <2>4. CASE \/ StartDemoCommand \/ EndDemoCommand \/ Main
             \/ Fault \/ Interrupt \/ DetachKill
    <3>1. /\ UNCHANGED <<argv, at, cmd, globals, args>>
          /\ phase' \in {"demo", "top", "exit"}
          /\ rc' \in {rc, Sigfpe, Sigkill, Sigterm, 0, 65, 69, 77, 125}
      <4>1. CASE StartDemoCommand
        BY <4>1 DEF StartDemoCommand, DemoRun
      <4>2. CASE EndDemoCommand
        BY <4>2 DEF EndDemoCommand, DemoExit, Exit, ProcessInv
      <4>3. CASE Main
        BY <4>3, MainFrame DEF ProcessInv, Early
      <4>4. CASE Fault \/ Interrupt \/ DetachKill
        BY <4>4, KillFrame
      <4>5. QED
        BY <2>4, <4>1, <4>2, <4>3, <4>4
    <3>2. QED
      BY <3>1 DEF LineInv
  <2>5. CASE \/ Launch \/ Traffic \/ Terminate \/ DetachTerm \/ OtherEdits \/ Pass
             \/ UNCHANGED vars
    <3>1. UNCHANGED cliVars
      BY <2>5, TrafficFrame, OutsideFrame DEF Launch, LaunchDemo, vars
    <3>2. QED
      BY <3>1 DEF LineInv, cliVars
  <2>6. QED
    BY <2>1, <2>2, <2>3, <2>4, <2>5 DEF Next
<1>3. QED
  BY <1>1, <1>2, OptionInvariant, ProcessInvariant, PTL DEF Spec

\* What top shows and holds, and the deadline of the detach.
ScreenInv ==
    /\ main \in {"off", "setup", "wait", "events", "launch", "show", "unpin",
                 "join", "endwin", "close", "dead"}
    /\ running \in BOOLEAN /\ joinable \in BOOLEAN /\ term \in BOOLEAN
    /\ tickDue \in BOOLEAN /\ view \in Views
    /\ blacklist \subseteq ToSet(Entries)
    /\ ToSet(frame.rows) \subseteq ToSet(Entries) /\ frame.marked \in 0..Height
    /\ batch \subseteq {"signal", "tick"} /\ held \subseteq {"pins", "link", "screen"}
    /\ deadline \in -1..Grace

LEMMA DrawnTypes ==
    ASSUME RowInv
    PROVE  /\ ToSet(Drawn(view, FirewallRows).rows) \subseteq ToSet(Entries)
           /\ Drawn(view, FirewallRows).marked \in 0..Height
<1>1. PICK r : r = FirewallRows
  OBVIOUS
<1>2. r \in Seq(ToSet(Entries))
  BY <1>1, RowsAreEntries
<1>3. ToSet(r) \subseteq ToSet(Entries) /\ ToSet(<< >>) = {}
  BY <1>2 DEF ToSet
<1>4. /\ Drawn(view, r).rows \in {r, << >>}
      /\ Drawn(view, r).marked \in {0, selected + 1}
      /\ Drawn(view, r).marked # 0 => selected < Height
  BY DEF Drawn
<1>5. selected \in Nat /\ Height \in Nat
  BY Constants DEF RowInv
<1>6. Drawn(view, r).marked \in 0..Height
  BY <1>4, <1>5
<1>7. QED
  BY <1>1, <1>3, <1>4, <1>6

LEMMA MainKeepsScreen ==
    ASSUME ScreenInv, RowInv, Main
    PROVE  ScreenInv'
<1>1. deadline' = deadline /\ TopStep
  BY DEF Main
<1>2. CASE TopReady \/ Show
  <2>1. /\ frame' = Drawn(view, FirewallRows)
        /\ main' \in {"wait", "events", "unpin"}
        /\ held' = held \/ held' = {"pins", "link", "screen"}
        /\ UNCHANGED <<running, joinable, term, tickDue, view, blacklist, batch>>
    BY <1>2 DEF TopReady, Show, WayOut, loopVars
  <2>2. QED
    BY <1>1, <2>1, DrawnTypes DEF ScreenInv
<1>3. CASE TopFails \/ EpollFails \/ Unpin \/ JoinDemo \/ RestoreScreen \/ TopExit
  <2>1. /\ main' \in {"dead", "unpin", "join", "endwin", "close"}
        /\ joinable' \in {joinable, FALSE} /\ held' \subseteq held
        /\ UNCHANGED <<running, term, tickDue, view, blacklist, batch, frame>>
    BY <1>3 DEF TopFails, EpollFails, Unpin, JoinDemo, RestoreScreen, TopExit, WayOut,
          loopVars
  <2>2. QED
    BY <1>1, <2>1 DEF ScreenInv
<1>4. CASE EpollWait \/ ReadSignal
  <2>1. /\ main' \in {"events", "unpin"} /\ term' \in {term, FALSE}
        /\ batch' \subseteq {"signal", "tick"}
        /\ UNCHANGED <<running, joinable, tickDue, view, blacklist, frame, held>>
    BY <1>4 DEF EpollWait, ReadSignal, Ready, WayOut, loopVars
  <2>2. QED
    BY <1>1, <2>1 DEF ScreenInv
<1>5. CASE \/ NoKey \/ KeyQuit \/ KeyView \/ KeyMove \/ KeyAdd \/ KeyDelete
           \/ KeyConfig \/ KeyLaunch
  <2>1. /\ main' \in {"show", "launch"} /\ tickDue' = FALSE /\ batch' \subseteq batch
        /\ UNCHANGED <<frame, joinable, term, held>>
    BY <1>5 DEF NoKey, KeyQuit, KeyView, KeyMove, KeyAdd, KeyDelete, KeyConfig,
          KeyLaunch, Key, Tick, loopVars
  <2>2. running' \in {running, FALSE} /\ view' \in {view} \cup Views
    BY <1>5 DEF NoKey, KeyQuit, KeyView, KeyMove, KeyAdd, KeyDelete, KeyConfig,
          KeyLaunch
  <2>3. blacklist' \subseteq ToSet(Entries)
    BY <1>5 DEF NoKey, KeyQuit, KeyView, KeyMove, KeyAdd, KeyDelete, KeyConfig,
          KeyLaunch, ScreenInv
  <2>4. QED
    BY <1>1, <2>1, <2>2, <2>3 DEF ScreenInv
<1>6. QED
  BY <1>1, <1>2, <1>3, <1>4, <1>5 DEF TopStep

LEMMA ScreenInvariant == Spec => []ScreenInv
<1>1. Init => ScreenInv
  <2>1. NoFrame.rows = << >> /\ NoFrame.marked = 0 /\ ToSet(<< >>) = {}
    BY DEF NoFrame, ToSet
  <2>2. 0 \in 0..Height /\ -1 \in -1..Grace
    BY Constants
  <2>3. QED
    BY <2>1, <2>2 DEF Init, TopInit, ScreenInv, Views
<1>2. ScreenInv /\ RowInv /\ [Next]_vars => ScreenInv'
  <2> SUFFICES ASSUME ScreenInv, RowInv, [Next]_vars PROVE ScreenInv'
    OBVIOUS
  <2>1. CASE Main
    BY <2>1, MainKeepsScreen
  <2>2. CASE StartTop \/ Launch
    <3>1. /\ main' \in {"setup", "show"} /\ joinable' \in {joinable, TRUE}
          /\ view' \in {view, "threats", "dashboard"}
          /\ UNCHANGED <<running, term, tickDue, blacklist, frame, batch, held,
                         deadline>>
      BY <2>2 DEF StartTop, TopBegin, Launch, LaunchDemo
    <3>2. QED
      BY <3>1 DEF ScreenInv, Views
  <2>3. CASE Fault \/ Interrupt \/ DetachKill
    <3>1. /\ main' \in {"off", "dead"} /\ held' \subseteq held
          /\ UNCHANGED <<running, joinable, term, tickDue, view, blacklist, frame,
                         batch, deadline>>
      BY <2>3 DEF Fault, Interrupt, DetachKill, Killed
    <3>2. QED
      BY <3>1 DEF ScreenInv
  <2>4. CASE Terminate \/ DetachTerm
    <3>1. /\ term' = TRUE /\ deadline' \in {deadline, Grace}
          /\ UNCHANGED <<main, running, joinable, tickDue, view, blacklist, frame,
                         batch, held>>
      BY <2>4 DEF Terminate, DetachTerm
    <3>2. Grace \in -1..Grace
      BY Constants
    <3>3. QED
      BY <3>1, <3>2 DEF ScreenInv
  <2>5. CASE OtherEdits
    <3>1. /\ \E e \in ToSet(Entries) : \/ blacklist' = blacklist \cup {e}
                                       \/ blacklist' = blacklist \ {e}
          /\ UNCHANGED <<main, running, joinable, term, tickDue, view, frame, batch,
                         held, deadline>>
      BY <2>5 DEF OtherEdits, EditBlacklist
    <3>2. blacklist' \subseteq ToSet(Entries)
      BY <3>1 DEF ScreenInv
    <3>3. QED
      BY <3>1, <3>2 DEF ScreenInv
  <2>6. CASE Pass
    <3>1. /\ tickDue' \in BOOLEAN
          /\ deadline' = IF deadline = -1 THEN -1 ELSE Lower(deadline)
          /\ UNCHANGED <<main, running, joinable, term, view, blacklist, frame, batch,
                         held>>
      BY <2>6 DEF Pass
    <3>2. deadline' \in -1..Grace
      BY <3>1, Constants DEF Lower, ScreenInv
    <3>3. QED
      BY <3>1, <3>2 DEF ScreenInv
  <2>7. CASE \/ Parse \/ Edit \/ StartDemoCommand \/ EndDemoCommand \/ Traffic
             \/ UNCHANGED vars
    <3>1. UNCHANGED <<main, running, joinable, term, tickDue, view, blacklist, frame,
                      batch, held, deadline>>
      BY <2>7 DEF Parse, Edit, StartDemoCommand, EndDemoCommand, Traffic, vars,
            topVars
    <3>2. QED
      BY <3>1 DEF ScreenInv
  <2>8. QED
    BY <2>1, <2>2, <2>3, <2>4, <2>5, <2>6, <2>7 DEF Next
<1>3. QED
  BY <1>1, <1>2, RowInvariant, PTL DEF Spec

\* TypeOK: for every command line, every session of keys and every trie, the
\* parser, the demo, top, block and unblock keep their types and ranges.
THEOREM TypeCorrect == Spec => []TypeOK
<1> DEFINE All == /\ ConfigInv /\ ProcessInv /\ TrafficInv /\ OptionInv /\ RowInv
                  /\ EditInv /\ CounterInv /\ LineInv /\ ScreenInv
<1>1. All => TypeOK
  <2> SUFFICES ASSUME All PROVE TypeOK
    OBVIOUS
  <2>1. DemoTypeOK
    BY DEF DemoTypeOK, CounterInv, ConfigInv, IsConfig, TrafficInv
  <2>2. CliTypeOK
    <3>1. Len(argv) \in Nat /\ DOMAIN DemoDefaults = Fields
      BY DEF OptionInv, DemoDefaults, Fields
    <3>2. at \in 1..(Len(argv) + 1) /\ globals.verbose \in 0..(2 * Len(argv))
      BY <3>1 DEF LineInv
    <3>3. ToSet(args) \subseteq ToSet(argv)
      BY DEF LineInv, ToSet
    <3>4. phase \in {"parse", "dispatch", "options", "demo", "top", "edit", "handed",
                     "exit"}
      BY DEF ProcessInv, Early
    <3>5. QED
      BY <3>1, <3>2, <3>3, <3>4 DEF CliTypeOK, LineInv, ConfigInv, IsConfig
  <2>3. TopTypeOK
    <3>1. selected \in 0..(Len(Entries) - 1)
      BY EntriesTypes DEF RowInv
    <3>2. ToSet(rows) \subseteq ToSet(Entries)
      <4>1. \A k \in DOMAIN rows : rows[k] \in ToSet(Entries)
        BY DEF RowInv
      <4>2. QED
        BY <4>1 DEF ToSet
    <3>3. DOMAIN tui = DOMAIN DemoDefaults
      BY DEF ConfigInv, IsConfig, DemoDefaults, Fields
    <3>4. launching \in Scenarios \cup {"none"}
      BY DEF CounterInv
    <3>5. QED
      BY <3>1, <3>2, <3>3, <3>4 DEF TopTypeOK, ScreenInv
  <2>4. EditTypeOK /\ deadline \in -1..Grace
    BY DEF EditInv, EditTypeOK, ScreenInv
  <2>5. QED
    BY <2>1, <2>2, <2>3, <2>4 DEF TypeOK
<1>2. QED
  BY <1>1, ConfigInvariant, ProcessInvariant, TrafficInvariant, OptionInvariant,
     RowInvariant, EditInvariant, CounterInvariant, LineInvariant, ScreenInvariant,
     PTL

-----------------------------------------------------------------------------
(* Checksums.  Sums are compared modulo 65535, where swapping the bytes of  *)
(* a word is multiplying it by 256.                                        *)

\* The numerals are kept apart from the sets that they bound.
LEMMA WordSize == MaxWord = 65535 /\ Word = 65536
BY DEF MaxWord, Word

Words == 0..MaxWord

\* Equal modulo MaxWord.
Cong(a, b) == \E q \in Int : a = b + 65535 * q

\* The one place where the interval meets the numeral.
LEMMA InWords ==
    ASSUME NEW x
    PROVE  x \in Words <=> x \in Int /\ 0 <= x /\ x <= 65535
<1>1. MaxWord \in Int
  BY WordSize
<1>2. x \in Words <=> x \in Int /\ 0 <= x /\ x <= MaxWord
  BY <1>1 DEF Words
<1>3. QED
  BY <1>2, WordSize

\* A carry that goes round takes 65535 away; only zeros add up to zero.
LEMMA FoldType ==
    ASSUME NEW a \in Words, NEW w \in Words
    PROVE  /\ Fold1(a, w) \in Words
           /\ Fold1(a, w) = a + w \/ Fold1(a, w) = a + w - 65535
           /\ Fold1(a, w) = 0 <=> a = 0 /\ w = 0
<1>1. /\ a \in Int /\ 0 <= a /\ a <= 65535
      /\ w \in Int /\ 0 <= w /\ w <= 65535
  BY InWords
<1>2. PICK f : f = Fold1(a, w)
  OBVIOUS
<1>3. f = IF a + w > 65535 THEN a + w - 65535 ELSE a + w
  BY <1>2, WordSize DEF Fold1
<1>4. f \in Int /\ 0 <= f /\ f <= 65535
  BY <1>1, <1>3
<1>5. f \in Words
  BY <1>4, InWords
<1>6. QED
  BY <1>1, <1>2, <1>3, <1>5

\* Swapping the bytes of a word multiplies it by 256, modulo MaxWord; doing it
\* twice changes nothing.
LEMMA SwapType ==
    ASSUME NEW w \in Words
    PROVE  /\ Swap(w) \in Words /\ Swap(Swap(w)) = w
           /\ Swap(w) = 0 <=> w = 0
           /\ Cong(256 * w, Swap(w))
<1>1. w \in Int /\ 0 <= w /\ w <= 65535
  BY InWords
<1>2. PICK h : h = w \div 256
  OBVIOUS
<1>3. PICK l : l = w % 256
  OBVIOUS
<1>4. h \in Int /\ l \in Int /\ w = 256 * h + l /\ 0 <= l /\ l < 256
  BY <1>1, <1>2, <1>3
<1>5. 0 <= h /\ h < 256
  BY <1>1, <1>4
<1>6. Swap(w) = l * 256 + h
  BY <1>2, <1>3 DEF Swap
<1>7. (l * 256 + h) % 256 = h /\ (l * 256 + h) \div 256 = l
  BY <1>4, <1>5
<1>8. Swap(Swap(w)) = h * 256 + l
  BY <1>6, <1>7 DEF Swap
<1>9. Swap(w) \in Words
  <2>1. Swap(w) \in Int /\ 0 <= Swap(w) /\ Swap(w) <= 65535
    BY <1>4, <1>5, <1>6 DEF Follows
  <2>2. QED
    BY <2>1, InWords
<1>10. Cong(256 * w, Swap(w))
  <2>1. 256 * w = Swap(w) + 65535 * h
    BY <1>4, <1>6
  <2>2. QED
    BY <1>4, <2>1 DEF Cong
<1>11. Swap(w) = 0 <=> w = 0
  BY <1>4, <1>5, <1>6
<1>12. QED
  BY <1>4, <1>8, <1>9, <1>10, <1>11

\* The recursions of the two loops have solutions, and OnesSums and HostSums
\* are solutions.
LEMMA OnesDefined ==
    ASSUME NEW words \in Seq(Words), NEW start \in Words
    PROVE  /\ OnesSums(start, words)[0] = start
           /\ \A n \in 1..Len(words) :
                OnesSums(start, words)[n] =
                  Fold1(OnesSums(start, words)[n - 1], words[n])
<1> DEFINE N == Len(words)
           G == [p \in Words \X (1..N) |-> Fold1(p[1], words[p[2]])]
<1>1. N \in Nat /\ \A n \in 1..N : words[n] \in Words
  OBVIOUS
<1>2. G \in [Words \X (1..N) -> Words]
  BY <1>1, FoldType
<1> HIDE DEF N, G
<1>3. N \in Nat
  BY <1>1
<1>4. PICK f \in [0..N -> Words] : Follows(f, N, start, G)
  BY <1>2, <1>3, RecursionExists
<1>5. \A n \in 1..N : G[<<f[n - 1], n>>] = Fold1(f[n - 1], words[n])
  <2>1. \A n \in 1..N : f[n - 1] \in Words
    BY <1>1
  <2>2. QED
    BY <2>1 DEF G
<1>6. \A n \in 0..N : n = 0 \/ n \in 1..N
  BY <1>1
<1>7. f = [n \in 0..N |-> IF n = 0 THEN start ELSE Fold1(f[n - 1], words[n])]
  <2>1. \A n \in 0..N :
          f[n] = IF n = 0 THEN start ELSE Fold1(f[n - 1], words[n])
    BY <1>4, <1>5, <1>6 DEF Follows
  <2>2. QED
    BY <2>1
<1>8. OnesSums(start, words) =
        [n \in 0..N |-> IF n = 0 THEN start
                        ELSE Fold1(OnesSums(start, words)[n - 1], words[n])]
  BY <1>7 DEF OnesSums, N
<1>9. 0 \in 0..N /\ \A n \in 1..N : n \in 0..N /\ n # 0
  BY <1>1
<1>10. QED
  BY <1>8, <1>9 DEF N

LEMMA HostDefined ==
    ASSUME NEW words \in Seq(Words)
    PROVE  /\ HostSums(words)[0] = 0
           /\ \A n \in 1..Len(words) :
                HostSums(words)[n] = HostSums(words)[n - 1] + Swap(words[n])
<1> DEFINE N == Len(words)
           G == [p \in Nat \X (1..N) |-> p[1] + Swap(words[p[2]])]
<1>1. N \in Nat /\ \A n \in 1..N : words[n] \in Words
  OBVIOUS
<1>2. \A w \in Words : Swap(w) \in Nat
  <2>1. ASSUME NEW w \in Words PROVE Swap(w) \in Nat
    <3>1. Swap(w) \in Words
      BY SwapType
    <3>2. QED
      BY <3>1, InWords
  <2>2. QED
    BY <2>1
<1>3. G \in [Nat \X (1..N) -> Nat]
  BY <1>1, <1>2
<1> HIDE DEF N, G
<1>4. N \in Nat /\ 0 \in Nat
  BY <1>1
<1>5. PICK f \in [0..N -> Nat] : Follows(f, N, 0, G)
  BY <1>3, <1>4, RecursionExists
<1>6. \A n \in 1..N : G[<<f[n - 1], n>>] = f[n - 1] + Swap(words[n])
  <2>1. \A n \in 1..N : f[n - 1] \in Nat
    BY <1>1
  <2>2. QED
    BY <2>1 DEF G
<1>7. \A n \in 0..N : n = 0 \/ n \in 1..N
  BY <1>1
<1>8. f = [n \in 0..N |-> IF n = 0 THEN 0 ELSE f[n - 1] + Swap(words[n])]
  <2>1. \A n \in 0..N :
          f[n] = IF n = 0 THEN 0 ELSE f[n - 1] + Swap(words[n])
    BY <1>5, <1>6, <1>7 DEF Follows
  <2>2. QED
    BY <2>1
<1>9. HostSums(words) =
        [n \in 0..N |-> IF n = 0 THEN 0
                        ELSE HostSums(words)[n - 1] + Swap(words[n])]
  BY <1>8 DEF HostSums, N
<1>10. 0 \in 0..N /\ \A n \in 1..N : n \in 0..N /\ n # 0
  BY <1>1
<1>11. QED
  BY <1>9, <1>10 DEF N

\* The sums in network order stay words; those in host order grow by at most
\* one word per step.
LEMMA OnesType ==
    ASSUME NEW words \in Seq(Words), NEW start \in Words
    PROVE  \A n \in 0..Len(words) : OnesSums(start, words)[n] \in Words
<1> DEFINE S == {n \in 0..Len(words) : OnesSums(start, words)[n] \in Words}
<1>1. Len(words) \in Nat /\ \A n \in 1..Len(words) : words[n] \in Words
  OBVIOUS
<1>2. 0 \in S
  BY <1>1, OnesDefined
<1>3. \A n \in 1..Len(words) : n - 1 \in S => n \in S
  BY <1>1, OnesDefined, FoldType
<1> HIDE DEF S
<1>4. \A n \in 0..Len(words) : n \in S
  BY <1>1, <1>2, <1>3, UpTo
<1>5. QED
  BY <1>4 DEF S

LEMMA HostType ==
    ASSUME NEW words \in Seq(Words)
    PROVE  \A n \in 0..Len(words) :
             /\ HostSums(words)[n] \in Int
             /\ 0 <= HostSums(words)[n] /\ HostSums(words)[n] <= 65535 * n
<1> DEFINE Host == HostSums(words)
           S == {n \in 0..Len(words) : /\ Host[n] \in Int
                                       /\ 0 <= Host[n] /\ Host[n] <= 65535 * n}
<1>1. Len(words) \in Nat /\ \A n \in 1..Len(words) : words[n] \in Words
  OBVIOUS
<1>2. 0 \in S
  BY <1>1, HostDefined
<1>3. ASSUME NEW n \in 1..Len(words), n - 1 \in S PROVE n \in S
  <2>1. Host[n] = Host[n - 1] + Swap(words[n])
    BY HostDefined
  <2>2. Swap(words[n]) \in Words
    BY <1>1, SwapType
  <2>3. PICK w : w = Swap(words[n])
    OBVIOUS
  <2>4. w \in Int /\ 0 <= w /\ w <= 65535
    BY <2>2, <2>3, InWords
  <2>5. QED
    BY <1>1, <1>3, <2>1, <2>3, <2>4
<1> HIDE DEF S
<1>4. \A n \in 0..Len(words) : n \in S
  BY <1>1, <1>2, <1>3, UpTo
<1>5. QED
  BY <1>4 DEF S

\* A sum that begins with a word other than zero stays above zero.
LEMMA HostPositive ==
    ASSUME NEW words \in Seq(Words), Len(words) >= 1, words[1] # 0
    PROVE  HostSums(words)[Len(words)] > 0
<1> DEFINE Host == HostSums(words)
           S == {n \in 0..Len(words) : n >= 1 => Host[n] > 0}
<1>1. Len(words) \in Nat /\ \A n \in 1..Len(words) : words[n] \in Words
  OBVIOUS
<1>2. 0 \in S
  BY <1>1
<1>3. ASSUME NEW n \in 1..Len(words), n - 1 \in S PROVE n \in S
  <2>1. Host[n] = Host[n - 1] + Swap(words[n])
    BY HostDefined
  <2>2. Swap(words[n]) \in Words /\ (words[n] # 0 => Swap(words[n]) # 0)
    BY <1>1, SwapType
  <2>3. PICK w : w = Swap(words[n])
    OBVIOUS
  <2>4. w \in Int /\ 0 <= w /\ (words[n] # 0 => w # 0)
    BY <2>2, <2>3, InWords
  <2>5. n - 1 \in 0..Len(words) /\ (n = 1 \/ n - 1 >= 1)
    BY <1>1
  <2>6. Host[n - 1] \in Int /\ 0 <= Host[n - 1]
    BY <2>5, HostType
  <2>7. QED
    BY <1>1, <1>3, <2>1, <2>3, <2>4, <2>5, <2>6
<1> HIDE DEF S
<1>4. \A n \in 0..Len(words) : n \in S
  BY <1>1, <1>2, <1>3, UpTo
<1>5. QED
  BY <1>1, <1>4 DEF S

\* One's complement sums in network order are, byte-swapped, the sums in host
\* order: congruent modulo 65535, and zero only for words that are all zero.
LEMMA SameSum ==
    ASSUME NEW words \in Seq(Words), NEW start \in {0, MaxWord}
    PROVE  \A n \in 0..Len(words) :
             /\ Cong(256 * OnesSums(start, words)[n], HostSums(words)[n])
             /\ start = 0 /\ OnesSums(start, words)[n] = 0 =>
                  HostSums(words)[n] = 0
<1> DEFINE Host == HostSums(words)
           Ones == OnesSums(start, words)
           S == {n \in 0..Len(words) :
                   /\ Cong(256 * Ones[n], Host[n])
                   /\ start = 0 /\ Ones[n] = 0 => Host[n] = 0}
<1>1. Len(words) \in Nat /\ \A n \in 1..Len(words) : words[n] \in Words
  OBVIOUS
<1>2. start \in Words /\ (start = 0 \/ start = 65535)
  BY WordSize, InWords
<1>3. 0 \in S
  <2>1. Host[0] = 0 /\ Ones[0] = start
    BY <1>2, OnesDefined, HostDefined
  <2>2. Cong(256 * start, 0)
    <3>1. 256 * 0 = 0 + 65535 * 0 /\ 256 * 65535 = 0 + 65535 * 256
      OBVIOUS
    <3>2. QED
      BY <1>2, <3>1 DEF Cong
  <2>3. start = 0 /\ Ones[0] = 0 => Host[0] = 0
    BY <2>1
  <2>4. QED
    BY <1>1, <2>1, <2>2, <2>3
<1>4. ASSUME NEW n \in 1..Len(words), n - 1 \in S PROVE n \in S
  <2>1. PICK h : h = Host[n - 1]
    OBVIOUS
  <2>2. PICK a : a = Ones[n - 1]
    OBVIOUS
  <2>3. PICK w : w = words[n]
    OBVIOUS
  <2>4. n - 1 \in 0..Len(words) /\ n \in 0..Len(words)
    BY <1>1
  <2>5. a \in Words /\ w \in Words /\ h \in Int
    BY <1>1, <1>2, <2>1, <2>2, <2>3, <2>4, OnesType, HostType
  <2>6. a \in Int /\ w \in Int /\ Swap(w) \in Int
    BY <2>5, SwapType, InWords
  <2>7. Host[n] = h + Swap(w) /\ Ones[n] = Fold1(a, w)
    BY <1>2, <2>1, <2>2, <2>3, HostDefined, OnesDefined
  <2>8. PICK q \in Int : 256 * a = h + 65535 * q
    <3>1. Cong(256 * a, h)
      BY <1>4, <2>1, <2>2
    <3>2. QED
      BY <3>1 DEF Cong
  <2>9. PICK r \in Int : 256 * w = Swap(w) + 65535 * r
    <3>1. Cong(256 * w, Swap(w))
      BY <2>5, SwapType
    <3>2. QED
      BY <3>1 DEF Cong
  <2>10. Fold1(a, w) = a + w \/ Fold1(a, w) = a + w - 65535
    BY <2>5, FoldType
  <2>11. PICK f : f = Fold1(a, w)
    OBVIOUS
  <2>12. PICK s : s = Swap(w)
    OBVIOUS
  <2>13. /\ 256 * a = h + 65535 * q /\ 256 * w = s + 65535 * r
         /\ f = a + w \/ f = a + w - 65535
         /\ s \in Int
    BY <2>6, <2>8, <2>9, <2>10, <2>11, <2>12
  <2>14. Cong(256 * Ones[n], Host[n])
    <3>1. PICK p : p = IF f = a + w THEN q + r ELSE q + r - 256
      OBVIOUS
    <3>2. p \in Int /\ 256 * f = (h + s) + 65535 * p
      <4>1. CASE f = a + w
        BY <2>5, <2>6, <2>13, <3>1, <4>1
      <4>2. CASE f = a + w - 65535
        BY <2>5, <2>6, <2>13, <3>1, <4>2
      <4>3. QED
        BY <2>13, <4>1, <4>2
    <3>3. Cong(256 * f, h + s)
      BY <3>2 DEF Cong
    <3>4. QED
      BY <2>7, <2>11, <2>12, <3>3
  <2>15. start = 0 /\ Ones[n] = 0 => Host[n] = 0
    <3>1. SUFFICES ASSUME start = 0, Ones[n] = 0 PROVE Host[n] = 0
      OBVIOUS
    <3>2. a = 0 /\ w = 0
      BY <2>5, <2>7, <3>1, FoldType
    <3>3. h = 0
      BY <1>4, <2>1, <2>2, <3>1, <3>2
    <3>4. Swap(w) = 0
      BY <2>5, <3>2, SwapType
    <3>5. QED
      BY <2>7, <3>3, <3>4
  <2>16. QED
    BY <2>4, <2>14, <2>15
<1> HIDE DEF S
<1>5. \A n \in 0..Len(words) : n \in S
  BY <1>1, <1>3, <1>4, UpTo
<1>6. QED
  BY <1>5 DEF S

\* Two lists of words that differ in one place, where the first has a zero.
Filled(zero, full, p) ==
    /\ zero \in Seq(Words) /\ full \in Seq(Words)
    /\ Len(full) = Len(zero) /\ p \in 1..Len(zero) /\ zero[p] = 0
    /\ \A k \in 1..Len(zero) : k # p => full[k] = zero[k]

\* In host order the word that is filled in is added to the sum.
LEMMA SumOfFilled ==
    ASSUME NEW zero, NEW full, NEW p, Filled(zero, full, p)
    PROVE  HostSums(full)[Len(full)] = HostSums(zero)[Len(zero)] + Swap(full[p])
<1> DEFINE N == Len(zero)
           S == {n \in 0..N : HostSums(full)[n] =
                   IF n < p THEN HostSums(zero)[n]
                   ELSE HostSums(zero)[n] + Swap(full[p])}
<1>1. /\ zero \in Seq(Words) /\ full \in Seq(Words) /\ N \in Nat
      /\ Len(full) = N /\ p \in 1..N /\ zero[p] = 0 /\ full[p] \in Words
      /\ \A k \in 1..N : k # p => full[k] = zero[k]
      /\ \A k \in 1..N : zero[k] \in Words
  BY DEF Filled
<1>2. 0 \in S
  BY <1>1, HostDefined
<1>3. ASSUME NEW n \in 1..N, n - 1 \in S PROVE n \in S
  <2>1. /\ HostSums(full)[n] = HostSums(full)[n - 1] + Swap(full[n])
        /\ HostSums(zero)[n] = HostSums(zero)[n - 1] + Swap(zero[n])
    BY <1>1, HostDefined
  <2>2. n - 1 \in 0..N /\ n \in 0..N
    BY <1>1
  <2>3. HostSums(zero)[n - 1] \in Int
    BY <1>1, <2>2, HostType
  <2>4. Swap(zero[n]) \in Words /\ Swap(full[p]) \in Words
    BY <1>1, SwapType
  <2>5. Swap(zero[n]) \in Int /\ Swap(full[p]) \in Int
    BY <2>4, InWords
  <2>6. n = p => Swap(zero[n]) = 0
    BY <1>1, SwapType
  <2>7. n # p => full[n] = zero[n]
    BY <1>1
  <2>8. CASE n < p
    <3>1. n - 1 < p /\ n # p
      BY <1>1, <2>8
    <3>2. HostSums(full)[n - 1] = HostSums(zero)[n - 1]
      BY <1>3, <3>1
    <3>3. QED
      BY <2>1, <2>2, <2>7, <2>8, <3>1, <3>2
  <2>9. CASE n = p
    <3>1. n - 1 < p /\ ~(n < p)
      BY <1>1, <2>9
    <3>2. HostSums(full)[n - 1] = HostSums(zero)[n - 1]
      BY <1>3, <3>1
    <3>3. HostSums(full)[n] = HostSums(zero)[n] + Swap(full[p])
      BY <2>1, <2>3, <2>5, <2>6, <2>9, <3>2
    <3>4. QED
      BY <2>2, <3>1, <3>3
  <2>10. CASE n > p
    <3>1. ~(n - 1 < p) /\ ~(n < p) /\ n # p
      BY <1>1, <2>10
    <3>2. HostSums(full)[n - 1] = HostSums(zero)[n - 1] + Swap(full[p])
      BY <1>3, <3>1
    <3>3. HostSums(full)[n] = HostSums(zero)[n] + Swap(full[p])
      BY <2>1, <2>3, <2>5, <2>7, <3>1, <3>2
    <3>4. QED
      BY <2>2, <3>1, <3>3
  <2>11. QED
    BY <1>1, <2>8, <2>9, <2>10
<1> HIDE DEF S
<1>4. \A n \in 0..N : n \in S
  BY <1>1, <1>2, <1>3, UpTo
<1>5. QED
  BY <1>1, <1>4 DEF S

\* A list verifies when its sum is a positive multiple of 65535.
LEMMA Verified ==
    ASSUME NEW words \in Seq(Words), HostSums(words)[Len(words)] > 0,
           Cong(HostSums(words)[Len(words)], 0)
    PROVE  Received(words) = MaxWord
<1>1. Len(words) \in 0..Len(words) /\ 0 \in {0, MaxWord} /\ 0 \in Words
  BY InWords
<1>2. PICK h : h = HostSums(words)[Len(words)]
  OBVIOUS
<1>3. PICK r : r = Received(words)
  OBVIOUS
<1>4. r = OnesSums(0, words)[Len(words)]
  BY <1>3 DEF Received
<1>5. r \in Words
  BY <1>1, <1>4, OnesType
<1>6. r \in Int /\ 0 <= r /\ r <= 65535
  BY <1>5, InWords
<1>7. Cong(256 * r, h) /\ (r = 0 => h = 0)
  BY <1>1, <1>2, <1>4, SameSum
<1>8. PICK a \in Int : 256 * r = h + 65535 * a
  BY <1>7 DEF Cong
<1>9. PICK b \in Int : h = 0 + 65535 * b
  BY <1>2 DEF Cong
<1>10. PICK t : t = a + b
  OBVIOUS
<1>11. t \in Int /\ 256 * r = 65535 * t
  BY <1>6, <1>8, <1>9, <1>10
<1>12. PICK k : k = 256 * t - r
  OBVIOUS
<1>13. k \in Int /\ r = 65535 * k
  BY <1>6, <1>11, <1>12
<1>14. r # 0
  BY <1>2, <1>7
<1>15. r = 65535
  BY <1>6, <1>13, <1>14
<1>16. QED
  BY <1>3, <1>15, WordSize

\* Two folds are enough for a sum of sixteen words.
LEMMA FoldedType ==
    ASSUME NEW h \in Int, 0 <= h, h <= 1048560
    PROVE  Folded(h) \in Words /\ Cong(h, Folded(h))
<1>1. PICK a : a = h \div 65536
  OBVIOUS
<1>2. PICK b : b = h % 65536
  OBVIOUS
<1>3. a \in Int /\ b \in Int /\ h = 65536 * a + b /\ 0 <= b /\ b < 65536
  BY <1>1, <1>2
<1>4. 0 <= a /\ a <= 15
  BY <1>3
<1>5. PICK once : once = a + b
  OBVIOUS
<1>6. once \in Int /\ 0 <= once /\ once <= 65550
  BY <1>3, <1>4, <1>5
<1>7. PICK f : f = (once + (once \div 65536)) % 65536
  OBVIOUS
<1>8. Folded(h) = f
  BY <1>1, <1>2, <1>5, <1>7, WordSize DEF Folded
<1>9. CASE once < 65536
  <2>1. once \div 65536 = 0 /\ once % 65536 = once
    BY <1>6, <1>9
  <2>2. f = once
    BY <1>6, <1>7, <2>1
  <2>3. f \in Int /\ 0 <= f /\ f <= 65535 /\ h = f + 65535 * a
    BY <1>3, <1>5, <1>6, <1>9, <2>2
  <2>4. f \in Words
    BY <2>3, InWords
  <2>5. Cong(h, f)
    BY <1>3, <2>3 DEF Cong
  <2>6. QED
    BY <1>8, <2>4, <2>5
<1>10. CASE once >= 65536
  <2>1. once \div 65536 = 1
    BY <1>6, <1>10
  <2>2. f = (once + 1) % 65536
    BY <1>7, <2>1
  <2>3. (once + 1) % 65536 = once - 65535
    BY <1>6, <1>10
  <2>4. PICK c : c = a + 1
    OBVIOUS
  <2>5. /\ f \in Int /\ 0 <= f /\ f <= 65535
        /\ c \in Int /\ h = f + 65535 * c
    BY <1>3, <1>5, <1>6, <1>10, <2>2, <2>3, <2>4
  <2>6. f \in Words
    BY <2>5, InWords
  <2>7. Cong(h, f)
    BY <2>5 DEF Cong
  <2>8. QED
    BY <1>8, <2>6, <2>7
<1>11. QED
  BY <1>6, <1>9, <1>10

\* The sum of the words with the checksum in its place.
LEMMA FilledVerifies ==
    ASSUME NEW zero, NEW full, NEW p, Filled(zero, full, p),
           zero[1] # 0, Cong(HostSums(zero)[Len(zero)] + Swap(full[p]), 0)
    PROVE  Received(full) = MaxWord
<1>1. /\ full \in Seq(Words) /\ Len(full) = Len(zero) /\ Len(zero) \in Nat
      /\ Len(full) >= 1 /\ full[1] # 0
  BY DEF Filled
<1>2. HostSums(full)[Len(full)] > 0
  BY <1>1, HostPositive
<1>3. HostSums(full)[Len(full)] = HostSums(zero)[Len(zero)] + Swap(full[p])
  BY SumOfFilled
<1>4. QED
  BY <1>1, <1>2, <1>3, Verified

\* checksum() of ping_flood.cpp.
LEMMA ChecksumVerifies ==
    ASSUME NEW zero, NEW full, NEW p, Filled(zero, full, p), zero[1] # 0,
           full[p] = Checksum(zero)
    PROVE  Received(full) = MaxWord
<1>1. /\ zero \in Seq(Words) /\ Len(zero) \in 0..Len(zero)
      /\ MaxWord \in {0, MaxWord} /\ full[p] \in Words
  BY DEF Filled
<1>2. MaxWord \in Words
  BY WordSize, InWords
<1>3. PICK h : h = HostSums(zero)[Len(zero)]
  OBVIOUS
<1>4. PICK f : f = OnesSums(MaxWord, zero)[Len(zero)]
  OBVIOUS
<1>5. PICK c : c = full[p]
  OBVIOUS
<1>6. PICK s : s = Swap(c)
  OBVIOUS
<1>7. f \in Words
  BY <1>1, <1>2, <1>4, OnesType
<1>8. h \in Int /\ f \in Int /\ c \in Int /\ s \in Int
  BY <1>1, <1>3, <1>5, <1>6, <1>7, HostType, SwapType, InWords
<1>9. c = 65535 - f
  BY <1>4, <1>5, WordSize DEF Checksum
<1>10. PICK a \in Int : 256 * f = h + 65535 * a
  <2>1. Cong(256 * f, h)
    BY <1>1, <1>3, <1>4, SameSum
  <2>2. QED
    BY <2>1 DEF Cong
<1>11. PICK b \in Int : 256 * c = s + 65535 * b
  <2>1. Cong(256 * c, s)
    BY <1>1, <1>5, <1>6, SwapType
  <2>2. QED
    BY <2>1 DEF Cong
<1>12. PICK q : q = 256 - a - b
  OBVIOUS
<1>13. q \in Int /\ h + s = 0 + 65535 * q
  BY <1>8, <1>9, <1>10, <1>11, <1>12
<1>14. Cong(h + s, 0)
  BY <1>13 DEF Cong
<1>15. QED
  BY <1>3, <1>5, <1>6, <1>14, FilledVerifies

\* csum() of syn_flood.cpp, which sees at most sixteen words.
LEMMA CsumVerifies ==
    ASSUME NEW zero, NEW full, NEW p, Filled(zero, full, p), zero[1] # 0,
           Len(zero) <= 16, full[p] = Csum(zero)
    PROVE  Received(full) = MaxWord
<1>1. /\ zero \in Seq(Words) /\ Len(zero) \in 0..Len(zero) /\ Len(zero) \in Nat
  BY DEF Filled
<1>2. PICK h : h = HostSums(zero)[Len(zero)]
  OBVIOUS
<1>3. h \in Int /\ 0 <= h /\ h <= 65535 * Len(zero)
  BY <1>1, <1>2, HostType
<1>4. h <= 1048560
  BY <1>1, <1>3
<1>5. PICK f : f = Folded(h)
  OBVIOUS
<1>6. f \in Words /\ Cong(h, f)
  BY <1>3, <1>4, <1>5, FoldedType
<1>7. f \in Int /\ 0 <= f /\ f <= 65535
  BY <1>6, InWords
<1>8. PICK g : g = 65535 - f
  OBVIOUS
<1>9. g \in Int /\ 0 <= g /\ g <= 65535
  BY <1>7, <1>8
<1>10. g \in Words
  BY <1>9, InWords
<1>11. full[p] = Swap(g)
  BY <1>2, <1>5, <1>8, WordSize DEF Csum
<1>12. Swap(full[p]) = g
  BY <1>10, <1>11, SwapType
<1>13. PICK a \in Int : h = f + 65535 * a
  BY <1>6 DEF Cong
<1>14. PICK q : q = a + 1
  OBVIOUS
<1>15. q \in Int /\ h + g = 0 + 65535 * q
  BY <1>3, <1>7, <1>8, <1>13, <1>14
<1>16. Cong(h + g, 0)
  BY <1>15 DEF Cong
<1>17. QED
  BY <1>2, <1>12, <1>16, FilledVerifies

\* What they return fits the field.
LEMMA ChecksumType ==
    ASSUME NEW words \in Seq(Words)
    PROVE  Checksum(words) \in Words
<1>1. MaxWord \in Words
  BY WordSize, InWords
<1>2. PICK f : f = OnesSums(MaxWord, words)[Len(words)]
  OBVIOUS
<1>3. Len(words) \in 0..Len(words)
  OBVIOUS
<1>4. f \in Words
  BY <1>1, <1>2, <1>3, OnesType
<1>5. PICK c : c = 65535 - f
  OBVIOUS
<1>6. c \in Int /\ 0 <= c /\ c <= 65535
  BY <1>4, <1>5, InWords
<1>7. c \in Words
  BY <1>6, InWords
<1>8. QED
  BY <1>2, <1>5, <1>7, WordSize DEF Checksum

LEMMA CsumType ==
    ASSUME NEW words \in Seq(Words), Len(words) <= 16
    PROVE  Csum(words) \in Words
<1>1. Len(words) \in Nat /\ Len(words) \in 0..Len(words)
  OBVIOUS
<1>2. PICK h : h = HostSums(words)[Len(words)]
  OBVIOUS
<1>3. h \in Int /\ 0 <= h /\ h <= 65535 * Len(words)
  BY <1>1, <1>2, HostType
<1>4. h <= 1048560
  BY <1>1, <1>3
<1>5. PICK f : f = Folded(h)
  OBVIOUS
<1>6. f \in Words
  BY <1>3, <1>4, <1>5, FoldedType
<1>7. PICK g : g = 65535 - f
  OBVIOUS
<1>8. g \in Int /\ 0 <= g /\ g <= 65535
  BY <1>6, <1>7, InWords
<1>9. g \in Words
  BY <1>8, InWords
<1>10. Csum(words) = Swap(g)
  BY <1>2, <1>5, <1>7, WordSize DEF Csum
<1>11. QED
  BY <1>9, <1>10, SwapType

\* u is s and then t.
Concat(u, s, t, W) ==
    /\ u \in Seq(W) /\ Len(u) = Len(s) + Len(t)
    /\ \A k \in 1..Len(s) : u[k] = s[k]
    /\ \A k \in 1..Len(t) : u[Len(s) + k] = t[k]

LEMMA Concatenated ==
    ASSUME NEW W, NEW s \in Seq(W), NEW t \in Seq(W), NEW u, u = s \o t
    PROVE  Concat(u, s, t, W)
<1>1. u \in Seq(W) /\ Len(u) = Len(s) + Len(t)
  OBVIOUS
<1>2. \A k \in 1..Len(s) : u[k] = s[k]
  OBVIOUS
<1>3. \A k \in 1..Len(t) : u[Len(s) + k] = t[k]
  OBVIOUS
<1>4. QED
  BY <1>1, <1>2, <1>3 DEF Concat

\* Words after, or before, the ones with the field.
LEMMA FilledBefore ==
    ASSUME NEW zero, NEW full, NEW p, Filled(zero, full, p),
           NEW more \in Seq(Words)
    PROVE  Filled(zero \o more, full \o more, p)
<1>1. /\ zero \in Seq(Words) /\ full \in Seq(Words)
      /\ Len(full) = Len(zero) /\ p \in 1..Len(zero) /\ zero[p] = 0
      /\ \A k \in 1..Len(zero) : k # p => full[k] = zero[k]
  BY DEF Filled
<1>2. PICK N : N = Len(zero) + Len(more)
  OBVIOUS
<1>3. /\ zero \o more \in Seq(Words) /\ full \o more \in Seq(Words)
      /\ Len(zero \o more) = N /\ Len(full \o more) = N /\ p \in 1..N
  BY <1>1, <1>2
<1>4. (zero \o more)[p] = 0
  BY <1>1
<1>5. ASSUME NEW k \in 1..N, k # p PROVE (full \o more)[k] = (zero \o more)[k]
  <2>1. CASE k <= Len(zero)
    <3>1. (full \o more)[k] = full[k] /\ (zero \o more)[k] = zero[k]
      BY <1>1, <1>2, <2>1
    <3>2. k \in 1..Len(zero)
      BY <1>1, <2>1
    <3>3. QED
      BY <1>1, <1>5, <3>1, <3>2
  <2>2. CASE k > Len(zero)
    <3>1. /\ (full \o more)[k] = more[k - Len(zero)]
          /\ (zero \o more)[k] = more[k - Len(zero)]
      BY <1>1, <1>2, <2>2
    <3>2. QED
      BY <3>1
  <2>3. k <= Len(zero) \/ k > Len(zero)
    BY <1>1
  <2>4. QED
    BY <2>1, <2>2, <2>3, Zenon
<1>6. QED
  BY <1>3, <1>4, <1>5 DEF Filled

LEMMA FilledAfter ==
    ASSUME NEW zero, NEW full, NEW p, Filled(zero, full, p),
           NEW head \in Seq(Words)
    PROVE  Filled(head \o zero, head \o full, Len(head) + p)
<1>1. /\ zero \in Seq(Words) /\ full \in Seq(Words)
      /\ Len(full) = Len(zero) /\ p \in 1..Len(zero) /\ zero[p] = 0
      /\ \A k \in 1..Len(zero) : k # p => full[k] = zero[k]
  BY DEF Filled
<1>2. PICK N : N = Len(head) + Len(zero)
  OBVIOUS
<1>3. PICK o : o = Len(head) + p
  OBVIOUS
<1>4. /\ head \o zero \in Seq(Words) /\ head \o full \in Seq(Words)
      /\ Len(head \o zero) = N /\ Len(head \o full) = N /\ o \in 1..N
  BY <1>1, <1>2, <1>3
<1>5. (head \o zero)[o] = 0
  BY <1>1, <1>3
<1>6. ASSUME NEW k \in 1..N, k # o PROVE (head \o full)[k] = (head \o zero)[k]
  <2>1. CASE k <= Len(head)
    <3>1. (head \o full)[k] = head[k] /\ (head \o zero)[k] = head[k]
      BY <1>1, <1>2, <2>1
    <3>2. QED
      BY <3>1
  <2>2. CASE k > Len(head)
    <3>1. PICK j : j = k - Len(head)
      OBVIOUS
    <3>2. (head \o full)[k] = full[j] /\ (head \o zero)[k] = zero[j]
      BY <1>1, <1>2, <2>2, <3>1
    <3>3. j \in 1..Len(zero) /\ j # p
      BY <1>1, <1>2, <1>3, <1>6, <2>2, <3>1
    <3>4. QED
      BY <1>1, <3>2, <3>3
  <2>3. k <= Len(head) \/ k > Len(head)
    OBVIOUS
  <2>4. QED
    BY <2>1, <2>2, <2>3, Zenon
<1>7. QED
  BY <1>3, <1>4, <1>5, <1>6 DEF Filled

\* The echo request of run_ping_flood.
LEMMA EchoVerifies ==
    ASSUME NEW n \in Words
    PROVE  Received(EchoPacket(n)) = MaxWord
<1>1. 2048 \in Words /\ 1234 \in Words /\ 0 \in Words /\ 8 * 256 = 2048
  BY InWords
<1>2. PICK zero : zero = EchoWords(0, n)
  OBVIOUS
<1>3. zero = <<2048, 0, 1234, n>>
  BY <1>1, <1>2 DEF EchoWords
<1>4. zero \in Seq(Words)
  BY <1>1, <1>3
<1>5. PICK c : c = Checksum(zero)
  OBVIOUS
<1>6. c \in Words
  BY <1>4, <1>5, ChecksumType
<1>7. PICK full : full = EchoPacket(n)
  OBVIOUS
<1>8. full = <<2048, c, 1234, n>>
  BY <1>1, <1>2, <1>5, <1>7 DEF EchoPacket, EchoWords
<1>9. full \in Seq(Words) /\ Len(full) = 4 /\ Len(zero) = 4
  BY <1>1, <1>3, <1>6, <1>8
<1>10. /\ zero[1] = 2048 /\ zero[2] = 0 /\ full[2] = c
       /\ full[1] = zero[1] /\ full[3] = zero[3] /\ full[4] = zero[4]
  BY <1>3, <1>8
<1>11. Filled(zero, full, 2)
  <2>1. \A k \in 1..4 : k = 1 \/ k = 2 \/ k = 3 \/ k = 4
    OBVIOUS
  <2>2. QED
    BY <1>4, <1>9, <1>10, <2>1 DEF Filled
<1>12. zero[1] # 0
  BY <1>10
<1>13. QED
  BY <1>5, <1>7, <1>10, <1>11, <1>12, ChecksumVerifies

\* The words of the two addresses.
LEMMA SourceType == SourceWords \in Seq(Words)
<1>1. 32512 \in Words /\ 1 \in Words /\ 127 * 256 = 32512
  BY InWords
<1>2. QED
  BY <1>1 DEF SourceWords

LEMMA SourceLen == Len(SourceWords) = 2 /\ SourceWords[1] = 32512
BY DEF SourceWords

LEMMA HostWordsType ==
    ASSUME NEW host \in DOMAIN HostWords
    PROVE  HostWords[host] \in Seq(Words) /\ Len(HostWords[host]) = 2
<1>1. HostWords[host] \in Words \X Words
  BY DemoAssumption DEF Words
<1>2. PICK a \in Words, b \in Words : HostWords[host] = <<a, b>>
  BY <1>1
<1>3. QED
  BY <1>2

\* The IP header of run_syn_flood.
LEMMA IpVerifies ==
    ASSUME NEW host \in DOMAIN HostWords
    PROVE  Received(IpHeader(host)) = MaxWord
<1>1. /\ 17664 \in Words /\ 40 \in Words /\ 54321 \in Words /\ 0 \in Words
      /\ 65286 \in Words /\ 69 * 256 = 17664 /\ 255 * 256 + 6 = 65286
  BY InWords
<1> DEFINE H(c) == <<17664, 40, 54321, 0, 65286, c>>
           Rest == HostWords[host]
<1>2. IpHeader(host) = IpWords(Csum(IpWords(0, host)), host)
  BY DEF IpHeader
<1>3. \A c : IpWords(c, host) = (H(c) \o SourceWords) \o Rest
  BY <1>1 DEF IpWords
<1>4. ASSUME NEW c \in Words PROVE Filled(H(0), H(c), 6) /\ Len(H(c)) = 6
  <2>1. H(0) \in Seq(Words) /\ H(c) \in Seq(Words)
    BY <1>1
  <2>2. Len(H(0)) = 6 /\ Len(H(c)) = 6
    OBVIOUS
  <2>3. \A k \in 1..6 : k = 1 \/ k = 2 \/ k = 3 \/ k = 4 \/ k = 5 \/ k = 6
    OBVIOUS
  <2>4. /\ H(c)[1] = H(0)[1] /\ H(c)[2] = H(0)[2] /\ H(c)[3] = H(0)[3]
        /\ H(c)[4] = H(0)[4] /\ H(c)[5] = H(0)[5] /\ H(0)[6] = 0
    OBVIOUS
  <2> HIDE DEF H
  <2>5. QED
    BY <2>1, <2>2, <2>3, <2>4 DEF Filled
<1>5. H(0)[1] = 17664 /\ \A c : H(c)[6] = c
  OBVIOUS
<1> HIDE DEF H
<1>6. Rest \in Seq(Words)
  BY HostWordsType
<1>7. Len(Rest) = 2
  BY HostWordsType
<1> HIDE DEF Rest
<1>8. ASSUME NEW c \in Words
      PROVE  Filled(IpWords(0, host), IpWords(c, host), 6)
  BY <1>3, <1>4, <1>6, SourceType, FilledBefore
<1>9. H(0) \in Seq(Words)
  BY <1>1, <1>4 DEF Filled
<1>10. PICK a : a = H(0) \o SourceWords
  OBVIOUS
<1>11. a \in Seq(Words) /\ Len(a) = 8 /\ a[1] = 17664
  <2>1. Concat(a, H(0), SourceWords, Words)
    BY <1>9, <1>10, SourceType, Concatenated
  <2>2. Len(H(0)) = 6
    BY <1>1, <1>4
  <2>3. QED
    BY SMTT(30), <1>5, <2>1, <2>2, SourceLen DEF Concat
<1>12. PICK zero : zero = IpWords(0, host)
  OBVIOUS
<1>13. zero = a \o Rest
  BY <1>3, <1>10, <1>12
<1>14. zero \in Seq(Words) /\ Len(zero) = 10 /\ zero[1] = 17664
  <2>1. Concat(zero, a, Rest, Words)
    <3>1. a \in Seq(Words)
      BY <1>11
    <3>2. QED
      BY <1>6, <1>13, <3>1, Concatenated
  <2>2. QED
    BY <1>7, <1>11, <2>1 DEF Concat
<1>15. PICK c : c = Csum(zero)
  OBVIOUS
<1>16. Len(zero) <= 16 /\ zero[1] # 0
  BY <1>14
<1>17. c \in Words
  <2>1. zero \in Seq(Words)
    BY <1>14
  <2>2. QED
    BY <1>15, <1>16, <2>1, CsumType
<1>18. PICK full : full = IpWords(c, host)
  OBVIOUS
<1>19. Filled(zero, full, 6)
  BY <1>8, <1>12, <1>17, <1>18
<1>20. full[6] = c
  <2>1. H(c) \in Seq(Words)
    BY <1>4, <1>17 DEF Filled
  <2>2. PICK b : b = H(c) \o SourceWords
    OBVIOUS
  <2>3. b \in Seq(Words) /\ Len(b) = 8 /\ b[6] = H(c)[6]
    <3>1. Concat(b, H(c), SourceWords, Words)
      BY <2>1, <2>2, SourceType, Concatenated
    <3>2. Len(H(c)) = 6
      BY <1>4, <1>17
    <3>3. QED
      BY <3>1, <3>2, SourceLen DEF Concat
  <2>4. full = b \o Rest
    BY <1>3, <1>18, <2>2
  <2>5. full[6] = b[6]
    <3>1. Concat(full, b, Rest, Words)
      <4>1. b \in Seq(Words)
        BY <2>3
      <4>2. QED
        BY <1>6, <2>4, <4>1, Concatenated
    <3>2. QED
      BY <2>3, <3>1 DEF Concat
  <2>6. QED
    BY <1>5, <2>3, <2>5
<1>21. IpHeader(host) = full
  BY <1>2, <1>12, <1>15, <1>18
<1>22. QED
  BY <1>15, <1>16, <1>19, <1>20, <1>21, CsumVerifies

\* Its segment with the pseudo-header.
LEMMA SynVerifies ==
    ASSUME NEW host \in DOMAIN HostWords, NEW from \in Words, NEW to \in Words
    PROVE  Received(SynSegment(host, from, to)) = MaxWord
<1>1. /\ 20482 \in Words /\ 5840 \in Words /\ 0 \in Words /\ 6 \in Words
      /\ 20 \in Words /\ 80 * 256 + 2 = 20482
  BY InWords
<1> DEFINE H(c) == <<from, to, 0, 0, 0, 0, 20482, 5840, c, 0>>
           Pseudo == PseudoHeader(host)
           Rest == HostWords[host]
<1>2. Pseudo \in Seq(Words) /\ Len(Pseudo) = 6 /\ Pseudo[1] = 32512
  <2>1. Rest \in Seq(Words)
    BY HostWordsType
  <2>2. Len(Rest) = 2
    BY HostWordsType
  <2>3. PICK t : t = <<6, 20>>
    OBVIOUS
  <2>4. t \in Seq(Words)
    BY <1>1, <2>3
  <2>5. Len(t) = 2
    BY <2>3
  <2> HIDE DEF Rest
  <2>6. PICK a : a = SourceWords \o Rest
    OBVIOUS
  <2>7. Concat(a, SourceWords, Rest, Words)
    BY <2>1, <2>6, SourceType, Concatenated
  <2>8. a \in Seq(Words)
    BY <2>7 DEF Concat
  <2>9. Len(a) = 4 /\ a[1] = 32512
    BY <2>2, <2>7, SourceLen DEF Concat
  <2>10. Pseudo = a \o t
    BY <2>3, <2>6 DEF PseudoHeader, Rest
  <2> HIDE DEF Pseudo
  <2>11. Concat(Pseudo, a, t, Words)
    BY <2>4, <2>8, <2>10, Concatenated
  <2>12. QED
    BY <2>5, <2>9, <2>11 DEF Concat
<1>3. \A c : TcpWords(c, from, to) = H(c)
  BY <1>1 DEF TcpWords
<1>4. ASSUME NEW c \in Words PROVE Filled(H(0), H(c), 9) /\ Len(H(c)) = 10
  <2>1. H(0) \in Seq(Words) /\ H(c) \in Seq(Words)
    BY <1>1
  <2>2. Len(H(0)) = 10 /\ Len(H(c)) = 10
    OBVIOUS
  <2>3. \A k \in 1..10 : \/ k = 1 \/ k = 2 \/ k = 3 \/ k = 4 \/ k = 5
                         \/ k = 6 \/ k = 7 \/ k = 8 \/ k = 9 \/ k = 10
    OBVIOUS
  <2>4. /\ H(c)[1] = H(0)[1] /\ H(c)[2] = H(0)[2] /\ H(c)[3] = H(0)[3]
        /\ H(c)[4] = H(0)[4] /\ H(c)[5] = H(0)[5] /\ H(c)[6] = H(0)[6]
        /\ H(c)[7] = H(0)[7] /\ H(c)[8] = H(0)[8] /\ H(0)[9] = 0
        /\ H(c)[10] = H(0)[10]
    OBVIOUS
  <2> HIDE DEF H
  <2>5. \A k \in 1..10 : k # 9 => H(c)[k] = H(0)[k]
    BY <2>3, <2>4
  <2>6. /\ Len(H(c)) = Len(H(0)) /\ 9 \in 1..Len(H(0)) /\ H(0)[9] = 0
        /\ \A k \in 1..Len(H(0)) : k # 9 => H(c)[k] = H(0)[k]
    <3>1. 9 \in 1..10
      OBVIOUS
    <3>2. QED
      BY <2>2, <2>4, <2>5, <3>1, Zenon
  <2>7. QED
    BY <2>1, <2>2, <2>6 DEF Filled
<1>5. \A c : H(c)[9] = c
  OBVIOUS
<1> HIDE DEF H, Pseudo
<1>6. SynSegment(host, from, to) = Pseudo \o H(Csum(Pseudo \o H(0)))
  BY <1>3 DEF SynSegment, Pseudo
<1>7. H(0) \in Seq(Words)
  BY <1>1, <1>4 DEF Filled
<1>8. PICK zero : zero = Pseudo \o H(0)
  OBVIOUS
<1>9. zero \in Seq(Words) /\ Len(zero) <= 16 /\ zero[1] = 32512
  <2>1. Concat(zero, Pseudo, H(0), Words)
    <3>1. Pseudo \in Seq(Words)
      BY <1>2
    <3>2. QED
      BY <1>7, <1>8, <3>1, Concatenated
  <2>2. Len(H(0)) = 10
    BY <1>1, <1>4
  <2>3. /\ zero \in Seq(Words) /\ Len(zero) = Len(Pseudo) + Len(H(0))
        /\ \A k \in 1..Len(Pseudo) : zero[k] = Pseudo[k]
    BY <2>1 DEF Concat
  <2>4. 1 \in 1..Len(Pseudo)
    BY <1>2
  <2>5. QED
    <3>1. Len(zero) <= 16
      <4>1. Len(Pseudo) = 6 /\ Len(zero) = Len(Pseudo) + Len(H(0))
        BY <1>2, <2>3
      <4>2. PICK n : n = Len(zero)
        OBVIOUS
      <4>3. n = 6 + 10
        BY <2>2, <4>1, <4>2, Zenon
      <4>4. n <= 16
        BY <4>3
      <4>5. QED
        BY <4>2, <4>4
    <3>2. zero[1] = 32512
      BY <1>2, <2>3, <2>4
    <3>3. QED
      BY <2>3, <3>1, <3>2
<1>10. Len(zero) <= 16 /\ zero[1] # 0
  BY <1>9
<1>11. PICK c : c = Csum(zero)
  OBVIOUS
<1>12. c \in Words
  <2>1. zero \in Seq(Words)
    BY <1>9
  <2>2. QED
    BY <1>10, <1>11, <2>1, CsumType
<1>13. PICK full : full = Pseudo \o H(c)
  OBVIOUS
<1>14. Filled(zero, full, 15)
  <2>1. Filled(H(0), H(c), 9)
    BY <1>4, <1>12
  <2>2. Filled(zero, full, Len(Pseudo) + 9)
    <3>1. Pseudo \in Seq(Words)
      BY <1>2
    <3>2. QED
      BY <1>8, <1>13, <2>1, <3>1, FilledAfter
  <2>3. Len(Pseudo) + 9 = 15
    BY <1>2
  <2>4. QED
    BY <2>2, <2>3
<1>15. full[15] = c
  <2>1. H(c) \in Seq(Words)
    BY <1>4, <1>12 DEF Filled
  <2>2. full[15] = H(c)[9]
    <3>1. Concat(full, Pseudo, H(c), Words)
      <4>1. Pseudo \in Seq(Words)
        BY <1>2
      <4>2. QED
        BY <1>13, <2>1, <4>1, Concatenated
    <3>2. 9 \in 1..Len(H(c)) /\ Len(Pseudo) + 9 = 15
      <4>1. Len(H(c)) = 10 /\ Len(Pseudo) = 6
        BY <1>2, <1>4, <1>12
      <4>2. QED
        BY <4>1
    <3>3. QED
      BY <3>1, <3>2, Zenon DEF Concat
  <2>3. QED
    BY <1>5, <2>2
<1>16. SynSegment(host, from, to) = full
  BY <1>6, <1>8, <1>11, <1>13
<1>17. QED
  BY <1>10, <1>11, <1>14, <1>15, <1>16, CsumVerifies

\* A demo has one of the three names, is past validate_target only with an
\* address, and its last packet was right.
PacketInv ==
    /\ main = "launch" => launching \in Scenarios
    /\ step # "none" => scenario \in Scenarios
    /\ step \in Working \ {"validate"} => config.target \in DOMAIN HostWords
    /\ PacketsVerify

\* The bounds of the counters and of the ports keep them words.
LEMMA FieldsAreWords ==
    ASSUME CounterInv
    PROVE  seq \in Words /\ sport \in Words /\ Ports \subseteq Words
<1>1. Ports \subseteq Words
  BY DemoAssumption DEF Words
<1>2. PortEnd <= 65536 /\ SeqEnd <= 65536
  <2>1. PortEnd <= Word /\ SeqEnd <= Word
    BY DemoAssumption
  <2>2. QED
    BY <2>1, WordSize
<1>3. /\ seq \in Int /\ 0 <= seq /\ seq <= 65535
      /\ sport \in Int /\ 0 <= sport /\ sport <= 65535
  BY <1>2, Constants DEF CounterInv
<1>4. QED
  BY <1>1, <1>3, InWords

\* What sendto is given verifies.
LEMMA PacketVerifies ==
    ASSUME CounterInv, NEW name \in Scenarios, NEW c,
           c.target \in DOMAIN HostWords, c.port \in Ports,
           NEW i \in DOMAIN PacketOf(name, c).parts
    PROVE  Received(PacketOf(name, c).parts[i]) = MaxWord
<1>1. seq \in Words /\ sport \in Words /\ c.port \in Words
  BY FieldsAreWords
<1>2. CASE name = "ping-flood"
  <2>1. PacketOf(name, c).parts = <<EchoPacket(seq)>>
    BY <1>2 DEF PacketOf
  <2>2. PacketOf(name, c).parts[i] = EchoPacket(seq)
    BY <2>1
  <2>3. QED
    BY <1>1, <2>2, EchoVerifies
<1>3. CASE name = "syn-flood"
  <2>1. PacketOf(name, c).parts =
          <<IpHeader(c.target), SynSegment(c.target, sport, c.port)>>
    BY <1>3 DEF PacketOf
  <2>2. PacketOf(name, c).parts[i] \in
          {IpHeader(c.target), SynSegment(c.target, sport, c.port)}
    BY <2>1
  <2>3. QED
    BY <1>1, <2>2, IpVerifies, SynVerifies
<1>4. CASE name = "udp-storm"
  <2>1. PacketOf(name, c).parts = << >>
    BY <1>4 DEF PacketOf
  <2>2. QED
    BY <2>1
<1>5. QED
  BY <1>2, <1>3, <1>4 DEF Scenarios

LEMMA TrafficKeepsPackets ==
    ASSUME PacketInv, ConfigInv, CounterInv, Traffic
    PROVE  PacketInv'
<1>1. /\ UNCHANGED <<config, scenario, main, launching>>
      /\ step # "none" /\ step' # "none"
  BY TrafficFrame DEF Working, topVars
<1>2. /\ main' = "launch" => launching' \in Scenarios
      /\ scenario \in Scenarios /\ scenario' \in Scenarios
  BY <1>1 DEF PacketInv
<1>3. CASE Validate
  <2>1. /\ wire' = wire /\ step' \in {"socket", "returned"}
        /\ step' = "socket" => config.target \in DOMAIN HostWords
    BY <1>3 DEF Validate, Return, TargetAllowed
  <2>2. PacketsVerify'
    BY <2>1 DEF PacketInv, PacketsVerify
  <2>3. QED
    BY <1>1, <1>2, <2>1, <2>2 DEF PacketInv, Working
<1>4. CASE Send
  <2>1. /\ step = "send" /\ step' = "sleep"
        /\ wire' = wire \/ wire' = PacketOf(scenario, config)
    BY <1>4 DEF Send
  <2>2. config.target \in DOMAIN HostWords /\ config.port \in Ports
    BY <1>1, <2>1 DEF PacketInv, Working, ConfigInv, IsConfig
  <2>3. PacketsVerify'
    <3>1. CASE wire' = wire
      BY <3>1 DEF PacketInv, PacketsVerify
    <3>2. CASE wire' = PacketOf(scenario, config)
      <4>1. \A i \in DOMAIN PacketOf(scenario, config).parts :
              Received(PacketOf(scenario, config).parts[i]) = MaxWord
        BY <1>2, <2>2, PacketVerifies
      <4>2. QED
        BY <3>2, <4>1 DEF PacketsVerify
    <3>3. QED
      BY <2>1, <3>1, <3>2
  <2>4. QED
    BY <1>1, <1>2, <2>1, <2>2, <2>3 DEF PacketInv
<1>5. CASE ~Validate /\ ~Send
  <2>1. wire' = wire /\ step \in Working \ {"validate"}
    BY <1>5 DEF Traffic, DemoStep, OpenSocket, OpenSocketFails, SetHdrIncl,
          SetHdrInclFails, Pace, CheckTime, SendFails, Wake, Working
  <2>2. PacketsVerify'
    BY <2>1 DEF PacketInv, PacketsVerify
  <2>3. QED
    BY <1>1, <1>2, <2>1, <2>2 DEF PacketInv
<1>6. QED
  BY <1>3, <1>4, <1>5

LEMMA PacketInvariant == Spec => []PacketInv
<1>1. Init => PacketInv
  BY DEF Init, DemoInit, TopInit, PacketInv, PacketsVerify, Working
<1>2. PacketInv /\ ConfigInv /\ CounterInv /\ [Next]_vars => PacketInv'
  <2> SUFFICES ASSUME PacketInv, ConfigInv, CounterInv, [Next]_vars
               PROVE  PacketInv'
    OBVIOUS
  <2>1. CASE StartDemoCommand \/ Launch
    <3>1. step' = "validate" /\ wire' = << >>
      BY <2>1 DEF StartDemoCommand, DemoRun, Launch, LaunchDemo, StartDemo
    <3>2. /\ scenario' \in Scenarios
          /\ main' = "launch" => launching' \in Scenarios
      <4>1. CASE StartDemoCommand
        <5>1. scenario' \in Scenarios /\ UNCHANGED <<main, launching>>
          BY <4>1 DEF StartDemoCommand, DemoRun, DemoAccepted, Enabled, StartDemo,
                Scenarios, topVars
        <5>2. QED
          BY <5>1 DEF PacketInv
      <4>2. CASE Launch
        BY <4>2 DEF Launch, LaunchDemo, CanLaunch, StartDemo, PacketInv
      <4>3. QED
        BY <2>1, <4>1, <4>2
    <3>3. QED
      BY <3>1, <3>2 DEF PacketInv, PacketsVerify
  <2>2. CASE Traffic
    BY <2>2, TrafficKeepsPackets
  <2>3. CASE Main
    <3>1. UNCHANGED demoVars
      BY <2>3, MainFrame
    <3>2. main' = "launch" => launching' \in Scenarios
      BY <2>3 DEF Main, TopStep, TopReady, TopFails, EpollWait, EpollFails,
            ReadSignal, NoKey, KeyQuit, KeyView, KeyMove, KeyAdd, KeyDelete,
            KeyConfig, KeyLaunch, Show, Unpin, JoinDemo, RestoreScreen, TopExit,
            WayOut
    <3>3. QED
      BY <3>1, <3>2 DEF PacketInv, PacketsVerify, demoVars
  <2>4. CASE Fault \/ Interrupt \/ DetachKill
    <3>1. /\ UNCHANGED <<config, wire, scenario>> /\ main' # "launch"
          /\ step' = step \/ (step = "pace" /\ step' = "fault")
      BY <2>4 DEF Fault, Interrupt, DetachKill, DivideByZero, Killed, demoVars
    <3>2. QED
      BY <3>1 DEF PacketInv, PacketsVerify, Working
  <2>5. CASE \/ Parse \/ Edit \/ EndDemoCommand \/ Terminate
             \/ DetachTerm \/ OtherEdits \/ Pass \/ UNCHANGED vars
    <3>1. UNCHANGED <<step, scenario, config, wire, main, launching>>
      BY <2>5 DEF Parse, Edit, EndDemoCommand, Terminate, DetachTerm,
            OtherEdits, EditBlacklist, Pass, DemoPass, vars, demoVars, topVars
    <3>2. QED
      BY <3>1 DEF PacketInv, PacketsVerify
  <2>6. CASE StartTop
    <3>1. UNCHANGED <<step, scenario, config, wire>> /\ main' # "launch"
      BY <2>6 DEF StartTop, TopBegin, demoVars
    <3>2. QED
      BY <3>1 DEF PacketInv, PacketsVerify
  <2>7. QED
    BY <2>1, <2>2, <2>3, <2>4, <2>5, <2>6 DEF Next
<1>3. QED
  BY <1>1, <1>2, ConfigInvariant, CounterInvariant, PTL DEF Spec

\* PacketsVerify: for every address, every port and every sequence number, the
\* checksums of ping-flood and syn-flood are the ones a receiver computes: the
\* two ways of folding, the byte order of csum() and the place of the field
\* agree with the one's complement sum.
THEOREM PacketsAreRight == Spec => []PacketsVerify
<1>1. PacketInv => PacketsVerify
  BY DEF PacketInv
<1>2. QED
  BY <1>1, PacketInvariant, PTL

-----------------------------------------------------------------------------
(* What the parser has made of the first n tokens of a line.               *)

ValuesOf(line) == ValuesIn(line, ValueOptions)

\* The occurrences of an option among them.
GivenBy(line, t, n) ==
    {k \in DOMAIN line \ ValuesOf(line) :
        line[k] \in GlobalOptions /\ line[k] = t /\ k <= n}
LastOf(S, k) == k \in S /\ \A j \in S : j <= k

FlagMeant(line, v, t, n) == v \in BOOLEAN /\ (v = TRUE <=> GivenBy(line, t, n) # {})
VerboseMeant(line, v, n) ==
    v = Cardinality(GivenBy(line, "-v", n) \cup GivenBy(line, "--verbose", n))
          + 2 * Cardinality(GivenBy(line, "-vv", n))
ModeMeant(line, v, n) ==
    /\ GivenBy(line, "--xdp-mode", n) = {} => v = "auto"
    /\ \A k : LastOf(GivenBy(line, "--xdp-mode", n), k) => v = line[k + 1]
FieldMeant(line, v, o, n) ==
    /\ GivenBy(line, o, n) = {} => v = Defaults[FieldOf[o]]
    /\ \A k : LastOf(GivenBy(line, o, n), k) => v = Number[line[k + 1]].n
Means(line, g, n) ==
    /\ DOMAIN g = DOMAIN Defaults
    /\ FlagMeant(line, g.json, "--json", n)
    /\ FlagMeant(line, g.auto, "--auto-block", n)
    /\ VerboseMeant(line, g.verbose, n)
    /\ ModeMeant(line, g.mode, n)
    /\ \A o \in DOMAIN FieldOf : FieldMeant(line, g[FieldOf[o]], o, n)
    /\ \A o \in ValueOptions : \A k \in GivenBy(line, o, n) : ValueOk(o, line[k + 1])

\* One more token is one more occurrence, if it is the option and not a value.
LEMMA GivenGrows ==
    ASSUME NEW line \in Seq(STRING), NEW n \in Nat, n + 1 <= Len(line), NEW t
    PROVE  /\ n + 1 \in ValuesOf(line) \/ line[n + 1] # t \/ t \notin GlobalOptions =>
                GivenBy(line, t, n + 1) = GivenBy(line, t, n)
           /\ n + 1 \notin ValuesOf(line) /\ line[n + 1] = t /\ t \in GlobalOptions =>
                GivenBy(line, t, n + 1) = GivenBy(line, t, n) \cup {n + 1}
           /\ n + 1 \notin GivenBy(line, t, n)
<1>1. DOMAIN line = 1..Len(line) /\ Len(line) \in Nat
  OBVIOUS
<1>2. \A k \in DOMAIN line : (k <= n + 1 <=> k <= n \/ k = n + 1) /\ k \in Int
  BY <1>1
<1>3. n + 1 \in DOMAIN line /\ ~(n + 1 <= n)
  BY <1>1
<1>4. QED
  BY <1>2, <1>3 DEF GivenBy

\* There are finitely many.
LEMMA GivenFinite ==
    ASSUME NEW line \in Seq(STRING), NEW t, NEW n
    PROVE  /\ GivenBy(line, t, n) \subseteq 1..Len(line)
           /\ IsFiniteSet(GivenBy(line, t, n))
<1>1. GivenBy(line, t, n) \subseteq 1..Len(line)
  BY DEF GivenBy
<1>2. Len(line) \in Nat
  OBVIOUS
<1>3. IsFiniteSet(1..Len(line))
  BY <1>2, FS_Interval
<1>4. QED
  BY <1>1, <1>3, FS_Subset

\* Tokens that add no occurrence of any option change no meaning.
LEMMA SameMeaning ==
    ASSUME NEW line, NEW g, NEW n, NEW m, Means(line, g, n),
           \A t : GivenBy(line, t, m) = GivenBy(line, t, n)
    PROVE  Means(line, g, m)
<1>1. FlagMeant(line, g.json, "--json", m) /\ FlagMeant(line, g.auto, "--auto-block", m)
  BY DEF Means, FlagMeant
<1>2. VerboseMeant(line, g.verbose, m)
  <2>1. /\ GivenBy(line, "-v", m) = GivenBy(line, "-v", n)
        /\ GivenBy(line, "--verbose", m) = GivenBy(line, "--verbose", n)
        /\ GivenBy(line, "-vv", m) = GivenBy(line, "-vv", n)
    OBVIOUS
  <2>2. VerboseMeant(line, g.verbose, n)
    BY DEF Means
  <2>3. QED
    BY <2>1, <2>2, Zenon DEF VerboseMeant
<1>3. ModeMeant(line, g.mode, m)
  BY DEF Means, ModeMeant
<1>4. \A o \in DOMAIN FieldOf : FieldMeant(line, g[FieldOf[o]], o, m)
  BY DEF Means, FieldMeant
<1>5. QED
  BY <1>1, <1>2, <1>3, <1>4 DEF Means

\* The fields of the numeric options are four, each its own.
LEMMA FieldNames ==
    /\ DOMAIN FieldOf \subseteq
         {"--sample-n", "--syn-threshold", "--syn-window", "--auto-block-ttl"}
    /\ \A o \in DOMAIN FieldOf : FieldOf[o] \in {"sample", "threshold", "window", "ttl"}
    /\ \A o, p \in DOMAIN FieldOf : FieldOf[o] = FieldOf[p] => o = p
<1>1. DOMAIN FieldOf \subseteq
        {"--sample-n", "--syn-threshold", "--syn-window", "--auto-block-ttl"}
  BY DEF FieldOf, Enabled
<1>2. \A o \in DOMAIN FieldOf :
        FieldOf[o] = CASE o = "--sample-n" -> "sample"
                       [] o = "--syn-threshold" -> "threshold"
                       [] o = "--syn-window" -> "window"
                       [] o = "--auto-block-ttl" -> "ttl"
  BY DEF FieldOf
<1>3. \A o \in DOMAIN FieldOf :
        /\ o = "--sample-n" => FieldOf[o] = "sample"
        /\ o = "--syn-threshold" => FieldOf[o] = "threshold"
        /\ o = "--syn-window" => FieldOf[o] = "window"
        /\ o = "--auto-block-ttl" => FieldOf[o] = "ttl"
  BY <1>2
<1>4. QED
  BY <1>1, <1>3

\* What a flag makes of the options.
Flagged(g, h, t) ==
    /\ DOMAIN h = DOMAIN Defaults
    /\ h.json = IF t = "--json" THEN TRUE ELSE g.json
    /\ h.auto = IF t = "--auto-block" THEN TRUE ELSE g.auto
    /\ h.verbose = IF t \in {"-v", "--verbose"} THEN g.verbose + 1
                   ELSE IF t = "-vv" THEN g.verbose + 2 ELSE g.verbose
    /\ \A f \in {"mode", "sample", "threshold", "window", "ttl"} : h[f] = g[f]

LEMMA FlagFields ==
    ASSUME NEW g, DOMAIN g = DOMAIN Defaults, NEW t \in Flags
    PROVE  Flagged(g, WithFlag(g, t), t)
<1>1. DOMAIN g = {"json", "verbose", "auto", "mode", "sample", "threshold",
                  "window", "ttl"}
  BY DEF Defaults
<1>2. t \in {"--json", "-v", "--verbose", "-vv", "--auto-block"}
  BY DEF Flags, Enabled
<1>3. CASE t = "--json"
  <2>1. WithFlag(g, t) = [g EXCEPT !.json = TRUE]
    BY <1>3 DEF WithFlag
  <2>2. QED
    BY <1>1, <1>3, <2>1 DEF Flagged
<1>4. CASE t = "--auto-block"
  <2>1. WithFlag(g, t) = [g EXCEPT !.auto = TRUE]
    BY <1>4 DEF WithFlag
  <2>2. QED
    BY <1>1, <1>4, <2>1 DEF Flagged
<1>5. CASE t \in {"-v", "--verbose"}
  <2>1. WithFlag(g, t) = [g EXCEPT !.verbose = @ + 1]
    BY <1>5 DEF WithFlag
  <2>2. QED
    BY <1>1, <1>5, <2>1 DEF Flagged
<1>6. CASE t = "-vv"
  <2>1. WithFlag(g, t) = [g EXCEPT !.verbose = @ + 2]
    BY <1>6 DEF WithFlag
  <2>2. QED
    BY <1>1, <1>6, <2>1 DEF Flagged
<1>7. QED
  BY <1>2, <1>3, <1>4, <1>5, <1>6

\* What an option with a value makes of them.
LEMMA ValueFields ==
    ASSUME NEW g, DOMAIN g = DOMAIN Defaults, NEW t \in ValueOptions, NEW v
    PROVE  /\ DOMAIN WithValue(g, t, v) = DOMAIN Defaults
           /\ \A f \in {"json", "auto", "verbose"} : WithValue(g, t, v)[f] = g[f]
           /\ WithValue(g, t, v).mode = IF t = "--xdp-mode" THEN v ELSE g.mode
           /\ \A o \in DOMAIN FieldOf :
                WithValue(g, t, v)[FieldOf[o]] =
                  IF o = t THEN Number[v].n ELSE g[FieldOf[o]]
<1>1. DOMAIN g = {"json", "verbose", "auto", "mode", "sample", "threshold",
                  "window", "ttl"}
  BY DEF Defaults
<1>2. CASE t = "--xdp-mode"
  <2>1. WithValue(g, t, v) = [g EXCEPT !.mode = v]
    BY <1>2 DEF WithValue
  <2>2. \A o \in DOMAIN FieldOf :
          o # t /\ FieldOf[o] # "mode" /\ FieldOf[o] \in DOMAIN g
    BY <1>1, <1>2, FieldNames
  <2>3. QED
    BY <1>1, <1>2, <2>1, <2>2
<1>3. CASE t # "--xdp-mode"
  <2>1. t \in DOMAIN FieldOf
    BY <1>3 DEF ValueOptions
  <2>2. PICK f : f = FieldOf[t]
    OBVIOUS
  <2>3. WithValue(g, t, v) = [g EXCEPT ![f] = Number[v].n]
    BY <1>3, <2>2 DEF WithValue
  <2>4. f \in {"sample", "threshold", "window", "ttl"}
    BY <2>1, <2>2, FieldNames
  <2>5. \A o \in DOMAIN FieldOf : FieldOf[o] \in DOMAIN g /\ (FieldOf[o] = f <=> o = t)
    BY <1>1, <2>1, <2>2, FieldNames
  <2>6. QED
    BY <1>1, <1>3, <2>3, <2>4, <2>5
<1>4. QED
  BY <1>2, <1>3

\* A flag.
LEMMA FlagMeans ==
    ASSUME NEW line \in Seq(STRING), NEW n \in Nat, n + 1 <= Len(line), NEW g,
           Means(line, g, n), n + 1 \notin ValuesOf(line), line[n + 1] \in Flags
    PROVE  Means(line, WithFlag(g, line[n + 1]), n + 1)
<1>1. PICK t : t = line[n + 1]
  OBVIOUS
<1>2. t \in Flags /\ t \in GlobalOptions
  BY <1>1 DEF GlobalOptions
<1>3. PICK h : h = WithFlag(g, t)
  OBVIOUS
<1>4. DOMAIN g = DOMAIN Defaults
  BY DEF Means
<1>5. /\ DOMAIN h = DOMAIN Defaults
      /\ h.json = IF t = "--json" THEN TRUE ELSE g.json
      /\ h.auto = IF t = "--auto-block" THEN TRUE ELSE g.auto
      /\ h.verbose = IF t \in {"-v", "--verbose"} THEN g.verbose + 1
                     ELSE IF t = "-vv" THEN g.verbose + 2 ELSE g.verbose
      /\ \A f \in {"mode", "sample", "threshold", "window", "ttl"} : h[f] = g[f]
  <2>1. Flagged(g, h, t)
    BY <1>2, <1>3, <1>4, FlagFields
  <2>2. QED
    BY <2>1 DEF Flagged
<1>6. \A u : u # t => GivenBy(line, u, n + 1) = GivenBy(line, u, n)
  BY <1>1, GivenGrows
<1>7. /\ GivenBy(line, t, n + 1) = GivenBy(line, t, n) \cup {n + 1}
      /\ n + 1 \notin GivenBy(line, t, n)
  BY <1>1, <1>2, GivenGrows
<1>8. t \in {"--json", "-v", "--verbose", "-vv", "--auto-block"}
  BY <1>2 DEF Flags, Enabled
<1>9. ASSUME NEW u, NEW v, NEW w, FlagMeant(line, v, u, n),
             w = IF t = u THEN TRUE ELSE v
      PROVE  FlagMeant(line, w, u, n + 1)
  <2>1. CASE t = u
    BY <1>7, <1>9, <2>1 DEF FlagMeant
  <2>2. CASE t # u
    <3>1. w = v /\ GivenBy(line, u, n + 1) = GivenBy(line, u, n)
      BY <1>6, <1>9, <2>2
    <3>2. QED
      BY <1>9, <3>1, Zenon DEF FlagMeant
  <2>3. QED
    BY <2>1, <2>2
<1>10. FlagMeant(line, h.json, "--json", n + 1)
  BY <1>5, <1>9 DEF Means
<1>11. FlagMeant(line, h.auto, "--auto-block", n + 1)
  BY <1>5, <1>9 DEF Means
<1>12. VerboseMeant(line, h.verbose, n + 1)
  <2>1. PICK A : A = GivenBy(line, "-v", n) \cup GivenBy(line, "--verbose", n)
    OBVIOUS
  <2>2. PICK B : B = GivenBy(line, "-vv", n)
    OBVIOUS
  <2>3. IsFiniteSet(A) /\ IsFiniteSet(B)
    BY <2>1, <2>2, GivenFinite, FS_Union
  <2>4. Cardinality(A) \in Nat /\ Cardinality(B) \in Nat
    BY <2>3, FS_CardinalityType
  <2>5. g.verbose = Cardinality(A) + 2 * Cardinality(B)
    BY <2>1, <2>2 DEF Means, VerboseMeant
  <2>6. n + 1 \notin A /\ n + 1 \notin B
    BY <2>1, <2>2, GivenGrows
  <2>7. /\ Cardinality(A \cup {n + 1}) = Cardinality(A) + 1
        /\ Cardinality(B \cup {n + 1}) = Cardinality(B) + 1
    BY <2>3, <2>6, FS_AddElement
  <2>8. PICK C : C = GivenBy(line, "-v", n + 1) \cup GivenBy(line, "--verbose", n + 1)
    OBVIOUS
  <2>9. PICK D : D = GivenBy(line, "-vv", n + 1)
    OBVIOUS
  <2>10. CASE t \in {"-v", "--verbose"}
    <3>1. C = A \cup {n + 1} /\ D = B
      BY <1>6, <1>7, <2>1, <2>2, <2>8, <2>9, <2>10
    <3>2. h.verbose = g.verbose + 1
      BY <1>5, <2>10
    <3>3. h.verbose = Cardinality(C) + 2 * Cardinality(D)
      BY <2>4, <2>5, <2>7, <3>1, <3>2
    <3>4. QED
      BY <2>8, <2>9, <3>3 DEF VerboseMeant
  <2>11. CASE t = "-vv"
    <3>1. C = A /\ D = B \cup {n + 1}
      BY <1>6, <1>7, <2>1, <2>2, <2>8, <2>9, <2>11
    <3>2. h.verbose = g.verbose + 2
      BY <1>5, <2>11
    <3>3. h.verbose = Cardinality(C) + 2 * Cardinality(D)
      BY <2>4, <2>5, <2>7, <3>1, <3>2
    <3>4. QED
      BY <2>8, <2>9, <3>3 DEF VerboseMeant
  <2>12. CASE t \notin {"-v", "--verbose", "-vv"}
    <3>1. C = A /\ D = B
      BY <1>6, <2>1, <2>2, <2>8, <2>9, <2>12
    <3>2. h.verbose = g.verbose
      BY <1>5, <2>12
    <3>3. QED
      BY <2>5, <2>8, <2>9, <3>1, <3>2, Zenon DEF VerboseMeant
  <2>13. QED
    BY <2>10, <2>11, <2>12
<1>13. ModeMeant(line, h.mode, n + 1)
  <2>1. h.mode = g.mode
    BY <1>5
  <2>2. GivenBy(line, "--xdp-mode", n + 1) = GivenBy(line, "--xdp-mode", n)
    BY <1>6, <1>8
  <2>3. QED
    BY <2>1, <2>2 DEF Means, ModeMeant
<1>14. ASSUME NEW o \in DOMAIN FieldOf
       PROVE  FieldMeant(line, h[FieldOf[o]], o, n + 1)
  <2>1. h[FieldOf[o]] = g[FieldOf[o]]
    BY <1>5, FieldNames
  <2>2. GivenBy(line, o, n + 1) = GivenBy(line, o, n)
    BY <1>6, <1>8, FieldNames
  <2>3. FieldMeant(line, g[FieldOf[o]], o, n)
    BY DEF Means
  <2>4. QED
    BY <2>1, <2>2, <2>3 DEF FieldMeant
<1>15. ASSUME NEW o \in ValueOptions, NEW k \in GivenBy(line, o, n + 1)
       PROVE  ValueOk(o, line[k + 1])
  <2>1. o # t
    BY <1>8, FieldNames DEF ValueOptions
  <2>2. k \in GivenBy(line, o, n)
    BY <1>6, <2>1
  <2>3. QED
    BY <2>2 DEF Means
<1>16. QED
  BY <1>1, <1>3, <1>5, <1>10, <1>11, <1>12, <1>13, <1>14, <1>15 DEF Means

\* An option and its value.
LEMMA ValueMeans ==
    ASSUME NEW line \in Seq(STRING), NEW n \in Nat, n + 2 <= Len(line), NEW g,
           Means(line, g, n), n + 1 \notin ValuesOf(line),
           line[n + 1] \in ValueOptions, ValueOk(line[n + 1], line[n + 2])
    PROVE  /\ Means(line, WithValue(g, line[n + 1], line[n + 2]), n + 2)
           /\ n + 2 \in ValuesOf(line)
<1>1. PICK t : t = line[n + 1]
  OBVIOUS
<1>2. PICK v : v = line[n + 2]
  OBVIOUS
<1>3. t \in ValueOptions /\ t \in GlobalOptions
  BY <1>1 DEF GlobalOptions
<1>4. PICK h : h = WithValue(g, t, v)
  OBVIOUS
<1>5. DOMAIN g = DOMAIN Defaults
  BY DEF Means
<1>6. /\ DOMAIN h = DOMAIN Defaults
      /\ h.json = g.json /\ h.auto = g.auto /\ h.verbose = g.verbose
      /\ h.mode = IF t = "--xdp-mode" THEN v ELSE g.mode
      /\ \A o \in DOMAIN FieldOf :
           h[FieldOf[o]] = IF o = t THEN Number[v].n ELSE g[FieldOf[o]]
  BY <1>3, <1>4, <1>5, ValueFields
<1>7. n + 2 \in ValuesOf(line)
  <2>1. n + 2 \in DOMAIN line /\ (n + 2) - 1 = n + 1 /\ n + 2 > 1
    OBVIOUS
  <2>2. QED
    BY <1>1, <1>3, <2>1, ValuesAreTold DEF ValuesOf
<1>8. n + 1 \in Nat /\ n + 1 <= Len(line) /\ (n + 1) + 1 = n + 2
  OBVIOUS
<1>9. \A u : GivenBy(line, u, n + 2) = GivenBy(line, u, n + 1)
  BY <1>7, <1>8, GivenGrows
<1>10. \A u : u # t => GivenBy(line, u, n + 2) = GivenBy(line, u, n)
  BY <1>1, <1>8, <1>9, GivenGrows
<1>11. GivenBy(line, t, n + 2) = GivenBy(line, t, n) \cup {n + 1}
  BY <1>1, <1>3, <1>8, <1>9, GivenGrows
<1>12. t \in {"--xdp-mode", "--sample-n", "--syn-threshold", "--syn-window",
              "--auto-block-ttl"}
  BY <1>3, FieldNames DEF ValueOptions
<1>13. \A k : LastOf(GivenBy(line, t, n + 2), k) => k + 1 = n + 2
  <2>1. SUFFICES ASSUME NEW k, LastOf(GivenBy(line, t, n + 2), k) PROVE k + 1 = n + 2
    OBVIOUS
  <2>2. GivenBy(line, t, n) \subseteq Int /\ \A j \in GivenBy(line, t, n) : j < n + 1
    BY GivenFinite DEF GivenBy
  <2>3. k = n + 1
    <3>1. LastOf(GivenBy(line, t, n) \cup {n + 1}, k)
      BY <1>11, <2>1
    <3>2. k \in GivenBy(line, t, n) \cup {n + 1} /\ n + 1 <= k
      BY <3>1 DEF LastOf
    <3>3. QED
      BY <2>2, <3>2
  <2>4. QED
    BY <2>3
<1>14. GivenBy(line, t, n + 2) # {}
  BY <1>11
<1>15. /\ FlagMeant(line, h.json, "--json", n + 2)
       /\ FlagMeant(line, h.auto, "--auto-block", n + 2)
  <2>1. /\ GivenBy(line, "--json", n + 2) = GivenBy(line, "--json", n)
        /\ GivenBy(line, "--auto-block", n + 2) = GivenBy(line, "--auto-block", n)
    BY <1>10, <1>12
  <2>2. /\ FlagMeant(line, h.json, "--json", n)
        /\ FlagMeant(line, h.auto, "--auto-block", n)
    BY <1>6 DEF Means
  <2>3. QED
    BY <2>1, <2>2, Zenon DEF FlagMeant
<1>16. VerboseMeant(line, h.verbose, n + 2)
  <2>1. /\ GivenBy(line, "-v", n + 2) = GivenBy(line, "-v", n)
        /\ GivenBy(line, "--verbose", n + 2) = GivenBy(line, "--verbose", n)
        /\ GivenBy(line, "-vv", n + 2) = GivenBy(line, "-vv", n)
    BY <1>10, <1>12
  <2>2. VerboseMeant(line, h.verbose, n)
    BY <1>6 DEF Means
  <2>3. QED
    BY <2>1, <2>2, Zenon DEF VerboseMeant
<1>17. ModeMeant(line, h.mode, n + 2)
  <2>1. CASE t = "--xdp-mode"
    BY <1>2, <1>6, <1>13, <1>14, <2>1 DEF ModeMeant
  <2>2. CASE t # "--xdp-mode"
    <3>1. h.mode = g.mode
      BY <1>6, <2>2
    <3>2. GivenBy(line, "--xdp-mode", n + 2) = GivenBy(line, "--xdp-mode", n)
      BY <1>10, <2>2
    <3>3. QED
      BY <3>1, <3>2 DEF Means, ModeMeant
  <2>3. QED
    BY <2>1, <2>2
<1>18. ASSUME NEW o \in DOMAIN FieldOf
       PROVE  FieldMeant(line, h[FieldOf[o]], o, n + 2)
  <2>1. CASE o = t
    <3>1. h[FieldOf[o]] = Number[v].n
      BY <1>6, <2>1
    <3>2. QED
      BY <1>2, <1>13, <1>14, <2>1, <3>1 DEF FieldMeant
  <2>2. CASE o # t
    <3>1. h[FieldOf[o]] = g[FieldOf[o]]
      BY <1>6, <2>2
    <3>2. GivenBy(line, o, n + 2) = GivenBy(line, o, n)
      BY <1>10, <2>2
    <3>3. FieldMeant(line, g[FieldOf[o]], o, n)
      BY DEF Means
    <3>4. QED
      BY <3>1, <3>2, <3>3 DEF FieldMeant
  <2>3. QED
    BY <2>1, <2>2
<1>19. ASSUME NEW o \in ValueOptions, NEW k \in GivenBy(line, o, n + 2)
       PROVE  ValueOk(o, line[k + 1])
  <2>1. CASE k \in GivenBy(line, o, n)
    BY <2>1 DEF Means
  <2>2. CASE k \notin GivenBy(line, o, n)
    <3>1. o = t
      BY <1>10, <2>2
    <3>2. k = n + 1
      BY <1>11, <2>2, <3>1
    <3>3. k + 1 = n + 2
      BY <3>2
    <3>4. QED
      BY <1>1, <3>1, <3>3
  <2>3. QED
    BY <2>1, <2>2
<1>20. QED
  BY <1>1, <1>2, <1>4, <1>6, <1>7, <1>15, <1>16, <1>17, <1>18, <1>19 DEF Means

\* f puts the first n of the sequences together.
Flattens(f, seqs) ==
    f[0] = << >> /\ \A n \in 1..Len(seqs) : f[n] = f[n - 1] \o seqs[n]

\* It ends with all of them.
LEMMA Flattened ==
    ASSUME NEW W, NEW seqs \in Seq(Seq(W)), Len(seqs) # 0,
           NEW f \in [0..Len(seqs) -> Seq(W)], Flattens(f, seqs)
    PROVE  FlattenSeq(seqs) = f[Len(seqs)]
<1> DEFINE N == Len(seqs)
           Solves(g) == g = [i \in 1..N |-> IF i = 1 THEN seqs[i]
                                            ELSE g[i - 1] \o seqs[i]]
           g == CHOOSE x : Solves(x)
           S == {n \in 0..N : n >= 1 => g[n] = f[n]}
<1>1. N \in Nat /\ N \in 1..N /\ \A n \in 1..N : seqs[n] \in Seq(W)
  OBVIOUS
<1>2. \E x : Solves(x)
  <2>1. PICK x : x = [i \in 1..N |-> f[i]]
    OBVIOUS
  <2>2. ASSUME NEW i \in 1..N
        PROVE  x[i] = IF i = 1 THEN seqs[i] ELSE x[i - 1] \o seqs[i]
    <3>1. CASE i = 1
      <4>1. x[1] = << >> \o seqs[1]
        BY <1>1, <2>1, <3>1 DEF Flattens
      <4>2. QED
        BY <1>1, <3>1, <4>1
    <3>2. CASE i # 1
      <4>1. i - 1 \in 1..N
        BY <1>1, <3>2
      <4>2. QED
        BY <2>1, <3>2, <4>1 DEF Flattens
    <3>3. QED
      BY <3>1, <3>2
  <2>3. Solves(x)
    BY Zenon, <2>1, <2>2
  <2>4. QED
    BY <2>3
<1>3. Solves(g)
  BY Zenon, <1>2
<1>4. FlattenSeq(seqs) = g[N]
  BY DEF FlattenSeq
<1> HIDE DEF g
<1>5. 0 \in S
  BY <1>1
<1>6. ASSUME NEW n \in 1..N, n - 1 \in S PROVE n \in S
  <2>1. n \in 0..N /\ f[n] = f[n - 1] \o seqs[n]
    <3>1. n \in 0..N
      BY <1>1
    <3>2. f[n] = f[n - 1] \o seqs[n]
      BY DEF Flattens
    <3>3. QED
      BY <3>1, <3>2
  <2>2. g[n] = IF n = 1 THEN seqs[n] ELSE g[n - 1] \o seqs[n]
    BY <1>3
  <2>3. CASE n = 1
    <3>1. f[1] = << >> \o seqs[1]
      <4>1. f[n - 1] = << >>
        BY <2>3 DEF Flattens
      <4>2. QED
        BY <2>1, <2>3, <4>1
    <3>2. g[n] = f[n]
      BY <1>1, <2>2, <2>3, <3>1
    <3>3. QED
      BY <2>1, <3>2
  <2>4. CASE n # 1
    <3>1. g[n - 1] = f[n - 1]
      BY <1>6, <2>4
    <3>2. QED
      BY <2>1, <2>2, <2>4, <3>1
  <2>5. QED
    BY <2>3, <2>4
<1> HIDE DEF S
<1>7. \A n \in 0..N : n \in S
  BY <1>1, <1>5, <1>6, UpTo
<1>8. QED
  BY <1>1, <1>4, <1>7 DEF S

\* The words of a line that are neither options nor values, and the first n
\* of its tokens without the others.
OptionsOf(line) == {k \in DOMAIN line \ ValuesOf(line) : line[k] \in GlobalOptions}
WordsOf(line) ==
    [k \in DOMAIN line |->
        IF k \in ValuesOf(line) \cup OptionsOf(line) THEN << >> ELSE <<line[k]>>]
SaidBy(line) ==
    CHOOSE f : f \in [0..Len(line) -> Seq(STRING)] /\ Flattens(f, WordsOf(line))

LEMMA WordsType ==
    ASSUME NEW line \in Seq(STRING)
    PROVE  WordsOf(line) \in Seq(Seq(STRING)) /\ Len(WordsOf(line)) = Len(line)
<1>1. \A k \in 1..Len(line) : line[k] \in STRING
  OBVIOUS
<1>2. \A k \in 1..Len(line) : <<line[k]>> \in Seq(STRING) /\ << >> \in Seq(STRING)
  BY <1>1
<1>3. DOMAIN line = 1..Len(line) /\ Len(line) \in Nat
  OBVIOUS
<1>4. WordsOf(line) \in [1..Len(line) -> Seq(STRING)]
  BY <1>2, <1>3 DEF WordsOf
<1>5. QED
  BY <1>3, <1>4

LEMMA SaidExists ==
    ASSUME NEW line \in Seq(STRING)
    PROVE  /\ SaidBy(line) \in [0..Len(line) -> Seq(STRING)]
           /\ Flattens(SaidBy(line), WordsOf(line))
<1> DEFINE N == Len(line)
           X == Seq(STRING)
           ws == WordsOf(line)
           G == [p \in X \X (1..N) |-> p[1] \o ws[p[2]]]
<1>1. N \in Nat /\ Len(ws) = N /\ << >> \in X
  BY WordsType
<1>2. \A n \in 1..N : ws[n] \in X
  BY WordsType
<1> HIDE DEF N, ws
<1>3. G \in [X \X (1..N) -> X]
  BY <1>2
<1> HIDE DEF G, X
<1>4. PICK f \in [0..N -> X] : Follows(f, N, << >>, G)
  BY <1>1, <1>3, RecursionExists
<1>5. f[0] = << >> /\ \A n \in 1..N : f[n] = G[<<f[n - 1], n>>]
  BY <1>4 DEF Follows
<1>6. \A n \in 1..N : f[n - 1] \in X
  BY <1>1
<1>7. \A n \in 1..N : f[n] = f[n - 1] \o ws[n]
  BY <1>5, <1>6 DEF G
<1>8. Flattens(f, ws)
  BY <1>1, <1>5, <1>7 DEF Flattens
<1>9. QED
  BY <1>8 DEF SaidBy, X, N, ws

\* The last token taken: a word is added to what is said, anything else is not.
LEMMA OneMoreSaid ==
    ASSUME NEW line \in Seq(STRING), NEW n \in Nat, n + 1 <= Len(line)
    PROVE  /\ n + 1 \in ValuesOf(line) \/ line[n + 1] \in GlobalOptions =>
                SaidBy(line)[n + 1] = SaidBy(line)[n]
           /\ n + 1 \notin ValuesOf(line) /\ line[n + 1] \notin GlobalOptions =>
                SaidBy(line)[n + 1] = SaidBy(line)[n] \o <<line[n + 1]>>
<1>1. n + 1 \in 1..Len(line) /\ n \in 0..Len(line) /\ (n + 1) - 1 = n
      /\ n + 1 \in DOMAIN line
  OBVIOUS
<1>2. SaidBy(line)[n] \in Seq(STRING)
  BY <1>1, SaidExists
<1>3. SaidBy(line)[n + 1] = SaidBy(line)[n] \o WordsOf(line)[n + 1]
  BY <1>1, SaidExists, WordsType DEF Flattens
<1>4. ASSUME n + 1 \in ValuesOf(line) \/ line[n + 1] \in GlobalOptions
      PROVE  SaidBy(line)[n + 1] = SaidBy(line)[n]
  <2>1. WordsOf(line)[n + 1] = << >>
    BY <1>1, <1>4 DEF WordsOf, OptionsOf
  <2>2. QED
    BY <1>2, <1>3, <2>1
<1>5. ASSUME n + 1 \notin ValuesOf(line), line[n + 1] \notin GlobalOptions
      PROVE  SaidBy(line)[n + 1] = SaidBy(line)[n] \o <<line[n + 1]>>
  <2>1. WordsOf(line)[n + 1] = <<line[n + 1]>>
    BY <1>1, <1>5 DEF WordsOf, OptionsOf
  <2>2. QED
    BY <1>3, <2>1
<1>6. QED
  BY <1>4, <1>5

\* The token after an option without a value, or after a word, is no value.
LEMMA NextIsNoValue ==
    ASSUME NEW line \in Seq(STRING), NEW i \in Nat, i + 1 \in DOMAIN line,
           line[i] \notin ValueOptions \/ i \in ValuesOf(line)
    PROVE  i + 1 \notin ValuesOf(line)
<1>1. (i + 1) - 1 = i
  OBVIOUS
<1>2. QED
  BY <1>1, ValuesAreTold DEF ValuesOf

\* Where the parser stands: never at a value, with the words before it said
\* and the options before it counted.
ParsedInv ==
    phase \in {"parse", "dispatch"} =>
        /\ phase = "dispatch" => at = Len(argv) + 1 /\ cmd # "none"
        /\ at \in DOMAIN argv => at \notin ValuesOf(argv)
        /\ IF cmd = "none" THEN args = << >> ELSE cmd \in STRING
        /\ SaidBy(argv)[at - 1] = IF cmd = "none" THEN << >> ELSE <<cmd>> \o args
        /\ Means(argv, globals, at - 1)

\* A word goes to the end of the command and its operands.
LEMMA OneMoreWord ==
    ASSUME NEW W, NEW a \in W, NEW b \in W, NEW s \in Seq(W)
    PROVE  (<<a>> \o s) \o <<b>> = <<a>> \o Append(s, b)
<1>1. PICK x : x = (<<a>> \o s) \o <<b>>
  OBVIOUS
<1>2. PICK y : y = <<a>> \o Append(s, b)
  OBVIOUS
<1>3. PICK n : n = Len(s) + 2
  OBVIOUS
<1>4. n \in Nat /\ x \in Seq(W) /\ Len(x) = n /\ y \in Seq(W) /\ Len(y) = n
  BY <1>1, <1>2, <1>3
<1>5. ASSUME NEW k \in 1..n PROVE x[k] = y[k]
  <2>1. CASE k = 1
    BY <1>1, <1>2, <1>3, <2>1
  <2>2. CASE k # 1 /\ k # n
    <3>1. k - 1 \in 1..Len(s)
      BY <1>3, <2>2
    <3>2. x[k] = s[k - 1]
      BY <1>1, <1>3, <2>2, <3>1
    <3>3. y[k] = s[k - 1]
      BY <1>2, <1>3, <2>2, <3>1
    <3>4. QED
      BY <3>2, <3>3
  <2>3. CASE k = n
    BY <1>1, <1>2, <1>3, <2>3
  <2>4. QED
    BY <2>1, <2>2, <2>3
<1>6. x = y
  BY <1>4, <1>5
<1>7. QED
  BY <1>1, <1>2, <1>6, Zenon

\* Every step of the parser takes what the token at which it stands means.
LEMMA ParseKeepsParsed ==
    ASSUME ParsedInv, LineInv, OptionInv, Parse
    PROVE  ParsedInv'
<1>1. /\ ParseStep /\ argv \in Seq(STRING) /\ args \in Seq(STRING)
      /\ at \in Nat /\ 1 <= at /\ at <= Len(argv) + 1
      /\ Len(argv) \in Nat /\ DOMAIN argv = 1..Len(argv)
  BY DEF Parse, OptionInv, LineInv
<1>2. PICK n : n = at - 1
  OBVIOUS
<1>3. n \in Nat /\ n + 1 = at
  BY <1>1, <1>2
<1>4. ASSUME phase = "parse", at <= Len(argv)
      PROVE  /\ at \notin ValuesOf(argv) /\ n + 1 <= Len(argv)
             /\ SaidBy(argv)[n] = IF cmd = "none" THEN << >> ELSE <<cmd>> \o args
             /\ IF cmd = "none" THEN args = << >> ELSE cmd \in STRING
             /\ Means(argv, globals, n)
  BY <1>1, <1>2, <1>3, <1>4 DEF ParsedInv
<1>5. CASE TakeFlag
  <2>1. /\ phase = "parse" /\ phase' = "parse" /\ at <= Len(argv) /\ argv[at] \in Flags
        /\ globals' = WithFlag(globals, argv[at]) /\ at' = at + 1
        /\ UNCHANGED <<argv, cmd, args>>
    BY <1>5 DEF TakeFlag, AtToken
  <2>2. argv[n + 1] \in Flags /\ argv[n + 1] \in GlobalOptions
    BY <1>3, <2>1 DEF GlobalOptions
  <2>3. argv[at] \notin ValueOptions
    <3>1. argv[at] \in {"--json", "-v", "--verbose", "-vv", "--auto-block"}
      BY <2>1 DEF Flags, Enabled
    <3>2. QED
      BY <3>1, FieldNames DEF ValueOptions
  <2>4. at + 1 \in DOMAIN argv => at + 1 \notin ValuesOf(argv)
    BY <1>1, <2>3, NextIsNoValue
  <2>5. n + 1 \notin ValuesOf(argv) /\ n + 1 <= Len(argv) /\ Means(argv, globals, n)
    BY <1>3, <1>4, <2>1
  <2>6. Means(argv, globals', n + 1)
    <3>1. globals' = WithFlag(globals, argv[n + 1])
      BY <1>3, <2>1
    <3>2. QED
      BY <1>1, <1>3, <2>2, <2>5, <3>1, FlagMeans
  <2>7. SaidBy(argv)[n + 1] = SaidBy(argv)[n]
    BY <1>1, <1>3, <2>2, <2>5, OneMoreSaid
  <2>8. at' - 1 = n + 1
    BY <1>3, <2>1
  <2>9. QED
    BY <1>4, <2>1, <2>4, <2>6, <2>7, <2>8 DEF ParsedInv
<1>6. CASE TakeValue
  <2>1. /\ phase = "parse" /\ phase' = "parse" /\ at < Len(argv)
        /\ argv[at] \in ValueOptions /\ ValueOk(argv[at], argv[at + 1])
        /\ globals' = WithValue(globals, argv[at], argv[at + 1]) /\ at' = at + 2
        /\ UNCHANGED <<argv, cmd, args>>
    BY <1>6 DEF TakeValue, AtToken, AfterValue
  <2>2. at <= Len(argv) /\ n + 2 <= Len(argv) /\ n + 2 = at + 1
    BY <1>1, <1>3, <2>1
  <2>3. n + 1 \notin ValuesOf(argv) /\ n + 1 <= Len(argv) /\ Means(argv, globals, n)
    BY <1>3, <1>4, <2>1, <2>2
  <2>4. /\ argv[n + 1] \in ValueOptions /\ argv[n + 1] \in GlobalOptions
        /\ ValueOk(argv[n + 1], argv[n + 2])
        /\ globals' = WithValue(globals, argv[n + 1], argv[n + 2])
    BY <1>3, <2>1, <2>2 DEF GlobalOptions
  <2>5. Means(argv, globals', n + 2) /\ n + 2 \in ValuesOf(argv)
    BY <1>1, <1>3, <2>2, <2>3, <2>4, ValueMeans
  <2>6. at + 2 \in DOMAIN argv => at + 2 \notin ValuesOf(argv)
    <3>1. at + 1 \in ValuesOf(argv) /\ (at + 1) + 1 = at + 2 /\ at + 1 \in Nat
      BY <1>1, <2>2, <2>5
    <3>2. QED
      BY <1>1, <3>1, NextIsNoValue
  <2>7. SaidBy(argv)[n + 2] = SaidBy(argv)[n]
    <3>1. SaidBy(argv)[n + 1] = SaidBy(argv)[n]
      BY <1>1, <1>3, <2>3, <2>4, OneMoreSaid
    <3>2. n + 1 \in Nat /\ (n + 1) + 1 = n + 2
      BY <1>3
    <3>3. SaidBy(argv)[n + 2] = SaidBy(argv)[n + 1]
      BY <1>1, <2>2, <2>5, <3>2, OneMoreSaid
    <3>4. QED
      BY <3>1, <3>3
  <2>8. at' - 1 = n + 2
    BY <1>3, <2>1
  <2>9. QED
    BY <1>4, <2>1, <2>2, <2>5, <2>6, <2>7, <2>8 DEF ParsedInv
<1>7. CASE TakeCommand \/ TakeOperand
  <2>1. /\ phase = "parse" /\ phase' = "parse" /\ at <= Len(argv) /\ at' = at + 1
        /\ UNCHANGED <<argv, globals>>
    BY <1>7 DEF TakeCommand, TakeOperand, AtToken
  <2>2. argv[at] \notin GlobalOptions
    <3>1. CASE TakeCommand
      <4>1. argv[at] \in Commands
        BY <3>1 DEF TakeCommand, AtToken
      <4>2. QED
        BY <4>1, FieldNames DEF Commands, GlobalOptions, Flags, ValueOptions, Enders,
              Enabled
    <3>2. CASE TakeOperand
      BY <3>2 DEF TakeOperand, AtToken
    <3>3. QED
      BY <1>7, <3>1, <3>2
  <2>3. argv[at] \notin ValueOptions
    BY <2>2 DEF GlobalOptions
  <2>4. at + 1 \in DOMAIN argv => at + 1 \notin ValuesOf(argv)
    BY <1>1, <2>3, NextIsNoValue
  <2>5. /\ n + 1 \notin ValuesOf(argv) /\ n + 1 <= Len(argv) /\ Means(argv, globals, n)
        /\ argv[n + 1] \notin GlobalOptions
    BY <1>3, <1>4, <2>1, <2>2
  <2>6. Means(argv, globals, n + 1)
    <3>1. \A t : GivenBy(argv, t, n + 1) = GivenBy(argv, t, n)
      BY <1>1, <1>3, <2>5, GivenGrows
    <3>2. QED
      BY <2>5, <3>1, SameMeaning
  <2>7. SaidBy(argv)[n + 1] = SaidBy(argv)[n] \o <<argv[at]>>
    BY <1>1, <1>3, <2>5, OneMoreSaid
  <2>8. at' - 1 = n + 1
    BY <1>3, <2>1
  <2>9. SaidBy(argv)[n + 1] = <<cmd'>> \o args' /\ cmd' # "none" /\ cmd' \in STRING
    <3>1. CASE TakeCommand
      <4>1. cmd = "none" /\ cmd' = argv[at] /\ cmd' \in Commands /\ args' = args
        BY <3>1 DEF TakeCommand, AtToken
      <4>2. args = << >> /\ SaidBy(argv)[n] = << >>
        BY <1>4, <2>1, <4>1
      <4>3. cmd' # "none" /\ cmd' \in STRING
        BY <1>1, <2>1, <4>1 DEF Commands, Enabled
      <4>4. << >> \o <<argv[at]>> = <<argv[at]>> /\ <<argv[at]>> \o << >> = <<argv[at]>>
        OBVIOUS
      <4>5. QED
        BY <2>7, <4>1, <4>2, <4>3, <4>4, Zenon
    <3>2. CASE TakeOperand
      <4>1. cmd # "none" /\ args' = Append(args, argv[at]) /\ cmd' = cmd
        BY <3>2 DEF TakeOperand, AtToken
      <4>2. SaidBy(argv)[n] = <<cmd>> \o args
        BY <1>4, <2>1, <4>1
      <4>3. argv[at] \in STRING /\ cmd \in STRING
        BY <1>1, <1>4, <2>1, <4>1
      <4>4. (<<cmd>> \o args) \o <<argv[at]>> = <<cmd>> \o Append(args, argv[at])
        BY <1>1, <4>3, OneMoreWord
      <4>5. QED
        BY <2>7, <4>1, <4>2, <4>3, <4>4, Zenon
    <3>3. QED
      BY <1>7, <3>1, <3>2
  <2>10. QED
    BY <2>1, <2>4, <2>6, <2>8, <2>9 DEF ParsedInv
<1>8. CASE EndOfLine
  <2>1. /\ phase = "parse" /\ at > Len(argv)
        /\ UNCHANGED <<argv, at, cmd, globals, args>>
        /\ phase' = "exit" \/ (phase' = "dispatch" /\ cmd # "none")
    BY <1>8 DEF EndOfLine, Refuse, Exit
  <2>2. at = Len(argv) + 1
    BY <1>1, <2>1
  <2>3. QED
    BY <2>1, <2>2 DEF ParsedInv
<1>9. CASE \/ BadValue \/ HelpOrVersion \/ UnknownWord \/ Misused \/ HandOver
           \/ DemoBegin \/ DemoValue \/ DemoOverride \/ DemoOptionBad \/ DemoRefused
  <2>1. phase' \in {"exit", "handed", "options"}
    BY <1>9 DEF BadValue, HelpOrVersion, UnknownWord, Misused, HandOver, DemoBegin,
          DemoValue, DemoOverride, DemoOptionBad, DemoRefused, AtOption, Refuse, Exit
  <2>2. QED
    BY <2>1 DEF ParsedInv
<1>10. QED
  BY <1>1, <1>5, <1>6, <1>7, <1>8, <1>9 DEF ParseStep

\* Nothing has been read.
LEMMA NothingMeant ==
    ASSUME NEW line \in Seq(STRING)
    PROVE  Means(line, Defaults, 0)
<1>1. \A t : GivenBy(line, t, 0) = {}
  BY DEF GivenBy
<1>2. FlagMeant(line, Defaults.json, "--json", 0)
  BY <1>1 DEF FlagMeant, Defaults
<1>3. FlagMeant(line, Defaults.auto, "--auto-block", 0)
  BY <1>1 DEF FlagMeant, Defaults
<1>4. VerboseMeant(line, Defaults.verbose, 0)
  <2>1. Cardinality({}) = 0 /\ {} \cup {} = {} /\ Defaults.verbose = 0
    BY FS_EmptySet DEF Defaults
  <2>2. /\ GivenBy(line, "-v", 0) = {} /\ GivenBy(line, "--verbose", 0) = {}
        /\ GivenBy(line, "-vv", 0) = {}
    BY <1>1
  <2>3. 0 = 0 + 2 * 0
    OBVIOUS
  <2>4. QED
    BY <2>1, <2>2, <2>3, Zenon DEF VerboseMeant
<1>5. ModeMeant(line, Defaults.mode, 0)
  BY <1>1 DEF ModeMeant, LastOf, Defaults
<1>6. \A o \in DOMAIN FieldOf : FieldMeant(line, Defaults[FieldOf[o]], o, 0)
  BY <1>1 DEF FieldMeant, LastOf
<1>7. QED
  BY <1>1, <1>2, <1>3, <1>4, <1>5, <1>6 DEF Means

LEMMA ParsedInvariant == Spec => []ParsedInv
<1>1. Init => ParsedInv
  <2> SUFFICES ASSUME Init PROVE ParsedInv
    OBVIOUS
  <2>1. /\ argv \in Seq(STRING) /\ args = << >> /\ at = 1 /\ cmd = "none"
        /\ globals = Defaults /\ phase = "parse"
    BY CommandLineAssumption DEF Init, CliInit
  <2>2. 1 \in DOMAIN argv => 1 \notin ValuesOf(argv)
    BY <2>1, ValuesAreTold DEF ValuesOf
  <2>3. SaidBy(argv)[0] = << >>
    BY <2>1, SaidExists DEF Flattens
  <2>4. Means(argv, globals, 0)
    BY <2>1, NothingMeant
  <2>5. at - 1 = 0
    BY <2>1
  <2>6. QED
    BY <2>1, <2>2, <2>3, <2>4, <2>5 DEF ParsedInv
<1>2. ParsedInv /\ LineInv /\ OptionInv /\ ProcessInv /\ [Next]_vars => ParsedInv'
  <2> SUFFICES ASSUME ParsedInv, LineInv, OptionInv, ProcessInv, [Next]_vars
               PROVE  ParsedInv'
    OBVIOUS
  <2>1. CASE Parse
    BY <2>1, ParseKeepsParsed
  <2>2. CASE Edit \/ StartTop \/ StartDemoCommand \/ EndDemoCommand
    <3>1. phase' \in {"edit", "exit", "top", "demo"}
      BY <2>2, EditFrame DEF StartTop, TopBegin, StartDemoCommand, DemoRun,
            EndDemoCommand, DemoExit, Exit
    <3>2. QED
      BY <3>1 DEF ParsedInv
  <2>3. CASE Main
    <3>1. UNCHANGED <<argv, at, cmd, globals, args>> /\ phase' \in {phase, "exit"}
      BY <2>3, MainFrame
    <3>2. QED
      BY <3>1 DEF ParsedInv
  <2>4. CASE Fault \/ Interrupt \/ DetachKill
    BY <2>4, KillFrame DEF ParsedInv
  <2>5. CASE \/ Launch \/ Traffic \/ Terminate \/ DetachTerm \/ OtherEdits \/ Pass
             \/ UNCHANGED vars
    <3>1. UNCHANGED cliVars
      BY <2>5, TrafficFrame, OutsideFrame DEF Launch, LaunchDemo, vars
    <3>2. QED
      BY <3>1 DEF ParsedInv, cliVars
  <2>6. QED
    BY <2>1, <2>2, <2>3, <2>4, <2>5 DEF Next
<1>3. QED
  BY <1>1, <1>2, LineInvariant, OptionInvariant, ProcessInvariant, PTL DEF Spec

\* ParsedAsWritten: every line that is dispatched, of any length and with the
\* options and the values in any order, has been parsed to what it means.
THEOREM LineMeansWhatItSays == Spec => []ParsedAsWritten
<1>1. ParsedInv /\ OptionInv => ParsedAsWritten
  <2> SUFFICES ASSUME ParsedInv, OptionInv, phase = "dispatch" PROVE ParsedAsWritten
    BY DEF ParsedAsWritten
  <2>1. /\ argv \in Seq(STRING) /\ args \in Seq(STRING) /\ cmd # "none"
        /\ at - 1 = Len(argv) /\ Len(argv) \in Nat /\ DOMAIN argv = 1..Len(argv)
    BY DEF ParsedInv, OptionInv
  <2>2. SaidBy(argv)[Len(argv)] = <<cmd>> \o args /\ Means(argv, globals, Len(argv))
    BY <2>1 DEF ParsedInv
  <2> DEFINE values == ValuesIn(argv, ValueOptions)
             options == {k \in DOMAIN argv \ values : argv[k] \in GlobalOptions}
             Given(t) == {k \in options : argv[k] = t}
             Newest(t) == CHOOSE k \in Given(t) : \A j \in Given(t) : j <= k
             words == [k \in DOMAIN argv |->
                         IF k \in values \cup options THEN << >> ELSE <<argv[k]>>]
  <2>3. \A t : Given(t) = GivenBy(argv, t, Len(argv))
    BY <2>1 DEF GivenBy, ValuesOf
  <2>4. words = WordsOf(argv)
    BY DEF WordsOf, OptionsOf, ValuesOf
  <2>5. ASSUME NEW t, Given(t) # {} PROVE LastOf(GivenBy(argv, t, Len(argv)), Newest(t))
    <3>1. PICK S : S = Given(t)
      OBVIOUS
    <3>2. S \subseteq 0..Len(argv) /\ S # {}
      BY <2>1, <2>5, <3>1
    <3>3. \E k \in S : \A j \in S : j <= k
      BY <2>1, <3>2, MaxOfNats
    <3>4. LastOf(S, CHOOSE k \in S : \A j \in S : j <= k)
      BY <3>3 DEF LastOf
    <3>5. QED
      BY <2>3, <3>1, <3>4
  <2> HIDE DEF values, options, Given, Newest, words
  <2>6. <<cmd>> \o args = FlattenSeq(words)
    <3>1. Len(argv) # 0
      <4>1. ASSUME Len(argv) = 0 PROVE FALSE
        <5>1. SaidBy(argv)[0] = << >>
          BY <2>1, SaidExists DEF Flattens
        <5>2. <<cmd>> \o args # << >>
          BY <2>1
        <5>3. QED
          BY <2>2, <4>1, <5>1, <5>2
      <4>2. QED
        BY <4>1
    <3>2. FlattenSeq(WordsOf(argv)) = SaidBy(argv)[Len(argv)]
      <4>1. /\ WordsOf(argv) \in Seq(Seq(STRING)) /\ Len(WordsOf(argv)) = Len(argv)
            /\ SaidBy(argv) \in [0..Len(argv) -> Seq(STRING)]
            /\ Flattens(SaidBy(argv), WordsOf(argv))
        BY <2>1, WordsType, SaidExists
      <4>2. QED
        BY <3>1, <4>1, Flattened
    <3>3. QED
      BY <2>2, <2>4, <3>2
  <2>7. /\ globals.json = (Given("--json") # {})
        /\ globals.auto = (Given("--auto-block") # {})
    BY <2>2, <2>3, Zenon DEF Means, FlagMeant
  <2>8. globals.verbose = Cardinality(Given("-v") \cup Given("--verbose"))
                            + 2 * Cardinality(Given("-vv"))
    BY <2>2, <2>3, Zenon DEF Means, VerboseMeant
  <2>9. globals.mode = IF Given("--xdp-mode") = {} THEN "auto"
                       ELSE argv[1 + Newest("--xdp-mode")]
    <3>1. ModeMeant(argv, globals.mode, Len(argv))
      BY <2>2 DEF Means
    <3>2. CASE Given("--xdp-mode") = {}
      BY <2>3, <3>1, <3>2 DEF ModeMeant
    <3>3. CASE Given("--xdp-mode") # {}
      <4>1. PICK k : k = Newest("--xdp-mode")
        OBVIOUS
      <4>2. LastOf(GivenBy(argv, "--xdp-mode", Len(argv)), k)
        BY <2>5, <3>3, <4>1
      <4>3. k \in Int
        BY <2>1, <4>2, GivenFinite DEF LastOf
      <4>4. globals.mode = argv[k + 1] /\ k + 1 = 1 + k
        BY <3>1, <4>2, <4>3 DEF ModeMeant
      <4>5. QED
        BY <3>3, <4>1, <4>4
    <3>4. QED
      BY <3>2, <3>3
  <2>10. ASSUME NEW o \in DOMAIN FieldOf
         PROVE  globals[FieldOf[o]] = IF Given(o) = {} THEN Defaults[FieldOf[o]]
                                      ELSE Number[argv[1 + Newest(o)]].n
    <3>1. FieldMeant(argv, globals[FieldOf[o]], o, Len(argv))
      BY <2>2 DEF Means
    <3>2. CASE Given(o) = {}
      BY <2>3, <3>1, <3>2 DEF FieldMeant
    <3>3. CASE Given(o) # {}
      <4>1. PICK k : k = Newest(o)
        OBVIOUS
      <4>2. LastOf(GivenBy(argv, o, Len(argv)), k)
        BY <2>5, <3>3, <4>1
      <4>3. k \in Int
        BY <2>1, <4>2, GivenFinite DEF LastOf
      <4>4. globals[FieldOf[o]] = Number[argv[k + 1]].n /\ k + 1 = 1 + k
        BY <3>1, <4>2, <4>3 DEF FieldMeant
      <4>5. QED
        BY <3>3, <4>1, <4>4
    <3>4. QED
      BY <3>2, <3>3
  <2>11. \A o \in ValueOptions : \A k \in Given(o) : ValueOk(o, argv[k + 1])
    BY <2>2, <2>3 DEF Means
  <2>12. QED
    BY <2>6, <2>7, <2>8, <2>9, <2>10, <2>11
       DEF ParsedAsWritten, words, Given, Newest, options, values
<1>2. QED
  BY <1>1, ParsedInvariant, OptionInvariant, PTL

=============================================================================
