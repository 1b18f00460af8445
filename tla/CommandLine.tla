---------------------------- MODULE CommandLine ----------------------------
(***************************************************************************)
(* main, parse_args and the option loop of cmd_demo: from argv to the      *)
(* command that runs, or to an exit status.                                *)
(*                                                                         *)
(* A token is a string that is compared as a whole; what number or address *)
(* it spells, if any, is given by the constants Number and Address.  The   *)
(* loops take one step per token.                                          *)
(***************************************************************************)
EXTENDS DemoTraffic

CONSTANTS
    Lines,        \* the argument lists, argv[1] on
    Number,       \* token -> [n, unit]: "2", "2s" and "2pps" spell the same n
    Address,      \* token -> [host, port]: "far:1"; port is "" when there is none
    U16Max, U32Max,           \* limits of uint16_t and uint32_t
    Features,     \* KWATCH_WITH_TUI is "tui", KWATCH_WITH_EXPERIMENTAL "experimental"
    DefaultPort, DefaultRate, DefaultDuration   \* 80, 100 and 5 in cmd_demo

\* A port is any number that fits uint16_t, a rate or a duration any that fits
\* uint32_t.
ASSUME CommandLineAssumption ==
    /\ Lines \subseteq Seq(STRING)
    /\ \A v \in DOMAIN Number :
         /\ Number[v].n <= U16Max => Number[v].n \in Ports
         /\ Number[v].n <= U32Max => Number[v].n \in Rates \cap Durations
    /\ DefaultPort \in Ports /\ DefaultRate \in Rates
    /\ DefaultDuration \in Durations

VARIABLES
    argv, at,               \* the arguments and the index i
    cmd, globals, args,     \* ParsedCommand
    cfg,                    \* cmd_demo's DemoConfig
    phase, rc               \* where the process is; its exit status

cliVars == <<argv, at, cmd, globals, args, cfg, phase, rc>>

\* No exit status yet, and the shell's numbers for the ends by a signal.
Running == -1
Sigfpe == 136
Sigkill == 137
Sigterm == 143

Enabled(feature, S) == IF feature \in Features THEN S ELSE {}

Commands == {"run", "block", "unblock", "list", "stats", "demo", "detach"}
                \cup Enabled("tui", {"top"})
Flags == {"--json", "-v", "--verbose", "-vv"}
                \cup Enabled("experimental", {"--auto-block"})
\* The numeric options and their fields.
FieldOf == [o \in {"--sample-n"} \cup Enabled("experimental",
                  {"--syn-threshold", "--syn-window", "--auto-block-ttl"}) |->
    CASE o = "--sample-n" -> "sample" [] o = "--syn-threshold" -> "threshold"
      [] o = "--syn-window" -> "window" [] o = "--auto-block-ttl" -> "ttl"]
ValueOptions == {"--xdp-mode"} \cup DOMAIN FieldOf
Enders == {"--help", "-h", "--version"}
GlobalOptions == Flags \cup ValueOptions \cup Enders

Defaults == [json |-> FALSE, verbose |-> 0, auto |-> FALSE, mode |-> "auto",
             sample |-> 100, threshold |-> 100, window |-> 10, ttl |-> 300]
DemoDefaults == [target |-> "127.0.0.1", port |-> DefaultPort,
                 rate |-> DefaultRate, duration |-> DefaultDuration,
                 override |-> FALSE]

CliInit ==
    /\ argv \in Lines /\ at = 1
    /\ cmd = "none" /\ globals = Defaults /\ args = << >>
    /\ cfg = DemoDefaults /\ phase = "parse" /\ rc = Running

Exit(code) == phase' = "exit" /\ rc' = code

-----------------------------------------------------------------------------
(* parse_args.                                                             *)

\* A line that does not parse: main prints the help and returns EX_USAGE.
Refuse == Exit(64)

\* std::stoul over the whole token, within the type's limit; a unit is
\* taken where the option has one.
IsNumber(v, unit, limit) ==
    /\ v \in DOMAIN Number
    /\ Number[v].unit \in {"", unit} /\ Number[v].n <= limit

\* The value that follows a global option is acceptable.
ValueOk(option, v) ==
    IF option = "--xdp-mode" THEN v \in {"auto", "skb", "drv", "hw"}
    ELSE IsNumber(v, "", U32Max) /\ (option = "--sample-n" => Number[v].n > 0)

WithFlag(g, flag) ==
    CASE flag = "--json" -> [g EXCEPT !.json = TRUE]
      [] flag \in {"-v", "--verbose"} -> [g EXCEPT !.verbose = @ + 1]
      [] flag = "-vv" -> [g EXCEPT !.verbose = @ + 2]
      [] flag = "--auto-block" -> [g EXCEPT !.auto = TRUE]

WithValue(g, option, v) ==
    IF option = "--xdp-mode" THEN [g EXCEPT !.mode = v]
    ELSE [g EXCEPT ![FieldOf[option]] = Number[v].n]

\* The loop is at token t.
AtToken(t) == phase = "parse" /\ at <= Len(argv) /\ t = argv[at]

\* try_parse_global_option is asked first, before and after the command.
TakeFlag ==
    /\ \E t \in Flags : AtToken(t) /\ globals' = WithFlag(globals, t)
    /\ at' = at + 1
    /\ UNCHANGED <<argv, cmd, args, cfg, phase, rc>>

\* Mutant: the value is looked at again as a token of its own.
AfterOption(i) == i + 1

\* The value is skipped, whatever it looks like.
AfterValue(i) == i + 2

TakeValue ==
    /\ \E t \in ValueOptions :
         /\ AtToken(t) /\ at < Len(argv) /\ ValueOk(t, argv[at + 1])
         /\ globals' = WithValue(globals, t, argv[at + 1])
    /\ at' = AfterValue(at)
    /\ UNCHANGED <<argv, cmd, args, cfg, phase, rc>>

\* A missing or unacceptable value.
BadValue ==
    /\ \E t \in ValueOptions :
         AtToken(t) /\ (at < Len(argv) => ~ValueOk(t, argv[at + 1]))
    /\ Refuse
    /\ UNCHANGED <<argv, at, cmd, globals, args, cfg>>

\* --help and --version call exit(0) out of the parser.
HelpOrVersion ==
    /\ \E t \in Enders : AtToken(t)
    /\ Exit(0)
    /\ UNCHANGED <<argv, at, cmd, globals, args, cfg>>

\* parse_subcommand.
TakeCommand ==
    /\ cmd = "none"
    /\ \E t \in Commands : AtToken(t) /\ cmd' = t
    /\ at' = at + 1
    /\ UNCHANGED <<argv, globals, args, cfg, phase, rc>>

\* "Unknown global option" or "Unknown command".
UnknownWord ==
    /\ cmd = "none"
    /\ \E t \in ToSet(argv) \ (GlobalOptions \cup Commands) : AtToken(t)
    /\ Refuse
    /\ UNCHANGED <<argv, at, cmd, globals, args, cfg>>

TakeOperand ==
    /\ cmd # "none"
    /\ \E t \in ToSet(argv) \ GlobalOptions :
         AtToken(t) /\ args' = Append(args, t)
    /\ at' = at + 1
    /\ UNCHANGED <<argv, cmd, globals, cfg, phase, rc>>

\* "No command provided" when there is none.
EndOfLine ==
    /\ phase = "parse" /\ at > Len(argv)
    /\ IF cmd = "none" THEN Refuse ELSE phase' = "dispatch" /\ UNCHANGED rc
    /\ UNCHANGED <<argv, at, cmd, globals, args, cfg>>

-----------------------------------------------------------------------------
(* main's switch and the usage check that every command begins with.       *)

UsageOk ==
    CASE cmd \in {"block", "unblock"} -> Len(args) >= 2
      [] cmd = "demo" -> Len(args) >= 1
      [] OTHER -> Len(args) = 1

Misused ==
    /\ phase = "dispatch" /\ ~UsageOk
    /\ Exit(64)
    /\ UNCHANGED <<argv, at, cmd, globals, args, cfg>>

\* The commands that Ownership and MapReaders model from here on.
HandOver ==
    /\ phase = "dispatch" /\ UsageOk
    /\ cmd \in {"run", "list", "stats", "detach"}
    /\ phase' = "handed"
    /\ UNCHANGED <<argv, at, cmd, globals, args, cfg, rc>>

DemoBegin ==
    /\ phase = "dispatch" /\ UsageOk /\ cmd = "demo"
    /\ phase' = "options" /\ at' = 2
    /\ UNCHANGED <<argv, cmd, globals, args, cfg, rc>>

-----------------------------------------------------------------------------
(* cmd_demo.                                                               *)

Override == "--i-know-what-im-doing"
DemoOptions == {"--target", "--port", "--duration", "--rate"}

\* parse_target_option: one colon splits host and port, and any other value
\* is taken for a host; parse_u16_option and parse_u32_option.
HostOf(v) == IF v \in DOMAIN Address THEN Address[v].host ELSE v
PortOf(v) == IF v \in DOMAIN Address THEN Address[v].port ELSE ""

DemoValueOk(option, v) ==
    CASE option = "--target" ->
           HostOf(v) # "" /\ (PortOf(v) # "" => IsNumber(PortOf(v), "", U16Max))
      [] option = "--port" -> IsNumber(v, "", U16Max)
      [] option = "--duration" -> IsNumber(v, "s", U32Max)
      [] option = "--rate" -> IsNumber(v, "pps", U32Max)

WithDemoValue(c, option, v) ==
    CASE option = "--target" ->
           [c EXCEPT !.target = HostOf(v),
                     !.port = IF PortOf(v) = "" THEN @ ELSE Number[PortOf(v)].n]
      [] option = "--port" -> [c EXCEPT !.port = Number[v].n]
      [] option = "--duration" -> [c EXCEPT !.duration = Number[v].n]
      [] option = "--rate" -> [c EXCEPT !.rate = Number[v].n]

AtOption(t) == phase = "options" /\ at <= Len(args) /\ t = args[at]

DemoValue ==
    /\ \E t \in DemoOptions :
         /\ AtOption(t) /\ at < Len(args) /\ DemoValueOk(t, args[at + 1])
         /\ cfg' = WithDemoValue(cfg, t, args[at + 1])
    /\ at' = at + 2
    /\ UNCHANGED <<argv, cmd, globals, args, phase, rc>>

DemoOverride ==
    /\ AtOption(Override)
    /\ cfg' = [cfg EXCEPT !.override = TRUE]
    /\ at' = at + 1
    /\ UNCHANGED <<argv, cmd, globals, args, phase, rc>>

\* A value is missing or unacceptable, or the option is unknown.
DemoOptionBad ==
    /\ \E t \in ToSet(args) \ {Override} :
         /\ AtOption(t)
         /\ t \in DemoOptions /\ at < Len(args) => ~DemoValueOk(t, args[at + 1])
    /\ Exit(64)
    /\ UNCHANGED <<argv, at, cmd, globals, args, cfg>>

\* Mutant: zeros are let through.
TargetOnly ==
    args[1] \in Scenarios /\ TargetAllowed(cfg.target, cfg.override)

\* syn-flood is a scenario of experimental builds only.
DemoAccepted ==
    /\ cfg.rate # 0 /\ cfg.duration # 0
    /\ TargetAllowed(cfg.target, cfg.override)
    /\ args[1] \in {"ping-flood", "udp-storm"}
                       \cup Enabled("experimental", {"syn-flood"})

DemoRefused ==
    /\ phase = "options" /\ at > Len(args) /\ ~DemoAccepted
    /\ Exit(64)
    /\ UNCHANGED <<argv, at, cmd, globals, args, cfg>>

DemoRun ==
    /\ phase = "options" /\ at > Len(args) /\ DemoAccepted
    /\ StartDemo(args[1], cfg)
    /\ phase' = "demo"
    /\ UNCHANGED <<argv, at, cmd, globals, args, cfg, rc>>

\* is_permission_error looks for the words that the "denied" errors have.
DemoExit ==
    /\ phase = "demo" /\ step = "returned"
    /\ Exit(CASE result = "ok" -> 0 [] result = "denied" -> 77
              [] result = "error" -> 125)
    /\ UNCHANGED <<argv, at, cmd, globals, args, cfg>>

ParseStep ==
    \/ TakeFlag \/ TakeValue \/ BadValue \/ HelpOrVersion \/ TakeCommand
    \/ UnknownWord \/ TakeOperand \/ EndOfLine
    \/ Misused \/ HandOver \/ DemoBegin
    \/ DemoValue \/ DemoOverride \/ DemoOptionBad \/ DemoRefused

-----------------------------------------------------------------------------
CliTypeOK ==
    /\ at \in 1..Len(argv) + 1 /\ cmd \in Commands \cup {"none"}
    /\ globals.verbose \in 0..2 * Len(argv) /\ DOMAIN globals = DOMAIN Defaults
    /\ ToSet(args) \subseteq ToSet(argv) /\ DOMAIN cfg = DOMAIN DemoDefaults
    /\ phase \in {"parse", "dispatch", "options", "demo", "top", "edit", "handed",
                 "exit"}
    /\ rc \in {Running, Sigfpe, Sigkill, Sigterm, 0, 64, 65, 69, 77, 125}

\* The positions of a line that are values: those after a value option that is
\* not itself a value.
ValuesIn(line, options) ==
    CHOOSE V \in SUBSET DOMAIN line :
        \A k \in DOMAIN line :
            k \in V <=> k > 1 /\ line[k - 1] \in options /\ k - 1 \notin V

\* What a whole line means, said without a loop: the last occurrence of a
\* value option and any occurrence of a flag count, wherever they stand; the
\* first other word is the command and the rest are its operands.  The
\* parser dispatches exactly that, and only when every value is acceptable.
ParsedAsWritten ==
    phase = "dispatch" =>
        LET values == ValuesIn(argv, ValueOptions)
            options == {k \in DOMAIN argv \ values : argv[k] \in GlobalOptions}
            Given(t) == {k \in options : argv[k] = t}
            Chosen(t) == argv[1 + CHOOSE k \in Given(t) :
                                    \A j \in Given(t) : j <= k]
            words == [k \in DOMAIN argv |->
                        IF k \in values \cup options THEN << >> ELSE <<argv[k]>>]
        IN  /\ <<cmd>> \o args = FlattenSeq(words)
            /\ globals.json = (Given("--json") # {})
            /\ globals.auto = (Given("--auto-block") # {})
            /\ globals.verbose = Cardinality(Given("-v") \cup Given("--verbose"))
                                   + 2 * Cardinality(Given("-vv"))
            /\ globals.mode = IF Given("--xdp-mode") = {} THEN "auto"
                              ELSE Chosen("--xdp-mode")
            /\ \A o \in DOMAIN FieldOf : globals[FieldOf[o]] =
                 IF Given(o) = {} THEN Defaults[FieldOf[o]]
                 ELSE Number[Chosen(o)].n
            /\ \A o \in ValueOptions : \A k \in Given(o) :
                 ValueOk(o, argv[k + 1])

\* A packet leaves for an address outside 127.0.0.0/8 only from a `kwatch demo`
\* whose line has --i-know-what-im-doing as an option, not as a value.
RemoteOnlyByOverride ==
    wire # << >> /\ wire.to \notin Loopback =>
        /\ cmd = "demo"
        /\ \E k \in DOMAIN args \ ValuesIn(args, DemoOptions) :
             k > 1 /\ args[k] = Override

=============================================================================
