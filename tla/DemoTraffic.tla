---------------------------- MODULE DemoTraffic ----------------------------
(***************************************************************************)
(* run_ping_flood, run_udp_storm and run_syn_flood: one thread that checks *)
(* its target, opens a socket and sends a packet every 1/rate seconds until *)
(* the duration is over.  It is the main thread of `kwatch demo` and a     *)
(* second thread of `kwatch top`; a process has at most one.               *)
(*                                                                         *)
(* Time is discrete and the deadlines count down: `remaining` to the end   *)
(* of the duration, `nap` to the end of sleep_for.  A thread may be late   *)
(* for either, never early.                                                *)
(***************************************************************************)
EXTENDS Integers, Sequences, FiniteSets, SequencesExt

CONSTANTS
    Second,      \* time units in a second; 10^9 in the code
    HostWords,   \* the IPv4 addresses, each as its two 16-bit words
    Loopback,    \* the addresses in 127.0.0.0/8
    Ports, Rates, Durations,   \* values a configuration may have
    FirstPort,   \* 1024, where sport_base starts
    PortEnd,     \* 2^16, where sport_base wraps to 0
    SeqEnd       \* 2^16, where the ICMP sequence number wraps to 0

Word == 65536
MaxWord == Word - 1

ASSUME DemoAssumption ==
    /\ Second \in Nat \ {0}
    /\ Loopback \subseteq DOMAIN HostWords
    /\ \A h \in DOMAIN HostWords : HostWords[h] \in (0..MaxWord) \X (0..MaxWord)
    /\ {FirstPort, PortEnd, SeqEnd} \subseteq Nat \ {0} /\ FirstPort < PortEnd
    /\ PortEnd <= Word /\ SeqEnd <= Word /\ Ports \subseteq 0..MaxWord
    /\ Ports \cup Rates \cup Durations \subseteq Nat
    /\ \E d \in Durations : \A e \in Durations : e <= d

VARIABLES
    step,        \* where the thread is
    scenario, config,       \* what it was started with
    remaining, nap,         \* count-downs
    seq, sport,             \* seq, sport_base
    sent,                   \* sendto calls so far
    wire,                   \* the packets of the last sendto that succeeded
    result                  \* what the function returned

demoVars == <<step, scenario, config, remaining, nap, seq, sport, sent, wire,
              result>>

Scenarios == {"ping-flood", "udp-storm", "syn-flood"}
Steps == {"none", "validate", "socket", "hdrincl", "pace", "check", "send",
          "sleep", "returned", "fault"}
Results == {"none", "ok", "denied", "error"}

\* sendto calls are counted up to this bound, one more than any paced demo of
\* the model makes.
MaxSent == Second * (CHOOSE d \in Durations : \A e \in Durations : e <= d) + 1

DemoInit ==
    /\ step = "none" /\ scenario = "none" /\ config = << >>
    /\ remaining = 0 /\ nap = 0 /\ seq = 0 /\ sport = FirstPort
    /\ sent = 0 /\ wire = << >> /\ result = "none"

-----------------------------------------------------------------------------
(* Packets: 16-bit words in network order.                                 *)

\* One's complement addition: a carry goes round to the low end.
Fold1(acc, w) == IF acc + w > MaxWord THEN acc + w - MaxWord ELSE acc + w

\* The loop: acc after n words.
OnesSums(start, words) ==
    LET acc[n \in 0..Len(words)] ==
          IF n = 0 THEN start ELSE Fold1(acc[n - 1], words[n])
    IN  acc

\* What the receiver computes over the words, checksum field included.
Received(words) == OnesSums(0, words)[Len(words)]

\* checksum() of ping_flood.cpp: ntohs on every word, folding as it goes.
Checksum(words) == MaxWord - OnesSums(MaxWord, words)[Len(words)]

\* Words as a little-endian processor loads and stores them.
Swap(w) == (w % 256) * 256 + (w \div 256)

\* Mutant: the carries are cut off.
CarriesDropped(sum) == sum % Word

\* Two folds of the long sum; the cast to short keeps the low word.
Folded(sum) ==
    LET once == (sum \div Word) + (sum % Word)
    IN  (once + (once \div Word)) % Word

\* The loop of csum(): the sum of the first n words, as loaded.
HostSums(words) ==
    LET sum[n \in 0..Len(words)] ==
          IF n = 0 THEN 0 ELSE sum[n - 1] + Swap(words[n])
    IN  sum

\* csum() of syn_flood.cpp: host-order words, stored in host order.
Csum(words) == Swap(MaxWord - Folded(HostSums(words)[Len(words)]))

SourceWords == <<127 * 256, 1>>

\* ICMP_ECHO with code 0, id 1234 and the rest zero.
EchoWords(check, n) == <<8 * 256, check, 1234, n>>
EchoPacket(n) == EchoWords(Checksum(EchoWords(0, n)), n)

\* Version 4, header length 5, 40 bytes, id 54321, TTL 255, TCP.
IpWords(check, host) ==
    <<69 * 256, 40, 54321, 0, 255 * 256 + 6, check>>
        \o SourceWords \o HostWords[host]
IpHeader(host) == IpWords(Csum(IpWords(0, host)), host)

\* Sequence and acknowledgement 0, data offset 5, SYN, window 5840.
TcpWords(check, from, to) ==
    <<from, to, 0, 0, 0, 0, 80 * 256 + 2, 5840, check, 0>>
PseudoHeader(host) == SourceWords \o HostWords[host] \o <<6, 20>>
SynSegment(host, from, to) ==
    LET zero == PseudoHeader(host) \o TcpWords(0, from, to)
    IN  PseudoHeader(host) \o TcpWords(Csum(zero), from, to)

\* What one sendto puts on the wire, and the parts that carry a checksum of
\* kwatch's own; the kernel makes those of UDP.
PacketOf(name, c) ==
    [to |-> c.target,
     parts |-> CASE name = "ping-flood" -> <<EchoPacket(seq)>>
                 [] name = "syn-flood" -> <<IpHeader(c.target),
                                            SynSegment(c.target, sport, c.port)>>
                 [] name = "udp-storm" -> << >>]

-----------------------------------------------------------------------------
(* The thread.                                                             *)

\* The call of one of the three functions.
StartDemo(name, c) ==
    /\ step' = "validate" /\ scenario' = name /\ config' = c
    /\ remaining' = 0 /\ nap' = 0 /\ seq' = 0 /\ sport' = FirstPort
    /\ sent' = 0 /\ wire' = << >> /\ result' = "none"

Return(r) == step' = "returned" /\ result' = r

\* Mutant: any address will do.
TargetResolves(host, override) == host \in DOMAIN HostWords

\* validate_target.
TargetAllowed(host, override) ==
    host \in DOMAIN HostWords /\ (host \in Loopback \/ override)

Validate ==
    /\ step = "validate"
    /\ IF TargetAllowed(config.target, config.override)
         THEN step' = "socket" /\ UNCHANGED result
         ELSE Return("error")
    /\ UNCHANGED <<scenario, config, remaining, nap, seq, sport, sent, wire>>

OpenSocket ==
    /\ step = "socket"
    /\ step' = IF scenario = "syn-flood" THEN "hdrincl" ELSE "pace"
    /\ UNCHANGED <<scenario, config, remaining, nap, seq, sport, sent, wire,
                   result>>

\* EPERM or EACCES is told apart from the rest, but not for UDP.
OpenSocketFails ==
    /\ step = "socket"
    /\ \/ Return("error")
       \/ scenario # "udp-storm" /\ Return("denied")
    /\ UNCHANGED <<scenario, config, remaining, nap, seq, sport, sent, wire>>

SetHdrIncl ==
    /\ step = "hdrincl"
    /\ step' = "pace"
    /\ UNCHANGED <<scenario, config, remaining, nap, seq, sport, sent, wire,
                   result>>

SetHdrInclFails ==
    /\ step = "hdrincl"
    /\ \E r \in {"denied", "error"} : Return(r)
    /\ UNCHANGED <<scenario, config, remaining, nap, seq, sport, sent, wire>>

\* start is read, then sleep_ns computed: 10^9 / rate in integers, which is 0
\* for a rate above 10^9 and a SIGFPE for a rate of 0.
SleepTime == Second \div config.rate

\* Mutant: more than duration_s whole seconds have to pass.
OneSecondMore == Second * (config.duration + 1)

\* The loop ends when the whole seconds since start reach duration_s.
Allotted == Second * config.duration

Pace ==
    /\ step = "pace" /\ config.rate # 0
    /\ remaining' = Allotted
    /\ step' = "check"
    /\ UNCHANGED <<scenario, config, nap, seq, sport, sent, wire, result>>

DivideByZero ==
    /\ step = "pace" /\ config.rate = 0
    /\ step' = "fault"
    /\ UNCHANGED <<scenario, config, remaining, nap, seq, sport, sent, wire,
                   result>>

CheckTime ==
    /\ step = "check"
    /\ IF remaining = 0 THEN Return("ok")
       ELSE step' = "send" /\ UNCHANGED result
    /\ UNCHANGED <<scenario, config, remaining, nap, seq, sport, sent, wire>>

\* Mutant: port 0 and the ports of the system follow the last one.
PortAfterWrapping(p) == (p + 1) % PortEnd

\* sport_base++, and 1024 again when it has wrapped.
PortAfter(p) == IF p + 1 = PortEnd THEN FirstPort ELSE p + 1

\* One packet.  Only run_syn_flood looks at what sendto returns.
Send ==
    /\ step = "send"
    /\ \/ wire' = PacketOf(scenario, config)
       \/ scenario # "syn-flood" /\ UNCHANGED wire
    /\ seq' = IF scenario = "ping-flood" THEN (seq + 1) % SeqEnd ELSE seq
    /\ sport' = IF scenario = "syn-flood" THEN PortAfter(sport) ELSE sport
    /\ sent' = IF sent < MaxSent THEN sent + 1 ELSE sent
    /\ nap' = SleepTime
    /\ step' = "sleep"
    /\ UNCHANGED <<scenario, config, remaining, result>>

SendFails ==
    /\ step = "send" /\ scenario = "syn-flood"
    /\ Return("error")
    /\ UNCHANGED <<scenario, config, remaining, nap, seq, sport, sent, wire>>

Wake ==
    /\ step = "sleep" /\ nap = 0
    /\ step' = "check"
    /\ UNCHANGED <<scenario, config, remaining, nap, seq, sport, sent, wire,
                   result>>

DemoRunning == step \notin {"none", "returned", "fault"}

DemoStep ==
    \/ Validate \/ OpenSocket \/ OpenSocketFails
    \/ SetHdrIncl \/ SetHdrInclFails \/ Pace \/ CheckTime
    \/ Send \/ SendFails \/ Wake

Lower(n) == IF n = 0 THEN 0 ELSE n - 1

\* A unit of time passes.
DemoPass ==
    /\ remaining' = Lower(remaining) /\ nap' = Lower(nap)
    /\ UNCHANGED <<step, scenario, config, seq, sport, sent, wire, result>>

-----------------------------------------------------------------------------
DemoTypeOK ==
    /\ step \in Steps /\ scenario \in Scenarios \cup {"none"}
    /\ step # "none" => /\ config.port \in Ports /\ config.rate \in Rates
                        /\ config.duration \in Durations
    /\ {remaining, nap} \subseteq Nat
    /\ seq \in 0..SeqEnd - 1 /\ sport \in FirstPort..PortEnd - 1
    /\ sent \in 0..MaxSent /\ result \in Results

\* docs/design/demo-traffic.md: "Demos must be bounded by duration and rate."
\* The packets are at least SleepTime apart and the last one is begun before
\* the time is up, however late the thread wakes: for a rate that divides a
\* second that makes rate * duration of them, for another one at most one
\* more per rounding of SleepTime.  A rate above 10^9 is not paced.
TrafficIsBounded ==
    sent > 0 /\ SleepTime > 0 =>
        (sent - 1) * SleepTime < Second * config.duration

\* Every packet that leaves carries right checksums: the IP header's, the
\* segment's over its pseudo-header, the echo request's, for every address,
\* port and sequence number they are made of.
PacketsVerify ==
    wire # << >> =>
        \A i \in DOMAIN wire.parts : Received(wire.parts[i]) = MaxWord

=============================================================================
