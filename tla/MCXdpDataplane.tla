-------------------------- MODULE MCXdpDataplane ---------------------------
(* Two CPUs, two flows of two sources, one of which can be blocked.        *)
EXTENDS XdpDataplane, TLC

CONSTANTS c1, c2, s1, s2, f1, f2, tcp, arp

TwoCpus == {c1, c2}

Syn1 == [kind |-> "ip", key |-> tcp, src |-> s1, flow |-> f1, syn |-> 1, ack |-> 0]
SynAck2 == [kind |-> "ip", key |-> tcp, src |-> s2, flow |-> f2, syn |-> 1, ack |-> 1]
Arp == [kind |-> "count", key |-> arp, src |-> s1, flow |-> f1, syn |-> 0, ack |-> 0]
Runt == [kind |-> "pass", key |-> arp, src |-> s1, flow |-> f1, syn |-> 0, ack |-> 0]

RacePackets == {Syn1, SynAck2, Arp}
DrainPackets == {Syn1, Runt}
NarrowPrefix == {{s1}}

CpuSymmetry == Permutations(Cpus)

=============================================================================
