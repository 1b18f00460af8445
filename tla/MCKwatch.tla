------------------------------ MODULE MCKwatch ------------------------------
(* Command lines, numbers, addresses, keys and prompts for TLC.  A second  *)
(* has two units; uint16_t and uint32_t end at 3 and 7; an IPv4 address    *)
(* has two bits.                                                           *)
EXTENDS Kwatch, TLC

CONSTANTS e1, e2, e3

TwoHosts == ("127.0.0.1" :> <<32512, 1>>) @@ ("far" :> <<49320, 65535>>)
Numbers == ("0" :> [n |-> 0, unit |-> ""]) @@ ("2" :> [n |-> 2, unit |-> ""])
           @@ ("5" :> [n |-> 5, unit |-> ""]) @@ ("9" :> [n |-> 9, unit |-> ""])
           @@ ("1s" :> [n |-> 1, unit |-> "s"])
           @@ ("1pps" :> [n |-> 1, unit |-> "pps"])
HostPorts == ("far:2" :> [host |-> "far", port |-> "2"])
             @@ ("far:5" :> [host |-> "far", port |-> "5"])
             @@ (":2" :> [host |-> "", port |-> "2"])

Tokens == {"--json", "-v", "-vv", "--auto-block", "--xdp-mode", "skb",
           "--sample-n", "--syn-window", "0", "2", "9", "--help", "--bogus",
           "run", "block", "demo", "top", "eth0"}
ShortLines == UNION {[1..n -> Tokens] : n \in 0..3}

OptionParts == {<< >>, <<"--json">>, <<"--xdp-mode", "skb">>, <<"-v", "-vv">>,
                <<"--xdp-mode", "hw">>, <<"--xdp-mode", "--json">>,
                <<"--sample-n", "2">>, <<"--sample-n", "5">>,
                <<"--auto-block-ttl", "0">>, <<"--syn-threshold", "9">>}
RunLines == {a \o <<"run">> \o b \o <<"eth0">> \o c :
               a \in OptionParts, b \in OptionParts, c \in OptionParts}

DemoParts == {<< >>, <<"--target", "far">>, <<"--target", "far:2">>,
              <<"--target", "far:5">>, <<"--target", ":2">>,
              <<"--target", "junk">>, <<"--target", Override>>,
              <<"--port", "2">>, <<"--port", "5">>, <<"--rate", "1pps">>,
              <<"--rate", "5">>, <<"--rate", "0">>, <<"--rate", "1s">>,
              <<"--duration", "1s">>, <<"--duration", "0">>,
              <<"--duration", "2">>, <<Override>>, <<"--rate">>,
              <<"--bogus">>, <<"-v">>}
DemoLines == {<<"demo", s>> \o a \o b : s \in Scenarios \cup {"junk"},
                a \in DemoParts, b \in DemoParts}

Cidrs == ("0" :> [addr |-> 0, slash |-> 9]) @@ ("2" :> [addr |-> 2, slash |-> 9])
         @@ ("1/1" :> [addr |-> 1, slash |-> 1])
         @@ ("0/1" :> [addr |-> 0, slash |-> 1])
         @@ ("3/0" :> [addr |-> 3, slash |-> 0])
         @@ ("0/3" :> [addr |-> 0, slash |-> 3])
EditLines == {<<c, "eth0", v, w>> : c \in {"block", "unblock"},
                v \in DOMAIN Cidrs \cup {"junk"}, w \in DOMAIN Cidrs \cup {"junk"}}

AllLines == ShortLines \cup RunLines \cup DemoLines \cup EditLines

ThreeEntries == <<e1, e2, e3>>
Answers == [target |-> {"127.0.0.1", "far"}, port |-> {2}, rate |-> {0, 2},
            duration |-> {0, 2}]
FirewallKeys == {"firewall", "dashboard", "up", "down", "add", "delete"}
DemoKeys == {"demos", "threats", "target", "port", "rate", "duration", "q"}
                \cup Scenarios
LaunchKeys == {"demos", "rate", "q", "ping-flood", "syn-flood"}
FewSessions == {[keys |-> FirewallKeys, presses |-> 6],
                [keys |-> DemoKeys, presses |-> 3],
                [keys |-> LaunchKeys, presses |-> 4]}

=============================================================================
