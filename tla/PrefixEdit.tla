----------------------------- MODULE PrefixEdit -----------------------------
(***************************************************************************)
(* cmd_block and cmd_unblock: every operand is parsed by parse_cidr and    *)
(* put into, or taken out of, the blacklist; one that fails is reported    *)
(* and the loop goes on.                                                   *)
(*                                                                         *)
(* parse_cidr keeps the bits of the address behind the prefix.  The kernel *)
(* ignores them: in an LPM trie two keys are one entry when they have the  *)
(* same length and the same leading bits.  Addresses have Bits bits here;  *)
(* edits by others in between are in AutoBlock and MapReaders.             *)
(***************************************************************************)
EXTENDS CommandLine

CONSTANTS
    Bits,       \* 32
    NoSlash,    \* the operand has no '/'
    Cidr,       \* operand -> [addr, slash], where inet_pton and stoi succeed
    TrieCap     \* max_entries of blacklist

ASSUME BitsAssumption ==
    /\ Bits \in Nat /\ TrieCap \in Nat /\ NoSlash \notin 0..Bits
    /\ \A v \in DOMAIN Cidr : Cidr[v].addr \in 0..2^Bits - 1

VARIABLES
    trie,       \* the keys in the blacklist, as they were spelt
    allOk,      \* all_ok
    before      \* history: the trie that the command found

editVars == <<trie, allOk, before>>

Addresses == 0..2^Bits - 1
Keys == [len : 0..Bits, data : Addresses]

\* An entry of the trie: the key without the bits that do not count.
Entry(key) == [len |-> key.len, net |-> key.data \div 2^(Bits - key.len)]
EntriesOf(K) == {Entry(key) : key \in K}

\* The tries that earlier commands may have left.
Tries == {K \in SUBSET Keys :
            /\ IsFiniteSet(K) /\ Cardinality(K) <= TrieCap
            /\ \A k, l \in K : Entry(k) = Entry(l) => k = l}

EditInit == trie = {} /\ allOk = TRUE /\ before = {}

-----------------------------------------------------------------------------
\* parse_cidr.
CidrOk(v) ==
    v \in DOMAIN Cidr /\ (Cidr[v].slash = NoSlash \/ Cidr[v].slash \in 0..Bits)
KeyOf(v) ==
    [len |-> IF Cidr[v].slash = NoSlash THEN Bits ELSE Cidr[v].slash,
     data |-> Cidr[v].addr]

\* bpf_map_update_elem replaces the same entry and needs room for another;
\* bpf_map_delete_elem needs the entry to be there.
Others(key) == {k \in trie : Entry(k) # Entry(key)}
Accepts(key) ==
    IF cmd = "block" THEN Cardinality(Others(key)) < TrieCap
    ELSE Others(key) # trie
Edited(key) == Others(key) \cup IF cmd = "block" THEN {key} ELSE {}

\* get_blacklist_fd found the map.
EditBegin ==
    /\ phase = "dispatch" /\ UsageOk /\ cmd \in {"block", "unblock"}
    /\ phase' = "edit" /\ at' = 2
    /\ trie' \in Tries /\ before' = trie'
    /\ UNCHANGED <<argv, cmd, globals, args, cfg, rc, allOk>>

\* No live owner, or no map (Ownership).
EditFails ==
    /\ phase = "dispatch" /\ UsageOk /\ cmd \in {"block", "unblock"}
    /\ Exit(65)
    /\ UNCHANGED <<argv, at, cmd, globals, args, cfg, editVars>>

\* Mutant: a bad operand ends the loop.
EndOnFailure(good) == IF good THEN at + 1 ELSE Len(args) + 1

NextOperand(good) == at + 1

EditOperand ==
    LET v == args[at]
        good == CidrOk(v) /\ Accepts(KeyOf(v))
    IN  /\ phase = "edit" /\ at <= Len(args)
        /\ trie' = IF good THEN Edited(KeyOf(v)) ELSE trie
        /\ allOk' = (allOk /\ good)
        /\ at' = NextOperand(good)
        /\ UNCHANGED <<argv, cmd, globals, args, cfg, phase, rc, before>>

EditEnd ==
    /\ phase = "edit" /\ at > Len(args)
    /\ Exit(IF allOk THEN 0 ELSE 65)
    /\ UNCHANGED <<argv, at, cmd, globals, args, cfg, editVars>>

EditStep == EditBegin \/ EditFails \/ EditOperand \/ EditEnd

-----------------------------------------------------------------------------
EditTypeOK == {trie, before} \subseteq Tries /\ allOk \in BOOLEAN

\* When the operands are through, the entries are those that were there and,
\* for block, those of every well-formed operand that found room, or, for
\* unblock, less those of every well-formed operand: whatever stood among
\* them and however their spare bits were spelt.  The status is 0 just when
\* nothing was refused, and after a block with status 0 every address of
\* every operand is covered.
EditsAreComplete ==
    phase = "edit" /\ at > Len(args) =>
        LET operands == Tail(args)
            wellFormed == {v \in ToSet(operands) : CidrOk(v)}
            asked == EntriesOf({KeyOf(v) : v \in wellFormed})
            old == EntriesOf(before)
            new == EntriesOf(trie)
            Covered(a) == \E e \in new : a \div 2^(Bits - e.len) = e.net
        IN  IF cmd = "block"
              THEN /\ old \subseteq new /\ new \subseteq old \cup asked
                   /\ Cardinality(trie) < TrieCap => new = old \cup asked
                   /\ allOk <=> wellFormed = ToSet(operands) /\ asked \subseteq new
                   /\ allOk => \A v \in wellFormed : \A a \in Addresses :
                        Entry([KeyOf(v) EXCEPT !.data = a]) = Entry(KeyOf(v))
                          => Covered(a)
              ELSE /\ new = old \ asked
                   /\ allOk <=> /\ wellFormed = ToSet(operands)
                                /\ asked \subseteq old
                                /\ Cardinality(asked) = Len(operands)

=============================================================================
