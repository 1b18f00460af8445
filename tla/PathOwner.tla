----------------------------- MODULE PathOwner -----------------------------
(***************************************************************************)
(* What the pins and the owner record of one interface promise to          *)
(* everybody who uses them by name: at any moment the path belongs to one  *)
(* live `kwatch run`, or to nobody; it is handed over by way of nobody;    *)
(* and events are streamed by its owner only.  Ownership implements this   *)
(* when no two claims of the path overlap.                                 *)
(***************************************************************************)
CONSTANTS Runs, NoOne

VARIABLES
    owner,      \* the run that list, block, unblock, stats and detach find
    streaming   \* the runs in their event loop

vars == <<owner, streaming>>

Init == owner = NoOne /\ streaming = {}

\* A run takes a path nobody owns while nobody streams.
Claim(r) ==
    /\ owner = NoOne /\ streaming = {}
    /\ owner' = r
    /\ UNCHANGED streaming

\* The owner starts its event loop, and leaves it.
Stream(r) ==
    /\ owner = r
    /\ streaming' = {r}
    /\ UNCHANGED owner

Stop(r) ==
    /\ streaming = {r}
    /\ streaming' = {}
    /\ UNCHANGED owner

\* The owner gives the path up or dies; either way it streams no more.
Release ==
    /\ owner # NoOne
    /\ owner' = NoOne /\ streaming' = {}

Next == Release \/ \E r \in Runs : Claim(r) \/ Stream(r) \/ Stop(r)

Spec == Init /\ [][Next]_vars

=============================================================================
