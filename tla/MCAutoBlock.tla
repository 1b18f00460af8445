---------------------------- MODULE MCAutoBlock ----------------------------
(* Two sources; two flows of the first surround the flow of the second.    *)
EXTENDS AutoBlock, TLC

CONSTANTS s1, s2

TwoSources == {s1, s2}
Sources3 == (1 :> s1) @@ (2 :> s2) @@ (3 :> s1)
Sources2 == (1 :> s1) @@ (2 :> s2)

=============================================================================
