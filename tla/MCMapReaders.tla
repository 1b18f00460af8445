--------------------------- MODULE MCMapReaders ----------------------------
(* Values for the constants of MapReaders.                                 *)
EXTENDS MapReaders

TopAndList == {"top", "list"}
Stats == {"stats"}

=============================================================================
