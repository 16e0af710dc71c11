--------------------------- MODULE MCSharedStore ---------------------------
(* Small instances of SharedStore for TLC. *)
EXTENDS SharedStore, TLC

CONSTANTS c1, c2, c3
=============================================================================
