-------------------------- MODULE MCSessionWriter --------------------------
(* Small instances of SessionWriter for TLC. *)
EXTENDS SessionWriter
=============================================================================
