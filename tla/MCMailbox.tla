----------------------------- MODULE MCMailbox -----------------------------
(* Small instances of Mailbox for TLC: messages are interchangeable.        *)
EXTENDS Mailbox, TLC

CONSTANTS alone, loop, tool

\* One process runs an agent's loop beside its tools.
TwoAtHome == [c \in Callers |-> IF c = alone THEN "far" ELSE "near"]

Alike == Permutations(Ids)
=============================================================================
