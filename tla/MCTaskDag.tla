----------------------------- MODULE MCTaskDag -----------------------------
(* Small instances of TaskDag for TLC: ids are interchangeable.             *)
EXTENDS TaskDag, TLC

Alike == Permutations(Nodes)
=============================================================================
