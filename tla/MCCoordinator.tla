---------------------------- MODULE MCCoordinator ----------------------------
(* Small instances of Coordinator for TLC. *)
EXTENDS Coordinator, TLC

CONSTANTS w1, w2, t1, t2

AnyPin      == Workers \cup {NoWorker}
OneOrTwo    == {1, 2}
Wired       == {TRUE}
EitherWay   == BOOLEAN
Symmetry    == Permutations(Tasks) \cup Permutations(Workers)
=============================================================================
