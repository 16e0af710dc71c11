---------------------------- MODULE AtomicStore ----------------------------
(***************************************************************************)
(* What updateGoal(), mutateTasks() and mutatePlan() promise: each call that *)
(* takes effect does so once, in one step, on the value the previous call    *)
(* left.  A value is the set of the updates it contains; a deletion (an      *)
(* updateGoal() whose fn returns null) leaves the empty one.                 *)
(***************************************************************************)
CONSTANTS Callers, Deleters

VARIABLES value, applied

Effect(c, v) == IF c \in Deleters THEN {} ELSE v \cup {c}

StoreInit == value = {} /\ applied = {}

Apply(c) ==
    /\ c \in Callers \ applied
    /\ value' = Effect(c, value)
    /\ applied' = applied \cup {c}

StoreNext == \E c \in Callers : Apply(c)

StoreSpec == StoreInit /\ [][StoreNext]_<<value, applied>>
=============================================================================
