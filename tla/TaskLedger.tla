------------------------------ MODULE TaskLedger ------------------------------
(***************************************************************************)
(* What a caller of the coordinator may rely on, with no worker, queue or   *)
(* slot in sight: every task moves forward only (unassigned, queued,        *)
(* executing, settled), whole groups of tasks may move in one step (a drain  *)
(* settles the entire queue), and each task is announced settled exactly     *)
(* once, in the step that settles it.  A caller that reports a result itself *)
(* gets an announcement for it, and may cost some task its own.              *)
(***************************************************************************)
EXTENDS Naturals, FiniteSets

CONSTANT Tasks

VARIABLES stage,    \* [Tasks -> Stages]
          notices,  \* [Tasks -> Nat]: 'task.completed' announcements so far
          reported  \* SUBSET Tasks: of which a caller reported a result

Stages == {"unassigned", "queued", "executing", "settled"}

Rank == [unassigned |-> 0, queued |-> 1, executing |-> 2, settled |-> 3]

\* Settled, and nobody was told.
Unannounced == {t \in Tasks : stage[t] = "settled" /\ notices[t] = 0}

LedgerInit ==
    /\ stage = [t \in Tasks |-> "unassigned"]
    /\ notices = [t \in Tasks |-> 0]
    /\ reported = {}

Settles(t) == stage[t] # "settled" /\ stage'[t] = "settled"
Told(t)    == t \in reported' \ reported

Advance ==
    /\ stage' \in [Tasks -> Stages]
    /\ \A t \in Tasks : Rank[stage[t]] <= Rank[stage'[t]]
    /\ reported \subseteq reported' /\ reported' \subseteq Tasks
    /\ notices' \in [Tasks -> Nat]
    /\ \A t \in Tasks :
          /\ notices[t] <= notices'[t]
          /\ notices'[t] <= notices[t] + (IF Settles(t) THEN 1 ELSE 0)
                                       + (IF Told(t) THEN 1 ELSE 0)
    /\ Cardinality(Unannounced') <= Cardinality(reported')

LedgerSpec == LedgerInit /\ [][Advance]_<<stage, notices, reported>>
=============================================================================
