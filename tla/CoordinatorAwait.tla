-------------------------- MODULE CoordinatorAwait --------------------------
(***************************************************************************)
(* Callers that wait for results: awaitTasks() (all of the ids) and          *)
(* awaitTasksAny() (the first of them), each answered from completedResults  *)
(* at once where possible and by a 'task.completed' listener otherwise.      *)
(* Listeners run inside the coordinator's own step, so delivery is a         *)
(* conjunct of it.  The configuration and the theorems take MaxReports = 0:   *)
(* a result that a caller reports for a task beside its run may be pushed    *)
(* without an announcement, or announced twice.                              *)
(***************************************************************************)
EXTENDS Coordinator

CONSTANTS Waiters,   \* concurrent callers; each makes one call
          Asks       \* the sets of task ids they ask for

ASSUME AwaitAssumption == Asks \subseteq SUBSET Tasks

VARIABLES call,      \* [Waiters -> CallState]
          open,      \* [Waiters -> SUBSET Tasks]: ids with a listener registered
          got        \* [Waiters -> SUBSET Tasks]: ids whose result was delivered

awaitVars == <<call, open, got>>

\* "all", "any": suspended in awaitTasks, awaitTasksAny; then how it ended.
CallState == {"none", "all", "any", "returned", "timedOut", "rejected"}

\* Types, and: a call that was answered leaves no listener on the emitter.
AwaitTypeOK ==
    /\ call \in [Waiters -> CallState]
    /\ open \in [Waiters -> SUBSET Tasks]
    /\ got \in [Waiters -> SUBSET Tasks]
    /\ \A k \in Waiters : call[k] \in {"none", "returned", "timedOut"} => open[k] = {}

AwaitInit ==
    /\ Init
    /\ call = [k \in Waiters |-> "none"]
    /\ open = [k \in Waiters |-> {}]
    /\ got = [k \in Waiters |-> {}]

\* Mutant: the listener is registered without looking at completedResults.
AwaitTasksUncached(k, ids) ==
    /\ call[k] = "none"
    /\ got' = got
    /\ open' = [open EXCEPT ![k] = ids]
    /\ call' = [call EXCEPT ![k] = IF ids = {} THEN "returned" ELSE "all"]
    /\ UNCHANGED vars

\* awaitTasks(): one promise per id.
AwaitTasks(k, ids) ==
    /\ call[k] = "none"
    /\ got' = [got EXCEPT ![k] = ids \cap retained]
    /\ open' = [open EXCEPT ![k] = ids \ retained]
    /\ call' = [call EXCEPT ![k] = IF ids \subseteq retained THEN "returned"
                                                             ELSE "all"]
    /\ UNCHANGED vars

\* awaitTasksAny(): whatever is there already, else the first to come.
AwaitTasksAny(k, ids) ==
    /\ call[k] = "none"
    /\ got' = [got EXCEPT ![k] = ids \cap retained]
    /\ IF ids \cap retained # {} \/ ids = {}
       THEN /\ call' = [call EXCEPT ![k] = "returned"]
            /\ UNCHANGED open
       ELSE /\ call' = [call EXCEPT ![k] = "any"]
            /\ open' = [open EXCEPT ![k] = ids]
    /\ UNCHANGED vars

\* The timer of one id of awaitTasks(): that promise rejects, and so does
\* Promise.all; the listeners of the other ids stay registered.
AwaitTimeout(k, t) ==
    /\ call[k] \in {"all", "rejected"}
    /\ t \in open[k]
    /\ open' = [open EXCEPT ![k] = @ \ {t}]
    /\ call' = [call EXCEPT ![k] = "rejected"]
    /\ UNCHANGED <<vars, got>>

AnyTimeout(k) ==
    /\ call[k] = "any"
    /\ open' = [open EXCEPT ![k] = {}]
    /\ call' = [call EXCEPT ![k] = "timedOut"]
    /\ UNCHANGED <<vars, got>>

\* The ids of k announced by the coordinator's step.
News(k) == {t \in open[k] : events'[t] > events[t]}

\* Mutant: Promise.any in place of Promise.all.
DeliverFirst(k) ==
    <<got[k] \cup News(k), open[k] \ News(k),
      IF News(k) # {} THEN "returned" ELSE call[k]>>

\* What the listeners of k make of the step: <<got, open, call>>.  The listener
\* of awaitTasksAny() takes the first announcement and unregisters itself.
Deliver(k) ==
    IF call[k] = "any" /\ News(k) # {}
    THEN <<{t \in News(k) : \A u \in News(k) : finished'[t] <= finished'[u]},
           {}, "returned">>
    ELSE <<got[k] \cup News(k), open[k] \ News(k),
           IF call[k] = "all" /\ open[k] \subseteq News(k)
           THEN "returned" ELSE call[k]>>

CoordinatorStep ==
    /\ Next
    /\ got'  = [k \in Waiters |-> Deliver(k)[1]]
    /\ open' = [k \in Waiters |-> Deliver(k)[2]]
    /\ call' = [k \in Waiters |-> Deliver(k)[3]]

AwaitNext ==
    \/ CoordinatorStep
    \/ \E k \in Waiters, ids \in Asks : AwaitTasks(k, ids)
    \/ \E k \in Waiters, ids \in Asks : AwaitTasksAny(k, ids)
    \/ \E k \in Waiters, t \in Tasks : AwaitTimeout(k, t)
    \/ \E k \in Waiters : AnyTimeout(k)

AwaitSpec == AwaitInit /\ [][AwaitNext]_<<vars, awaitVars>>

FairAwaitSpec == AwaitSpec /\ RunsSettle

-----------------------------------------------------------------------------
\* Nobody waits for a result that has been announced already: the lookup in
\* completedResults and the listener leave no gap between them.  It is also
\* what the interface promises: "If a task is already done when called, returns
\* immediately", "Ids that already completed resolve immediately".
NoLostWakeup ==
    \A k \in Waiters : \A t \in open[k] : phase[t] # "done"

\* awaitTasks() returns when it has every result it asked for and not before;
\* awaitTasksAny() with at least one (the sets asked for are not empty).
AnswersComplete ==
    [][\A k \in Waiters :
          (call[k] \in {"all", "any"} /\ call'[k] = "returned") =>
              /\ call[k] = "all" => open[k] \subseteq got'[k]
              /\ got'[k] # {}
              /\ \A t \in got'[k] : phase'[t] = "done"]_<<vars, awaitVars>>

\* A call for tasks in the queue or running ends, by an answer or a timeout.
EveryAwaitEnds ==
    \A k \in Waiters :
        (call[k] \in {"all", "any"} /\ \A t \in open[k] : phase[t] # "new")
            ~> call[k] \notin {"all", "any"}
=============================================================================
