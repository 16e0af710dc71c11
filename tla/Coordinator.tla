----------------------------- MODULE Coordinator -----------------------------
(***************************************************************************)
(* DefaultMultiAgentCoordinator: a pool of subagents ("workers"), a FIFO of  *)
(* pending tasks, a ceiling on the runs in flight.  JavaScript runs each     *)
(* method and each promise continuation to completion, so one action is one  *)
(* method call, or one settling run, together with the dispatch loop it ends *)
(* in.  A worker id is a map key: the entry under it is a fresh one after    *)
(* every spawn, which `born` tells apart (it is also the Map's insertion     *)
(* order).                                                                   *)
(***************************************************************************)
EXTENDS Naturals, FiniteSets

CONSTANTS
    Workers,        \* the subagent ids callers use
    Tasks,          \* the tasks, each assigned at most once
    NoWorker,       \* TaskSpec.subagentId = undefined
    Pins,           \* what callers pass as a task's subagentId (may be NoWorker)
    Stoppable,      \* the ids callers stop()
    Removable,      \* the ids callers remove()
    Reusable,       \* the ids callers spawn again after a remove()
    SpawnFirst,     \* TRUE: callers spawn every worker before anything else
    Caps,           \* the values of config.maxConcurrent
    MaxResults,     \* MAX_COMPLETED_RESULTS
    MaxSpawns,      \* bound: how many times spawn() succeeds
    MaxReports,     \* bound: how many tasks callers report with completeTask()
    RunnerAtStart   \* the possible values of `options.runner !== undefined`

ASSUME CoordinatorAssumption ==
    /\ NoWorker \notin Workers
    /\ IsFiniteSet(Tasks)
    /\ Pins \subseteq Workers \cup {NoWorker}
    /\ Stoppable \subseteq Workers
    /\ Removable \subseteq Workers
    /\ Reusable \subseteq Workers
    /\ SpawnFirst \in BOOLEAN
    /\ Caps \subseteq Nat \ {0}
    /\ MaxResults \in Nat \ {0}
    /\ MaxSpawns \in Nat
    /\ MaxReports \in Nat
    /\ RunnerAtStart \subseteq BOOLEAN

VARIABLES
    status,         \* [Workers -> WorkerStatus]; "absent" = no Map entry
    born,           \* [Workers -> Nat]: number of the entry's spawn (kept after remove)
    aborted,        \* [Workers -> BOOLEAN]: the entry's abortController has fired
    terminating,    \* SUBSET Workers
    phase,          \* [Tasks -> Phases]; "held" = dispatched with no runner
    host,           \* [Tasks -> Workers or NoWorker]: task.subagentId
    entry,          \* [Tasks -> Nat]: the entry (its born) the task was dispatched to
    arrival,        \* [Tasks -> Nat]: position in which it was pushed on pendingTasks
    fired,          \* SUBSET Tasks: whose watchdog has aborted a controller
    finished,       \* [Tasks -> Nat]: position of its last push on completedResults
    retained,       \* SUBSET Tasks: whose result is still in completedResults
    events,         \* [Tasks -> Nat]: 'task.completed' emissions
    inFlight, maxConcurrent, spawns,
    pushes,         \* how many results were pushed on completedResults
    runner,         \* a runner is wired
    \* History, for the properties only; no action reads it but for its bound.
    reported,       \* SUBSET Tasks: reported with completeTask(), once each
    strays,         \* SUBSET Workers: a completion not the end of the entry's own task hit it
    lateFired       \* SUBSET Workers: its signal was fired by a watchdog of another run

vars == <<status, born, aborted, terminating, phase, host, entry, arrival,
          fired, finished, retained, events, inFlight, maxConcurrent, spawns,
          pushes, runner, reported, strays, lateFired>>

WorkerStatus == {"absent", "idle", "running", "stopped"}
Phases       == {"new", "pending", "running", "held", "done"}

-----------------------------------------------------------------------------
(* The part of the state the dispatch loop reads or writes, as one record:  *)
(* an action describes what the method does before the loop as a change of   *)
(* Now, and hands the result to TryDispatchNext.                             *)

Now == [status   |-> status,   terminating   |-> terminating,
        phase    |-> phase,    host          |-> host,
        entry    |-> entry,    arrival       |-> arrival,
        finished |-> finished, retained      |-> retained,
        events   |-> events,   pushes        |-> pushes,
        inFlight |-> inFlight, maxConcurrent |-> maxConcurrent,
        reported |-> reported]

Become(s) ==
    /\ status' = s.status     /\ terminating' = s.terminating
    /\ phase' = s.phase       /\ host' = s.host
    /\ entry' = s.entry       /\ arrival' = s.arrival
    /\ finished' = s.finished /\ retained' = s.retained
    /\ events' = s.events     /\ pushes' = s.pushes
    /\ inFlight' = s.inFlight /\ maxConcurrent' = s.maxConcurrent
    /\ reported' = s.reported

Queue(s)    == {t \in Tasks : s.phase[t] = "pending"}
Idle(s)     == {w \in Workers : s.status[w] = "idle" /\ w \notin s.terminating}
Entries(s)  == {w \in Workers : s.status[w] # "absent"}

\* Mutant: before the dead-end check, any entry at all counted as live.
AlwaysLive(s) == TRUE

\* hasLiveSubagent(): true as well when no worker exists at all.
HasLiveSubagent(s) ==
    \/ Entries(s) = {}
    \/ \E w \in Entries(s) : s.status[w] # "stopped" /\ w \notin s.terminating

\* emitPendingAborted() for every task of D, oldest first: the result is
\* pushed and the event fired, inFlight is not touched.
Aborted(s, D) ==
    LET rank(t) == Cardinality({u \in D : s.arrival[u] <= s.arrival[t]})
    IN [s EXCEPT
         !.phase    = [t \in Tasks |-> IF t \in D THEN "done" ELSE s.phase[t]],
         !.finished = [t \in Tasks |-> IF t \in D THEN s.pushes + rank(t)
                                                  ELSE s.finished[t]],
         !.pushes   = s.pushes + Cardinality(D),
         !.retained = s.retained \cup D,
         !.events   = [t \in Tasks |-> IF t \in D THEN s.events[t] + 1
                                                  ELSE s.events[t]]]

-----------------------------------------------------------------------------
(* tryDispatchNext().  Each turn of the loop starts the first pending task   *)
(* some idle worker may take; a task passed over stays out of reach for the  *)
(* rest of the loop, because the idle workers only get fewer.  So the loop   *)
(* is one pass over the queue, and f, the placement it makes, is determined. *)

CanDispatch(s) == s.inFlight < s.maxConcurrent /\ Queue(s) # {}

\* How many tasks the loop may start: only runs, not held tasks, take a slot.
Slots(s) ==
    IF s.inFlight >= s.maxConcurrent THEN 0
    ELSE IF runner THEN s.maxConcurrent - s.inFlight ELSE Cardinality(Queue(s))

\* Mutant: the newest task that fits is taken.
LastFit(f, s) ==
    \A t \in Queue(s) :
        LET ahead == {u \in DOMAIN f : s.arrival[u] > s.arrival[t]}
            left  == Idle(s) \ {f[u] : u \in ahead}
            fits  == /\ Cardinality(ahead) < Slots(s)
                     /\ IF s.host[t] = NoWorker THEN left # {} ELSE s.host[t] \in left
        IN /\ t \in DOMAIN f <=> fits
           /\ t \in DOMAIN f => f[t] \in left /\ s.host[t] \in {NoWorker, f[t]}

FirstFit(f, s) ==
    LET ahead(t) == {u \in DOMAIN f : s.arrival[u] < s.arrival[t]}
        left(t)  == Idle(s) \ {f[u] : u \in ahead(t)}
    IN /\ Cardinality(DOMAIN f) <= Slots(s)
       /\ \A t \in DOMAIN f :
            /\ Cardinality(ahead(t)) < Slots(s)
            /\ f[t] \in left(t)
            /\ IF s.host[t] = NoWorker
               THEN \A w \in left(t) : born[f[t]] <= born[w]
               ELSE f[t] = s.host[t]
       /\ \A t \in Queue(s) \ DOMAIN f :
            \/ Cardinality(ahead(t)) >= Slots(s)
            \/ s.host[t] = NoWorker /\ left(t) = {}
            \/ s.host[t] # NoWorker /\ s.host[t] \notin left(t)

\* runDispatched() up to its first await, for every task placed.
Dispatched(s, f) ==
    [s EXCEPT
      !.status   = [w \in Workers |-> IF \E t \in DOMAIN f : f[t] = w
                                      THEN "running" ELSE s.status[w]],
      !.phase    = [t \in Tasks |-> IF t \notin DOMAIN f THEN s.phase[t]
                                    ELSE IF runner THEN "running" ELSE "held"],
      !.host     = [t \in Tasks |-> IF t \in DOMAIN f THEN f[t] ELSE s.host[t]],
      !.entry    = [t \in Tasks |-> IF t \in DOMAIN f THEN born[f[t]]
                                    ELSE s.entry[t]],
      !.inFlight = IF runner THEN s.inFlight + Cardinality(DOMAIN f)
                             ELSE s.inFlight]

TryDispatchNext(s) ==
    \E S \in SUBSET Queue(s) : \E f \in [S -> Idle(s)] :
        /\ FirstFit(f, s)
        /\ LET d == Dispatched(s, f)
           IN Become(IF CanDispatch(d) /\ ~HasLiveSubagent(d)
                     THEN Aborted(d, Queue(d)) ELSE d)

-----------------------------------------------------------------------------
\* When callers spawn first, the other calls come after the last spawn.
Staffed == SpawnFirst => spawns = MaxSpawns

Init ==
    /\ status = [w \in Workers |-> "absent"]
    /\ born = [w \in Workers |-> 0]
    /\ aborted = [w \in Workers |-> FALSE]
    /\ terminating = {}
    /\ phase = [t \in Tasks |-> "new"]
    /\ host = [t \in Tasks |-> NoWorker]
    /\ entry = [t \in Tasks |-> 0]
    /\ arrival = [t \in Tasks |-> 0]
    /\ fired = {}
    /\ finished = [t \in Tasks |-> 0]
    /\ retained = {}
    /\ events = [t \in Tasks |-> 0]
    /\ inFlight = 0
    /\ maxConcurrent \in Caps
    /\ spawns = 0
    /\ pushes = 0
    /\ runner \in RunnerAtStart
    /\ reported = {} /\ strays = {} /\ lateFired = {}

\* spawn(): refuses an id in use; never looks at the queue.
Spawn(w) ==
    /\ spawns < MaxSpawns
    /\ status[w] = "absent"
    /\ born[w] # 0 => w \in Reusable
    /\ spawns' = spawns + 1
    /\ status' = [status EXCEPT ![w] = "idle"]
    /\ born' = [born EXCEPT ![w] = spawns + 1]
    /\ aborted' = [aborted EXCEPT ![w] = FALSE]
    /\ lateFired' = lateFired \ {w}
    /\ strays' = strays \ {w}
    /\ UNCHANGED <<terminating, phase, host, entry, arrival, fired, finished, retained,
                   events, inFlight, maxConcurrent, pushes, runner, reported>>

\* What only spawns, watchdogs and completions change.
Aside == <<born, fired, spawns, runner, strays, lateFired>>

Assign(t, p) ==
    /\ phase[t] = "new"
    /\ Staffed
    /\ TryDispatchNext(
         [Now EXCEPT !.phase[t] = "pending", !.host[t] = p,
                     !.arrival[t] = 1 + Cardinality({u \in Tasks : arrival[u] # 0})])
    /\ UNCHANGED <<aborted, Aside>>

\* Mutant: the task is looked up among all tasks, and queued again.
RetargetAny(t, p) ==
    /\ phase[t] \in {"pending", "running"}
    /\ p # NoWorker => status[p] # "absent"
    /\ TryDispatchNext([Now EXCEPT !.host[t] = p, !.phase[t] = "pending"])
    /\ UNCHANGED <<aborted, Aside>>

\* Mutant: a dispatched task may be pinned elsewhere.
RetargetRunning(t, p) ==
    /\ phase[t] \in {"pending", "running"}
    /\ p # NoWorker /\ status[p] # "absent"
    /\ TryDispatchNext([Now EXCEPT !.host[t] = p])
    /\ UNCHANGED <<aborted, Aside>>

\* retargetPendingTask() when it returns true.
Retarget(t, p) ==
    /\ phase[t] = "pending"
    /\ p # NoWorker => status[p] # "absent"
    /\ TryDispatchNext([Now EXCEPT !.host[t] = p])
    /\ UNCHANGED <<aborted, Aside>>

\* The same value as before runs the loop again.
SetMaxConcurrent(n) ==
    /\ TryDispatchNext([Now EXCEPT !.maxConcurrent = n])
    /\ UNCHANGED <<aborted, Aside>>

SetRunner ==
    /\ ~runner
    /\ runner' = TRUE
    /\ UNCHANGED <<status, born, aborted, terminating, phase, host, entry, arrival,
                   fired, finished, retained, events, inFlight, maxConcurrent,
                   spawns, pushes, reported, strays, lateFired>>

\* What stop() does to the entries of the ids in W; the loop is not run.
Stopped(s, W) ==
    [s EXCEPT !.terminating = s.terminating \cup W,
              !.status = [w \in Workers |-> IF w \in W THEN "stopped"
                                                       ELSE s.status[w]]]

AbortControllers(W) == aborted' = [w \in Workers |-> w \in W \/ aborted[w]]

Stop(w) ==
    /\ Staffed
    /\ status[w] # "absent"
    /\ Become(Stopped(Now, {w}))
    /\ AbortControllers({w})
    /\ UNCHANGED Aside

StopAll ==
    /\ Staffed
    /\ Stoppable # {}
    /\ Become(Stopped(Aborted(Now, Queue(Now)), Entries(Now)))
    /\ AbortControllers(Entries(Now))
    /\ UNCHANGED Aside

\* remove(): the entry goes at once, whatever its run is still doing; the
\* pending tasks pinned to the id are settled, the rest of the queue waits.
Remove(w) ==
    /\ status[w] # "absent"
    /\ LET pinned == {t \in Queue(Now) : host[t] = w}
       IN Become(Aborted([Now EXCEPT !.status[w] = "absent",
                                     !.terminating = terminating \ {w}], pinned))
    /\ AbortControllers({w})
    /\ UNCHANGED Aside

-----------------------------------------------------------------------------
(* A run ends.  The runner's promise settles, or the watchdog's timer        *)
(* rejects first: it aborts the controller found under the id at that time   *)
(* and the rejection reaches runDispatched() in a later microtask.           *)

\* The watchdog outlives its run: a negotiation that was under way when the run
\* ended may still be refused, or granted and arm the timer again.
WatchdogFires(t) ==
    /\ entry[t] # 0 /\ phase[t] \in {"running", "done"}
    /\ t \notin fired
    /\ fired' = fired \cup {t}
    /\ LET w == host[t]
           own == phase[t] = "running" /\ entry[t] = born[w]
       IN IF status[w] = "absent" THEN UNCHANGED <<aborted, lateFired>>
          ELSE /\ AbortControllers({w})
               /\ lateFired' = IF own THEN lateFired ELSE lateFired \cup {w}
    /\ UNCHANGED <<status, born, terminating, phase, host, entry, arrival, finished,
                   retained, events, inFlight, maxConcurrent, spawns, pushes, runner,
                   reported, strays>>

\* The first statements of recordCompletion(): push, then keep the newest.
Pushed(s, t) ==
    LET p == [s EXCEPT !.pushes = s.pushes + 1, !.finished[t] = s.pushes + 1]
    IN [p EXCEPT !.retained = {u \in s.retained \cup {t} :
                                 p.finished[u] + MaxResults > p.pushes}]

\* Mutant: the slot is returned only with an entry to free.
ReleasedWithEntry(s, t, w) ==
    LET gone == s.status[w] \in {"absent", "stopped"}
    IN [s EXCEPT !.inFlight = IF gone \/ s.inFlight = 0 THEN s.inFlight ELSE s.inFlight - 1,
                 !.status[w] = IF gone THEN s.status[w] ELSE "idle",
                 !.terminating = s.terminating \ {w},
                 !.events[t] = s.events[t] + 1]

\* Mutant: a stopped entry is made idle too.
ReleasedStopped(s, t, w) ==
    [s EXCEPT !.inFlight = IF s.inFlight > 0 THEN s.inFlight - 1 ELSE 0,
              !.status[w] = IF s.status[w] = "absent" THEN "absent" ELSE "idle",
              !.terminating = s.terminating \ {w},
              !.events[t] = s.events[t] + 1]

\* The rest of it, before the loop: the id's entry, unless stopped, is idle.
Released(s, t, w) ==
    [s EXCEPT !.inFlight = IF s.inFlight > 0 THEN s.inFlight - 1 ELSE 0,
              !.status[w] = IF s.status[w] \in {"absent", "stopped"}
                            THEN s.status[w] ELSE "idle",
              !.terminating = s.terminating \ {w},
              !.events[t] = s.events[t] + 1]

\* Mutant: the aborted controller is kept.
NotRecycled(w) == UNCHANGED <<aborted, lateFired>>

\* An aborted controller is replaced, so that the next task starts afresh.
Recycled(w) ==
    IF status[w] \in {"absent", "stopped"} THEN UNCHANGED <<aborted, lateFired>>
    ELSE /\ aborted' = [aborted EXCEPT ![w] = FALSE]
         /\ lateFired' = lateFired \ {w}

\* Mutant: without an entry under the id it returns before the loop.
RecordWithoutDispatch(s, t, w, own) ==
    /\ IF status[w] = "absent"
       THEN Become(Released(Pushed(s, t), t, w))
       ELSE TryDispatchNext(Released(Pushed(s, t), t, w))
    /\ Recycled(w)
    /\ UNCHANGED strays

\* recordCompletion() of a result of t under the id w; `own`: it ends the task
\* that the entry found there was given.
RecordCompletion(s, t, w, own) ==
    IF runner /\ s.inFlight = 0
    THEN /\ Become(Pushed(s, t))            \* 'inFlight_underflow' and return
         /\ UNCHANGED <<aborted, lateFired>>
         /\ strays' = strays \cup {w}
    ELSE /\ TryDispatchNext(Released(Pushed(s, t), t, w))
         /\ Recycled(w)
         /\ strays' = IF own THEN strays ELSE strays \cup {w}

\* However the run ended, runDispatched() records it.
Settle(t) ==
    /\ phase[t] = "running"
    /\ RecordCompletion([Now EXCEPT !.phase[t] = "done"], t, host[t],
                        entry[t] = born[host[t]])
    /\ UNCHANGED <<born, fired, spawns, runner>>

\* completeTask(): the caller's result is recorded whatever the task is doing.  It
\* ends a task handed to the caller for want of a runner; a task in the queue
\* stays there and a run goes on.  The id is the task's, or any if it has none.
CompleteTask(t, w) ==
    /\ t \notin reported /\ Cardinality(reported) < MaxReports
    /\ host[t] \in {NoWorker, w}
    /\ LET s == [Now EXCEPT !.reported = reported \cup {t}]
           handed == phase[t] = "held"
       IN RecordCompletion(IF handed THEN [s EXCEPT !.phase[t] = "done", !.entry[t] = 0] ELSE s,
                           t, w, handed /\ entry[t] = born[w])
    /\ UNCHANGED <<born, fired, spawns, runner>>

Next ==
    \/ \E w \in Workers : Spawn(w)
    \/ \E t \in Tasks, p \in Pins : Assign(t, p)
    \/ \E t \in Tasks, p \in Pins : Retarget(t, p)
    \/ \E n \in Caps : SetMaxConcurrent(n)
    \/ SetRunner
    \/ \E w \in Stoppable : Stop(w)
    \/ StopAll
    \/ \E w \in Removable : Remove(w)
    \/ \E t \in Tasks : WatchdogFires(t)
    \/ \E t \in Tasks : Settle(t)
    \/ \E t \in Tasks, w \in Workers : CompleteTask(t, w)

Spec == Init /\ [][Next]_vars

\* Every run's promise settles in the end: the runner returns or throws, or
\* the watchdog rejects; callers owe nothing.  This is weak fairness of the
\* Settle actions of each task, which are enabled exactly while it runs and the
\* only ones that end its run.
RunsSettle == \A t \in Tasks : []<>(phase[t] # "running")

FairSpec == Spec /\ RunsSettle

-----------------------------------------------------------------------------
TypeOK ==
    /\ status \in [Workers -> WorkerStatus]
    /\ born \in [Workers -> Nat]
    /\ aborted \in [Workers -> BOOLEAN]
    /\ terminating \subseteq Workers
    /\ phase \in [Tasks -> Phases]
    /\ host \in [Tasks -> Workers \cup {NoWorker}]
    /\ entry \in [Tasks -> Nat]
    /\ arrival \in [Tasks -> Nat]
    /\ fired \subseteq Tasks
    /\ finished \in [Tasks -> Nat]
    /\ retained \subseteq Tasks
    /\ events \in [Tasks -> Nat]
    /\ inFlight \in Nat
    /\ maxConcurrent \in Nat \ {0}
    /\ spawns \in Nat /\ pushes \in Nat
    /\ runner \in BOOLEAN
    /\ reported \subseteq Tasks
    /\ strays \subseteq Workers /\ lateFired \subseteq Workers

Running == {t \in Tasks : phase[t] = "running"}

\* Settled without a 'task.completed'.
Silent == {t \in Tasks : phase[t] = "done" /\ events[t] = 0}

\* No slot leaks, and none is returned twice, however stop, remove, drain and
\* completion interleave: each run owns one, but for a slot for each result that
\* a caller reports with completeTask(), which returns one it never took.
SlotAccounting ==
    /\ inFlight <= Cardinality(Running)
    /\ Cardinality(Running) <= inFlight + Cardinality(reported)

\* Nobody is told of a task that has not settled, or twice, but for a task its
\* caller reported; and the underflow guard of recordCompletion() swallows no
\* more announcements than callers made reports.
OneNotice ==
    /\ \A t \in Tasks : events[t] <= (IF phase[t] = "done" THEN 1 ELSE 0)
                                    + (IF t \in reported THEN 1 ELSE 0)
    /\ Cardinality(Silent) <= Cardinality(reported)

\* The tasks dispatched to the entry that the id w has now, and not ended.
Mine(w) == {t \in Tasks : /\ phase[t] \in {"running", "held"}
                          /\ host[t] = w /\ entry[t] = born[w]}

\* A busy entry has exactly one task and an idle one none, through stops, drains,
\* removals and ids used again.  What breaks it is only a completion recorded
\* under its id that does not end its own task: that of a run of a removed entry,
\* or a caller's report.
BusyMeansOneRun ==
    \A w \in Workers \ strays :
        /\ status[w] = "running" => Cardinality(Mine(w)) = 1
        /\ status[w] = "idle"    => Mine(w) = {}

\* A run that nobody stopped, removed or timed out is not already cancelled: the
\* abort that ended one task never reaches the next one on the entry, unless the
\* watchdog of another run fires late.
FreshSignal ==
    \A w \in Workers \ (strays \cup lateFired) :
        status[w] = "running" => \A t \in Mine(w) : t \in fired \/ ~aborted[w]

\* Between two calls no idle worker, free slot and task it may take coexist.
WorkConserving ==
    \A t \in Tasks, w \in Workers :
        (/\ phase[t] = "pending"
         /\ host[t] \in {NoWorker, w}
         /\ w \in Idle(Now)) => inFlight >= maxConcurrent

\* setMaxConcurrent() may leave too many runs in flight, but no step starts
\* one beyond the ceiling, nor does one that ends another run.
NoStartAboveCap ==
    [][(\E t \in Tasks : phase[t] # "running" /\ phase'[t] = "running")
          => inFlight' <= maxConcurrent']_vars

\* A stopped entry is never used again: no completion, late or not, makes it
\* idle, and no task starts on it.
StopIsFinal ==
    [][\A w \in Workers : status[w] = "stopped" =>
           status'[w] \in {"stopped", "absent"}]_vars

\* Of two unpinned pending tasks the one assigned first starts first, also
\* across retargeting, drains and a ceiling that moves.
NoOvertaking ==
    [][\A t, u \in Tasks :
          (/\ phase[t] = "pending" /\ phase[u] = "pending"
           /\ host[t] = NoWorker /\ host[u] = NoWorker
           /\ arrival[t] < arrival[u]
           /\ phase'[u] \in {"running", "held"})
             => ~(phase'[t] = "pending" /\ host'[t] = NoWorker)]_vars

\* A queued task settles in the end, by a run or by a drain.
EveryTaskSettles ==
    \A t \in Tasks : phase[t] = "pending" ~> phase[t] = "done"

-----------------------------------------------------------------------------
(* The coordinator implements the ledger its callers see.                    *)

StageOf == [new |-> "unassigned", pending |-> "queued", running |-> "executing",
            held |-> "executing", done |-> "settled"]

Ledger == INSTANCE TaskLedger
            WITH stage <- [t \in Tasks |-> StageOf[phase[t]]], notices <- events

\* No task ever moves backward, each is announced in the step that settles it and
\* in no other; what a caller's completeTask() does to that is the ledger's Advance.
ImplementsLedger == Ledger!LedgerSpec
=============================================================================
