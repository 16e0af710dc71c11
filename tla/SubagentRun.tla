---------------------------- MODULE SubagentRun ----------------------------
(***************************************************************************)
(* The budget of a subagent's runs.  SubagentBudget counts what the agent    *)
(* uses and, over a limit, asks the Director for an extension; the runner    *)
(* keeps the last of these signals and looks at its decision when the agent  *)
(* has returned.  executeWithTimeout() watches the clock with a timer of its *)
(* own and asks for more time before and at the deadline.  One worker makes  *)
(* several runs, each with its own budget, runner and watchdog.              *)
(***************************************************************************)
EXTENDS Naturals, Sequences, FiniteSets

CONSTANTS NumRuns,        \* the worker makes runs 1..NumRuns
          Counted,        \* sequence of the counted kinds, in checkLimits() order
          FirstLimit,     \* the limit a run starts with, the same for every kind
          Ceiling,        \* the Director extends no limit beyond it
          MaxExtensions,  \* maxBudgetExtensions
          MaxUse,         \* bound: units of a kind one run records
          Brain           \* does the Director have a brain to ask?

ASSUME RunAssumption ==
    /\ NumRuns \in Nat \ {0}
    /\ Counted \in Seq(STRING \ {"timeout", "none"})
    /\ \A i, j \in DOMAIN Counted : i # j => Counted[i] # Counted[j]
    /\ FirstLimit \in Nat \ {0} /\ Ceiling \in Nat /\ FirstLimit <= Ceiling
    /\ MaxExtensions \in Nat /\ MaxUse \in Nat
    /\ Brain \in BOOLEAN

Runs == 1..NumRuns
Kinds == {Counted[i] : i \in DOMAIN Counted}

VARIABLES
    fleet,    \* is a Director attached?  It stays as it is
    cur,      \* the run under way, or the last one
    run,      \* how the run cur stands
    result,   \* what agent.run() returned
    told,     \* has the runner's aborter fired?
    used,     \* [Kinds -> Nat]: the counters of the current run's budget
    limit,    \* [Kinds -> Nat]: its limits
    asked,    \* _pendingNegotiations: the question of a kind that is under way
    signal,   \* budgetError of the runner: a kind and the decision, when known
    refused,  \* history: has a question of the current run been answered "stop"?
    ext,      \* extendCounts of the Director, per kind, for this worker
    late,     \* the counts read by grants under way that nobody waits for
    news,     \* has a tool run since the Director last gave more time?
    watch,    \* [Runs -> watchdog]: its state; the time elapsed against the
              \*   wall-clock limit; no activity for the idle window?; activity
              \*   since the last grant of time?; is preemptState LOCKED?
    outlived, \* history: watchdogs that were negotiating when their run ended
    strays,   \* runs that lost the race to their watchdog and whose agent may
              \*   end the tool it was in (bound: one tool each)
    aborted   \* has the worker's current abortController fired?

life   == <<cur, run, result, told, strays, aborted>>
budget == <<used, limit, asked, signal, refused>>
policy == <<ext, late>>
vars   == <<fleet, life, budget, policy, news, watch, outlived>>

NoSignal == [kind |-> "none", decision |-> "none"]
NotAsked == [st |-> "no", base |-> 0, prior |-> 0]
Off == [st |-> "off", clock |-> "early", idle |-> FALSE, fresh |-> TRUE, locked |-> FALSE]
Armed == [Off EXCEPT !.st = "armed"]
Over == {"success", "failed", "timeout", "stopped"}

Init ==
    /\ fleet \in BOOLEAN
    /\ cur = 1 /\ run = "running" /\ result = "none" /\ told = FALSE
    /\ used = [k \in Kinds |-> 0]
    /\ limit = [k \in Kinds |-> FirstLimit]
    /\ asked = [k \in Kinds \cup {"timeout"} |-> NotAsked]
    /\ signal = NoSignal /\ refused = FALSE
    /\ ext = [k \in Kinds |-> 0] /\ late = [k \in Kinds |-> {}]
    /\ news = TRUE
    /\ watch = [r \in Runs |-> IF r = 1 THEN Armed ELSE Off]
    /\ outlived = {} /\ strays = {}
    /\ aborted = FALSE

-----------------------------------------------------------------------------
(* SubagentBudget and the Director's answers *)

Exceeded(u) == {k \in Kinds : u[k] > limit[k]}

\* exceeded[0]: the counted kinds in their order, the wall clock last.
First(S) ==
    IF S = {"timeout"} THEN "timeout"
    ELSE Counted[CHOOSE i \in DOMAIN Counted :
                     Counted[i] \in S /\ \A j \in 1..(i - 1) : Counted[j] \notin S]

\* The Director refuses at once when no tool has run since it last gave time,
\* or when it has extended this kind often enough.
Refuses(k) == IF k = "timeout" THEN ~news ELSE ext[k] >= MaxExtensions

\* It forgets the count with the refusal.
Forget(no) == [k \in Kinds |-> IF k \in no THEN 0 ELSE ext[k]]

Question(k, u) ==
    IF k = "timeout" THEN [st |-> "granting", base |-> 0, prior |-> 0]
    ELSE [st |-> IF Brain THEN "asked" ELSE "granting", base |-> u[k], prior |-> ext[k]]

\* checkLimits() with a Director: a question for every kind that has none under
\* way; the signal thrown carries the decision of the first kind.
Negotiate(over, u) ==
    LET new == {k \in over : asked[k].st = "no"}
        no  == {k \in new : Refuses(k)}
    IN  /\ asked' = [k \in DOMAIN asked |->
                        IF k \in new \ no THEN Question(k, u) ELSE asked[k]]
        /\ ext' = Forget(no)
        /\ refused' = (refused \/ no # {})
        /\ signal' = [kind |-> First(over),
                      decision |-> IF First(over) \in no THEN "stop" ELSE "open"]
        /\ UNCHANGED told

\* Without one, BudgetExceededError: onBudgetError() aborts the agent.
HardStop(over) ==
    /\ signal' = [kind |-> First(over), decision |-> "stop"]
    /\ refused' = TRUE /\ told' = TRUE
    /\ UNCHANGED <<asked, ext>>

CheckLimits(over, u) ==
    \/ over = {} /\ UNCHANGED <<asked, ext, refused, signal, told>>
    \/ over # {} /\ fleet /\ Negotiate(over, u)
    \/ over # {} /\ ~fleet /\ HardStop(over)

\* markActivity()
Active(r) == watch' = [watch EXCEPT ![r].idle = FALSE, ![r].fresh = TRUE]

\* recordIteration(), recordToolCall(), recordUsage(): count, mark, check.
Record(k) ==
    /\ run = "running" /\ used[k] < MaxUse
    /\ used' = [used EXCEPT ![k] = @ + 1]
    /\ CheckLimits(Exceeded(used'), used')
    /\ news' = (news \/ (fleet /\ k = "tool_calls"))
    /\ Active(cur)
    /\ UNCHANGED <<fleet, cur, run, result, strays, aborted, limit, late, outlived>>

\* provider.text_delta: activity, no check.
TextDelta ==
    /\ run = "running" /\ (watch[cur].idle \/ ~watch[cur].fresh)
    /\ Active(cur)
    /\ UNCHANGED <<fleet, life, budget, policy, news, outlived>>

\* tool.progress: activity, then checkTimeout(), which leaves the wall clock to
\* the watchdog while that negotiates.
ToolProgress ==
    /\ run = "running"
    /\ Active(cur)
    /\ LET tripped == watch[cur].clock = "over" /\ watch[cur].st # "granting"
           over == IF tripped THEN Exceeded(used) \cup {"timeout"} ELSE {}
       IN  /\ CheckLimits(over, used)
           /\ news' = (news /\ ~(fleet /\ tripped /\ asked["timeout"].st = "no"))
    /\ UNCHANGED <<fleet, cur, run, result, strays, aborted, used, limit, late, outlived>>

\* (mutant) A settled question is forgotten without telling the runner.
DecidedInSilence(k, d) == asked' = [asked EXCEPT ![k] = NotAsked] /\ UNCHANGED signal

\* A question is settled: whoever waits for it, the runner's signal, learns it.
Decided(k, d) ==
    /\ asked' = [asked EXCEPT ![k] = NotAsked]
    /\ signal' = IF signal = [kind |-> k, decision |-> "open"]
                 THEN [signal EXCEPT !.decision = d] ELSE signal

\* brain.decide() answers yes; the grant is left to a later turn.
BrainGrants(k) ==
    /\ asked[k].st = "asked"
    /\ asked' = [asked EXCEPT ![k].st = "granting"]
    /\ UNCHANGED <<fleet, life, used, limit, signal, refused, policy, news, watch,
                   outlived>>

BrainDenies(k) ==
    /\ asked[k].st = "asked"
    /\ Decided(k, "stop") /\ refused' = TRUE
    /\ UNCHANGED <<fleet, life, used, limit, policy, news, watch, outlived>>

\* Half as much again, rounded up, but not beyond the ceiling; base is what the
\* question said was used.
Grown(base) ==
    LET more == (3 * base + 1) \div 2 IN IF more < Ceiling THEN more ELSE Ceiling

\* grantExtension(): the counted limit grows and the grant is counted.
Extend(k) ==
    /\ asked[k].st = "granting"
    /\ ext' = [ext EXCEPT ![k] = asked[k].prior + 1]
    /\ limit' = [limit EXCEPT ![k] = Grown(asked[k].base)]
    /\ Decided(k, "extend")
    /\ UNCHANGED <<fleet, life, used, refused, late, news, watch, outlived>>

\* More time granted to checkTimeout(): the wall-clock limit is doubled.
ExtendClock ==
    /\ asked["timeout"].st = "granting"
    /\ watch' = [watch EXCEPT ![cur].clock = "early"]
    /\ Decided("timeout", "extend")
    /\ UNCHANGED <<fleet, life, used, limit, refused, policy, news, outlived>>

\* Nobody has answered for DECISION_TIMEOUT_MS: stop.  The brain may answer yet.
GiveUp(k) ==
    /\ asked[k].st = "asked"
    /\ Decided(k, "stop") /\ refused' = TRUE
    /\ late' = [late EXCEPT ![k] = @ \cup {asked[k].prior}]
    /\ UNCHANGED <<fleet, life, used, limit, ext, news, watch, outlived>>

\* A late yes still counts, from the count it had read; a late no does nothing.
LateGrant(k, n) ==
    /\ n \in late[k]
    /\ late' = [late EXCEPT ![k] = @ \ {n}]
    /\ \/ ext' = [ext EXCEPT ![k] = n + 1]
       \/ UNCHANGED ext
    /\ UNCHANGED <<fleet, life, budget, news, watch, outlived>>

-----------------------------------------------------------------------------
(* executeWithTimeout(): the watchdog *)

Watching(r) == watch[r].st # "off"

\* Time passes.
ClockRuns(r) ==
    /\ Watching(r) /\ watch[r].clock # "over"
    /\ watch' = [watch EXCEPT ![r].clock = IF @ = "early" THEN "preempt" ELSE "over"]
    /\ UNCHANGED <<fleet, life, budget, policy, news, outlived>>

GoesIdle(r) ==
    /\ Watching(r) /\ ~watch[r].idle
    /\ watch' = [watch EXCEPT ![r].idle = TRUE]
    /\ UNCHANGED <<fleet, life, budget, policy, news, outlived>>

\* clearTimeout() in the finally: it finds no timer while a grant is awaited.
Cleared == IF watch[cur].st = "armed" THEN [watch EXCEPT ![cur] = Off] ELSE watch

\* (mutant) The fired controller is kept.
KeptFired == TRUE

\* recordCompletion(): the controller is replaced if it has fired.
Recycled == FALSE

\* terminate(): abort what is now the worker's controller, and reject.  When the
\* race is lost already, only the abort is left.  The agent that loses it is not
\* waited for.
Reject(r, how) ==
    /\ watch' = [watch EXCEPT ![r] = Off]
    /\ IF r = cur /\ run \notin Over
       THEN run' = how /\ aborted' = Recycled /\ UNCHANGED told
       ELSE /\ aborted' = TRUE /\ told' = (told \/ run = "running")
            /\ UNCHANGED run
    /\ strays' = IF r = cur /\ run = "running" THEN strays \cup {r} ELSE strays
    /\ UNCHANGED <<cur, result>>

\* A stall: no activity for the whole window, the deadline not reached.
TickIdle(r) ==
    /\ watch[r].st = "armed" /\ watch[r].idle /\ watch[r].clock # "over"
    /\ Reject(r, "timeout")
    /\ UNCHANGED <<fleet, budget, policy, news, outlived>>

\* Does the question of this watchdog reach a Director?  A run is attached to
\* the fleet until its agent returns.
Heard(r) == fleet /\ r = cur /\ run = "running"

\* (mutant) More time for every run that asks, tools or not.
GivesAlways(r) == Heard(r)

Gives(r) == Heard(r) /\ news

\* The Director grants with setImmediate(): the run goes on meanwhile.
Granted(r) ==
    /\ watch' = [watch EXCEPT ![r].st = "granting"]
    /\ news' = FALSE
    /\ UNCHANGED life

\* Before the deadline, once per limit, and only after new activity.
TickPreempt(r) ==
    /\ watch[r].st = "armed" /\ watch[r].clock = "preempt"
    /\ ~watch[r].idle /\ ~watch[r].locked
    /\ IF watch[r].fresh /\ Gives(r)
       THEN Granted(r)
       ELSE watch' = [watch EXCEPT ![r].locked = TRUE] /\ UNCHANGED <<life, news>>
    /\ UNCHANGED <<fleet, budget, policy, outlived>>

TickDeadline(r) ==
    /\ watch[r].st = "armed" /\ watch[r].clock = "over"
    /\ IF Gives(r)
       THEN Granted(r)
       ELSE Reject(r, IF Heard(r) THEN "stopped" ELSE "timeout") /\ UNCHANGED news
    /\ UNCHANGED <<fleet, budget, policy, outlived>>

\* The grant arrives: the limit is doubled and the timer armed anew, whether or
\* not the run is still going.
MoreTime(r) ==
    /\ watch[r].st = "granting"
    /\ watch' = [watch EXCEPT ![r] = [Armed EXCEPT !.idle = watch[r].idle, !.fresh = FALSE]]
    /\ UNCHANGED <<fleet, life, budget, policy, news, outlived>>

-----------------------------------------------------------------------------
(* The runner and the coordinator at the end of a run *)

\* agent.run() has returned; the runner leaves the fleet.
AgentReturns(how) ==
    /\ run = "running"
    /\ how = "aborted" => told
    /\ run' = "ending" /\ result' = how
    /\ UNCHANGED <<fleet, cur, told, strays, aborted, budget, policy, news, watch, outlived>>

\* (mutant) Any signal the budget raised fails the run.
VerdictOfSignal ==
    IF signal.kind # "none" THEN "failed" ELSE IF result = "done" THEN "success" ELSE "failed"

\* What runDispatched() makes of a refused budget and of the agent's own result.
Verdict ==
    LET failure == IF aborted THEN "stopped" ELSE "failed"
    IN  IF signal.decision = "stop"
        THEN IF signal.kind = "timeout" THEN "timeout" ELSE failure
        ELSE IF result = "done" THEN "success" ELSE failure

\* The runner awaits the decision of the last signal; then the race is won, the
\* timer cleared and the completion recorded.
Settle ==
    /\ run = "ending" /\ signal.decision # "open"
    /\ run' = Verdict
    /\ aborted' = Recycled
    /\ watch' = Cleared
    /\ outlived' = IF watch[cur].st = "granting" THEN outlived \cup {cur} ELSE outlived
    /\ UNCHANGED <<fleet, cur, result, told, strays, budget, policy, news>>

\* The worker is given its next task: a new budget, runner and watchdog.  What
\* is still asked for the old budget is decided for nobody.
Dispatch ==
    /\ run \in Over /\ cur < NumRuns
    /\ cur' = cur + 1 /\ run' = "running" /\ result' = "none" /\ told' = FALSE
    /\ used' = [k \in Kinds |-> 0]
    /\ limit' = [k \in Kinds |-> FirstLimit]
    /\ late' = [k \in Kinds |-> late[k] \cup
                    IF asked[k].st = "no" THEN {} ELSE {asked[k].prior}]
    /\ asked' = [k \in DOMAIN asked |-> NotAsked]
    /\ signal' = NoSignal /\ refused' = FALSE
    /\ watch' = [watch EXCEPT ![cur + 1] = Armed]
    /\ UNCHANGED <<fleet, strays, aborted, ext, news, outlived>>

\* The agent of a run that lost the race ends its tool before it sees the abort:
\* for the Director that is progress of the worker, whichever run it makes now.
\* Over a limit of the old budget it asks once more, for nobody.
StrayTool(r) ==
    /\ r \in strays /\ strays' = strays \ {r}
    /\ news' = (news \/ fleet)
    /\ \/ UNCHANGED policy
       \/ \E k \in Kinds :
             /\ fleet
             /\ IF Refuses(k)
                THEN ext' = Forget({k}) /\ UNCHANGED late
                ELSE late' = [late EXCEPT ![k] = @ \cup {ext[k]}] /\ UNCHANGED ext
    /\ UNCHANGED <<fleet, cur, run, result, told, aborted, budget, watch, outlived>>

\* The worker has made its last run and every question is settled.
Rest ==
    /\ run \in Over /\ cur = NumRuns
    /\ \A r \in Runs : ~Watching(r)
    /\ UNCHANGED vars

-----------------------------------------------------------------------------
Tick(r) == TickIdle(r) \/ TickPreempt(r) \/ TickDeadline(r)

Next ==
    \/ \E k \in Kinds : Record(k) \/ BrainGrants(k) \/ BrainDenies(k) \/ Extend(k) \/ GiveUp(k)
    \/ \E k \in Kinds : \E n \in late[k] : LateGrant(k, n)
    \/ TextDelta \/ ToolProgress \/ ExtendClock
    \/ \E r \in Runs : ClockRuns(r) \/ GoesIdle(r) \/ Tick(r) \/ MoreTime(r)
                       \/ StrayTool(r)
    \/ \E how \in {"done", "failed", "aborted"} : AgentReturns(how)
    \/ Settle \/ Dispatch \/ Rest

Spec == Init /\ [][Next]_vars

\* The event loop runs timers and pending decisions, and time passes; an agent
\* and a brain may be silent for ever.
Fairness ==
    /\ \A r \in Runs : WF_vars(ClockRuns(r)) /\ WF_vars(Tick(r)) /\ WF_vars(MoreTime(r))
    /\ \A k \in Kinds : WF_vars(Extend(k)) /\ WF_vars(GiveUp(k))
    /\ WF_vars(Settle)

FairSpec == Spec /\ Fairness

-----------------------------------------------------------------------------
(* Properties *)

RunTypeOK ==
    /\ fleet \in BOOLEAN /\ cur \in Runs /\ run \in {"running", "ending"} \cup Over
    /\ result \in {"none", "done", "failed", "aborted"}
    /\ told \in BOOLEAN /\ aborted \in BOOLEAN /\ refused \in BOOLEAN /\ news \in BOOLEAN
    /\ used \in [Kinds -> 0..MaxUse]
    /\ limit \in [Kinds -> 1..Ceiling]
    /\ asked \in [Kinds \cup {"timeout"} -> [st : {"no", "asked", "granting"},
                                             base : 0..MaxUse, prior : 0..MaxExtensions]]
    /\ signal \in [kind : Kinds \cup {"timeout", "none"},
                   decision : {"none", "open", "extend", "stop"}]
    /\ ext \in [Kinds -> 0..MaxExtensions]
    /\ late \in [Kinds -> SUBSET (0..MaxExtensions)]
    /\ watch \in [Runs -> [st : {"off", "armed", "granting"},
                           clock : {"early", "preempt", "over"},
                           idle : BOOLEAN, fresh : BOOLEAN, locked : BOOLEAN]]
    /\ outlived \subseteq Runs /\ strays \subseteq Runs

\* The runner never awaits a decision that nobody will take: while its signal is
\* open, the question of that kind is under way.
SignalAnswered ==
    signal.decision = "open" => asked[signal.kind].st # "no"

\* The worker's controller is found fired after a run only through a watchdog
\* whose grant of more time outlived its run.
AbortIsLate ==
    aborted => \E r \in outlived : ~Watching(r)

\* A run whose agent finished its work is failed or stopped only if the Director
\* refused it something: an extended budget costs the run nothing.
FailureIsRefusal ==
    (run \in {"failed", "stopped"} /\ result = "done") => refused

\* A stalled run is ended: whatever the agent streams, once it calls no more
\* tools the watchdog gets no more time and terminates the run.
EveryRunEnds == []<>(run \in Over)

\* What the Director's extension guard is for: a run that was refused does not
\* end as a success.
DeniedStops ==
    run = "success" => ~refused

\* What recycling the controller is for: no run meets a controller that was
\* fired for an earlier one.
CleanScope == ~aborted
=============================================================================
