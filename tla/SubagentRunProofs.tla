------------------------- MODULE SubagentRunProofs -------------------------
(***************************************************************************)
(* What holds of a worker's runs for any number of runs, counted kinds,      *)
(* limits and extensions, with a Director or without one.                    *)
(***************************************************************************)
EXTENDS SubagentRun, FiniteSetTheorems, WellFoundedInduction, TLAPS

\* A counted kind is asked about only over its limit, and only while the
\* Director has extensions left for it.
Asking ==
    /\ \A k \in Kinds : asked[k].st # "no" => /\ asked[k].base # 0
                                              /\ asked[k].prior < MaxExtensions
    /\ \A k \in Kinds : \A n \in late[k] : n < MaxExtensions

\* An open signal has a kind.
Named == signal.decision = "open" => signal.kind # "none"

\* A watchdog without its run was negotiating when the run ended; runs to come
\* have none.
Leftover ==
    /\ \A r \in Runs : Watching(r) /\ (r # cur \/ run \in Over) => r \in outlived
    /\ \A r \in Runs : r > cur => ~Watching(r)
    /\ \A r \in outlived : r <= cur

Questions == [st : {"no", "asked", "granting"}, base : 0..MaxUse, prior : 0..MaxExtensions]
Signals == [kind : Kinds \cup {"timeout", "none"}, decision : {"none", "open", "extend", "stop"}]
Watchdogs == [st : {"off", "armed", "granting"}, clock : {"early", "preempt", "over"},
              idle : BOOLEAN, fresh : BOOLEAN, locked : BOOLEAN]

\* The budget, its questions and its signal.
BudgetInv ==
    /\ used \in [Kinds -> 0..MaxUse] /\ limit \in [Kinds -> 1..Ceiling]
    /\ asked \in [Kinds \cup {"timeout"} -> Questions]
    /\ signal \in Signals
    /\ ext \in [Kinds -> 0..MaxExtensions]
    /\ late \in [Kinds -> SUBSET (0..MaxExtensions)]
    /\ refused \in BOOLEAN
    /\ Asking
    /\ SignalAnswered /\ Named
    /\ signal.decision = "stop" => refused

\* The run, its watchdog and those that outlived theirs.
RunInv ==
    /\ fleet \in BOOLEAN /\ cur \in Runs /\ run \in {"running", "ending"} \cup Over
    /\ result \in {"none", "done", "failed", "aborted"}
    /\ told \in BOOLEAN /\ aborted \in BOOLEAN /\ news \in BOOLEAN
    /\ watch \in [Runs -> Watchdogs] /\ outlived \subseteq Runs
    /\ run = "running" => result = "none"
    /\ FailureIsRefusal
    /\ Leftover
    /\ AbortIsLate

RInv == BudgetInv /\ RunInv

StrayInv == strays \subseteq Runs

LEMMA TypesOfRInv == RInv /\ StrayInv => RunTypeOK
<1> SUFFICES ASSUME RInv, StrayInv PROVE RunTypeOK
    OBVIOUS
<1>1. /\ used \in [Kinds -> 0..MaxUse] /\ limit \in [Kinds -> 1..Ceiling]
      /\ asked \in [Kinds \cup {"timeout"} -> Questions] /\ signal \in Signals
      /\ ext \in [Kinds -> 0..MaxExtensions] /\ late \in [Kinds -> SUBSET (0..MaxExtensions)]
      /\ refused \in BOOLEAN
    BY DEF RInv, BudgetInv
<1>2. /\ fleet \in BOOLEAN /\ cur \in Runs /\ run \in {"running", "ending"} \cup Over
      /\ result \in {"none", "done", "failed", "aborted"}
      /\ told \in BOOLEAN /\ aborted \in BOOLEAN /\ news \in BOOLEAN
      /\ watch \in [Runs -> Watchdogs] /\ outlived \subseteq Runs /\ strays \subseteq Runs
    BY DEF RInv, RunInv, StrayInv
<1> QED
    BY <1>1, <1>2 DEF RunTypeOK, Questions, Signals, Watchdogs

-----------------------------------------------------------------------------
(* Which kind a signal names *)

\* A least element, from the well-foundedness of finite sets under inclusion.
LEMMA LeastNatural ==
    ASSUME NEW T \in SUBSET Nat, T # {}
    PROVE  \E m \in T : \A n \in T : m <= n
<1> DEFINE F == {1..x : x \in T}
           R == StrictSubsetOrdering(Nat)
           W == FiniteSubsetsOf(Nat)
<1>1. IsWellFoundedOn(R, W)
    BY FS_StrictSubsetOrderingWellFounded
<1>2. F # {} /\ F \subseteq W
    <2>1. \A x \in Nat : IsFiniteSet(1..x)
        BY FS_Interval
    <2>2. F # {}
        OBVIOUS
    <2>3. F \subseteq W
        BY <2>1 DEF FiniteSubsetsOf
    <2> QED
        BY <2>2, <2>3
<1>3. PICK S \in F : \A U \in F : ~ (<<U, S>> \in R)
    <2> HIDE DEF F, R, W
    <2> QED
        BY <1>1, <1>2, WFMin
<1>4. PICK m \in T : S = 1..m
    BY <1>3
<1>5. ASSUME NEW n \in T, n < m PROVE FALSE
    <2>1. m \in 1..m /\ m \notin 1..n
        BY <1>5
    <2>2. 1..n \in F /\ 1..n \subseteq 1..m /\ 1..n # 1..m
        BY <1>5, <2>1
    <2>3. <<1..n, 1..m>> \in R
        BY <2>2 DEF StrictSubsetOrdering
    <2> QED
        BY <1>3, <1>4, <2>2, <2>3
<1> QED
    BY <1>5

LEMMA KindNames == "timeout" \notin Kinds /\ "none" \notin Kinds
BY RunAssumption DEF Kinds

\* exceeded[0] is one of the exceeded kinds.
LEMMA FirstIn ==
    ASSUME NEW S \in SUBSET (Kinds \cup {"timeout"}), S # {}
    PROVE  First(S) \in S
<1>1. CASE S = {"timeout"}
    BY <1>1 DEF First
<1>2. CASE S # {"timeout"}
    <2> DEFINE I == {i \in DOMAIN Counted : Counted[i] \in S}
    <2>1. I # {} /\ I \subseteq Nat /\ DOMAIN Counted = 1..Len(Counted)
        BY <1>2, RunAssumption DEF Kinds
    <2>2. PICK i \in I : \A j \in I : i <= j
        BY <2>1, LeastNatural
    <2>3. \A j \in 1..(i - 1) : Counted[j] \notin S
        BY <2>1, <2>2
    <2>4. \E j \in DOMAIN Counted :
              Counted[j] \in S /\ \A h \in 1..(j - 1) : Counted[h] \notin S
        BY <2>2, <2>3
    <2> QED
        BY <1>2, <2>4 DEF First
<1> QED
    BY <1>1, <1>2

-----------------------------------------------------------------------------
(* checkLimits() and the answers *)

\* What a step does to the questions and the signal, whoever takes it.
Answers ==
    /\ asked' \in [Kinds \cup {"timeout"} -> Questions]
    /\ signal' \in Signals
    /\ ext' \in [Kinds -> 0..MaxExtensions]
    /\ refused' \in BOOLEAN
    /\ Asking'
    /\ SignalAnswered' /\ Named'
    /\ signal'.decision = "stop" => refused'
    /\ refused => refused'

LEMMA NegotiateOK ==
    ASSUME BudgetInv, NEW over \in SUBSET (Kinds \cup {"timeout"}), over # {},
           NEW u \in [Kinds -> 0..MaxUse], \A k \in Kinds \cap over : u[k] # 0,
           Negotiate(over, u), late' = late
    PROVE  Answers /\ told' = told
<1> DEFINE new == {k \in over : asked[k].st = "no"}
           no == {k \in new : Refuses(k)}
           f == First(over)
<1>1. f \in over /\ f \in Kinds \cup {"timeout"}
    BY FirstIn
<1>2. /\ asked' = [k \in DOMAIN asked |->
                     IF k \in new \ no THEN Question(k, u) ELSE asked[k]]
      /\ ext' = Forget(no)
      /\ refused' = (refused \/ no # {})
      /\ signal' = [kind |-> f, decision |-> IF f \in no THEN "stop" ELSE "open"]
      /\ told' = told
    BY DEF Negotiate
<1>3. asked \in [Kinds \cup {"timeout"} -> Questions] /\ ext \in [Kinds -> 0..MaxExtensions]
    BY DEF BudgetInv
<1>4. \A k \in new \ no :
          /\ Question(k, u) \in Questions /\ Question(k, u).st # "no"
          /\ k \in Kinds => /\ Question(k, u).base # 0
                            /\ Question(k, u).prior < MaxExtensions
    BY <1>3, KindNames, RunAssumption DEF Question, Questions, Refuses
<1>5. asked' \in [Kinds \cup {"timeout"} -> Questions]
    BY <1>2, <1>3, <1>4
<1>6. \A k \in Kinds \cup {"timeout"} :
          asked'[k] = IF k \in new \ no THEN Question(k, u) ELSE asked[k]
    BY <1>2, <1>3
<1>7. signal' \in Signals
    BY <1>1, <1>2 DEF Signals
<1>8. ext' \in [Kinds -> 0..MaxExtensions]
    BY <1>2, <1>3, RunAssumption DEF Forget
<1>9. Asking'
    BY <1>4, <1>6 DEF BudgetInv, Asking
<1>10. signal'.kind = f /\ (signal'.decision = "open" => f \notin no)
       /\ (signal'.decision = "stop" => f \in no)
    BY <1>2
<1> HIDE DEF f
<1>11. SignalAnswered'
    BY <1>1, <1>4, <1>6, <1>10 DEF SignalAnswered
<1> HIDE DEF no
<1>12. refused \in BOOLEAN
    BY DEF BudgetInv
<1>13. Named'
    BY <1>1, <1>10, KindNames DEF Named
<1> QED
    BY <1>2, <1>5, <1>7, <1>8, <1>9, <1>10, <1>11, <1>12, <1>13 DEF Answers

LEMMA CheckLimitsOK ==
    ASSUME BudgetInv, NEW over \in SUBSET (Kinds \cup {"timeout"}),
           NEW u \in [Kinds -> 0..MaxUse], \A k \in Kinds \cap over : u[k] # 0,
           CheckLimits(over, u), late' = late, told \in BOOLEAN
    PROVE  Answers /\ told' \in BOOLEAN
<1>1. CASE over = {}
    <2>1. UNCHANGED <<asked, ext, refused, signal, told, late>>
        BY <1>1 DEF CheckLimits
    <2> QED
        BY <2>1 DEF Answers, BudgetInv, Asking, SignalAnswered, Named
<1>2. CASE over # {} /\ Negotiate(over, u)
    BY <1>2, NegotiateOK
<1>3. CASE over # {} /\ HardStop(over)
    <2>1. First(over) \in Kinds \cup {"timeout"}
        BY <1>3, FirstIn
    <2>2. /\ signal' \in Signals /\ signal'.decision = "stop"
          /\ refused' = TRUE /\ told' = TRUE /\ UNCHANGED <<asked, ext, late>>
        BY <1>3, <2>1 DEF HardStop, Signals
    <2> QED
        BY <2>2 DEF Answers, BudgetInv, Asking, SignalAnswered, Named
<1> QED
    BY <1>1, <1>2, <1>3 DEF CheckLimits

\* What settling a question leaves.
LEMMA DecidedOK ==
    ASSUME BudgetInv, NEW k \in Kinds \cup {"timeout"}, NEW d \in {"extend", "stop"},
           Decided(k, d)
    PROVE  /\ asked' \in [Kinds \cup {"timeout"} -> Questions]
           /\ \A j \in Kinds \cup {"timeout"} : j # k => asked'[j] = asked[j]
           /\ asked'[k] = NotAsked
           /\ signal' \in Signals
           /\ SignalAnswered' /\ Named'
           /\ signal'.decision = "stop" => signal.decision = "stop" \/ d = "stop"
<1>1. /\ asked \in [Kinds \cup {"timeout"} -> Questions] /\ signal \in Signals
      /\ asked' = [asked EXCEPT ![k] = NotAsked]
      /\ signal' = IF signal = [kind |-> k, decision |-> "open"]
                   THEN [signal EXCEPT !.decision = d] ELSE signal
    BY DEF Decided, BudgetInv
<1>2. NotAsked \in Questions
    BY RunAssumption DEF NotAsked, Questions
<1>3. /\ asked' \in [Kinds \cup {"timeout"} -> Questions]
      /\ \A j \in Kinds \cup {"timeout"} : j # k => asked'[j] = asked[j]
      /\ asked'[k] = NotAsked
    BY <1>1, <1>2
<1>4. /\ signal' \in Signals
      /\ signal'.decision = "open" => signal' = signal
      /\ signal'.decision = "stop" => signal.decision = "stop" \/ d = "stop"
      /\ signal.decision = "open" /\ signal.kind = k => signal'.decision # "open"
    BY <1>1 DEF Signals
<1>5. SignalAnswered'
    <2> SUFFICES ASSUME signal'.decision = "open"
                 PROVE  asked'[signal'.kind].st # "no"
        BY DEF SignalAnswered
    <2>1. signal' = signal /\ signal.kind # k /\ asked[signal.kind].st # "no"
        BY <1>4 DEF BudgetInv, SignalAnswered
    <2>2. signal.kind # "none"
        BY <2>1 DEF BudgetInv, Named
    <2> QED
        BY <1>1, <1>3, <2>1, <2>2 DEF Signals
<1>6. Named'
    BY <1>4 DEF BudgetInv, Named
<1> QED
    BY <1>3, <1>4, <1>5, <1>6

-----------------------------------------------------------------------------
(* The budget's half of the invariant, action by action *)

LEMMA SameBudget ==
    ASSUME BudgetInv, UNCHANGED <<budget, policy>>
    PROVE  BudgetInv'
BY DEF BudgetInv, Asking, SignalAnswered, Named, budget, policy

\* An action that settles the question of k.
LEMMA SettledOK ==
    ASSUME BudgetInv, NEW k \in Kinds \cup {"timeout"}, NEW d \in {"extend", "stop"},
           Decided(k, d), used' = used,
           limit' \in [Kinds -> 1..Ceiling], ext' \in [Kinds -> 0..MaxExtensions],
           late' \in [Kinds -> SUBSET (0..MaxExtensions)],
           \A j \in Kinds : \A n \in late'[j] : n < MaxExtensions,
           refused' \in BOOLEAN, refused => refused', d = "stop" => refused'
    PROVE  BudgetInv'
<1>1. Asking'
    BY DecidedOK DEF BudgetInv, Asking, NotAsked
<1> QED
    BY <1>1, DecidedOK DEF BudgetInv

LEMMA GrownRange ==
    ASSUME NEW b \in Nat, b # 0
    PROVE  Grown(b) \in 1..Ceiling
<1>1. (3 * b + 1) \div 2 \in Nat \ {0}
    OBVIOUS
<1> QED
    BY <1>1, RunAssumption DEF Grown

LEMMA RecordBudget ==
    ASSUME RInv, NEW k \in Kinds, Record(k)
    PROVE  BudgetInv' /\ told' \in BOOLEAN /\ (refused => refused')
<1>1. used' \in [Kinds -> 0..MaxUse]
    BY RunAssumption DEF Record, RInv, BudgetInv
<1>2. Exceeded(used') \in SUBSET (Kinds \cup {"timeout"})
    BY DEF Exceeded
<1>3. \A j \in Kinds \cap Exceeded(used') : used'[j] # 0
    BY <1>1, RunAssumption DEF Exceeded, RInv, BudgetInv
<1>4. CheckLimits(Exceeded(used'), used') /\ late' = late /\ limit' = limit
    BY DEF Record
<1>5. Answers /\ told' \in BOOLEAN
    BY <1>1, <1>2, <1>3, <1>4, CheckLimitsOK DEF RInv, RunInv
<1> QED
    BY <1>1, <1>4, <1>5 DEF Answers, RInv, BudgetInv

LEMMA ToolProgressBudget ==
    ASSUME RInv, ToolProgress
    PROVE  BudgetInv' /\ told' \in BOOLEAN /\ (refused => refused')
<1> DEFINE tripped == watch[cur].clock = "over" /\ watch[cur].st # "granting"
           over == IF tripped THEN Exceeded(used) \cup {"timeout"} ELSE {}
<1>1. over \in SUBSET (Kinds \cup {"timeout"})
    BY DEF Exceeded
<1>2. \A j \in Kinds \cap over : used[j] # 0
    BY KindNames, RunAssumption DEF Exceeded, RInv, BudgetInv
<1>3. CheckLimits(over, used) /\ UNCHANGED <<used, limit, late>>
    BY DEF ToolProgress
<1> HIDE DEF over
<1>4. Answers /\ told' \in BOOLEAN
    BY <1>1, <1>2, <1>3, CheckLimitsOK DEF RInv, BudgetInv, RunInv
<1> QED
    BY <1>3, <1>4 DEF Answers, RInv, BudgetInv

LEMMA KindBudget ==
    ASSUME BudgetInv, NEW k \in Kinds,
           BrainGrants(k) \/ BrainDenies(k) \/ Extend(k) \/ GiveUp(k)
    PROVE  BudgetInv' /\ (refused => refused')
<1>1. CASE BrainGrants(k)
    <2>1. UNCHANGED <<used, limit, signal, refused, ext, late>>
        BY <1>1 DEF BrainGrants, policy
    <2>2. /\ asked' \in [Kinds \cup {"timeout"} -> Questions] /\ asked'[k].st = "granting"
          /\ asked'[k].base = asked[k].base /\ asked'[k].prior = asked[k].prior
          /\ \A j \in Kinds \cup {"timeout"} : j # k => asked'[j] = asked[j]
        BY <1>1 DEF BrainGrants, BudgetInv, Questions
    <2>3. asked[k].st # "no"
        BY <1>1 DEF BrainGrants
    <2>4. Asking'
        BY <2>1, <2>2, <2>3 DEF BudgetInv, Asking
    <2>5. SignalAnswered' /\ Named'
        BY <2>1, <2>2 DEF BudgetInv, SignalAnswered, Named, Signals
    <2> QED
        BY <2>1, <2>2, <2>4, <2>5 DEF BudgetInv
<1>2. CASE BrainDenies(k)
    <2>1. Decided(k, "stop") /\ refused' = TRUE /\ UNCHANGED <<used, limit, ext, late>>
        BY <1>2 DEF BrainDenies, policy
    <2> QED
        BY <2>1, SettledOK DEF BudgetInv, Asking
<1>3. CASE Extend(k)
    <2>1. /\ Decided(k, "extend") /\ UNCHANGED <<used, refused, late>>
          /\ asked[k].st = "granting"
          /\ ext' = [ext EXCEPT ![k] = asked[k].prior + 1]
          /\ limit' = [limit EXCEPT ![k] = Grown(asked[k].base)]
        BY <1>3 DEF Extend
    <2>2. asked[k].base \in Nat \ {0} /\ asked[k].prior + 1 \in 0..MaxExtensions
        BY <2>1, RunAssumption DEF BudgetInv, Asking, Questions
    <2>3. limit' \in [Kinds -> 1..Ceiling]
        BY <2>1, <2>2, GrownRange DEF BudgetInv
    <2>4. ext' \in [Kinds -> 0..MaxExtensions]
        BY <2>1, <2>2 DEF BudgetInv
    <2> QED
        BY <2>1, <2>3, <2>4, SettledOK DEF BudgetInv, Asking
<1>4. CASE GiveUp(k)
    <2>1. /\ Decided(k, "stop") /\ refused' = TRUE /\ UNCHANGED <<used, limit, ext>>
          /\ asked[k].st = "asked"
          /\ late' = [late EXCEPT ![k] = @ \cup {asked[k].prior}]
        BY <1>4 DEF GiveUp
    <2>2. asked[k].prior \in 0..MaxExtensions /\ asked[k].prior < MaxExtensions
        BY <2>1 DEF BudgetInv, Asking, Questions
    <2>3. /\ late' \in [Kinds -> SUBSET (0..MaxExtensions)]
          /\ \A j \in Kinds : \A n \in late'[j] : n < MaxExtensions
        BY <2>1, <2>2 DEF BudgetInv, Asking
    <2> QED
        BY <2>1, <2>3, SettledOK DEF BudgetInv
<1> QED
    BY <1>1, <1>2, <1>3, <1>4

LEMMA ExtendClockBudget ==
    ASSUME BudgetInv, ExtendClock
    PROVE  BudgetInv' /\ refused' = refused
<1>1. Decided("timeout", "extend") /\ UNCHANGED <<used, limit, refused, ext, late>>
    BY DEF ExtendClock, policy
<1> QED
    BY <1>1, SettledOK DEF BudgetInv, Asking

LEMMA LateGrantBudget ==
    ASSUME BudgetInv, NEW k \in Kinds, NEW n \in late[k], LateGrant(k, n)
    PROVE  BudgetInv' /\ refused' = refused
<1>1. /\ UNCHANGED <<used, limit, asked, signal, refused>>
      /\ late' = [late EXCEPT ![k] = @ \ {n}]
      /\ ext' = ext \/ ext' = [ext EXCEPT ![k] = n + 1]
    BY DEF LateGrant, budget
<1>2. n + 1 \in 0..MaxExtensions
    BY RunAssumption DEF BudgetInv, Asking
<1>3. ext' \in [Kinds -> 0..MaxExtensions]
    BY <1>1, <1>2 DEF BudgetInv
<1>4. /\ late' \in [Kinds -> SUBSET (0..MaxExtensions)]
      /\ \A j \in Kinds : late'[j] \subseteq late[j]
    BY <1>1 DEF BudgetInv
<1>5. Asking'
    BY <1>1, <1>4 DEF BudgetInv, Asking
<1> QED
    BY <1>1, <1>3, <1>4, <1>5 DEF BudgetInv, SignalAnswered, Named

LEMMA DispatchBudget ==
    ASSUME BudgetInv, Dispatch
    PROVE  BudgetInv'
<1>1. /\ used' = [k \in Kinds |-> 0] /\ limit' = [k \in Kinds |-> FirstLimit]
      /\ late' = [k \in Kinds |-> late[k] \cup
                      IF asked[k].st = "no" THEN {} ELSE {asked[k].prior}]
      /\ asked' = [k \in DOMAIN asked |-> NotAsked]
      /\ signal' = NoSignal /\ refused' = FALSE /\ ext' = ext
    BY DEF Dispatch
<1>2. /\ used' \in [Kinds -> 0..MaxUse] /\ limit' \in [Kinds -> 1..Ceiling]
      /\ ext' \in [Kinds -> 0..MaxExtensions]
    BY <1>1, RunAssumption DEF BudgetInv
<1>3. /\ asked' \in [Kinds \cup {"timeout"} -> Questions]
      /\ \A k \in Kinds : asked'[k].st = "no"
    BY <1>1, RunAssumption DEF NotAsked, Questions, BudgetInv
<1>4. signal' \in Signals /\ signal'.decision = "none"
    BY <1>1 DEF NoSignal, Signals
<1>5. \A k \in Kinds : asked[k].st # "no" => /\ asked[k].prior \in 0..MaxExtensions
                                             /\ asked[k].prior < MaxExtensions
    BY DEF BudgetInv, Asking, Questions
<1>6. /\ late' \in [Kinds -> SUBSET (0..MaxExtensions)]
      /\ \A k \in Kinds : \A n \in late'[k] : n < MaxExtensions
    BY <1>1, <1>5 DEF BudgetInv, Asking
<1> QED
    BY <1>1, <1>2, <1>3, <1>4, <1>6 DEF BudgetInv, Asking, SignalAnswered, Named

\* The question of an agent nobody waits for.
LEMMA StrayBudget ==
    ASSUME BudgetInv, NEW r \in Runs, StrayTool(r)
    PROVE  BudgetInv'
<1>1. UNCHANGED <<used, limit, asked, signal, refused>>
    BY DEF StrayTool, budget
<1>2. CASE UNCHANGED policy
    BY <1>1, <1>2 DEF policy, BudgetInv, Asking, SignalAnswered, Named
<1>3. CASE \E k \in Kinds : Refuses(k) /\ ext' = Forget({k}) /\ UNCHANGED late
    <2>1. PICK k \in Kinds : ext' = Forget({k}) /\ UNCHANGED late
        BY <1>3
    <2>2. ext' \in [Kinds -> 0..MaxExtensions]
        BY <2>1, RunAssumption DEF BudgetInv, Forget
    <2> QED
        BY <1>1, <2>1, <2>2 DEF BudgetInv, Asking, SignalAnswered, Named
<1>4. CASE \E k \in Kinds : /\ ~Refuses(k) /\ UNCHANGED ext
                            /\ late' = [late EXCEPT ![k] = @ \cup {ext[k]}]
    <2>1. PICK k \in Kinds : /\ ~Refuses(k) /\ UNCHANGED ext
                             /\ late' = [late EXCEPT ![k] = @ \cup {ext[k]}]
        BY <1>4
    <2>2. ext[k] \in 0..MaxExtensions /\ ext[k] < MaxExtensions
        <3>1. k # "timeout"
            BY RunAssumption DEF Kinds
        <3> QED
            BY <2>1, <3>1, RunAssumption DEF Refuses, BudgetInv
    <2>3. /\ late' \in [Kinds -> SUBSET (0..MaxExtensions)]
          /\ \A j \in Kinds : \A n \in late'[j] : n < MaxExtensions
        BY <2>1, <2>2 DEF BudgetInv, Asking
    <2> QED
        BY <1>1, <2>1, <2>3 DEF BudgetInv, Asking, SignalAnswered, Named
<1> QED
    BY <1>2, <1>3, <1>4 DEF StrayTool

-----------------------------------------------------------------------------
(* The run's half *)

\* The watchdogs that are off or on stay so, and nothing of the run changes.
LEMMA SameRun ==
    ASSUME RunInv, UNCHANGED <<fleet, cur, run, result, aborted, outlived>>,
           told' \in BOOLEAN, news' \in BOOLEAN, watch' \in [Runs -> Watchdogs],
           \A r \in Runs : watch'[r].st = "off" <=> watch[r].st = "off",
           refused => refused'
    PROVE  RunInv'
<1>1. FailureIsRefusal'
    BY DEF RunInv, FailureIsRefusal
<1>2. Leftover' /\ AbortIsLate'
    BY DEF RunInv, Leftover, AbortIsLate, Watching
<1> QED
    BY <1>1, <1>2 DEF RunInv

\* markActivity()
LEMMA ActiveOK ==
    ASSUME RunInv, Active(cur)
    PROVE  /\ watch' \in [Runs -> Watchdogs]
           /\ \A r \in Runs : watch'[r].st = "off" <=> watch[r].st = "off"
<1>1. watch \in [Runs -> Watchdogs]
    BY DEF RunInv
<1>2. watch' = [watch EXCEPT ![cur] = [watch[cur] EXCEPT !.idle = FALSE, !.fresh = TRUE]]
    BY <1>1 DEF Active
<1>3. ASSUME NEW w \in Watchdogs
      PROVE  /\ [w EXCEPT !.idle = FALSE, !.fresh = TRUE] \in Watchdogs
             /\ [w EXCEPT !.idle = FALSE, !.fresh = TRUE].st = w.st
    BY DEF Watchdogs
<1> QED
    BY <1>1, <1>2, <1>3

LEMMA AgentRun ==
    ASSUME RInv, \/ \E k \in Kinds : Record(k)
                 \/ TextDelta
                 \/ ToolProgress
    PROVE  RunInv'
<1>1. ASSUME NEW k \in Kinds, Record(k) PROVE RunInv'
    <2>1. told' \in BOOLEAN /\ (refused => refused')
        BY <1>1, RecordBudget
    <2>2. /\ UNCHANGED <<fleet, cur, run, result, aborted, outlived>>
          /\ news' \in BOOLEAN /\ Active(cur)
        BY <1>1 DEF Record
    <2> QED
        BY <2>1, <2>2, ActiveOK, SameRun DEF RInv
<1>2. CASE TextDelta
    <2>1. /\ UNCHANGED <<fleet, cur, run, result, told, news, refused, aborted, outlived>>
          /\ Active(cur)
        BY <1>2 DEF TextDelta, life, budget
    <2>2. told' \in BOOLEAN /\ news' \in BOOLEAN
        BY <2>1 DEF RInv, RunInv
    <2> QED
        BY <2>1, <2>2, ActiveOK, SameRun DEF RInv
<1>3. CASE ToolProgress
    <2>1. told' \in BOOLEAN /\ (refused => refused')
        BY <1>3, ToolProgressBudget
    <2>2. /\ UNCHANGED <<fleet, cur, run, result, aborted, outlived>>
          /\ news' \in BOOLEAN /\ Active(cur)
        BY <1>3 DEF ToolProgress
    <2> QED
        BY <2>1, <2>2, ActiveOK, SameRun DEF RInv
<1> QED
    BY <1>1, <1>2, <1>3

\* The answers of the brain and the Director.
LEMMA AnswerRun ==
    ASSUME RInv, \/ \E k \in Kinds : BrainGrants(k) \/ BrainDenies(k) \/ Extend(k) \/ GiveUp(k)
                 \/ \E k \in Kinds : \E n \in late[k] : LateGrant(k, n)
                 \/ ExtendClock
    PROVE  RunInv'
<1>1. UNCHANGED <<fleet, life, news, outlived>>
    BY DEF BrainGrants, BrainDenies, Extend, GiveUp, LateGrant, ExtendClock
<1>2. refused => refused'
    BY KindBudget, LateGrantBudget, ExtendClockBudget DEF RInv
<1>3. /\ watch' \in [Runs -> Watchdogs]
      /\ \A r \in Runs : watch'[r].st = "off" <=> watch[r].st = "off"
    <2>1. CASE ExtendClock
        BY <2>1 DEF ExtendClock, RInv, RunInv, Watchdogs
    <2>2. CASE watch' = watch
        BY <2>2 DEF RInv, RunInv
    <2> QED
        BY <2>1, <2>2 DEF BrainGrants, BrainDenies, Extend, GiveUp, LateGrant
<1>4. UNCHANGED <<cur, run, result, aborted>> /\ told' \in BOOLEAN /\ news' \in BOOLEAN
    BY <1>1 DEF life, RInv, RunInv
<1> QED
    BY <1>1, <1>2, <1>3, <1>4, SameRun DEF RInv

LEMMA StrayRun ==
    ASSUME RInv, NEW r \in Runs, StrayTool(r)
    PROVE  RunInv'
<1>1. /\ UNCHANGED <<fleet, cur, run, result, told, aborted, refused, watch, outlived>>
      /\ news' = (news \/ fleet)
    BY DEF StrayTool, budget
<1>2. told' \in BOOLEAN /\ watch' \in [Runs -> Watchdogs]
    BY <1>1 DEF RInv, RunInv
<1>3. news' \in BOOLEAN
    BY <1>1 DEF RInv, RunInv
<1> QED
    BY <1>1, <1>2, <1>3, SameRun DEF RInv

\* Time, and a watchdog that goes on or waits for its grant.
LEMMA ClockRun ==
    ASSUME RInv, NEW r \in Runs, ClockRuns(r) \/ GoesIdle(r) \/ MoreTime(r)
    PROVE  RunInv'
<1>1. UNCHANGED <<fleet, cur, run, result, told, aborted, refused, news, outlived>>
    BY DEF ClockRuns, GoesIdle, MoreTime, life, budget
<1>2. /\ watch' \in [Runs -> Watchdogs]
      /\ \A h \in Runs : watch'[h].st = "off" <=> watch[h].st = "off"
    <2>1. CASE ClockRuns(r)
        BY <2>1 DEF ClockRuns, RInv, RunInv, Watchdogs
    <2>2. CASE GoesIdle(r)
        BY <2>2 DEF GoesIdle, RInv, RunInv, Watchdogs
    <2>3. CASE MoreTime(r)
        <3> DEFINE n == [Armed EXCEPT !.idle = watch[r].idle, !.fresh = FALSE]
        <3>1. Armed \in Watchdogs /\ Armed.st = "armed" /\ watch[r] \in Watchdogs
            BY DEF Armed, Off, Watchdogs, RInv, RunInv
        <3>2. n \in Watchdogs /\ n.st = "armed"
            BY <3>1 DEF Watchdogs
        <3>3. watch[r].st = "granting" /\ watch' = [watch EXCEPT ![r] = n]
            BY <2>3 DEF MoreTime
        <3> HIDE DEF n
        <3> QED
            BY <3>2, <3>3 DEF RInv, RunInv
    <2> QED
        BY <2>1, <2>2, <2>3
<1>3. told' \in BOOLEAN /\ news' \in BOOLEAN
    BY <1>1 DEF RInv, RunInv
<1> QED
    BY <1>1, <1>2, <1>3, SameRun DEF RInv

\* terminate(): who rejects the run that is over already had outlived it.
LEMMA RejectOK ==
    ASSUME RInv, NEW r \in Runs, NEW how \in {"timeout", "stopped"}, watch[r].st = "armed",
           Reject(r, how), UNCHANGED <<fleet, refused, news, outlived>>,
           how = "stopped" => run = "running"
    PROVE  RunInv'
<1>1. /\ watch' = [watch EXCEPT ![r] = Off] /\ Off \in Watchdogs /\ Off.st = "off"
      /\ cur' = cur /\ result' = result
    BY DEF Reject, Off, Watchdogs
<1>2. /\ watch' \in [Runs -> Watchdogs] /\ watch'[r].st = "off"
      /\ \A h \in Runs : h # r => watch'[h] = watch[h]
    BY <1>1 DEF RInv, RunInv
<1>3. CASE r = cur /\ run \notin Over
    <2>1. run' = how /\ aborted' = FALSE /\ told' = told
        BY <1>3 DEF Reject, Recycled
    <2>2. how \in Over /\ run' # "running"
        BY <2>1 DEF Over
    <2>3. FailureIsRefusal'
        BY <1>1, <2>1 DEF RInv, RunInv, FailureIsRefusal
    <2>4. Leftover'
        BY <1>1, <1>2, <1>3 DEF RInv, RunInv, Leftover, Watching
    <2>5. AbortIsLate'
        BY <2>1 DEF AbortIsLate
    <2> QED
        BY <1>1, <1>2, <2>1, <2>2, <2>3, <2>4, <2>5 DEF RInv, RunInv
<1>4. CASE ~(r = cur /\ run \notin Over)
    <2>1. run' = run /\ aborted' = TRUE /\ told' \in BOOLEAN
        BY <1>4 DEF Reject, RInv, RunInv
    <2>2. r \in outlived
        BY <1>4 DEF RInv, RunInv, Leftover, Watching
    <2>3. AbortIsLate'
        BY <1>2, <2>2 DEF AbortIsLate, Watching
    <2>4. Leftover'
        BY <1>1, <1>2, <2>1 DEF RInv, RunInv, Leftover, Watching
    <2>5. FailureIsRefusal'
        BY <1>1, <2>1 DEF RInv, RunInv, FailureIsRefusal
    <2> QED
        BY <1>1, <1>2, <2>1, <2>3, <2>4, <2>5 DEF RInv, RunInv
<1> QED
    BY <1>3, <1>4

LEMMA TickRun ==
    ASSUME RInv, NEW r \in Runs, Tick(r)
    PROVE  RunInv'
<1>1. UNCHANGED <<fleet, refused, outlived>>
    BY DEF Tick, TickIdle, TickPreempt, TickDeadline, budget
<1>2. CASE TickIdle(r)
    BY <1>1, <1>2, RejectOK DEF TickIdle
<1>3. ASSUME Granted(r), watch[r].st = "armed" PROVE RunInv'
    <2>1. /\ UNCHANGED <<cur, run, result, told, aborted>> /\ news' = FALSE
          /\ watch' = [watch EXCEPT ![r].st = "granting"]
        BY <1>3 DEF Granted, life
    <2>2. /\ watch' \in [Runs -> Watchdogs]
          /\ \A h \in Runs : watch'[h].st = "off" <=> watch[h].st = "off"
        BY <1>3, <2>1 DEF RInv, RunInv, Watchdogs
    <2>3. told' \in BOOLEAN
        BY <2>1 DEF RInv, RunInv
    <2> QED
        BY <1>1, <2>1, <2>2, <2>3, SameRun DEF RInv
<1>4. CASE TickPreempt(r)
    <2>1. CASE watch[r].fresh /\ Gives(r)
        BY <1>3, <1>4, <2>1 DEF TickPreempt
    <2>2. CASE ~(watch[r].fresh /\ Gives(r))
        <3>1. /\ watch' = [watch EXCEPT ![r].locked = TRUE]
              /\ UNCHANGED <<cur, run, result, told, aborted, news>>
            BY <1>4, <2>2 DEF TickPreempt, life
        <3>2. /\ watch' \in [Runs -> Watchdogs]
              /\ \A h \in Runs : watch'[h].st = "off" <=> watch[h].st = "off"
            BY <3>1 DEF RInv, RunInv, Watchdogs
        <3>3. told' \in BOOLEAN /\ news' \in BOOLEAN
            BY <3>1 DEF RInv, RunInv
        <3> QED
            BY <1>1, <3>1, <3>2, <3>3, SameRun DEF RInv
    <2> QED
        BY <2>1, <2>2
<1>5. CASE TickDeadline(r)
    <2>1. CASE Gives(r)
        BY <1>3, <1>5, <2>1 DEF TickDeadline
    <2>2. CASE ~Gives(r)
        <3> DEFINE how == IF Heard(r) THEN "stopped" ELSE "timeout"
        <3>1. Reject(r, how) /\ news' = news /\ watch[r].st = "armed"
            BY <1>5, <2>2 DEF TickDeadline
        <3>2. how \in {"timeout", "stopped"} /\ (how = "stopped" => run = "running")
            BY DEF Heard
        <3> HIDE DEF how
        <3> QED
            BY <1>1, <3>1, <3>2, RejectOK
    <2> QED
        BY <2>1, <2>2
<1> QED
    BY <1>2, <1>4, <1>5 DEF Tick

\* The end of a run: the timer is cleared, or it is remembered as left over.
LEMMA EndRun ==
    ASSUME RInv, (\E how \in {"done", "failed", "aborted"} : AgentReturns(how)) \/ Settle
    PROVE  RunInv'
<1>1. ASSUME NEW how \in {"done", "failed", "aborted"}, AgentReturns(how) PROVE RunInv'
    <2>1. /\ UNCHANGED <<fleet, cur, told, aborted, refused, news, watch, outlived>>
          /\ run = "running" /\ run' = "ending" /\ result' = how
        BY <1>1 DEF AgentReturns, budget
    <2>2. "ending" \notin Over /\ "running" \notin Over
        BY DEF Over
    <2>3. Leftover' /\ AbortIsLate'
        BY <2>1, <2>2 DEF RInv, RunInv, Leftover, AbortIsLate, Watching
    <2> QED
        BY <2>1, <2>3 DEF RInv, RunInv, FailureIsRefusal
<1>2. CASE Settle
    <2>1. /\ UNCHANGED <<fleet, cur, result, told, refused, news>>
          /\ run = "ending" /\ run' = Verdict /\ aborted' = FALSE
          /\ watch' = Cleared
          /\ outlived' = IF watch[cur].st = "granting" THEN outlived \cup {cur} ELSE outlived
        BY <1>2 DEF Settle, budget, Recycled
    <2>2. Verdict \in Over /\ (Verdict \in {"failed", "stopped"} /\ result = "done" => refused)
        BY DEF Verdict, Over, RInv, BudgetInv
    <2>3. /\ watch' \in [Runs -> Watchdogs]
          /\ \A r \in Runs : r # cur => watch'[r] = watch[r]
          /\ watch'[cur].st = IF watch[cur].st = "armed" THEN "off" ELSE watch[cur].st
        BY <2>1 DEF Cleared, Off, Watchdogs, RInv, RunInv
    <2>4. cur \in Runs /\ outlived' \subseteq Runs /\ outlived \subseteq outlived'
        BY <2>1 DEF RInv, RunInv
    <2>5. watch[cur].st \in {"off", "armed", "granting"}
        BY DEF RInv, RunInv, Watchdogs
    <2>6. \A r \in outlived' : r <= cur'
        <3>1. cur <= cur
            BY <2>4 DEF Runs
        <3> QED
            BY <2>1, <3>1 DEF RInv, RunInv, Leftover
    <2>7. \A r \in Runs : r > cur' => r # cur
        BY <2>1 DEF Runs, RInv, RunInv
    <2>8. Leftover'
        BY <2>1, <2>3, <2>4, <2>5, <2>6, <2>7 DEF RInv, RunInv, Leftover, Watching
    <2>9. AbortIsLate' /\ FailureIsRefusal'
        BY <2>1, <2>2 DEF AbortIsLate, FailureIsRefusal
    <2>10. run' # "running"
        BY <2>1, <2>2 DEF Over
    <2> QED
        BY <2>1, <2>2, <2>3, <2>4, <2>8, <2>9, <2>10 DEF RInv, RunInv
<1> QED
    BY <1>1, <1>2

LEMMA DispatchRun ==
    ASSUME RInv, Dispatch
    PROVE  RunInv'
<1>1. /\ run \in Over /\ cur < NumRuns /\ cur' = cur + 1
      /\ run' = "running" /\ result' = "none" /\ told' = FALSE
      /\ watch' = [watch EXCEPT ![cur + 1] = Armed]
      /\ UNCHANGED <<fleet, aborted, news, outlived>>
    BY DEF Dispatch
<1>2. cur \in Nat /\ cur + 1 \in Runs /\ \A r \in Runs : r \in Nat
    BY <1>1, RunAssumption DEF RInv, RunInv, Runs
<1>3. Armed \in Watchdogs /\ Armed.st = "armed"
    BY DEF Armed, Off, Watchdogs
<1>4. /\ watch' \in [Runs -> Watchdogs]
      /\ \A r \in Runs : r # cur + 1 => watch'[r] = watch[r]
    BY <1>1, <1>2, <1>3 DEF RInv, RunInv
<1>5. Leftover'
    <2>1. run' \notin Over
        BY <1>1 DEF Over
    <2>2. \A r \in outlived : r \in Nat /\ r <= cur
        BY <1>2 DEF RInv, RunInv, Leftover
    <2> QED
        BY <1>1, <1>2, <1>4, <2>1, <2>2 DEF RInv, RunInv, Leftover, Watching
<1>6. AbortIsLate'
    BY <1>1, <1>2, <1>4 DEF RInv, RunInv, Leftover, AbortIsLate, Watching
<1>7. FailureIsRefusal'
    BY <1>1 DEF FailureIsRefusal
<1> QED
    BY <1>1, <1>2, <1>4, <1>5, <1>6, <1>7 DEF RInv, RunInv

-----------------------------------------------------------------------------
(* The theorems *)

LEMMA InitRInv == Init => RInv
<1> SUFFICES ASSUME Init PROVE RInv
    OBVIOUS
<1>1. 1 \in Runs
    BY RunAssumption DEF Runs
<1>2. NotAsked \in Questions /\ NoSignal \in Signals /\ NoSignal.decision = "none"
      /\ NotAsked.st = "no"
    BY RunAssumption DEF NotAsked, Questions, NoSignal, Signals
<1>3. Armed \in Watchdogs /\ Off \in Watchdogs /\ Off.st = "off"
    BY DEF Armed, Off, Watchdogs
<1>4. BudgetInv
    <2>1. used \in [Kinds -> 0..MaxUse] /\ limit \in [Kinds -> 1..Ceiling]
        BY RunAssumption DEF Init
    <2>2. /\ ext \in [Kinds -> 0..MaxExtensions] /\ late \in [Kinds -> SUBSET (0..MaxExtensions)]
          /\ \A k \in Kinds : late[k] = {}
        BY RunAssumption DEF Init
    <2>3. asked \in [Kinds \cup {"timeout"} -> Questions] /\ \A k \in Kinds : asked[k].st = "no"
        BY <1>2 DEF Init
    <2>4. signal \in Signals /\ signal.decision = "none" /\ refused = FALSE
        BY <1>2 DEF Init
    <2> QED
        BY <2>1, <2>2, <2>3, <2>4 DEF BudgetInv, Asking, SignalAnswered, Named
<1>5. watch \in [Runs -> Watchdogs] /\ \A r \in Runs : r # 1 => ~Watching(r)
    BY <1>3 DEF Init, Watching
<1>6. Leftover /\ AbortIsLate /\ FailureIsRefusal
    BY <1>5 DEF Init, Leftover, AbortIsLate, FailureIsRefusal, Over, Runs
<1> QED
    BY <1>1, <1>4, <1>5, <1>6 DEF Init, RInv, RunInv

LEMMA NextRInv == RInv /\ [Next]_vars => RInv'
<1> SUFFICES ASSUME RInv, [Next]_vars PROVE RInv'
    OBVIOUS
<1>1. ASSUME NEW k \in Kinds, Record(k) PROVE RInv'
    BY <1>1, RecordBudget, AgentRun DEF RInv
<1>2. ASSUME NEW k \in Kinds, BrainGrants(k) \/ BrainDenies(k) \/ Extend(k) \/ GiveUp(k)
      PROVE  RInv'
    BY <1>2, KindBudget, AnswerRun DEF RInv
<1>3. ASSUME NEW k \in Kinds, NEW n \in late[k], LateGrant(k, n) PROVE RInv'
    BY <1>3, LateGrantBudget, AnswerRun DEF RInv
<1>4. CASE TextDelta
    BY <1>4, SameBudget, AgentRun DEF RInv, TextDelta
<1>5. CASE ToolProgress
    BY <1>5, ToolProgressBudget, AgentRun DEF RInv
<1>6. CASE ExtendClock
    BY <1>6, ExtendClockBudget, AnswerRun DEF RInv
<1>7. ASSUME NEW r \in Runs, ClockRuns(r) \/ GoesIdle(r) \/ MoreTime(r) PROVE RInv'
    BY <1>7, SameBudget, ClockRun DEF RInv, ClockRuns, GoesIdle, MoreTime
<1>8. ASSUME NEW r \in Runs, Tick(r) PROVE RInv'
    BY <1>8, SameBudget, TickRun DEF RInv, Tick, TickIdle, TickPreempt, TickDeadline
<1>9. ASSUME NEW how \in {"done", "failed", "aborted"}, AgentReturns(how) PROVE RInv'
    BY <1>9, SameBudget, EndRun DEF RInv, AgentReturns
<1>10. CASE Settle
    BY <1>10, SameBudget, EndRun DEF RInv, Settle
<1>11. CASE Dispatch
    BY <1>11, DispatchBudget, DispatchRun DEF RInv
<1>12. CASE Rest \/ UNCHANGED vars
    <2>1. UNCHANGED vars
        BY <1>12 DEF Rest
    <2>2. RunInv'
        BY <2>1 DEF vars, life, budget, RInv, RunInv, FailureIsRefusal, Leftover, AbortIsLate,
                    Watching
    <2> QED
        BY <2>1, <2>2, SameBudget DEF RInv, vars
<1>13. ASSUME NEW r \in Runs, StrayTool(r) PROVE RInv'
    BY <1>13, StrayBudget, StrayRun DEF RInv
<1> QED
    BY <1>1, <1>2, <1>3, <1>4, <1>5, <1>6, <1>7, <1>8, <1>9, <1>10, <1>11, <1>12, <1>13 DEF Next

LEMMA RunInvariance == Spec => []RInv
<1> QED
    BY InitRInv, NextRInv, PTL DEF Spec

LEMMA NextStrays == StrayInv /\ [Next]_vars => StrayInv'
<1> SUFFICES ASSUME StrayInv, [Next]_vars PROVE strays' \subseteq Runs
    BY DEF StrayInv
<1>1. ASSUME NEW r \in Runs, ClockRuns(r) \/ GoesIdle(r) \/ Tick(r) \/ MoreTime(r) \/ StrayTool(r)
      PROVE  strays' \subseteq Runs
    <2>1. CASE Tick(r)
        BY <2>1 DEF Tick, TickIdle, TickPreempt, TickDeadline, Granted, Reject, life, StrayInv
    <2>2. CASE ClockRuns(r) \/ GoesIdle(r) \/ MoreTime(r) \/ StrayTool(r)
        BY <2>2 DEF ClockRuns, GoesIdle, MoreTime, StrayTool, life, StrayInv
    <2> QED
        BY <1>1, <2>1, <2>2
<1>2. ASSUME NEW k \in Kinds,
             \/ Record(k) \/ BrainGrants(k) \/ BrainDenies(k) \/ Extend(k) \/ GiveUp(k)
             \/ \E n \in late[k] : LateGrant(k, n)
      PROVE  strays' \subseteq Runs
    BY <1>2 DEF Record, BrainGrants, BrainDenies, Extend, GiveUp, LateGrant, life, StrayInv
<1>3. ASSUME \/ TextDelta \/ ToolProgress \/ ExtendClock \/ Settle \/ Dispatch \/ Rest
             \/ \E how \in {"done", "failed", "aborted"} : AgentReturns(how)
             \/ UNCHANGED vars
      PROVE  strays' \subseteq Runs
    BY <1>3 DEF TextDelta, ToolProgress, ExtendClock, Settle, Dispatch, Rest, AgentReturns,
                life, vars, StrayInv
<1> QED
    BY <1>1, <1>2, <1>3 DEF Next

\* Every counter, limit, question and watchdog of a worker keeps its type: no
\* extension goes beyond the Director's ceiling, and no count of extensions
\* beyond maxBudgetExtensions, late answers included.
THEOREM RunTypeCorrect == Spec => []RunTypeOK
<1>1. Init => StrayInv
    BY DEF Init, StrayInv
<1> QED
    BY <1>1, NextStrays, RunInvariance, TypesOfRInv, PTL DEF Spec

\* The runner awaits the decision of its last signal before it reports: that
\* decision is always under way, with several kinds exceeded at once and with
\* a question another signal had asked before.
THEOREM RunnerNotStranded == Spec => []SignalAnswered
<1>1. RInv => SignalAnswered
    BY DEF RInv, BudgetInv
<1> QED
    BY <1>1, RunInvariance, PTL

\* A worker's controller is fired after its run only by a watchdog that was
\* negotiating when that run ended: clearTimeout() stops every other.
THEOREM AbortsExplained == Spec => []AbortIsLate
<1>1. RInv => AbortIsLate
    BY DEF RInv, RunInv
<1> QED
    BY <1>1, RunInvariance, PTL

\* An agent that finished its work is reported failed or stopped only if it was
\* refused an extension; one that was granted costs nothing.
THEOREM FailuresEarned == Spec => []FailureIsRefusal
<1>1. RInv => FailureIsRefusal
    BY DEF RInv, RunInv
<1> QED
    BY <1>1, RunInvariance, PTL
=============================================================================
