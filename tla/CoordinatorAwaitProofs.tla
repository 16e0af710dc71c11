----------------------- MODULE CoordinatorAwaitProofs -----------------------
(***************************************************************************)
(* What a caller of awaitTasks() and awaitTasksAny() may rely on, for any    *)
(* number of callers, tasks and workers and however few results              *)
(* completedResults keeps, where no caller records results of its own with   *)
(* completeTask() (MaxReports = 0).  The coordinator's own invariant carries *)
(* over, because waiting changes nothing in it (AwaitIsCoordinator).         *)
(***************************************************************************)
EXTENDS CoordinatorAwait, CoordinatorProofs, WellFoundedInduction

\* Every behaviour with callers is one of the coordinator.
LEMMA AwaitIsCoordinator == AwaitSpec => Spec
<1>1. AwaitInit => Init
  BY DEF AwaitInit
<1>2. [AwaitNext]_<<vars, awaitVars>> => [Next]_vars
  BY DEF AwaitNext, CoordinatorStep, AwaitTasks, AwaitTasksAny, AwaitTimeout, AnyTimeout, awaitVars
<1>3. QED
  BY <1>1, <1>2, PTL DEF AwaitSpec, Spec

-----------------------------------------------------------------------------
(* completedResults, where every result is that of a task that settled: no    *)
(* caller reports results of its own (MaxReports = 0).                       *)

Settled == {t \in Tasks : phase[t] = "done"}

\* D: the settled tasks; fi, re, pu: where each was pushed, which are still in
\* completedResults, how many were pushed.  A result that is gone has given way to
\* as many newer ones as completedResults keeps.
Kept(D, fi, re, pu) ==
    /\ pu = Cardinality(D) /\ re \subseteq D
    /\ \A t \in D : fi[t] \in Nat \ {0}
    /\ \A t \in D \ re : fi[t] + MaxResults <= pu

ResultsKept == reported = {} /\ Kept(Settled, finished, retained, pushes)

\* A drain settles pending tasks and keeps their results.
LEMMA DrainKept ==
    ASSUME CoordinatorAssumption, NEW s \in Records, NEW D \in SUBSET Queue(s), NEW T,
           T = {t \in Tasks : s.phase[t] = "done"}, Kept(T, s.finished, s.retained, s.pushes)
    PROVE  LET a == Aborted(s, D)
           IN /\ \A t \in Tasks : a.phase[t] = IF t \in D THEN "done" ELSE s.phase[t]
              /\ Kept(T \cup D, a.finished, a.retained, a.pushes)
              /\ a.retained = s.retained \cup D /\ a.reported = s.reported
PROOF
<1> DEFINE a == Aborted(s, D)
           rank(t) == Cardinality({u \in D : s.arrival[u] <= s.arrival[t]})
<1>1. \A t \in D : t \in Tasks /\ s.phase[t] = "pending"
  BY DEF Queue
<1>2. /\ \A t \in Tasks : a.phase[t] = IF t \in D THEN "done" ELSE s.phase[t]
      /\ \A t \in Tasks : a.finished[t] = IF t \in D THEN s.pushes + rank(t) ELSE s.finished[t]
      /\ a.retained = s.retained \cup D /\ a.reported = s.reported
      /\ a.pushes = s.pushes + Cardinality(D)
  BY DEF Aborted, Records
<1> HIDE DEF a
<1>3. D \subseteq Tasks /\ T \subseteq Tasks /\ D \cap T = {}
  BY <1>1
<1>4. IsFiniteSet(D) /\ IsFiniteSet(T) /\ Cardinality(D) \in Nat /\ Cardinality(T) \in Nat
  BY <1>3, Counts
<1>5. Cardinality(T \cup D) = Cardinality(T) + Cardinality(D)
  <2>1. T \cap D = {} /\ Cardinality({}) = 0
    BY <1>3, FS_EmptySet
  <2>2. Cardinality(T \cup D) = Cardinality(T) + Cardinality(D) - Cardinality(T \cap D)
    BY <1>4, FS_Union
  <2>3. Cardinality(T \cap D) = 0
    BY <2>1
  <2> QED BY <1>4, <2>2, <2>3
<1>6. ASSUME NEW t \in D PROVE rank(t) \in Nat \ {0}
  <2> DEFINE E == {u \in D : s.arrival[u] <= s.arrival[t]}
  <2>1. t \in E
    BY <1>3 DEF Records
  <2>2. IsFiniteSet(E) /\ Cardinality(E) \in Nat
    BY <1>3, Counts
  <2> HIDE DEF E
  <2>3. Cardinality(E) # 0
    BY <2>1, <2>2, FS_EmptySet
  <2> QED BY <2>2, <2>3 DEF E
<1> HIDE DEF rank
<1>7. s.pushes \in Nat /\ a.pushes = Cardinality(T \cup D) /\ s.pushes <= a.pushes
  BY <1>2, <1>4, <1>5 DEF Kept
<1>8. \A t \in T \cup D : a.finished[t] \in Nat \ {0}
  BY <1>2, <1>3, <1>6, <1>7 DEF Kept
<1>9. \A t \in (T \cup D) \ a.retained : a.finished[t] + MaxResults <= a.pushes
  <2> SUFFICES ASSUME NEW t \in T \ s.retained, t \notin D
               PROVE  a.finished[t] + MaxResults <= a.pushes
    BY <1>2
  <2>1. a.finished[t] = s.finished[t] /\ s.finished[t] + MaxResults <= s.pushes
        /\ s.finished[t] \in Nat
    BY <1>2, <1>3 DEF Kept
  <2> QED BY <1>4, <1>7, <2>1, <1>2 DEF CoordinatorAssumption
<1>10. Kept(T \cup D, a.finished, a.retained, a.pushes)
  BY <1>2, <1>7, <1>8, <1>9 DEF Kept
<1> QED BY <1>2, <1>10 DEF a

\* What every step does: it keeps them, and adds only what it settles.
Stored == /\ ResultsKept'
          /\ \A t \in retained' : t \in retained \/ (phase[t] # "done" /\ phase'[t] = "done")

\* The loop starts tasks, and may end in a drain of the queue.
LEMMA LoopKept ==
    ASSUME CoordinatorAssumption, OtherTypes, NEW s, Good(s), TryDispatchNext(s), s.reported = {},
           Kept({t \in Tasks : s.phase[t] = "done"}, s.finished, s.retained, s.pushes)
    PROVE  /\ ResultsKept'
           /\ \A t \in retained' : t \in s.retained \/ (s.phase[t] = "pending" /\ phase'[t] = "done")
PROOF
<1>0. PICK S \in SUBSET Queue(s) : \E f \in [S -> Idle(s)] :
        FirstFit(f, s) /\ LET d == Dispatched(s, f)
                          IN Become(IF CanDispatch(d) /\ ~HasLiveSubagent(d)
                                    THEN Aborted(d, Queue(d)) ELSE d)
  BY DEF TryDispatchNext
<1>1. PICK f \in [S -> Idle(s)] :
        FirstFit(f, s) /\ LET d == Dispatched(s, f)
                          IN Become(IF CanDispatch(d) /\ ~HasLiveSubagent(d)
                                    THEN Aborted(d, Queue(d)) ELSE d)
  BY <1>0
<1> DEFINE d == Dispatched(s, f)
           a == Aborted(d, Queue(d))
           T == {t \in Tasks : s.phase[t] = "done"}
<1>2. d \in Records /\ s \in Records /\ DOMAIN f = S
  BY <1>1, DispatchedGood DEF Good
<1>3. /\ d.finished = s.finished /\ d.retained = s.retained /\ d.pushes = s.pushes
      /\ d.reported = s.reported
      /\ \A t \in Tasks : d.phase[t] = IF t \notin S THEN s.phase[t]
                                       ELSE IF runner THEN "running" ELSE "held"
  BY <1>2 DEF Dispatched, Records
<1> HIDE DEF d
<1>4. T = {t \in Tasks : d.phase[t] = "done"}
  BY <1>3 DEF Queue
<1>5. /\ \A t \in Tasks : a.phase[t] = IF t \in Queue(d) THEN "done" ELSE d.phase[t]
      /\ Kept(T \cup Queue(d), a.finished, a.retained, a.pushes)
      /\ a.retained = d.retained \cup Queue(d) /\ a.reported = d.reported
  BY <1>2, <1>3, <1>4, DrainKept
<1>6. \A t \in Queue(d) : t \in Tasks /\ s.phase[t] = "pending"
  BY <1>3 DEF Queue
<1> HIDE DEF a
<1>7. CASE Become(d)
  <2>1. Settled' = T
    BY <1>4, <1>7 DEF Become, Settled
  <2> HIDE DEF T
  <2>2. ResultsKept'
    BY <1>3, <1>7, <2>1 DEF Become, ResultsKept, T
  <2> QED BY <1>3, <1>7, <2>2 DEF Become
<1>8. CASE Become(a)
  <2>1. Settled' = T \cup Queue(d)
    BY <1>4, <1>5, <1>6, <1>8 DEF Become, Settled
  <2> HIDE DEF T
  <2>2. ResultsKept'
    BY <1>3, <1>5, <1>8, <2>1 DEF Become, ResultsKept
  <2>3. \A t \in Queue(d) : phase'[t] = "done"
    BY <1>5, <1>6, <1>8 DEF Become
  <2> QED BY <1>3, <1>5, <1>6, <1>8, <2>2, <2>3 DEF Become
<1> QED BY <1>1, <1>7, <1>8 DEF d, a

\* The result of a run is pushed, and what is too old is dropped.
LEMMA PushKept ==
    ASSUME CoordinatorAssumption, NEW s \in Records, NEW t \in Tasks, NEW T \in SUBSET Tasks, t \notin T,
           Kept(T, s.finished, s.retained, s.pushes)
    PROVE  LET p == Pushed(s, t)
           IN /\ Kept(T \cup {t}, p.finished, p.retained, p.pushes)
              /\ p.retained \subseteq s.retained \cup {t}
PROOF
<1> DEFINE p == Pushed(s, t)
<1>1. /\ p.pushes = s.pushes + 1
      /\ \A u \in Tasks : p.finished[u] = IF u = t THEN p.pushes ELSE s.finished[u]
      /\ p.retained = {u \in s.retained \cup {t} : p.finished[u] + MaxResults > p.pushes}
  BY PushedFacts
<1> HIDE DEF p
<1>2. IsFiniteSet(T) /\ Cardinality(T) \in Nat
  BY Counts
<1>3. Cardinality(T \cup {t}) = Cardinality(T) + 1
  BY <1>2, FS_AddElement
<1>4. s.pushes \in Nat /\ p.pushes = Cardinality(T \cup {t}) /\ p.pushes \in Nat \ {0}
  BY <1>1, <1>2, <1>3 DEF Kept
<1>5. \A u \in T \cup {t} : p.finished[u] \in Nat \ {0}
  BY <1>1, <1>4 DEF Kept
<1>6. \A u \in (T \cup {t}) \ p.retained : p.finished[u] + MaxResults <= p.pushes
  <2> SUFFICES ASSUME NEW u \in (T \cup {t}) \ p.retained
               PROVE  p.finished[u] + MaxResults <= p.pushes
    OBVIOUS
  <2>1. CASE u \in s.retained \cup {t}
    BY <1>1, <1>4, <1>5, <2>1 DEF CoordinatorAssumption
  <2>2. CASE u \notin s.retained \cup {t}
    <3>1. p.finished[u] = s.finished[u] /\ s.finished[u] \in Nat
          /\ s.finished[u] + MaxResults <= s.pushes
      BY <1>1, <2>2 DEF Kept
    <3> QED BY <1>1, <1>4, <3>1 DEF CoordinatorAssumption
  <2> QED BY <2>1, <2>2
<1>7. Kept(T \cup {t}, p.finished, p.retained, p.pushes)
  BY <1>1, <1>4, <1>5, <1>6 DEF Kept
<1> QED BY <1>1, <1>7 DEF p

\* A run that ends: it held a slot, so that its completion is not dropped.
LEMMA SettleStores ==
    ASSUME CoordinatorAssumption, IInv, ResultsKept, NEW t \in Tasks, Settle(t)
    PROVE  Stored
PROOF
<1> DEFINE s == SettledNow(t)
           p == Pushed(s, t)
           r == Released(p, t, host[t])
<1>1. phase[t] = "running" /\ host[t] \in Workers
  BY NowFields DEF Settle, IInv, Good, Placed
<1>2. Owes(s, t) /\ s \in Records
  BY <1>1, SettleOwes DEF Owes
<1>3. /\ s.inFlight = inFlight /\ s.finished = finished /\ s.retained = retained
      /\ s.pushes = pushes /\ s.reported = reported
      /\ \A u \in Tasks : s.phase[u] = IF u = t THEN "done" ELSE phase[u]
  BY NowFields DEF SettledNow, Now
<1>4. RecordCompletion(s, t, host[t], entry[t] = born[host[t]])
  BY DEF Settle, SettledNow
<1> HIDE DEF s
<1>5. inFlight # 0
  <2>1. t \in InRun(Now) /\ IsFiniteSet(InRun(Now)) /\ Cardinality(InRun(Now)) \in Nat
    BY <1>1, NowFields, CountsOf DEF InRun
  <2>2. Cardinality(InRun(Now)) # 0 /\ Cardinality(reported) = 0
    BY <2>1, FS_EmptySet DEF ResultsKept
  <2>3. Cardinality(Mute(Now)) \in Nat
    BY NowFields, CountsOf
  <2> QED BY <2>1, <2>2, <2>3, NowFields DEF IInv, Good
<1>6. TryDispatchNext(r) /\ Good(r)
  BY <1>1, <1>2, <1>3, <1>4, <1>5, EndedGood DEF RecordCompletion
<1>7. p \in Records /\ p.phase = s.phase /\ p.reported = s.reported
  BY <1>2, PushedFacts
<1>8. /\ Kept(Settled \cup {t}, p.finished, p.retained, p.pushes)
      /\ p.retained \subseteq retained \cup {t}
  <2>1. t \notin Settled /\ Settled \in SUBSET Tasks
    BY <1>1 DEF Settled
  <2> QED BY <1>2, <1>3, <2>1, PushKept DEF ResultsKept
<1> HIDE DEF p
<1>9. /\ r.phase = p.phase /\ r.reported = p.reported /\ r.pushes = p.pushes
      /\ r.finished = p.finished /\ r.retained = p.retained
  BY <1>1, <1>7, ReleasedFacts
<1> HIDE DEF r
<1>10. {u \in Tasks : r.phase[u] = "done"} = Settled \cup {t}
  BY <1>3, <1>7, <1>9 DEF Settled
<1>11. /\ ResultsKept'
       /\ \A u \in retained' : u \in r.retained \/ (r.phase[u] = "pending" /\ phase'[u] = "done")
  BY <1>3, <1>6, <1>7, <1>8, <1>9, <1>10, LoopKept DEF IInv, ResultsKept
<1>12. retained' \subseteq Settled'
  BY <1>11 DEF ResultsKept, Kept
<1>13. \A u \in retained' : u \in Tasks /\ phase'[u] = "done"
  BY <1>12 DEF Settled
<1> QED BY <1>1, <1>3, <1>7, <1>8, <1>9, <1>11, <1>13 DEF Stored

LEMMA StepStores ==
    ASSUME CoordinatorAssumption, MaxReports = 0, IInv, ResultsKept, [Next]_vars
    PROVE  Stored
PROOF
<1>1. ASSUME UNCHANGED <<phase, finished, retained, pushes, reported>> PROVE Stored
  <2>1. Settled' = Settled
    BY <1>1 DEF Settled
  <2> QED BY <1>1, <2>1 DEF Stored, ResultsKept
\* What queues, pins or admits hands the loop the results as they are.
<1>2. ASSUME NEW s, Good(s), TryDispatchNext(s), s.retained = retained, s.finished = finished,
             s.pushes = pushes, s.reported = reported,
             \A u \in Tasks : s.phase[u] = phase[u] \/ (phase[u] = "new" /\ s.phase[u] = "pending")
      PROVE  Stored
  <2>1. {u \in Tasks : s.phase[u] = "done"} = Settled
    BY <1>2 DEF Settled
  <2>2. /\ ResultsKept'
        /\ \A u \in retained' : u \in s.retained \/ (s.phase[u] = "pending" /\ phase'[u] = "done")
    BY <1>2, <2>1, LoopKept DEF IInv, ResultsKept
  <2>3. retained' \subseteq Tasks
    BY <2>2 DEF ResultsKept, Kept, Settled
  <2> QED BY <1>2, <2>2, <2>3 DEF Stored
<1>3. ASSUME NEW s \in Records, NEW D \in SUBSET Queue(s), s.phase = phase, s.finished = finished,
             s.retained = retained, s.pushes = pushes, s.reported = reported,
             phase' = Aborted(s, D).phase, finished' = Aborted(s, D).finished,
             retained' = Aborted(s, D).retained, pushes' = Aborted(s, D).pushes,
             reported' = Aborted(s, D).reported
      PROVE  Stored
  <2> DEFINE a == Aborted(s, D)
  <2>1. Settled = {u \in Tasks : s.phase[u] = "done"}
        /\ \A u \in D : u \in Tasks /\ phase[u] = "pending"
    BY <1>3 DEF Settled, Queue
  <2>2. /\ \A u \in Tasks : a.phase[u] = IF u \in D THEN "done" ELSE s.phase[u]
        /\ Kept(Settled \cup D, a.finished, a.retained, a.pushes)
        /\ a.retained = s.retained \cup D /\ a.reported = s.reported
    BY <1>3, <2>1, DrainKept DEF ResultsKept
  <2> HIDE DEF a
  <2>3. Settled' = Settled \cup D
    BY <1>3, <2>1, <2>2 DEF Settled, a
  <2>4. ResultsKept'
    BY <1>3, <2>2, <2>3 DEF ResultsKept, a
  <2>5. \A u \in retained' : u \in retained \/ (u \in D /\ phase'[u] = "done")
    BY <1>3, <2>1, <2>2 DEF a
  <2> QED BY <2>1, <2>4, <2>5 DEF Stored
<1>4. CASE UNCHANGED vars \/ SetRunner \/ (\E t \in Tasks : WatchdogFires(t)) \/ (\E w \in Workers : Spawn(w))
  BY <1>1, <1>4 DEF vars, SetRunner, WatchdogFires, Spawn
<1>5. ASSUME NEW w \in Workers, Stop(w) PROVE Stored
  <2>1. UNCHANGED <<phase, finished, retained, pushes, reported>>
    BY <1>5 DEF Stop, Stopped, Become, Now
  <2> QED BY <1>1, <2>1
<1>6. CASE StopAll
  <2> DEFINE a == Aborted(Now, Queue(Now))
  <2>1. a \in Records
    BY AbortedGood DEF IInv, Good
  <2>2. Become(Stopped(a, Entries(Now)))
    BY <1>6 DEF StopAll
  <2> HIDE DEF a
  <2>3. /\ phase' = a.phase /\ finished' = a.finished /\ retained' = a.retained
        /\ pushes' = a.pushes /\ reported' = a.reported
    BY <2>1, <2>2 DEF Become, Stopped, Records
  <2> QED BY <1>3, <2>3, NowFields DEF a
<1>7. ASSUME NEW w \in Workers, Remove(w) PROVE Stored
  <2> DEFINE st == [status EXCEPT ![w] = "absent"]
             tm == terminating \ {w}
             s == [Now EXCEPT !.status = st, !.terminating = tm]
             pinned == {t \in Queue(Now) : host[t] = w}
             a == Aborted(s, pinned)
  <2>1. s \in Records
    <3>1. st \in [Workers -> WorkerStatus] /\ tm \in SUBSET Workers
      BY NowFields DEF WorkerStatus
    <3> HIDE DEF st, tm
    <3> QED BY <3>1, NowFields DEF Records
  <2>2. /\ Become(a) /\ s.phase = phase /\ s.finished = finished /\ s.retained = retained
        /\ s.pushes = pushes /\ s.reported = reported
    BY <1>7 DEF Remove, Now
  <2> HIDE DEF s
  <2>3. pinned \in SUBSET Queue(s)
    BY <2>2, NowFields DEF Queue
  <2> HIDE DEF pinned
  <2> QED BY <1>3, <2>1, <2>2, <2>3 DEF Become
<1>8. ASSUME NEW t \in Tasks, NEW p \in Pins, Assign(t, p) PROVE Stored
  <2> DEFINE n == 1 + Cardinality({u \in Tasks : arrival[u] # 0})
             s == [Now EXCEPT !.phase[t] = "pending", !.host[t] = p, !.arrival[t] = n]
  <2>1. n \in Nat
    BY FS_Subset, FS_CardinalityType DEF CoordinatorAssumption
  <2>2. Now.phase[t] = "new" /\ phase[t] = "new" /\ p \in Workers \cup {NoWorker}
    BY <1>8, NowFields DEF Assign, CoordinatorAssumption
  <2>3. /\ TryDispatchNext(s) /\ s.retained = retained /\ s.finished = finished
        /\ s.pushes = pushes /\ s.reported = reported /\ s.phase = [phase EXCEPT ![t] = "pending"]
    BY <1>8 DEF Assign, Now
  <2> HIDE DEF n
  <2>4. Good(s)
    BY <2>1, <2>2, QueuedGood DEF IInv
  <2> HIDE DEF s
  <2>5. \A u \in Tasks : s.phase[u] = phase[u] \/ (phase[u] = "new" /\ s.phase[u] = "pending")
    BY <2>2, <2>3, NowFields
  <2> QED BY <1>2, <2>3, <2>4, <2>5
<1>9. ASSUME NEW t \in Tasks, NEW p \in Pins, Retarget(t, p) PROVE Stored
  <2> DEFINE s == [Now EXCEPT !.host[t] = p]
  <2>1. /\ TryDispatchNext(s) /\ s.retained = retained /\ s.phase = phase /\ s.finished = finished
        /\ s.pushes = pushes /\ s.reported = reported
    BY <1>9 DEF Retarget, Now
  <2>2. Good(s)
    BY <1>9, RepinnedGood
  <2> HIDE DEF s
  <2> QED BY <1>2, <2>1, <2>2
<1>10. ASSUME NEW n \in Caps, SetMaxConcurrent(n) PROVE Stored
  <2> DEFINE s == [Now EXCEPT !.maxConcurrent = n]
  <2>1. /\ TryDispatchNext(s) /\ s.retained = retained /\ s.phase = phase /\ s.finished = finished
        /\ s.pushes = pushes /\ s.reported = reported
    BY <1>10 DEF SetMaxConcurrent, Now
  <2>2. Good(s)
    BY <1>10, RecappedGood
  <2> HIDE DEF s
  <2> QED BY <1>2, <2>1, <2>2
<1>11. ASSUME NEW t \in Tasks, NEW w \in Workers, CompleteTask(t, w) PROVE FALSE
  <2>1. Cardinality(reported) = 0
    BY FS_EmptySet DEF ResultsKept
  <2> QED BY <1>11, <2>1 DEF CompleteTask
<1> QED BY <1>4, <1>5, <1>6, <1>7, <1>8, <1>9, <1>10, <1>11, SettleStores DEF Next, CoordinatorAssumption

\* A settled task stays settled.
LEMMA DoneStays ==
    ASSUME CoordinatorAssumption, IInv, [Next]_vars, NEW t \in Tasks, phase[t] = "done"
    PROVE  phase'[t] = "done"
PROOF
<1>1. Onward(phase', events', reported')
  BY StepShape, LoopOnward DEF Quiet
<1>2. IInv'
  BY NextIInv
<1>3. phase'[t] \in Phases
  BY <1>2 DEF IInv, Good, Records, Now
<1> QED BY <1>1, <1>3, FwdFacts DEF Onward

\* Nobody reports: each task is announced exactly when it settles.
LEMMA ToldOnce ==
    IInv /\ reported = {} => \A t \in Tasks : events[t] = IF phase[t] = "done" THEN 1 ELSE 0
PROOF
<1> SUFFICES ASSUME IInv, reported = {}
             PROVE  \A t \in Tasks : events[t] = IF phase[t] = "done" THEN 1 ELSE 0
  OBVIOUS
<1>1. /\ IsFiniteSet(Mute(Now)) /\ Cardinality(Mute(Now)) \in Nat /\ Cardinality(InRun(Now)) \in Nat
      /\ Cardinality(reported) = 0
  BY CoordinatorAssumption, NowFields, CountsOf, FS_EmptySet
<1>2. Cardinality(Mute(Now)) = 0
  <2> DEFINE M == Cardinality(Mute(Now))
             R == Cardinality(InRun(Now))
  <2>1. M + R <= inFlight + Cardinality(reported) /\ inFlight <= R /\ inFlight \in Nat
    BY NowFields DEF IInv, Good
  <2>2. M \in Nat /\ R \in Nat /\ Cardinality(reported) = 0
    BY <1>1
  <2> HIDE DEF M, R
  <2>3. M = 0
    BY <2>1, <2>2
  <2> QED BY <2>3 DEF M
<1>3. Mute(Now) = {}
  BY <1>1, <1>2, FS_EmptySet
<1>4. \A t \in Tasks : events[t] <= IF phase[t] = "done" THEN 1 ELSE 0
  BY NowFields DEF IInv, Good, Told
<1> QED BY <1>3, <1>4, NowFields DEF Mute

-----------------------------------------------------------------------------
(* The callers                                                               *)

\* No listener waits for a result that is still in completedResults: the lookup
\* and the registration are one step, and an announcement unregisters.
KeptAnswered == \A k \in Waiters : open[k] \cap retained = {}

\* Results are of settled tasks, and a suspended call has something to wait for.
WInv ==
    /\ AwaitTypeOK
    /\ KeptAnswered
    /\ ResultsKept
    /\ \A k \in Waiters : got[k] \subseteq Settled
    /\ \A k \in Waiters : call[k] \in {"all", "any"} => open[k] # {}

\* What one step does to one caller.
Answered(k) ==
    (call[k] \in {"all", "any"} /\ call'[k] = "returned") =>
        /\ call[k] = "all" => open[k] \subseteq got'[k]
        /\ got'[k] # {}
        /\ \A t \in got'[k] : phase'[t] = "done"

LEMMA LeastNatural ==
    ASSUME NEW T \in SUBSET Nat, T # {}
    PROVE  \E m \in T : \A n \in T : m <= n
<1> DEFINE F == {1..x : x \in T}
           R == StrictSubsetOrdering(Nat)
           W == FiniteSubsetsOf(Nat)
<1>1. IsWellFoundedOn(R, W)
  BY FS_StrictSubsetOrderingWellFounded
<1>2. F # {} /\ F \subseteq W
  <2>1. \A x \in Nat : IsFiniteSet(1..x)
    BY FS_Interval
  <2>2. F # {}
    OBVIOUS
  <2>3. F \subseteq W
    BY <2>1 DEF FiniteSubsetsOf
  <2>4. QED
    BY <2>2, <2>3
<1>3. PICK S \in F : \A U \in F : ~ (<<U, S>> \in R)
  <2> HIDE DEF F, R, W
  <2>1. QED
    BY <1>1, <1>2, WFMin
<1>4. PICK m \in T : S = 1..m
  BY <1>3
<1>5. ASSUME NEW n \in T, n < m PROVE FALSE
  <2>1. 1..n \in F /\ 1..n \subseteq 1..m /\ m \in 1..m /\ m \notin 1..n
    BY <1>5
  <2>2. <<1..n, 1..m>> \in R
    BY <2>1 DEF StrictSubsetOrdering
  <2>3. QED
    BY <1>3, <1>4, <2>1, <2>2
<1>6. QED
  BY <1>5

\* What a coordinator's step announces is settled by it, and what was settled
\* and kept before is still settled.
LEMMA NewsSettled ==
    ASSUME CoordinatorAssumption, MaxReports = 0, IInv, ResultsKept, AwaitTypeOK, [Next]_vars,
           NEW k \in Waiters
    PROVE  /\ News(k) \subseteq Settled' /\ News(k) \subseteq open[k]
           /\ open[k] \cap retained' \subseteq retained \cup News(k)
           /\ Settled \subseteq Settled' /\ finished' \in [Tasks -> Nat]
           /\ ResultsKept'
<1>1. IInv'
  BY NextIInv
<1>2. Stored /\ ResultsKept'
  BY StepStores DEF Stored
<1>3. \A t \in Tasks : events[t] = IF phase[t] = "done" THEN 1 ELSE 0
  BY ToldOnce DEF ResultsKept
<1>4. (IInv /\ reported = {} => \A t \in Tasks : events[t] = IF phase[t] = "done" THEN 1 ELSE 0)'
  BY ToldOnce, PTL
<1>5. open[k] \subseteq Tasks
  BY DEF AwaitTypeOK
<1>6. \A t \in Tasks : events'[t] = IF phase'[t] = "done" THEN 1 ELSE 0
  BY <1>1, <1>2, <1>4 DEF ResultsKept
<1>7. News(k) \subseteq Settled' /\ News(k) \subseteq open[k]
  BY <1>3, <1>6, <1>5 DEF News, Settled
<1>8. open[k] \cap retained' \subseteq retained \cup News(k)
  BY <1>2, <1>3, <1>6, <1>5 DEF Stored, News
<1>9. Settled \subseteq Settled'
  BY DoneStays DEF Settled
<1>10. finished' \in [Tasks -> Nat]
  BY <1>1 DEF IInv, Good, Records, Now
<1>11. QED
  BY <1>2, <1>7, <1>8, <1>9, <1>10

\* The listener of awaitTasksAny() hears a first announcement if there is one.
LEMMA FirstNews ==
    ASSUME CoordinatorAssumption, MaxReports = 0, IInv, ResultsKept, AwaitTypeOK, [Next]_vars,
           NEW k \in Waiters, News(k) # {}
    PROVE  {t \in News(k) : \A u \in News(k) : finished'[t] <= finished'[u]} # {}
<1>1. News(k) \subseteq Tasks /\ finished' \in [Tasks -> Nat]
  BY NewsSettled DEF AwaitTypeOK
<1> DEFINE T == {finished'[t] : t \in News(k)}
<1>2. T \in SUBSET Nat /\ T # {}
  BY <1>1
<1>3. PICK m \in T : \A n \in T : m <= n
  BY <1>2, LeastNatural
<1>4. QED
  BY <1>3

\* One step and one caller: it keeps the invariant, and an answer is complete.
LEMMA CallerStep ==
    ASSUME CoordinatorAssumption, AwaitAssumption, MaxReports = 0, IInv, WInv, AwaitNext
    PROVE  WInv' /\ \A k \in Waiters : Answered(k)
<1> DEFINE Goal == WInv' /\ \A k \in Waiters : Answered(k)
<1>1. CASE CoordinatorStep
  <2>1. Next
    BY <1>1 DEF CoordinatorStep
  <2>2. \A k \in Waiters :
           /\ News(k) \subseteq Settled' /\ News(k) \subseteq open[k]
           /\ open[k] \cap retained' \subseteq retained \cup News(k)
           /\ Settled \subseteq Settled'
    BY <2>1, NewsSettled DEF WInv
  <2>3. \A k \in Waiters : got'[k] = Deliver(k)[1] /\ open'[k] = Deliver(k)[2] /\ call'[k] = Deliver(k)[3]
    BY <1>1 DEF CoordinatorStep
  <2>4. ASSUME NEW k \in Waiters
        PROVE  /\ got'[k] \subseteq Settled' /\ open'[k] \subseteq open[k]
               /\ open'[k] \cap News(k) = {}
               /\ call'[k] \in CallState
               /\ call'[k] \in {"none", "returned", "timedOut"} => open'[k] = {}
               /\ call'[k] \in {"all", "any"} => open'[k] # {}
               /\ Answered(k)
    <3>1. /\ got[k] \subseteq Settled /\ call[k] \in CallState
          /\ call[k] \in {"none", "returned", "timedOut"} => open[k] = {}
          /\ call[k] \in {"all", "any"} => open[k] # {}
      BY DEF WInv, AwaitTypeOK
    <3>2. CASE call[k] = "any" /\ News(k) # {}
      <4>1. /\ got'[k] = {t \in News(k) : \A u \in News(k) : finished'[t] <= finished'[u]}
            /\ open'[k] = {} /\ call'[k] = "returned"
        BY <2>3, <3>2 DEF Deliver
      <4>2. got'[k] # {}
        BY <2>1, <3>2, <4>1, FirstNews DEF WInv
      <4>3. got'[k] \subseteq Settled'
        BY <2>2, <4>1
      <4>4. Answered(k)
        BY <3>2, <4>2, <4>3 DEF Answered, Settled
      <4>5. QED
        BY <4>1, <4>3, <4>4 DEF CallState
    <3>3. CASE ~ (call[k] = "any" /\ News(k) # {})
      <4>1. /\ got'[k] = got[k] \cup News(k) /\ open'[k] = open[k] \ News(k)
            /\ call'[k] = IF call[k] = "all" /\ open[k] \subseteq News(k) THEN "returned" ELSE call[k]
        BY <2>3, <3>3 DEF Deliver
      <4>2. got'[k] \subseteq Settled'
        BY <2>2, <3>1, <4>1
      <4>3. Answered(k)
        BY <3>1, <4>1, <4>2 DEF Answered, Settled
      <4>4. QED
        BY <2>2, <3>1, <3>3, <4>1, <4>2, <4>3 DEF CallState
    <3>4. QED
      BY <3>2, <3>3
  <2>5. AwaitTypeOK'
    <3>1. /\ got' = [k \in Waiters |-> Deliver(k)[1]] /\ open' = [k \in Waiters |-> Deliver(k)[2]]
          /\ call' = [k \in Waiters |-> Deliver(k)[3]]
      BY <1>1 DEF CoordinatorStep
    <3>2. \A k \in Waiters : Deliver(k)[1] \in SUBSET Tasks /\ Deliver(k)[2] \in SUBSET Tasks
                             /\ Deliver(k)[3] \in CallState
      BY <2>3, <2>4 DEF Settled, WInv, AwaitTypeOK
    <3>3. \A k \in Waiters : call'[k] \in {"none", "returned", "timedOut"} => open'[k] = {}
      BY <2>4
    <3>4. QED
      BY <3>1, <3>2, <3>3 DEF AwaitTypeOK
  <2>6. KeptAnswered'
    BY <2>2, <2>4 DEF WInv, KeptAnswered
  <2>7. ResultsKept'
    BY <2>1, StepStores DEF WInv, Stored
  <2>8. QED
    BY <2>4, <2>5, <2>6, <2>7 DEF WInv
<1>2. ASSUME UNCHANGED vars PROVE Settled' = Settled /\ retained' = retained /\ ResultsKept'
  BY <1>2 DEF vars, Settled, WInv, ResultsKept, Kept
<1>3. ASSUME NEW k \in Waiters, NEW ids \in Asks, AwaitTasks(k, ids) PROVE Goal
  <2>1. ids \subseteq Tasks
    BY AwaitAssumption
  <2>2. retained \subseteq Settled /\ Settled \subseteq Tasks
    BY DEF WInv, ResultsKept, Kept, Settled
  <2>3. QED
    BY <1>2, <1>3, <2>1, <2>2 DEF AwaitTasks, WInv, AwaitTypeOK, CallState, KeptAnswered, Answered
<1>4. ASSUME NEW k \in Waiters, NEW ids \in Asks, AwaitTasksAny(k, ids) PROVE Goal
  <2>1. ids \subseteq Tasks
    BY AwaitAssumption
  <2>2. retained \subseteq Settled /\ Settled \subseteq Tasks
    BY DEF WInv, ResultsKept, Kept, Settled
  <2>3. QED
    BY <1>2, <1>4, <2>1, <2>2 DEF AwaitTasksAny, WInv, AwaitTypeOK, CallState, KeptAnswered, Answered
<1>5. ASSUME NEW k \in Waiters, NEW t \in Tasks, AwaitTimeout(k, t) PROVE Goal
  BY <1>2, <1>5 DEF AwaitTimeout, WInv, AwaitTypeOK, CallState, KeptAnswered, Answered
<1>6. ASSUME NEW k \in Waiters, AnyTimeout(k) PROVE Goal
  BY <1>2, <1>6 DEF AnyTimeout, WInv, AwaitTypeOK, CallState, KeptAnswered, Answered
<1>7. QED
  BY <1>1, <1>3, <1>4, <1>5, <1>6 DEF AwaitNext

LEMMA CallerSteps ==
    ASSUME MaxReports = 0
    PROVE  IInv /\ WInv /\ [AwaitNext]_<<vars, awaitVars>>
              => WInv' /\ [\A k \in Waiters : Answered(k)]_<<vars, awaitVars>>
<1>1. CASE AwaitNext
  BY <1>1, CallerStep, CoordinatorAssumption, AwaitAssumption
<1>2. ASSUME WInv, UNCHANGED <<vars, awaitVars>> PROVE WInv'
  BY <1>2 DEF vars, awaitVars, WInv, AwaitTypeOK, KeptAnswered, ResultsKept, Kept, Settled
<1>3. QED
  BY <1>1, <1>2

LEMMA CallersInvariant == ASSUME MaxReports = 0 PROVE AwaitSpec => [](IInv /\ WInv)
<1>1. AwaitInit => WInv
  <2> SUFFICES ASSUME AwaitInit PROVE WInv
    OBVIOUS
  <2>1. Settled = {} /\ Cardinality({}) = 0
    BY FS_EmptySet DEF AwaitInit, Init, Settled
  <2>2. ResultsKept
    BY <2>1 DEF AwaitInit, Init, ResultsKept, Kept
  <2>3. QED
    BY <2>2 DEF AwaitInit, Init, WInv, AwaitTypeOK, CallState, KeptAnswered
<1>2. IInv /\ WInv /\ [AwaitNext]_<<vars, awaitVars>> => WInv'
  BY CallerSteps
<1>3. QED
  BY <1>1, <1>2, AwaitIsCoordinator, Invariance, PTL DEF AwaitSpec

\* The types of the calls, and: a call that has returned or timed out has no
\* listener on the emitter any more.  (One that was rejected may have.)
THEOREM AwaitTypeCorrect == ASSUME MaxReports = 0 PROVE AwaitSpec => []AwaitTypeOK
<1>1. WInv => AwaitTypeOK
  BY DEF WInv
<1>2. QED
  BY <1>1, CallersInvariant, PTL

\* No caller waits for a result that completedResults still has, whatever is
\* announced or evicted between its call and its answer.
THEOREM KeptResultsAnswered == ASSUME MaxReports = 0 PROVE AwaitSpec => []KeptAnswered
<1>1. WInv => KeptAnswered
  BY DEF WInv
<1>2. QED
  BY <1>1, CallersInvariant, PTL

\* awaitTasks() returns with every result it waited for, awaitTasksAny() with
\* one at least, and each of them is of a settled task.
THEOREM CompleteAnswers == ASSUME MaxReports = 0 PROVE AwaitSpec => AnswersComplete
<1>1. IInv /\ WInv /\ [AwaitNext]_<<vars, awaitVars>>
        => [\A k \in Waiters : Answered(k)]_<<vars, awaitVars>>
  BY CallerSteps
<1>2. [\A k \in Waiters : Answered(k)]_<<vars, awaitVars>>
        => [\A k \in Waiters :
               (call[k] \in {"all", "any"} /\ call'[k] = "returned") =>
                   /\ call[k] = "all" => open[k] \subseteq got'[k]
                   /\ got'[k] # {}
                   /\ \A t \in got'[k] : phase'[t] = "done"]_<<vars, awaitVars>>
  BY DEF Answered
<1>3. QED
  BY <1>1, <1>2, CallersInvariant, PTL DEF AwaitSpec, AnswersComplete
-----------------------------------------------------------------------------
(* What completedResults no longer has                                       *)

\* A caller waits in vain only for a result that has given way to as many newer
\* ones as completedResults keeps: recordCompletion() drops the oldest beyond
\* MAX_COMPLETED_RESULTS, and nothing else drops one.
LostToNewer ==
    \A k \in Waiters : \A t \in open[k] :
        phase[t] = "done" => finished[t] + MaxResults <= pushes

THEOREM OnlyEvictedAreLost == ASSUME MaxReports = 0 PROVE AwaitSpec => []LostToNewer
<1>1. WInv => LostToNewer
  BY DEF WInv, AwaitTypeOK, KeptAnswered, ResultsKept, Kept, Settled, LostToNewer
<1>2. QED
  BY <1>1, CallersInvariant, PTL

\* Where completedResults has room for the results of all the tasks, nobody ever
\* waits for a task that has settled.
THEOREM NoWakeupLost ==
    ASSUME MaxReports = 0, Cardinality(Tasks) <= MaxResults
    PROVE  AwaitSpec => []NoLostWakeup
<1>1. WInv /\ LostToNewer => NoLostWakeup
  <2> SUFFICES ASSUME WInv, LostToNewer, NEW k \in Waiters, NEW t \in open[k],
                      phase[t] = "done"
               PROVE  FALSE
    BY DEF NoLostWakeup
  <2>1. finished[t] + MaxResults <= pushes /\ t \in Settled
    BY DEF LostToNewer, WInv, AwaitTypeOK, Settled
  <2>2. finished[t] \in Nat \ {0} /\ pushes = Cardinality(Settled)
    BY <2>1 DEF WInv, ResultsKept, Kept
  <2>3. Settled \subseteq Tasks /\ IsFiniteSet(Tasks) /\ MaxResults \in Nat
    BY CoordinatorAssumption DEF Settled, CoordinatorAssumption
  <2>4. /\ Cardinality(Settled) <= Cardinality(Tasks)
        /\ Cardinality(Settled) \in Nat /\ Cardinality(Tasks) \in Nat
    BY <2>3, FS_Subset, FS_CardinalityType
  <2>5. QED
    BY <2>1, <2>2, <2>3, <2>4
<1>2. QED
  BY <1>1, CallersInvariant, OnlyEvictedAreLost, PTL
=============================================================================
