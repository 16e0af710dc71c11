-------------------------- MODULE CoordinatorProofs --------------------------
(***************************************************************************)
(* What holds of the coordinator for any number of workers and tasks, any    *)
(* pins and any ceiling.  An action changes the record Now and hands it to   *)
(* the dispatch loop, so the inductive invariant is stated of such a record  *)
(* (Good), shown to survive each helper once, and then each action.          *)
(***************************************************************************)
EXTENDS Coordinator, FiniteSetTheorems, TLAPS

Records ==
    [status : [Workers -> WorkerStatus], terminating : SUBSET Workers,
     phase : [Tasks -> Phases], host : [Tasks -> Workers \cup {NoWorker}],
     entry : [Tasks -> Nat], arrival : [Tasks -> Nat],
     finished : [Tasks -> Nat], retained : SUBSET Tasks,
     events : [Tasks -> Nat], pushes : Nat,
     inFlight : Nat, maxConcurrent : Nat \ {0}, reported : SUBSET Tasks]

InRun(s) == {t \in Tasks : s.phase[t] = "running"}

Mute(s)  == {t \in Tasks : s.phase[t] = "done" /\ s.events[t] = 0}

\* Whom the tasks belong to: a dispatched task has a worker; a pending one has
\* not been given an entry.
Placed(s) ==
    /\ \A t \in Tasks : s.phase[t] \in {"running", "held"} => s.host[t] \in Workers
    /\ \A t \in Tasks : s.entry[t] # 0 => /\ s.phase[t] \in {"running", "held", "done"}
                                         /\ s.host[t] \in Workers
    /\ ~runner => InRun(s) = {}

\* A task is announced once when it has settled and once when its caller
\* reports it, and in no other case.
Told(s, t) == (IF s.phase[t] = "done" THEN 1 ELSE 0) + (IF t \in s.reported THEN 1 ELSE 0)

\* A record the dispatch loop may start from and may leave behind.  A report
\* takes a slot from a run or an announcement from a task; the last conjunct
\* counts both, since a run without a slot may end unannounced.
Good(s) ==
    /\ s \in Records
    /\ Placed(s)
    /\ \A t \in Tasks : s.events[t] <= Told(s, t)
    /\ s.inFlight <= Cardinality(InRun(s))
    /\ Cardinality(Mute(s)) + Cardinality(InRun(s)) <= s.inFlight + Cardinality(s.reported)

\* The variables that are not in the record.
OtherTypes ==
    /\ born \in [Workers -> Nat]
    /\ aborted \in [Workers -> BOOLEAN]
    /\ fired \subseteq Tasks
    /\ spawns \in Nat
    /\ runner \in BOOLEAN
    /\ strays \subseteq Workers /\ lateFired \subseteq Workers

IInv == OtherTypes /\ Good(Now)

-----------------------------------------------------------------------------
LEMMA Counts ==
    ASSUME CoordinatorAssumption, NEW S \in SUBSET Tasks
    PROVE  IsFiniteSet(S) /\ Cardinality(S) \in Nat
BY FS_Subset, FS_CardinalityType DEF CoordinatorAssumption

LEMMA CountsOf ==
    ASSUME CoordinatorAssumption, NEW s \in Records
    PROVE  /\ InRun(s) \in SUBSET Tasks /\ Mute(s) \in SUBSET Tasks
           /\ IsFiniteSet(InRun(s)) /\ Cardinality(InRun(s)) \in Nat
           /\ IsFiniteSet(Mute(s)) /\ Cardinality(Mute(s)) \in Nat
           /\ IsFiniteSet(s.reported) /\ Cardinality(s.reported) \in Nat
PROOF
<1>1. InRun(s) \in SUBSET Tasks /\ Mute(s) \in SUBSET Tasks /\ s.reported \in SUBSET Tasks
  BY DEF InRun, Mute, Records
<1> QED BY <1>1, Counts

\* The drain settles and announces exactly the pending tasks it is given; it
\* leaves runs and slots alone.
LEMMA AbortedGood ==
    ASSUME CoordinatorAssumption, NEW s, Good(s), NEW D \in SUBSET Queue(s)
    PROVE  Good(Aborted(s, D)) /\ Aborted(s, D).inFlight = s.inFlight
PROOF
<1> DEFINE rank(t) == Cardinality({u \in D : s.arrival[u] <= s.arrival[t]})
           ph == [t \in Tasks |-> IF t \in D THEN "done" ELSE s.phase[t]]
           fi == [t \in Tasks |-> IF t \in D THEN s.pushes + rank(t) ELSE s.finished[t]]
           pu == s.pushes + Cardinality(D)
           re == s.retained \cup D
           ev == [t \in Tasks |-> IF t \in D THEN s.events[t] + 1 ELSE s.events[t]]
           a == Aborted(s, D)
<1>1. D \subseteq Tasks /\ \A t \in D : s.phase[t] = "pending"
  BY DEF Queue
<1>2. Cardinality(D) \in Nat /\ \A t \in D : rank(t) \in Nat
  <2>1. \A t \in D : {u \in D : s.arrival[u] <= s.arrival[t]} \in SUBSET Tasks
    BY <1>1
  <2> QED BY <1>1, <2>1, Counts
<1>3. a = [s EXCEPT !.phase = ph, !.finished = fi, !.pushes = pu, !.retained = re, !.events = ev]
  BY DEF Aborted
<1>4. s \in Records BY DEF Good
<1>5. /\ ph \in [Tasks -> Phases] /\ re \in SUBSET Tasks /\ ev \in [Tasks -> Nat]
      /\ pu \in Nat
  BY <1>1, <1>2, <1>4 DEF Records, Phases
<1>6. fi \in [Tasks -> Nat]
  BY <1>2, <1>4 DEF Records
<1>7. \A t \in Tasks : /\ ph[t] = IF t \in D THEN "done" ELSE s.phase[t]
                      /\ ev[t] = IF t \in D THEN s.events[t] + 1 ELSE s.events[t]
  OBVIOUS
<1> HIDE DEF ph, fi, pu, re, ev, a
<1>8. a \in Records
  BY <1>3, <1>4, <1>5, <1>6 DEF Records
<1>9. /\ a.phase = ph /\ a.events = ev /\ a.host = s.host /\ a.entry = s.entry
      /\ a.inFlight = s.inFlight /\ a.reported = s.reported
  BY <1>3, <1>4 DEF Records
<1>10. InRun(a) = InRun(s)
  BY <1>1, <1>7, <1>9 DEF InRun
<1>11. Mute(a) = Mute(s)
  BY <1>1, <1>4, <1>7, <1>9 DEF Mute, Records
<1>12. Placed(a)
  BY <1>1, <1>7, <1>9, <1>10 DEF Good, Placed
<1>13. \A t \in Tasks : a.events[t] <= Told(a, t)
  BY <1>1, <1>4, <1>7, <1>9 DEF Good, Told, Records
<1> QED BY <1>8, <1>9, <1>10, <1>11, <1>12, <1>13 DEF Good, a

\* The tasks placed each take a slot, or are held when there is no runner.
LEMMA DispatchedGood ==
    ASSUME CoordinatorAssumption, OtherTypes, NEW s, Good(s),
           NEW S \in SUBSET Queue(s), NEW f \in [S -> Idle(s)]
    PROVE  Good(Dispatched(s, f))
PROOF
<1> DEFINE d == Dispatched(s, f)
<1>1. DOMAIN f = S /\ S \subseteq Tasks /\ \A t \in S : s.phase[t] = "pending"
  BY DEF Queue
<1>2. \A t \in S : f[t] \in Workers /\ born[f[t]] \in Nat
  BY DEF Idle, OtherTypes
<1>3. IsFiniteSet(S) /\ Cardinality(S) \in Nat
  BY <1>1, Counts
<1>4. s \in Records BY DEF Good
<1> DEFINE st == [w \in Workers |-> IF \E t \in S : f[t] = w
                                    THEN "running" ELSE s.status[w]]
           ph == [t \in Tasks |-> IF t \notin S THEN s.phase[t]
                                  ELSE IF runner THEN "running" ELSE "held"]
           ho == [t \in Tasks |-> IF t \in S THEN f[t] ELSE s.host[t]]
           en == [t \in Tasks |-> IF t \in S THEN born[f[t]] ELSE s.entry[t]]
           fl == IF runner THEN s.inFlight + Cardinality(S) ELSE s.inFlight
<1>5. d = [s EXCEPT !.status = st, !.phase = ph, !.host = ho, !.entry = en,
                    !.inFlight = fl]
  BY <1>1 DEF Dispatched
<1> HIDE DEF d
<1>6. d \in Records
  <2>1. st \in [Workers -> WorkerStatus]
    BY <1>4 DEF Records, WorkerStatus
  <2>2. ph \in [Tasks -> Phases]
    BY <1>4 DEF Records, Phases
  <2>3. ho \in [Tasks -> Workers \cup {NoWorker}]
    BY <1>2, <1>4 DEF Records
  <2>4. en \in [Tasks -> Nat]
    BY <1>2, <1>4 DEF Records
  <2>5. fl \in Nat
    BY <1>3, <1>4 DEF Records
  <2> HIDE DEF st, ph, ho, en, fl
  <2> QED BY <1>4, <1>5, <2>1, <2>2, <2>3, <2>4, <2>5 DEF Records
<1>7. /\ d.phase = ph /\ d.host = ho /\ d.entry = en /\ d.inFlight = fl
      /\ d.events = s.events /\ d.reported = s.reported
  <2> HIDE DEF st, ph, ho, en, fl
  <2> QED BY <1>4, <1>5 DEF Records
<1>8. Mute(d) = Mute(s)
  BY <1>1, <1>7 DEF Mute
<1>9. /\ d.inFlight <= Cardinality(InRun(d))
      /\ Cardinality(Mute(d)) + Cardinality(InRun(d)) <= d.inFlight + Cardinality(d.reported)
  <2> DEFINE R == Cardinality(InRun(s))
             M == Cardinality(Mute(s))
             P == Cardinality(s.reported)
  <2>0. /\ R \in Nat /\ M \in Nat /\ P \in Nat /\ IsFiniteSet(InRun(s))
        /\ s.inFlight \in Nat /\ s.inFlight <= R /\ M + R <= s.inFlight + P
    BY <1>4, CountsOf DEF Good, Records
  <2>1. CASE runner
    <3>1. InRun(d) = InRun(s) \cup S
      BY <1>1, <1>7, <2>1 DEF InRun
    <3>2. InRun(s) \cap S = {}
      BY <1>1 DEF InRun
    <3>3. Cardinality(InRun(s) \cup S) = R + Cardinality(S)
      <4>1. Cardinality(InRun(s) \cup S) = R + Cardinality(S) - Cardinality(InRun(s) \cap S)
        BY <1>3, <2>0, FS_Union
      <4>2. Cardinality(InRun(s) \cap S) = 0
        BY <3>2, FS_EmptySet
      <4> QED BY <1>3, <2>0, <4>1, <4>2
    <3>4. d.inFlight = s.inFlight + Cardinality(S) /\ d.reported = s.reported
      BY <1>7, <2>1
    <3> HIDE DEF R, M, P
    <3> QED BY <1>3, <1>8, <2>0, <3>1, <3>3, <3>4 DEF M, P
  <2>2. CASE ~runner
    <3>1. InRun(d) = InRun(s)
      BY <1>1, <1>7, <2>2 DEF InRun
    <3> QED BY <1>7, <1>8, <2>0, <2>2, <3>1
  <2> QED BY <2>1, <2>2
<1>10. \A t \in Tasks : d.events[t] <= Told(d, t)
  BY <1>1, <1>7 DEF Good, Told
<1>11. Placed(d)
  BY <1>1, <1>2, <1>7 DEF Good, Placed, InRun
<1> QED BY <1>6, <1>9, <1>10, <1>11 DEF Good, d

\* The whole loop, with the drain it may end in.
LEMMA LoopGood ==
    ASSUME CoordinatorAssumption, OtherTypes, NEW s, Good(s), TryDispatchNext(s)
    PROVE  \E d : Good(d) /\ Become(d)
PROOF
<1>1. PICK S \in SUBSET Queue(s) : \E f \in [S -> Idle(s)] :
        LET d == Dispatched(s, f)
        IN Become(IF CanDispatch(d) /\ ~HasLiveSubagent(d)
                  THEN Aborted(d, Queue(d)) ELSE d)
  BY DEF TryDispatchNext
<1>2. PICK f \in [S -> Idle(s)] :
        LET d == Dispatched(s, f)
        IN Become(IF CanDispatch(d) /\ ~HasLiveSubagent(d)
                  THEN Aborted(d, Queue(d)) ELSE d)
  BY <1>1
<1> DEFINE d == Dispatched(s, f)
<1>3. Good(d) BY DispatchedGood
<1> HIDE DEF d
<1>4. Good(Aborted(d, Queue(d))) BY <1>3, AbortedGood
<1>5. Become(d) \/ Become(Aborted(d, Queue(d)))
  BY <1>2 DEF d
<1> QED BY <1>3, <1>4, <1>5

-----------------------------------------------------------------------------
(* Each action.                                                              *)

LEMMA BecomeGood ==
    ASSUME NEW d, Good(d), Become(d), runner' = runner
    PROVE  Good(Now)'
PROOF
<1>1. d = [status |-> d.status, terminating |-> d.terminating,
           phase |-> d.phase, host |-> d.host, entry |-> d.entry,
           arrival |-> d.arrival, finished |-> d.finished,
           retained |-> d.retained, events |-> d.events,
           pushes |-> d.pushes, inFlight |-> d.inFlight,
           maxConcurrent |-> d.maxConcurrent, reported |-> d.reported]
  BY DEF Good, Records
<1>2. Now' = d
  BY <1>1 DEF Now, Become
<1> QED BY <1>2 DEF Good, Placed, Told, InRun, Mute, Records

\* An action that ends in the loop keeps the invariant if what it hands over
\* is good.
LEMMA LoopStep ==
    ASSUME CoordinatorAssumption, OtherTypes, NEW s, Good(s),
           TryDispatchNext(s), runner' = runner
    PROVE  Good(Now)'
BY LoopGood, BecomeGood

LEMMA NowFields ==
    ASSUME IInv
    PROVE  /\ Now \in Records
           /\ Now.status = status /\ Now.terminating = terminating
           /\ Now.phase = phase /\ Now.host = host
           /\ Now.entry = entry /\ Now.arrival = arrival
           /\ Now.finished = finished /\ Now.pushes = pushes
           /\ Now.retained = retained /\ Now.events = events
           /\ Now.reported = reported
           /\ Now.inFlight = inFlight /\ Now.maxConcurrent = maxConcurrent
           /\ status \in [Workers -> WorkerStatus] /\ terminating \subseteq Workers
           /\ phase \in [Tasks -> Phases]
           /\ host \in [Tasks -> Workers \cup {NoWorker}]
           /\ entry \in [Tasks -> Nat] /\ arrival \in [Tasks -> Nat]
           /\ finished \in [Tasks -> Nat] /\ pushes \in Nat /\ reported \subseteq Tasks
           /\ retained \subseteq Tasks /\ events \in [Tasks -> Nat]
           /\ inFlight \in Nat /\ maxConcurrent \in Nat \ {0}
BY DEF IInv, Good, Records, Now

\* What Good says of the tasks and slots of a record.
LEMMA SameWork ==
    ASSUME NEW s, Good(s), NEW r \in Records,
           r.phase = s.phase, r.events = s.events, r.host = s.host, r.entry = s.entry,
           r.inFlight = s.inFlight, r.reported = s.reported
    PROVE  Good(r)
PROOF
<1>1. InRun(r) = InRun(s) /\ Mute(r) = Mute(s)
  BY DEF InRun, Mute
<1>2. Placed(r) /\ \A t \in Tasks : r.events[t] <= Told(r, t)
  BY <1>1 DEF Good, Placed, Told
<1> QED BY <1>1, <1>2 DEF Good

\* A change of worker bookkeeping only: status and the terminating set.
LEMMA WorkersGood ==
    ASSUME NEW s, Good(s), NEW st \in [Workers -> WorkerStatus],
           NEW tm \in SUBSET Workers
    PROVE  Good([s EXCEPT !.status = st, !.terminating = tm])
PROOF
<1> DEFINE r == [s EXCEPT !.status = st, !.terminating = tm]
<1>1. s \in Records BY DEF Good
<1>2. r \in Records BY <1>1 DEF Records
<1>3. r.phase = s.phase /\ r.events = s.events /\ r.host = s.host /\ r.entry = s.entry
      /\ r.inFlight = s.inFlight /\ r.reported = s.reported
  BY <1>1 DEF Records
<1> HIDE DEF r
<1> QED BY <1>2, <1>3, SameWork DEF r

LEMMA InitIInv == ASSUME CoordinatorAssumption, Init PROVE IInv
PROOF
<1>1. OtherTypes
  BY DEF Init, OtherTypes, CoordinatorAssumption
<1>2. Now \in Records
  BY DEF Init, Now, Records, WorkerStatus, Phases, CoordinatorAssumption
<1>3. /\ Now.phase = [t \in Tasks |-> "new"] /\ Now.events = [t \in Tasks |-> 0]
      /\ Now.entry = [t \in Tasks |-> 0] /\ Now.inFlight = 0 /\ Now.reported = {}
  BY DEF Init, Now
<1>4. InRun(Now) = {} /\ Mute(Now) = {}
  BY <1>3 DEF InRun, Mute
<1>5. Cardinality({}) = 0
  BY FS_EmptySet
<1>6. Placed(Now) /\ \A t \in Tasks : Now.events[t] <= Told(Now, t)
  BY <1>3, <1>4 DEF Placed, Told
<1> QED BY <1>1, <1>2, <1>3, <1>4, <1>5, <1>6 DEF IInv, Good

\* Pushing a task on the queue, under any pin.
LEMMA QueuedGood ==
    ASSUME NEW s, Good(s), NEW t \in Tasks,
           s.phase[t] = "new",
           NEW p \in Workers \cup {NoWorker}, NEW n \in Nat
    PROVE  Good([s EXCEPT !.phase[t] = "pending", !.host[t] = p, !.arrival[t] = n])
PROOF
<1> DEFINE r == [s EXCEPT !.phase[t] = "pending", !.host[t] = p, !.arrival[t] = n]
<1>1. s \in Records BY DEF Good
<1>2. /\ r.phase = [s.phase EXCEPT ![t] = "pending"]
      /\ r.host = [s.host EXCEPT ![t] = p]
      /\ r.events = s.events /\ r.entry = s.entry
      /\ r.inFlight = s.inFlight /\ r.reported = s.reported
  BY <1>1 DEF Records
<1>3. r \in Records
  <2>1. [s.phase EXCEPT ![t] = "pending"] \in [Tasks -> Phases]
    BY <1>1 DEF Records, Phases
  <2>2. [s.host EXCEPT ![t] = p] \in [Tasks -> Workers \cup {NoWorker}]
    BY <1>1 DEF Records
  <2>3. [s.arrival EXCEPT ![t] = n] \in [Tasks -> Nat]
    BY <1>1 DEF Records
  <2> QED BY <1>1, <2>1, <2>2, <2>3 DEF Records
<1> HIDE DEF r
<1>4. \A u \in Tasks : /\ r.phase[u] = IF u = t THEN "pending" ELSE s.phase[u]
                      /\ r.host[u] = IF u = t THEN p ELSE s.host[u]
  BY <1>1, <1>2 DEF Records
<1>5. InRun(r) = InRun(s) /\ Mute(r) = Mute(s)
  BY <1>2, <1>4 DEF InRun, Mute
<1>6. \A u \in Tasks : r.events[u] <= Told(r, u)
  BY <1>2, <1>4 DEF Good, Told
<1>7. Placed(r)
  BY <1>2, <1>4, <1>5 DEF Good, Placed
<1> QED BY <1>2, <1>3, <1>5, <1>6, <1>7 DEF Good, r

LEMMA AssignGood ==
    ASSUME CoordinatorAssumption, IInv, NEW t \in Tasks, NEW p \in Pins, Assign(t, p)
    PROVE  Good(Now)'
PROOF
<1> DEFINE n == 1 + Cardinality({u \in Tasks : arrival[u] # 0})
           s == [Now EXCEPT !.phase[t] = "pending", !.host[t] = p, !.arrival[t] = n]
<1>1. n \in Nat
  BY FS_Subset, FS_CardinalityType DEF CoordinatorAssumption
<1>2. Now.phase[t] = "new" /\ p \in Workers \cup {NoWorker}
  BY NowFields DEF Assign, CoordinatorAssumption
<1>3. TryDispatchNext(s) /\ runner' = runner
  BY DEF Assign, Aside
<1> HIDE DEF n
<1>4. Good(s)
  BY <1>1, <1>2, QueuedGood DEF IInv
<1> HIDE DEF s
<1> QED BY <1>3, <1>4, LoopStep DEF IInv

\* Another pin for a pending task.
LEMMA RepinnedGood ==
    ASSUME CoordinatorAssumption, IInv, NEW t \in Tasks, NEW p \in Pins, Retarget(t, p)
    PROVE  Good([Now EXCEPT !.host[t] = p])
PROOF
<1> DEFINE s == [Now EXCEPT !.host[t] = p]
<1>1. phase[t] = "pending" /\ p \in Workers \cup {NoWorker}
  BY DEF Retarget, CoordinatorAssumption
<1>2. s \in Records
  <2>1. [host EXCEPT ![t] = p] \in [Tasks -> Workers \cup {NoWorker}]
    BY <1>1, NowFields
  <2> QED BY <2>1, NowFields DEF Records
<1>3. /\ s.phase = phase /\ s.events = events /\ s.inFlight = inFlight
      /\ s.entry = entry /\ s.reported = reported
      /\ s.host = [host EXCEPT ![t] = p]
  BY DEF Now
<1> HIDE DEF s
<1>4. InRun(s) = InRun(Now) /\ Mute(s) = Mute(Now)
  BY <1>3, NowFields DEF InRun, Mute
<1>5. \A u \in Tasks : s.host[u] = IF u = t THEN p ELSE host[u]
  BY <1>3, NowFields
<1>6. Placed(s)
  BY <1>1, <1>3, <1>4, <1>5, NowFields DEF IInv, Good, Placed
<1>7. \A u \in Tasks : s.events[u] <= Told(s, u)
  BY <1>3, NowFields DEF IInv, Good, Told
<1>8. Good(s)
  BY <1>2, <1>3, <1>4, <1>6, <1>7, NowFields DEF IInv, Good
<1> QED BY <1>8 DEF s

LEMMA RetargetGood ==
    ASSUME CoordinatorAssumption, IInv, NEW t \in Tasks, NEW p \in Pins, Retarget(t, p)
    PROVE  Good(Now)'
PROOF
<1> DEFINE s == [Now EXCEPT !.host[t] = p]
<1>1. TryDispatchNext(s) /\ runner' = runner
  BY DEF Retarget, Aside
<1>2. Good(s)
  BY RepinnedGood
<1> HIDE DEF s
<1> QED BY <1>1, <1>2, LoopStep DEF IInv

\* Another ceiling, even one below the runs in flight.
LEMMA RecappedGood ==
    ASSUME CoordinatorAssumption, IInv, NEW n \in Caps
    PROVE  Good([Now EXCEPT !.maxConcurrent = n])
PROOF
<1> DEFINE s == [Now EXCEPT !.maxConcurrent = n]
<1>1. n \in Nat \ {0}
  BY DEF CoordinatorAssumption
<1>2. s \in Records
  BY <1>1, NowFields DEF Records
<1>3. /\ s.phase = phase /\ s.events = events /\ s.host = host /\ s.entry = entry
      /\ s.inFlight = inFlight /\ s.reported = reported
  BY DEF Now
<1> HIDE DEF s
<1>4. Good(s)
  BY <1>2, <1>3, NowFields, SameWork DEF IInv
<1> QED BY <1>4 DEF s

LEMMA SetMaxConcurrentGood ==
    ASSUME CoordinatorAssumption, IInv, NEW n \in Caps, SetMaxConcurrent(n)
    PROVE  Good(Now)'
PROOF
<1> DEFINE s == [Now EXCEPT !.maxConcurrent = n]
<1>1. TryDispatchNext(s) /\ runner' = runner
  BY DEF SetMaxConcurrent, Aside
<1>2. Good(s)
  BY RecappedGood
<1> HIDE DEF s
<1> QED BY <1>1, <1>2, LoopStep DEF IInv

\* Stopping entries touches no task.
LEMMA StoppedGood ==
    ASSUME NEW s, Good(s), NEW W \in SUBSET Workers
    PROVE  Good(Stopped(s, W))
PROOF
<1> DEFINE st == [w \in Workers |-> IF w \in W THEN "stopped" ELSE s.status[w]]
           tm == s.terminating \cup W
<1>1. s \in Records BY DEF Good
<1>2. st \in [Workers -> WorkerStatus] /\ tm \in SUBSET Workers
  BY <1>1 DEF Records, WorkerStatus
<1> DEFINE r == [s EXCEPT !.status = st, !.terminating = tm]
<1>3. Stopped(s, W) = r
  BY <1>1 DEF Stopped, Records
<1> HIDE DEF st, tm
<1>4. Good(r)
  BY <1>2, WorkersGood
<1> QED BY <1>3, <1>4

LEMMA StopAllGood ==
    ASSUME CoordinatorAssumption, IInv, StopAll
    PROVE  Good(Now)'
PROOF
<1> DEFINE a == Aborted(Now, Queue(Now))
<1>1. Good(a)
  BY AbortedGood DEF IInv
<1>2. Entries(Now) \in SUBSET Workers
  BY DEF Entries
<1>3. Become(Stopped(a, Entries(Now))) /\ runner' = runner
  BY DEF StopAll, Aside
<1> HIDE DEF a
<1>4. Good(Stopped(a, Entries(Now)))
  BY <1>1, <1>2, StoppedGood
<1> QED BY <1>3, <1>4, BecomeGood

LEMMA RemoveGood ==
    ASSUME CoordinatorAssumption, IInv, NEW w \in Workers, Remove(w)
    PROVE  Good(Now)'
PROOF
<1> DEFINE pinned == {t \in Queue(Now) : host[t] = w}
           st == [status EXCEPT ![w] = "absent"]
           tm == terminating \ {w}
           s == [Now EXCEPT !.status = st, !.terminating = tm]
<1>1. st \in [Workers -> WorkerStatus] /\ tm \in SUBSET Workers
  BY NowFields DEF WorkerStatus
<1>2. s = [Now EXCEPT !.status[w] = "absent", !.terminating = terminating \ {w}]
  BY DEF Now
<1>3. Become(Aborted(s, pinned)) /\ runner' = runner
  BY <1>2 DEF Remove, Aside
<1>4. s.phase = Now.phase
  BY DEF Now
<1> HIDE DEF st, tm
<1>5. Good(s)
  BY <1>1, WorkersGood DEF IInv
<1> HIDE DEF s
<1>6. pinned \in SUBSET Queue(s)
  BY <1>4 DEF Queue
<1>7. Good(Aborted(s, pinned))
  BY <1>5, <1>6, AbortedGood
<1> QED BY <1>3, <1>7, BecomeGood

-----------------------------------------------------------------------------
(* A completion settles an account.  Before recordCompletion() takes a slot   *)
(* and announces, the record it is handed owes both.                         *)

Owes(s, t) ==
    LET R == Cardinality(InRun(s))
    IN /\ s \in Records /\ Placed(s)
       /\ \A u \in Tasks : s.events[u] <= Told(s, u)
       /\ s.events[t] + 1 <= Told(s, t)
       /\ s.inFlight <= R + 1
       /\ s.inFlight > 0 =>
             Cardinality(Mute(s) \ {t}) + R + 1 <= s.inFlight + Cardinality(s.reported)
       /\ s.inFlight = 0 => Cardinality(Mute(s)) + R <= Cardinality(s.reported)

\* What Settle and CompleteTask hand to recordCompletion().
SettledNow(t) == [Now EXCEPT !.phase[t] = "done"]

ReportedNow(t) ==
    LET s == [Now EXCEPT !.reported = reported \cup {t}]
    IN IF phase[t] = "held" THEN [s EXCEPT !.phase[t] = "done", !.entry[t] = 0] ELSE s

\* The run that ended had a slot, or an earlier report took it.
LEMMA SettleOwes ==
    ASSUME CoordinatorAssumption, IInv, NEW t \in Tasks, phase[t] = "running"
    PROVE  Owes(SettledNow(t), t)
PROOF
<1> DEFINE s == SettledNow(t)
           R == Cardinality(InRun(Now))
           M == Cardinality(Mute(Now))
           P == Cardinality(reported)
<1>1. s \in Records
  <2>1. [phase EXCEPT ![t] = "done"] \in [Tasks -> Phases]
    BY NowFields DEF Phases
  <2> QED BY <2>1, NowFields DEF SettledNow, Records
<1>2. /\ \A u \in Tasks : s.phase[u] = IF u = t THEN "done" ELSE phase[u]
      /\ s.events = events /\ s.host = host /\ s.entry = entry
      /\ s.inFlight = inFlight /\ s.reported = reported
  BY NowFields DEF SettledNow, Now
<1> HIDE DEF s
<1>3. /\ R \in Nat /\ M \in Nat /\ P \in Nat /\ inFlight \in Nat
      /\ IsFiniteSet(InRun(Now)) /\ IsFiniteSet(Mute(Now))
      /\ inFlight <= R /\ M + R <= inFlight + P
  BY NowFields, CountsOf DEF IInv, Good
<1>4. /\ InRun(s) = InRun(Now) \ {t} /\ t \in InRun(Now)
      /\ Mute(s) \ {t} = Mute(Now) /\ Mute(s) \subseteq Mute(Now) \cup {t}
      /\ t \notin Mute(Now)
  BY <1>2, NowFields DEF InRun, Mute
<1>5. Cardinality(InRun(s)) = R - 1 /\ R # 0
  <2>1. Cardinality(InRun(Now) \ {t}) = Cardinality(InRun(Now)) - 1
    BY <1>3, <1>4, FS_RemoveElement
  <2>2. Cardinality(InRun(Now)) # 0
    BY <1>3, <1>4, FS_EmptySet
  <2> QED BY <1>4, <2>1, <2>2
<1>6. Cardinality(Mute(s)) \in Nat /\ Cardinality(Mute(s)) <= M + 1
  <2>1. IsFiniteSet(Mute(Now) \cup {t}) /\ Cardinality(Mute(Now) \cup {t}) = M + 1
    BY <1>3, <1>4, FS_AddElement
  <2> QED BY <1>4, <2>1, FS_Subset, FS_CardinalityType
<1>7. Placed(s)
  BY <1>2, <1>4, NowFields DEF IInv, Good, Placed
<1>8. \A u \in Tasks : events[u] <= Told(Now, u) /\ events[u] \in Nat
  BY NowFields DEF IInv, Good
<1>9. \A u \in Tasks : s.events[u] <= Told(s, u)
  BY <1>2, <1>8, NowFields DEF Told
<1>10. s.events[t] + 1 <= Told(s, t)
  BY <1>2, <1>8, NowFields DEF Told
<1> HIDE DEF R, M, P
<1>11. Cardinality(Mute(s) \ {t}) = M /\ Cardinality(s.reported) = P
  BY <1>2, <1>4 DEF M, P
<1> QED BY <1>1, <1>2, <1>3, <1>5, <1>6, <1>7, <1>9, <1>10, <1>11 DEF Owes, s

\* A report may cost a slot or an announcement that it did not have.
LEMMA ReportOwes ==
    ASSUME CoordinatorAssumption, IInv, NEW t \in Tasks, t \notin reported
    PROVE  Owes(ReportedNow(t), t)
PROOF
<1> DEFINE s == ReportedNow(t)
           R == Cardinality(InRun(Now))
           M == Cardinality(Mute(Now))
           P == Cardinality(reported)
           held == phase[t] = "held"
<1>1. s \in Records
  <2>1. [phase EXCEPT ![t] = "done"] \in [Tasks -> Phases] /\ [entry EXCEPT ![t] = 0] \in [Tasks -> Nat]
    BY NowFields DEF Phases
  <2>2. reported \cup {t} \in SUBSET Tasks
    BY NowFields
  <2> QED BY <2>1, <2>2, NowFields DEF ReportedNow, Records
<1>2. /\ \A u \in Tasks : s.phase[u] = IF u = t /\ held THEN "done" ELSE phase[u]
      /\ \A u \in Tasks : s.entry[u] = IF u = t /\ held THEN 0 ELSE entry[u]
      /\ s.events = events /\ s.host = host
      /\ s.inFlight = inFlight /\ s.reported = reported \cup {t}
  <2>1. CASE held
    BY <2>1, NowFields DEF ReportedNow, Now
  <2>2. CASE ~held
    BY <2>2, NowFields DEF ReportedNow, Now
  <2> QED BY <2>1, <2>2
<1> HIDE DEF s
<1>3. /\ R \in Nat /\ M \in Nat /\ P \in Nat /\ inFlight \in Nat
      /\ IsFiniteSet(Mute(Now)) /\ IsFiniteSet(reported)
      /\ inFlight <= R /\ M + R <= inFlight + P
  BY NowFields, CountsOf DEF IInv, Good
<1>4. /\ InRun(s) = InRun(Now)
      /\ Mute(s) \ {t} \subseteq Mute(Now)
      /\ IF held THEN Mute(s) \subseteq Mute(Now) \cup {t} ELSE Mute(s) = Mute(Now)
  BY <1>2, NowFields DEF InRun, Mute
<1>5. Cardinality(Mute(s) \ {t}) \in Nat /\ Cardinality(Mute(s) \ {t}) <= M
  BY <1>3, <1>4, FS_Subset, FS_CardinalityType
<1>6. Cardinality(Mute(s)) \in Nat /\ Cardinality(Mute(s)) <= M + 1
  <2>1. /\ IsFiniteSet(Mute(Now) \cup {t}) /\ Cardinality(Mute(Now) \cup {t}) \in Nat
        /\ Cardinality(Mute(Now) \cup {t}) <= M + 1
    <3>1. IsFiniteSet(Mute(Now) \cup {t})
          /\ Cardinality(Mute(Now) \cup {t}) = IF t \in Mute(Now) THEN M ELSE M + 1
      BY <1>3, FS_AddElement
    <3> HIDE DEF M
    <3> QED BY <1>3, <3>1
  <2>2. Mute(s) \subseteq Mute(Now) \cup {t}
    BY <1>4
  <2>3. Cardinality(Mute(s)) \in Nat /\ Cardinality(Mute(s)) <= Cardinality(Mute(Now) \cup {t})
    BY <2>1, <2>2, FS_Subset, FS_CardinalityType
  <2> HIDE DEF M
  <2> QED BY <1>3, <2>1, <2>3
<1>7. Cardinality(s.reported) = P + 1
  BY <1>2, <1>3, FS_AddElement
<1>8. Placed(s)
  BY <1>2, <1>4, NowFields DEF IInv, Good, Placed
<1>9. \A u \in Tasks : events[u] <= Told(Now, u) /\ events[u] \in Nat
  BY NowFields DEF IInv, Good
<1>10. \A u \in Tasks : s.events[u] <= Told(s, u)
  BY <1>2, <1>9, NowFields DEF Told
<1>11. s.events[t] + 1 <= Told(s, t)
  BY <1>2, <1>9, NowFields DEF Told
<1>12. Cardinality(InRun(s)) = R
  BY <1>4
<1> HIDE DEF R, M, P
<1> QED BY <1>1, <1>2, <1>3, <1>5, <1>6, <1>7, <1>8, <1>10, <1>11, <1>12 DEF Owes, s

\* A result that is only pushed, in the branch for a slot that is not there.
LEMMA PushedFacts ==
    ASSUME NEW s \in Records, NEW t \in Tasks
    PROVE  LET p == Pushed(s, t)
           IN /\ p \in Records
              /\ p.status = s.status /\ p.terminating = s.terminating
              /\ p.phase = s.phase /\ p.host = s.host /\ p.entry = s.entry
              /\ p.arrival = s.arrival /\ p.events = s.events
              /\ p.inFlight = s.inFlight /\ p.maxConcurrent = s.maxConcurrent
              /\ p.reported = s.reported /\ p.pushes = s.pushes + 1
              /\ \A u \in Tasks : p.finished[u] = IF u = t THEN p.pushes ELSE s.finished[u]
              /\ p.retained = {u \in s.retained \cup {t} : p.finished[u] + MaxResults > p.pushes}
PROOF
<1> DEFINE q == [s EXCEPT !.pushes = s.pushes + 1, !.finished[t] = s.pushes + 1]
           ret == {u \in s.retained \cup {t} : q.finished[u] + MaxResults > q.pushes}
           p == Pushed(s, t)
<1>1. p = [q EXCEPT !.retained = ret]
  BY DEF Pushed
<1>2. q \in Records
  <2>1. [s.finished EXCEPT ![t] = s.pushes + 1] \in [Tasks -> Nat] /\ s.pushes + 1 \in Nat
    BY DEF Records
  <2> QED BY <2>1 DEF Records
<1>3. ret \in SUBSET Tasks
  BY DEF Records
<1>4. /\ q.status = s.status /\ q.terminating = s.terminating
      /\ q.phase = s.phase /\ q.host = s.host /\ q.entry = s.entry
      /\ q.arrival = s.arrival /\ q.events = s.events
      /\ q.inFlight = s.inFlight /\ q.maxConcurrent = s.maxConcurrent
      /\ q.reported = s.reported /\ q.pushes = s.pushes + 1
      /\ \A u \in Tasks : q.finished[u] = IF u = t THEN q.pushes ELSE s.finished[u]
  BY DEF Records
<1> HIDE DEF q, p
<1>7. ret = {u \in s.retained \cup {t} : q.finished[u] + MaxResults > q.pushes}
  BY DEF ret
<1> HIDE DEF ret
<1>5. p \in Records
  BY <1>1, <1>2, <1>3 DEF Records
<1>6. /\ p.status = q.status /\ p.terminating = q.terminating
      /\ p.phase = q.phase /\ p.host = q.host /\ p.entry = q.entry
      /\ p.arrival = q.arrival /\ p.events = q.events
      /\ p.inFlight = q.inFlight /\ p.maxConcurrent = q.maxConcurrent
      /\ p.reported = q.reported /\ p.pushes = q.pushes /\ p.finished = q.finished
      /\ p.retained = ret
  BY <1>1, <1>2 DEF Records
<1> QED BY <1>4, <1>5, <1>6, <1>7 DEF p

LEMMA DroppedGood ==
    ASSUME CoordinatorAssumption, NEW s, NEW t \in Tasks, Owes(s, t), s.inFlight = 0
    PROVE  Good(Pushed(s, t))
PROOF
<1> DEFINE p == Pushed(s, t)
<1>1. s \in Records
  BY DEF Owes
<1>2. /\ p \in Records /\ p.phase = s.phase /\ p.host = s.host /\ p.entry = s.entry
      /\ p.events = s.events /\ p.inFlight = s.inFlight /\ p.reported = s.reported
  BY <1>1, PushedFacts
<1> HIDE DEF p
<1>3. InRun(p) = InRun(s) /\ Mute(p) = Mute(s)
  BY <1>2 DEF InRun, Mute
<1>4. Cardinality(InRun(s)) \in Nat /\ Cardinality(s.reported) \in Nat /\ Cardinality(Mute(s)) \in Nat
  BY <1>1, CountsOf
<1>5. Placed(p) /\ \A u \in Tasks : p.events[u] <= Told(p, u)
  BY <1>2, <1>3 DEF Owes, Placed, Told
<1> QED BY <1>2, <1>3, <1>4, <1>5 DEF Owes, Good, p

\* The rest of recordCompletion(): a slot returned, an announcement made.
LEMMA ReleasedFacts ==
    ASSUME NEW s \in Records, NEW t \in Tasks, NEW w \in Workers
    PROVE  LET r == Released(s, t, w)
           IN /\ r \in Records
              /\ r.phase = s.phase /\ r.host = s.host /\ r.entry = s.entry
              /\ r.arrival = s.arrival /\ r.maxConcurrent = s.maxConcurrent
              /\ r.reported = s.reported /\ r.pushes = s.pushes
              /\ r.finished = s.finished /\ r.retained = s.retained
              /\ \A u \in Tasks : r.events[u] = IF u = t THEN s.events[t] + 1 ELSE s.events[u]
              /\ r.inFlight = IF s.inFlight > 0 THEN s.inFlight - 1 ELSE 0
              /\ \A v \in Workers :
                    r.status[v] = IF v # w \/ s.status[w] \in {"absent", "stopped"}
                                  THEN s.status[v] ELSE "idle"
              /\ r.terminating = s.terminating \ {w}
PROOF
<1> DEFINE fl == IF s.inFlight > 0 THEN s.inFlight - 1 ELSE 0
           st == [s.status EXCEPT ![w] = IF s.status[w] \in {"absent", "stopped"}
                                         THEN s.status[w] ELSE "idle"]
           ev == [s.events EXCEPT ![t] = s.events[t] + 1]
           te == s.terminating \ {w}
           r == Released(s, t, w)
<1>1. r = [s EXCEPT !.inFlight = fl, !.status = st, !.terminating = te, !.events = ev]
  BY DEF Released, Records
<1>2. st \in [Workers -> WorkerStatus]
  BY DEF Records, WorkerStatus
<1>3. ev \in [Tasks -> Nat] /\ fl \in Nat /\ te \in SUBSET Workers
  BY DEF Records
<1> HIDE DEF fl, st, ev, te, r
<1>4. r \in Records
  BY <1>1, <1>2, <1>3 DEF Records
<1>5. /\ r.phase = s.phase /\ r.host = s.host /\ r.entry = s.entry
      /\ r.arrival = s.arrival /\ r.maxConcurrent = s.maxConcurrent
      /\ r.reported = s.reported /\ r.pushes = s.pushes
      /\ r.finished = s.finished /\ r.retained = s.retained
      /\ r.events = ev /\ r.inFlight = fl /\ r.status = st /\ r.terminating = te
  BY <1>1 DEF Records
<1>6. /\ \A u \in Tasks : ev[u] = IF u = t THEN s.events[t] + 1 ELSE s.events[u]
      /\ \A v \in Workers : st[v] = IF v # w \/ s.status[w] \in {"absent", "stopped"}
                                    THEN s.status[v] ELSE "idle"
  BY DEF ev, st, Records
<1> QED BY <1>4, <1>5, <1>6 DEF fl, te, r

LEMMA PushedOwes ==
    ASSUME NEW s, NEW t \in Tasks, Owes(s, t)
    PROVE  Owes(Pushed(s, t), t)
PROOF
<1> DEFINE p == Pushed(s, t)
<1>1. s \in Records
  BY DEF Owes
<1>2. /\ p \in Records /\ p.phase = s.phase /\ p.host = s.host /\ p.entry = s.entry
      /\ p.events = s.events /\ p.inFlight = s.inFlight /\ p.reported = s.reported
  BY <1>1, PushedFacts
<1> HIDE DEF p
<1>3. InRun(p) = InRun(s) /\ Mute(p) = Mute(s)
  BY <1>2 DEF InRun, Mute
<1>4. Placed(p) /\ \A u \in Tasks : Told(p, u) = Told(s, u)
  BY <1>2, <1>3 DEF Owes, Placed, Told
<1> QED BY <1>2, <1>3, <1>4 DEF Owes, p

LEMMA ReleasedGood ==
    ASSUME CoordinatorAssumption, NEW s, NEW t \in Tasks, NEW w \in Workers, Owes(s, t)
    PROVE  Good(Released(s, t, w))
PROOF
<1> DEFINE r == Released(s, t, w)
           R == Cardinality(InRun(s))
           M == Cardinality(Mute(s) \ {t})
           P == Cardinality(s.reported)
<1>1. s \in Records
  BY DEF Owes
<1>3. /\ r \in Records /\ r.phase = s.phase /\ r.host = s.host /\ r.entry = s.entry
      /\ r.reported = s.reported
      /\ r.inFlight = IF s.inFlight > 0 THEN s.inFlight - 1 ELSE 0
  BY <1>1, ReleasedFacts
<1>4. \A u \in Tasks : r.events[u] = IF u = t THEN s.events[t] + 1 ELSE s.events[u]
  BY <1>1, ReleasedFacts
<1> HIDE DEF r
<1>5. InRun(r) = InRun(s) /\ Mute(r) = Mute(s) \ {t}
  BY <1>1, <1>3, <1>4 DEF InRun, Mute, Records
<1>6. /\ R \in Nat /\ M \in Nat /\ P \in Nat /\ s.inFlight \in Nat
      /\ Cardinality(Mute(s)) \in Nat /\ M <= Cardinality(Mute(s))
  BY <1>1, CountsOf, FS_Subset, FS_CardinalityType DEF Records
<1>7. Placed(r) /\ \A u \in Tasks : r.events[u] <= Told(r, u)
  BY <1>3, <1>4, <1>5 DEF Owes, Placed, Told
<1>8. /\ s.inFlight <= R + 1
      /\ s.inFlight > 0 => M + R + 1 <= s.inFlight + P
      /\ s.inFlight = 0 => Cardinality(Mute(s)) + R <= P
  BY DEF Owes
<1>9. Cardinality(InRun(r)) = R /\ Cardinality(Mute(r)) = M /\ Cardinality(r.reported) = P
  BY <1>3, <1>5
<1> HIDE DEF R, M, P
<1>10. /\ r.inFlight <= Cardinality(InRun(r))
       /\ Cardinality(Mute(r)) + Cardinality(InRun(r)) <= r.inFlight + Cardinality(r.reported)
  BY <1>3, <1>6, <1>8, <1>9
<1> QED BY <1>3, <1>7, <1>10 DEF Good, r

LEMMA EndedGood ==
    ASSUME CoordinatorAssumption, NEW s, NEW t \in Tasks, NEW w \in Workers, Owes(s, t)
    PROVE  Good(Released(Pushed(s, t), t, w))
BY PushedOwes, ReleasedGood

\* recordCompletion() of whatever owes a slot and an announcement.
LEMMA RecordCompletionGood ==
    ASSUME CoordinatorAssumption, IInv, NEW s, NEW t \in Tasks, NEW w \in Workers, NEW own,
           Owes(s, t), RecordCompletion(s, t, w, own), runner' = runner
    PROVE  Good(Now)'
PROOF
<1>1. CASE runner /\ s.inFlight = 0
  <2>1. Good(Pushed(s, t)) /\ Become(Pushed(s, t))
    BY <1>1, DroppedGood DEF RecordCompletion
  <2> QED BY <2>1, BecomeGood
<1>2. CASE ~(runner /\ s.inFlight = 0)
  <2> DEFINE r == Released(Pushed(s, t), t, w)
  <2>1. TryDispatchNext(r) /\ Good(r)
    BY <1>2, EndedGood DEF RecordCompletion
  <2> HIDE DEF r
  <2> QED BY <2>1, LoopStep DEF IInv
<1> QED BY <1>1, <1>2

LEMMA SpawnGood ==
    ASSUME IInv, NEW w \in Workers, Spawn(w)
    PROVE  Good(Now)'
PROOF
<1> DEFINE st == [status EXCEPT ![w] = "idle"]
           s == [Now EXCEPT !.status = st, !.terminating = terminating]
<1>1. st \in [Workers -> WorkerStatus] /\ terminating \in SUBSET Workers
  BY NowFields DEF WorkerStatus
<1>2. Become(s) /\ runner' = runner
  BY DEF Spawn, Become, Now
<1> HIDE DEF st
<1>3. Good(s)
  BY <1>1, WorkersGood DEF IInv
<1> HIDE DEF s
<1> QED BY <1>2, <1>3, BecomeGood

LEMMA StopGood ==
    ASSUME IInv, NEW w \in Workers, Stop(w)
    PROVE  Good(Now)'
PROOF
<1>1. Become(Stopped(Now, {w})) /\ runner' = runner
  BY DEF Stop, Aside
<1>2. Good(Stopped(Now, {w}))
  BY StoppedGood DEF IInv
<1> QED BY <1>1, <1>2, BecomeGood

\* Nothing of the record changes; a runner may have come.
LEMMA SameRecordGood ==
    ASSUME IInv, Now' = Now, runner => runner'
    PROVE  Good(Now)'
BY DEF IInv, Good, Placed, Told, InRun, Mute, Records

\* The completions: which record, under which id.
LEMMA EndRecords ==
    ASSUME CoordinatorAssumption, IInv, NEW t \in Tasks,
           Settle(t) \/ \E w \in Workers : CompleteTask(t, w)
    PROVE  \E w \in Workers :
              \/ /\ Owes(SettledNow(t), t) /\ phase[t] = "running" /\ w = host[t]
                 /\ RecordCompletion(SettledNow(t), t, w, entry[t] = born[w])
                 /\ UNCHANGED <<born, fired, spawns, runner>>
              \/ /\ Owes(ReportedNow(t), t) /\ t \notin reported /\ host[t] \in {NoWorker, w}
                 /\ Cardinality(reported) < MaxReports
                 /\ RecordCompletion(ReportedNow(t), t, w, phase[t] = "held" /\ entry[t] = born[w])
                 /\ UNCHANGED <<born, fired, spawns, runner>>
PROOF
<1>1. CASE Settle(t)
  <2>1. phase[t] = "running" /\ host[t] \in Workers
    BY <1>1, NowFields DEF Settle, IInv, Good, Placed
  <2>2. Owes(SettledNow(t), t)
    BY <2>1, SettleOwes
  <2> QED BY <1>1, <2>1, <2>2 DEF Settle, SettledNow
<1>2. ASSUME NEW w \in Workers, CompleteTask(t, w)
      PROVE  /\ Owes(ReportedNow(t), t) /\ t \notin reported /\ host[t] \in {NoWorker, w}
             /\ Cardinality(reported) < MaxReports
             /\ RecordCompletion(ReportedNow(t), t, w, phase[t] = "held" /\ entry[t] = born[w])
             /\ UNCHANGED <<born, fired, spawns, runner>>
  BY <1>2, ReportOwes DEF CompleteTask, ReportedNow
<1> QED BY <1>1, <1>2

LEMMA EndGood ==
    ASSUME CoordinatorAssumption, IInv, NEW t \in Tasks,
           Settle(t) \/ \E w \in Workers : CompleteTask(t, w)
    PROVE  Good(Now)'
BY EndRecords, RecordCompletionGood

\* The variables outside the record keep their types.
LEMMA OtherTypesStep ==
    ASSUME CoordinatorAssumption, IInv, [Next]_vars
    PROVE  OtherTypes'
PROOF
<1>1. CASE UNCHANGED vars
  BY <1>1 DEF IInv, OtherTypes, vars
<1>2. ASSUME NEW w \in Workers, Spawn(w) PROVE OtherTypes'
  BY <1>2 DEF IInv, OtherTypes, Spawn
<1>3. ASSUME NEW t \in Tasks, NEW p \in Pins, Assign(t, p) \/ Retarget(t, p)
      PROVE OtherTypes'
  BY <1>3 DEF IInv, OtherTypes, Aside, Assign, Retarget
<1>4. ASSUME NEW n \in Caps, SetMaxConcurrent(n) PROVE OtherTypes'
  BY <1>4 DEF IInv, OtherTypes, Aside, SetMaxConcurrent
<1>5. CASE SetRunner
  BY <1>5 DEF IInv, OtherTypes, SetRunner
<1>6. ASSUME NEW W, AbortControllers(W)
      PROVE  aborted' \in [Workers -> BOOLEAN]
  BY <1>6 DEF IInv, OtherTypes, AbortControllers
<1>7. ASSUME NEW w \in Workers, Stop(w) \/ Remove(w) PROVE OtherTypes'
  <2>1. AbortControllers({w})
    BY <1>7 DEF Stop, Remove
  <2>2. aborted' \in [Workers -> BOOLEAN]
    BY <1>6, <2>1
  <2> QED BY <1>7, <2>2 DEF IInv, OtherTypes, Aside, Stop, Remove
<1>8. CASE StopAll
  <2>1. AbortControllers(Entries(Now)) /\ Entries(Now) \in SUBSET Workers
    BY <1>8 DEF StopAll, Entries
  <2>2. aborted' \in [Workers -> BOOLEAN]
    BY <1>6, <2>1
  <2> QED BY <1>8, <2>2 DEF IInv, OtherTypes, Aside, StopAll
<1>9. ASSUME NEW t \in Tasks, WatchdogFires(t) PROVE OtherTypes'
  <2>1. host[t] \in Workers
    BY <1>9, NowFields DEF WatchdogFires, IInv, Good, Placed
  <2>2. aborted' \in [Workers -> BOOLEAN]
    BY <1>6, <1>9 DEF WatchdogFires, IInv, OtherTypes
  <2>3. lateFired' \subseteq Workers
    BY <1>9, <2>1 DEF WatchdogFires, IInv, OtherTypes
  <2> QED BY <1>9, <2>2, <2>3 DEF WatchdogFires, IInv, OtherTypes
<1>10. ASSUME NEW t \in Tasks, Settle(t) \/ \E w \in Workers : CompleteTask(t, w) PROVE OtherTypes'
  <2>1. PICK w \in Workers : /\ \E s, own : RecordCompletion(s, t, w, own)
                             /\ UNCHANGED <<born, fired, spawns, runner>>
    BY <1>10, EndRecords
  <2> QED BY <2>1 DEF RecordCompletion, Recycled, IInv, OtherTypes
<1> QED BY <1>1, <1>2, <1>3, <1>4, <1>5, <1>7, <1>8, <1>9, <1>10
   DEF Next, CoordinatorAssumption

LEMMA NextIInv ==
    ASSUME CoordinatorAssumption, IInv, [Next]_vars
    PROVE  IInv'
PROOF
<1>1. OtherTypes'
  BY OtherTypesStep
<1>2. Good(Now)'
  <2>1. CASE UNCHANGED vars
    BY <2>1, SameRecordGood DEF vars, Now
  <2>2. ASSUME NEW w \in Workers, Spawn(w) PROVE Good(Now)'
    BY <2>2, SpawnGood
  <2>3. ASSUME NEW t \in Tasks, NEW p \in Pins, Assign(t, p) PROVE Good(Now)'
    BY <2>3, AssignGood
  <2>4. ASSUME NEW t \in Tasks, NEW p \in Pins, Retarget(t, p) PROVE Good(Now)'
    BY <2>4, RetargetGood
  <2>5. ASSUME NEW n \in Caps, SetMaxConcurrent(n) PROVE Good(Now)'
    BY <2>5, SetMaxConcurrentGood
  <2>6. CASE SetRunner
    BY <2>6, SameRecordGood DEF SetRunner, Now
  <2>7. ASSUME NEW w \in Stoppable, Stop(w) PROVE Good(Now)'
    BY <2>7, StopGood DEF CoordinatorAssumption
  <2>8. CASE StopAll
    BY <2>8, StopAllGood
  <2>9. ASSUME NEW w \in Removable, Remove(w) PROVE Good(Now)'
    BY <2>9, RemoveGood DEF CoordinatorAssumption
  <2>10. ASSUME NEW t \in Tasks, WatchdogFires(t) PROVE Good(Now)'
    BY <2>10, SameRecordGood DEF WatchdogFires, Now
  <2>11. ASSUME NEW t \in Tasks, Settle(t) \/ \E w \in Workers : CompleteTask(t, w)
         PROVE Good(Now)'
    BY <2>11, EndGood
  <2> QED
    BY <2>1, <2>2, <2>3, <2>4, <2>5, <2>6, <2>7, <2>8, <2>9, <2>10, <2>11
    DEF Next
<1> QED BY <1>1, <1>2 DEF IInv

-----------------------------------------------------------------------------
(* The theorems.                                                             *)

\* The inductive invariant holds throughout every behaviour.
THEOREM Invariance == Spec => []IInv
PROOF
<1>1. Init => IInv
  BY CoordinatorAssumption, InitIInv
<1>2. IInv /\ [Next]_vars => IInv'
  BY CoordinatorAssumption, NextIInv
<1> QED BY <1>1, <1>2, PTL DEF Spec

\* Every variable of the coordinator keeps its type: in particular inFlight
\* never goes below zero, whatever is stopped, removed or drained.
THEOREM TypeCorrect == Spec => []TypeOK
PROOF
<1>1. IInv => TypeOK
  BY NowFields DEF IInv, OtherTypes, TypeOK
<1> QED BY <1>1, Invariance, PTL

\* Each run in flight owns a slot, but for one per result that a caller reported
\* with completeTask(): stop(), remove() and the drains, which go around
\* recordCompletion(), neither leak a slot nor return one that a run still holds.
THEOREM SlotsAccounted == Spec => []SlotAccounting
PROOF
<1>1. IInv => SlotAccounting
  <2> SUFFICES ASSUME IInv PROVE SlotAccounting
    OBVIOUS
  <2>1. Running = InRun(Now)
    BY NowFields DEF Running, InRun
  <2>2. Cardinality(InRun(Now)) \in Nat /\ Cardinality(Mute(Now)) \in Nat /\ Cardinality(reported) \in Nat
    BY NowFields, CountsOf, CoordinatorAssumption
  <2> QED BY <2>1, <2>2, NowFields DEF IInv, Good, SlotAccounting
<1> QED BY <1>1, Invariance, PTL

\* 'task.completed' is emitted at most once for a settled task and never for
\* another, but once more for a task its caller reported with completeTask();
\* and the underflow branch of recordCompletion(), which swallows an
\* announcement, leaves no more tasks unannounced than callers reported.
THEOREM NoticesExact == Spec => []OneNotice
PROOF
<1>1. IInv => OneNotice
  <2> SUFFICES ASSUME IInv PROVE OneNotice
    OBVIOUS
  <2>1. Silent = Mute(Now)
    BY NowFields DEF Silent, Mute
  <2>2. Cardinality(InRun(Now)) \in Nat /\ Cardinality(Mute(Now)) \in Nat /\ Cardinality(reported) \in Nat
    BY NowFields, CountsOf, CoordinatorAssumption
  <2>3. Cardinality(Mute(Now)) <= Cardinality(reported)
    BY <2>2, NowFields DEF IInv, Good
  <2> QED BY <2>1, <2>3, NowFields DEF IInv, Good, Told, OneNotice
<1> QED BY <1>1, Invariance, PTL

-----------------------------------------------------------------------------
(* What the loop does to the record it is given, and what it is given.       *)

\* The loop placed the tasks of S as f says; a drain settled pending ones and
\* announced them.
LoopDid(s, S, f) ==
    /\ FirstFit(f, s)
    /\ status' = [w \in Workers |-> IF \E t \in S : f[t] = w THEN "running" ELSE s.status[w]]
    /\ terminating' = s.terminating /\ arrival' = s.arrival /\ reported' = s.reported
    /\ host' = [t \in Tasks |-> IF t \in S THEN f[t] ELSE s.host[t]]
    /\ entry' = [t \in Tasks |-> IF t \in S THEN born[f[t]] ELSE s.entry[t]]
    /\ maxConcurrent' = s.maxConcurrent
    /\ inFlight' = IF runner THEN s.inFlight + Cardinality(S) ELSE s.inFlight
    /\ \A t \in Tasks : IF t \in S THEN phase'[t] = IF runner THEN "running" ELSE "held"
                        ELSE \/ phase'[t] = s.phase[t]
                             \/ s.phase[t] = "pending" /\ phase'[t] = "done"
    /\ \A t \in Tasks : events'[t] = IF s.phase[t] # "done" /\ phase'[t] = "done"
                                     THEN s.events[t] + 1 ELSE s.events[t]

LEMMA LoopDoes ==
    ASSUME CoordinatorAssumption, OtherTypes, NEW s, Good(s), TryDispatchNext(s)
    PROVE  \E S \in SUBSET Queue(s) : \E f \in [S -> Idle(s)] : LoopDid(s, S, f)
PROOF
<1>0. PICK S \in SUBSET Queue(s) : \E f \in [S -> Idle(s)] :
        FirstFit(f, s) /\ LET d == Dispatched(s, f)
                          IN Become(IF CanDispatch(d) /\ ~HasLiveSubagent(d)
                                    THEN Aborted(d, Queue(d)) ELSE d)
  BY DEF TryDispatchNext
<1>1. PICK f \in [S -> Idle(s)] :
        FirstFit(f, s) /\ LET d == Dispatched(s, f)
                          IN Become(IF CanDispatch(d) /\ ~HasLiveSubagent(d)
                                    THEN Aborted(d, Queue(d)) ELSE d)
  BY <1>0
<1> DEFINE d == Dispatched(s, f)
           a == Aborted(d, Queue(d))
<1>2. d \in Records /\ s \in Records /\ DOMAIN f = S
  BY DispatchedGood DEF Good
<1>3. /\ d.status = [w \in Workers |-> IF \E t \in S : f[t] = w THEN "running" ELSE s.status[w]]
      /\ d.terminating = s.terminating /\ d.arrival = s.arrival /\ d.reported = s.reported
      /\ d.host = [t \in Tasks |-> IF t \in S THEN f[t] ELSE s.host[t]]
      /\ d.entry = [t \in Tasks |-> IF t \in S THEN born[f[t]] ELSE s.entry[t]]
      /\ d.maxConcurrent = s.maxConcurrent /\ d.events = s.events
      /\ d.inFlight = IF runner THEN s.inFlight + Cardinality(S) ELSE s.inFlight
      /\ d.phase = [t \in Tasks |-> IF t \notin S THEN s.phase[t]
                                    ELSE IF runner THEN "running" ELSE "held"]
  BY <1>2 DEF Dispatched, Records
<1> HIDE DEF d
<1>4. /\ a.status = d.status /\ a.terminating = d.terminating /\ a.arrival = d.arrival
      /\ a.host = d.host /\ a.maxConcurrent = d.maxConcurrent /\ a.inFlight = d.inFlight
      /\ a.entry = d.entry /\ a.reported = d.reported
      /\ a.phase = [t \in Tasks |-> IF t \in Queue(d) THEN "done" ELSE d.phase[t]]
      /\ a.events = [t \in Tasks |-> IF t \in Queue(d) THEN d.events[t] + 1 ELSE d.events[t]]
  BY <1>2 DEF Aborted, Records
<1> HIDE DEF a
<1>5. Become(d) \/ Become(a)
  BY <1>1 DEF d, a
<1>6. \A t \in Queue(d) : t \notin S /\ s.phase[t] = "pending"
  BY <1>3 DEF Queue
<1>7. FirstFit(f, s) /\ \A t \in S : s.phase[t] = "pending"
  BY <1>1 DEF Queue
<1>8. /\ \A t \in Tasks : IF t \in S THEN phase'[t] = IF runner THEN "running" ELSE "held"
                          ELSE \/ phase'[t] = s.phase[t]
                               \/ s.phase[t] = "pending" /\ phase'[t] = "done"
      /\ \A t \in Tasks : events'[t] = IF s.phase[t] # "done" /\ phase'[t] = "done"
                                       THEN s.events[t] + 1 ELSE s.events[t]
  <2>1. CASE Become(d)
    BY <1>3, <1>7, <2>1 DEF Become
  <2>2. CASE Become(a)
    BY <1>3, <1>4, <1>6, <1>7, <2>2 DEF Become
  <2> QED BY <1>5, <2>1, <2>2
<1>9. /\ status' = d.status /\ terminating' = d.terminating /\ arrival' = d.arrival
      /\ reported' = d.reported /\ host' = d.host /\ entry' = d.entry
      /\ maxConcurrent' = d.maxConcurrent /\ inFlight' = d.inFlight
  BY <1>4, <1>5 DEF Become
<1>10. LoopDid(s, S, f)
  BY <1>3, <1>7, <1>8, <1>9 DEF LoopDid
<1> QED BY <1>10

\* The ledger's order, on the coordinator's phases.
Fwd(a, b) == Ledger!Rank[StageOf[a]] <= Ledger!Rank[StageOf[b]]

LEMMA FwdFacts ==
    /\ \A a \in Phases : Fwd(a, a) /\ Fwd("new", a) /\ Fwd(a, "done")
    /\ \A a, b, c \in Phases : Fwd(a, b) /\ Fwd(b, c) => Fwd(a, c)
    /\ \A a \in Phases : Fwd("done", a) => a = "done"
    /\ Fwd("pending", "running") /\ Fwd("pending", "held")
BY DEF Fwd, Ledger!Rank, StageOf, Phases

\* What the ledger asks of a step: here from the state before it to phases ph,
\* announcements ev and reports re.
Onward(ph, ev, re) ==
    /\ reported \subseteq re
    /\ \A t \in Tasks :
          /\ Fwd(phase[t], ph[t])
          /\ events[t] <= ev[t]
          /\ ev[t] <= events[t] + (IF phase[t] # "done" /\ ph[t] = "done" THEN 1 ELSE 0)
                                + (IF t \in re \ reported THEN 1 ELSE 0)

\* What the methods that end in the loop have done before it.
Queueing(s) ==
    /\ Staffed
    /\ \E t \in Tasks : \E p \in Pins :
          /\ phase[t] = "new" /\ s.phase = [phase EXCEPT ![t] = "pending"]
          /\ s.host = [host EXCEPT ![t] = p]
          /\ s.arrival = [arrival EXCEPT ![t] = 1 + Cardinality({u \in Tasks : arrival[u] # 0})]
    /\ s.status = status /\ s.terminating = terminating /\ s.entry = entry
    /\ s.inFlight = inFlight /\ s.maxConcurrent = maxConcurrent
    /\ UNCHANGED <<aborted, strays, lateFired>>

Changing(s) ==
    /\ s.phase = phase /\ s.arrival = arrival /\ s.entry = entry
    /\ \/ s.host = host
       \/ \E t \in Tasks : \E p \in Pins : phase[t] = "pending" /\ s.host = [host EXCEPT ![t] = p]
    /\ s.status = status /\ s.terminating = terminating /\ s.inFlight = inFlight
    /\ UNCHANGED <<aborted, strays, lateFired>>

\* recordCompletion() of a result of t under the id w; `ended`: it ends t.
Ends(t, w, ended, ph, en) ==
    /\ ended => phase[t] \in {"running", "held"} /\ host[t] = w
    /\ \A u \in Tasks : /\ ph[u] = IF u = t /\ ended THEN "done" ELSE phase[u]
                        /\ en[u] = entry[u] \/ (u = t /\ ended /\ en[u] = 0)

Ending(s) ==
    \E t \in Tasks, w \in Workers, ended \in BOOLEAN :
        /\ Ends(t, w, ended, s.phase, s.entry)
        /\ s.host = host /\ s.arrival = arrival /\ s.maxConcurrent = maxConcurrent
        /\ \A v \in Workers :
              s.status[v] = IF v # w \/ status[w] \in {"absent", "stopped"} THEN status[v] ELSE "idle"
        /\ s.terminating = terminating \ {w}
        /\ s.inFlight <= inFlight
        /\ Recycled(w)
        /\ strays' = IF ended /\ entry[t] = born[w] THEN strays ELSE strays \cup {w}

Handed(s) ==
    /\ Good(s) /\ TryDispatchNext(s) /\ UNCHANGED <<born, fired, spawns, runner>>
    /\ Onward(s.phase, s.events, s.reported)
    /\ Queueing(s) \/ Changing(s) \/ Ending(s)

\* The branch of recordCompletion() for a slot that is not there, which only a
\* report brings about.
Dropped ==
    /\ runner /\ reported' # {}
    /\ UNCHANGED <<status, born, aborted, terminating, host, arrival, fired, events, inFlight,
                   maxConcurrent, spawns, runner, lateFired>>
    /\ \E t \in Tasks, w \in Workers, ended \in BOOLEAN :
          /\ Ends(t, w, ended, phase', entry')
          /\ strays' = strays \cup {w}

LEMMA AssignHands ==
    ASSUME CoordinatorAssumption, IInv, NEW t \in Tasks, NEW p \in Pins, Assign(t, p)
    PROVE  \E s : Handed(s)
PROOF
<1> DEFINE n == 1 + Cardinality({u \in Tasks : arrival[u] # 0})
           s == [Now EXCEPT !.phase[t] = "pending", !.host[t] = p, !.arrival[t] = n]
<1>1. n \in Nat
  BY FS_Subset, FS_CardinalityType DEF CoordinatorAssumption
<1>2. Now.phase[t] = "new" /\ phase[t] = "new" /\ p \in Workers \cup {NoWorker} /\ Staffed
  BY NowFields DEF Assign, CoordinatorAssumption
<1>3. TryDispatchNext(s) /\ UNCHANGED <<aborted, Aside>>
  BY DEF Assign
<1>4. /\ s.phase = [phase EXCEPT ![t] = "pending"] /\ s.host = [host EXCEPT ![t] = p]
      /\ s.arrival = [arrival EXCEPT ![t] = n]
      /\ s.status = status /\ s.terminating = terminating /\ s.entry = entry
      /\ s.inFlight = inFlight /\ s.maxConcurrent = maxConcurrent
      /\ s.events = events /\ s.reported = reported
  BY DEF Now
<1> HIDE DEF n
<1>5. Good(s)
  BY <1>1, <1>2, QueuedGood DEF IInv
<1> HIDE DEF s
<1>6. Queueing(s) /\ UNCHANGED <<born, fired, spawns, runner>>
  BY <1>2, <1>3, <1>4 DEF Queueing, Aside, n
<1>7. \A u \in Tasks : Fwd(phase[u], s.phase[u])
  BY <1>2, <1>4, NowFields, FwdFacts DEF Phases
<1>8. Onward(s.phase, s.events, s.reported)
  BY <1>4, <1>7, NowFields DEF Onward
<1> QED BY <1>3, <1>5, <1>6, <1>8 DEF Handed

LEMMA ChangeHands ==
    ASSUME CoordinatorAssumption, IInv,
           \/ \E t \in Tasks, p \in Pins : Retarget(t, p)
           \/ \E n \in Caps : SetMaxConcurrent(n)
    PROVE  \E s : Handed(s)
PROOF
<1>0. Onward(phase, events, reported)
  BY NowFields, FwdFacts DEF Onward
<1>1. ASSUME NEW t \in Tasks, NEW p \in Pins, Retarget(t, p) PROVE \E s : Handed(s)
  <2> DEFINE s == [Now EXCEPT !.host[t] = p]
  <2>1. TryDispatchNext(s) /\ UNCHANGED <<aborted, Aside>>
        /\ phase[t] = "pending"
    BY <1>1 DEF Retarget
  <2>2. /\ s.phase = phase /\ s.host = [host EXCEPT ![t] = p] /\ s.arrival = arrival
        /\ s.status = status /\ s.terminating = terminating /\ s.inFlight = inFlight
        /\ s.entry = entry /\ s.events = events /\ s.reported = reported
    BY DEF Now
  <2>3. Good(s)
    BY <1>1, RepinnedGood
  <2> HIDE DEF s
  <2> QED BY <1>0, <2>1, <2>2, <2>3 DEF Handed, Changing, Aside
<1>2. ASSUME NEW n \in Caps, SetMaxConcurrent(n) PROVE \E s : Handed(s)
  <2> DEFINE s == [Now EXCEPT !.maxConcurrent = n]
  <2>1. TryDispatchNext(s) /\ UNCHANGED <<aborted, Aside>>
    BY <1>2 DEF SetMaxConcurrent
  <2>2. /\ s.phase = phase /\ s.host = host /\ s.arrival = arrival
        /\ s.status = status /\ s.terminating = terminating /\ s.inFlight = inFlight
        /\ s.entry = entry /\ s.events = events /\ s.reported = reported
    BY DEF Now
  <2>3. Good(s)
    BY RecappedGood
  <2> HIDE DEF s
  <2> QED BY <1>0, <2>1, <2>2, <2>3 DEF Handed, Changing, Aside
<1> QED BY <1>1, <1>2

\* What Settle and CompleteTask make of the record before recordCompletion().
Owed(s, t, w, ended) ==
    /\ Owes(s, t) /\ Ends(t, w, ended, s.phase, s.entry)
    /\ s.status = status /\ s.terminating = terminating /\ s.host = host
    /\ s.arrival = arrival /\ s.events = events /\ s.inFlight = inFlight
    /\ s.maxConcurrent = maxConcurrent
    /\ reported \subseteq s.reported
    /\ \/ (ended /\ phase[t] = "running")
       \/ t \in s.reported \ reported

LEMMA EndOwed ==
    ASSUME CoordinatorAssumption, IInv, NEW t \in Tasks,
           Settle(t) \/ \E w \in Workers : CompleteTask(t, w)
    PROVE  \E s : \E w \in Workers, ended \in BOOLEAN :
              /\ Owed(s, t, w, ended)
              /\ RecordCompletion(s, t, w, ended /\ entry[t] = born[w])
              /\ UNCHANGED <<born, fired, spawns, runner>>
PROOF
<1>1. PICK w \in Workers :
              \/ /\ Owes(SettledNow(t), t) /\ phase[t] = "running" /\ w = host[t]
                 /\ RecordCompletion(SettledNow(t), t, w, entry[t] = born[w])
                 /\ UNCHANGED <<born, fired, spawns, runner>>
              \/ /\ Owes(ReportedNow(t), t) /\ t \notin reported /\ host[t] \in {NoWorker, w}
                 /\ Cardinality(reported) < MaxReports
                 /\ RecordCompletion(ReportedNow(t), t, w, phase[t] = "held" /\ entry[t] = born[w])
                 /\ UNCHANGED <<born, fired, spawns, runner>>
  BY EndRecords
<1> SUFFICES \E s : \E ended \in BOOLEAN :
                /\ Owed(s, t, w, ended)
                /\ RecordCompletion(s, t, w, ended /\ entry[t] = born[w])
                /\ UNCHANGED <<born, fired, spawns, runner>>
  OBVIOUS
<1>2. CASE /\ Owes(SettledNow(t), t) /\ phase[t] = "running" /\ w = host[t]
           /\ RecordCompletion(SettledNow(t), t, w, entry[t] = born[w])
           /\ UNCHANGED <<born, fired, spawns, runner>>
  <2> DEFINE s == SettledNow(t)
  <2>1. /\ s.status = status /\ s.terminating = terminating /\ s.host = host
        /\ s.arrival = arrival /\ s.events = events /\ s.inFlight = inFlight
        /\ s.maxConcurrent = maxConcurrent /\ s.reported = reported /\ s.entry = entry
        /\ \A u \in Tasks : s.phase[u] = IF u = t THEN "done" ELSE phase[u]
    BY NowFields DEF SettledNow, Now
  <2> HIDE DEF s
  <2>2. Owed(s, t, w, TRUE)
    BY <1>2, <2>1 DEF Owed, Ends, s
  <2>3. RecordCompletion(s, t, w, TRUE /\ entry[t] = born[w])
    BY <1>2 DEF s
  <2> QED BY <1>2, <2>2, <2>3
<1>3. CASE /\ Owes(ReportedNow(t), t) /\ t \notin reported /\ host[t] \in {NoWorker, w}
           /\ Cardinality(reported) < MaxReports
           /\ RecordCompletion(ReportedNow(t), t, w, phase[t] = "held" /\ entry[t] = born[w])
           /\ UNCHANGED <<born, fired, spawns, runner>>
  <2> DEFINE s == ReportedNow(t)
             held == phase[t] = "held"
  <2>1. /\ s.status = status /\ s.terminating = terminating /\ s.host = host
        /\ s.arrival = arrival /\ s.events = events /\ s.inFlight = inFlight
        /\ s.maxConcurrent = maxConcurrent /\ s.reported = reported \cup {t}
        /\ \A u \in Tasks : s.phase[u] = IF u = t /\ held THEN "done" ELSE phase[u]
        /\ \A u \in Tasks : s.entry[u] = IF u = t /\ held THEN 0 ELSE entry[u]
    <3>1. CASE held
      BY <3>1, NowFields DEF ReportedNow, Now
    <3>2. CASE ~held
      BY <3>2, NowFields DEF ReportedNow, Now
    <3> QED BY <3>1, <3>2
  <2> HIDE DEF s
  <2>2. held => host[t] = w
    BY <1>3, NowFields, CoordinatorAssumption DEF IInv, Good, Placed, CoordinatorAssumption
  <2>3. Owed(s, t, w, held)
    BY <1>3, <2>1, <2>2 DEF Owed, Ends, s
  <2>4. RecordCompletion(s, t, w, held /\ entry[t] = born[w])
    BY <1>3 DEF s
  <2> QED BY <1>3, <2>3, <2>4
<1> QED BY <1>1, <1>2, <1>3

\* A completion that returns a slot hands the record on to the loop.
LEMMA ReleaseHands ==
    ASSUME CoordinatorAssumption, IInv, NEW s, NEW t \in Tasks, NEW w \in Workers,
           NEW ended \in BOOLEAN, Owed(s, t, w, ended),
           RecordCompletion(s, t, w, ended /\ entry[t] = born[w]),
           UNCHANGED <<born, fired, spawns, runner>>, ~(runner /\ inFlight = 0)
    PROVE  Handed(Released(Pushed(s, t), t, w))
PROOF
<1> DEFINE p == Pushed(s, t)
           r == Released(p, t, w)
<1>1. s \in Records /\ s.inFlight = inFlight
  BY DEF Owed, Owes
<1>2. /\ TryDispatchNext(r) /\ Recycled(w)
      /\ strays' = IF ended /\ entry[t] = born[w] THEN strays ELSE strays \cup {w}
  BY <1>1 DEF RecordCompletion
<1>3. Good(r)
  BY EndedGood DEF Owed
<1>4. /\ p \in Records
      /\ p.status = s.status /\ p.terminating = s.terminating
      /\ p.phase = s.phase /\ p.host = s.host /\ p.entry = s.entry
      /\ p.arrival = s.arrival /\ p.events = s.events
      /\ p.inFlight = s.inFlight /\ p.maxConcurrent = s.maxConcurrent
      /\ p.reported = s.reported
  BY <1>1, PushedFacts
<1> HIDE DEF p
<1>5. /\ r.phase = p.phase /\ r.host = p.host /\ r.entry = p.entry
      /\ r.arrival = p.arrival /\ r.maxConcurrent = p.maxConcurrent
      /\ r.reported = p.reported
      /\ \A u \in Tasks : r.events[u] = IF u = t THEN p.events[t] + 1 ELSE p.events[u]
      /\ r.inFlight = IF p.inFlight > 0 THEN p.inFlight - 1 ELSE 0
      /\ \A v \in Workers :
            r.status[v] = IF v # w \/ p.status[w] \in {"absent", "stopped"}
                          THEN p.status[v] ELSE "idle"
      /\ r.terminating = p.terminating \ {w}
  BY <1>4, ReleasedFacts
<1> HIDE DEF r
<1>6. Ending(r)
  <2>1. r.inFlight <= inFlight
    BY <1>1, <1>4, <1>5, NowFields
  <2>2. Ends(t, w, ended, r.phase, r.entry)
    BY <1>4, <1>5 DEF Owed
  <2>3. /\ r.host = host /\ r.arrival = arrival /\ r.maxConcurrent = maxConcurrent
        /\ r.terminating = terminating \ {w}
    BY <1>4, <1>5 DEF Owed
  <2>4. \A v \in Workers : r.status[v] = IF v # w \/ status[w] \in {"absent", "stopped"}
                                          THEN status[v] ELSE "idle"
    BY <1>4, <1>5 DEF Owed
  <2>5. Recycled(w) /\ strays' = IF ended /\ entry[t] = born[w] THEN strays ELSE strays \cup {w}
    BY <1>2
  <2> QED BY <2>1, <2>2, <2>3, <2>4, <2>5 DEF Ending
<1>7. \A u \in Tasks : Fwd(phase[u], r.phase[u])
  BY <1>4, <1>5, NowFields, FwdFacts DEF Owed, Ends
<1>8. \A u \in Tasks : r.phase[u] = IF u = t /\ ended THEN "done" ELSE phase[u]
  BY <1>4, <1>5 DEF Owed, Ends
<1>9. Onward(r.phase, r.events, r.reported)
  <2>1. \A u \in Tasks : events[u] \in Nat
    BY NowFields
  <2>2. \A u \in Tasks : r.events[u] = IF u = t THEN events[t] + 1 ELSE events[u]
    BY <1>4, <1>5 DEF Owed
  <2>3. reported \subseteq r.reported
    BY <1>4, <1>5 DEF Owed
  <2>4. (phase[t] # "done" /\ r.phase[t] = "done") \/ t \in r.reported \ reported
    BY <1>4, <1>5, <1>8 DEF Owed
  <2> QED BY <1>7, <2>1, <2>2, <2>3, <2>4 DEF Onward
<1> QED BY <1>2, <1>3, <1>6, <1>9 DEF Handed, r, p

\* One that finds no slot to return leaves the pool alone.
LEMMA DropDrops ==
    ASSUME CoordinatorAssumption, IInv, NEW s, NEW t \in Tasks, NEW w \in Workers,
           NEW ended \in BOOLEAN, Owed(s, t, w, ended),
           RecordCompletion(s, t, w, ended /\ entry[t] = born[w]),
           UNCHANGED <<born, fired, spawns, runner>>, runner /\ inFlight = 0
    PROVE  Dropped /\ Onward(phase', events', reported')
PROOF
<1> DEFINE p == Pushed(s, t)
<1>1. s \in Records /\ s.inFlight = inFlight
  BY DEF Owed, Owes
<1>2. Become(p) /\ strays' = strays \cup {w} /\ UNCHANGED <<aborted, lateFired>>
  BY <1>1 DEF RecordCompletion
<1>3. /\ p.status = s.status /\ p.terminating = s.terminating
      /\ p.phase = s.phase /\ p.host = s.host /\ p.entry = s.entry
      /\ p.arrival = s.arrival /\ p.events = s.events
      /\ p.inFlight = s.inFlight /\ p.maxConcurrent = s.maxConcurrent
      /\ p.reported = s.reported
  BY <1>1, PushedFacts
<1> HIDE DEF p
<1>4. /\ UNCHANGED <<status, terminating, host, arrival, events, inFlight, maxConcurrent>>
      /\ phase' = s.phase /\ entry' = s.entry /\ reported' = s.reported
  BY <1>2, <1>3 DEF Become, Owed
<1>5. reported' # {}
  <2>1. CASE t \in s.reported \ reported
    BY <1>4, <2>1
  <2>2. CASE ended /\ phase[t] = "running"
    <3>1. t \in InRun(Now) /\ IsFiniteSet(InRun(Now)) /\ Cardinality(InRun(Now)) \in Nat
      BY <2>2, NowFields, CountsOf DEF InRun
    <3>2. Cardinality(InRun(Now)) # 0
      BY <3>1, FS_EmptySet
    <3>3. Cardinality(Mute(Now)) \in Nat /\ Cardinality(reported) \in Nat
      BY NowFields, CountsOf
    <3>4. Cardinality(reported) # 0
      BY <3>1, <3>2, <3>3, NowFields DEF IInv, Good
    <3>5. reported # {}
      BY <3>4, FS_EmptySet
    <3> QED BY <1>4, <3>5 DEF Owed
  <2> QED BY <2>1, <2>2 DEF Owed
<1>6. Ends(t, w, ended, phase', entry')
  BY <1>4 DEF Owed
<1>7. Dropped
  BY <1>2, <1>4, <1>5, <1>6 DEF Dropped
<1>8. \A u \in Tasks : Fwd(phase[u], phase'[u])
  BY <1>6, NowFields, FwdFacts DEF Ends
<1>9. Onward(phase', events', reported')
  BY <1>4, <1>8, NowFields DEF Onward, Owed
<1> QED BY <1>7, <1>9

LEMMA EndHands ==
    ASSUME CoordinatorAssumption, IInv, NEW t \in Tasks,
           Settle(t) \/ \E w \in Workers : CompleteTask(t, w)
    PROVE  (\E s : Handed(s)) \/ (Dropped /\ Onward(phase', events', reported'))
PROOF
<1>0. PICK s : \E w \in Workers, ended \in BOOLEAN :
              /\ Owed(s, t, w, ended)
              /\ RecordCompletion(s, t, w, ended /\ entry[t] = born[w])
              /\ UNCHANGED <<born, fired, spawns, runner>>
  BY EndOwed
<1>1. PICK w \in Workers, ended \in BOOLEAN :
              /\ Owed(s, t, w, ended)
              /\ RecordCompletion(s, t, w, ended /\ entry[t] = born[w])
              /\ UNCHANGED <<born, fired, spawns, runner>>
  BY <1>0
<1>2. CASE runner /\ inFlight = 0
  BY <1>1, <1>2, DropDrops
<1>3. CASE ~(runner /\ inFlight = 0)
  BY <1>1, <1>3, ReleaseHands
<1> QED BY <1>2, <1>3

\* A step without the loop: it starts nothing.
Quiet ==
    /\ UNCHANGED <<host, arrival, inFlight, maxConcurrent>>
    /\ Onward(phase', events', reported')
    /\ \A t \in Tasks : phase'[t] = phase[t] \/ (phase[t] # "new" /\ phase'[t] = "done")
    /\ \A w \in Workers : \/ status'[w] \in {status[w], "stopped", "absent"}
                          \/ status[w] = "absent" /\ status'[w] = "idle"

\* Nor does it end a run, or hand one's entry to another.
Resting == /\ entry' = entry
           /\ \A t \in Tasks : phase[t] \in {"running", "held"} => phase'[t] = phase[t]

\* Entries stopped, and the tasks of D settled.
LEMMA StopsQuietly ==
    ASSUME IInv, NEW s \in Records, s.phase = phase, s.host = host, s.arrival = arrival,
           s.inFlight = inFlight, s.maxConcurrent = maxConcurrent, s.events = events,
           NEW D \in SUBSET Queue(Now)
    PROVE  /\ Aborted(s, D).status = s.status /\ Aborted(s, D).terminating = s.terminating
           /\ Aborted(s, D).host = host /\ Aborted(s, D).arrival = arrival
           /\ Aborted(s, D).inFlight = inFlight /\ Aborted(s, D).maxConcurrent = maxConcurrent
           /\ Aborted(s, D).entry = s.entry /\ Aborted(s, D).reported = s.reported
           /\ \A t \in Tasks : Aborted(s, D).phase[t] = IF t \in D THEN "done" ELSE phase[t]
           /\ \A t \in Tasks : Aborted(s, D).events[t] = IF t \in D THEN events[t] + 1 ELSE events[t]
           /\ \A t \in D : phase[t] = "pending"
PROOF
<1>1. \A t \in D : phase[t] = "pending"
  BY NowFields DEF Queue
<1> QED BY <1>1 DEF Aborted, Records

\* So it is quiet.
LEMMA DrainedQuietly ==
    ASSUME IInv, NEW D \in SUBSET Queue(Now), UNCHANGED <<host, arrival, inFlight, maxConcurrent>>,
           UNCHANGED <<entry, reported>>,
           \A t \in Tasks : phase'[t] = IF t \in D THEN "done" ELSE phase[t],
           \A t \in Tasks : events'[t] = IF t \in D THEN events[t] + 1 ELSE events[t],
           \A w \in Workers : status'[w] \in {status[w], "stopped", "absent"}
    PROVE  Quiet /\ Resting
PROOF
<1>1. \A t \in D : phase[t] = "pending"
  BY NowFields DEF Queue
<1>2. \A t \in Tasks : Fwd(phase[t], phase'[t])
  BY NowFields, FwdFacts
<1>3. Onward(phase', events', reported')
  BY <1>1, <1>2, NowFields DEF Onward
<1> QED BY <1>1, <1>3 DEF Quiet, Resting

\* A step that leaves the tasks alone.
LEMMA IdleQuietly ==
    ASSUME IInv, UNCHANGED <<host, arrival, inFlight, maxConcurrent, entry, reported, phase, events>>,
           \A w \in Workers : \/ status'[w] \in {status[w], "stopped", "absent"}
                              \/ status[w] = "absent" /\ status'[w] = "idle"
    PROVE  Quiet /\ Resting
PROOF
<1>1. Onward(phase', events', reported')
  BY NowFields, FwdFacts DEF Onward
<1> QED BY <1>1 DEF Quiet, Resting

\* stop(), stopAll() and remove() take entries out of use, settle pending tasks
\* and leave everything else as it is.
Withdrawn ==
    \A w \in Workers :
        \/ /\ status'[w] = status[w] /\ aborted'[w] = aborted[w]
           /\ w \in terminating' <=> w \in terminating
        \/ /\ status[w] # "absent"
           /\ status'[w] = "stopped" \/ (status'[w] = "absent" /\ w \notin terminating')

LEMMA Withdraws ==
    ASSUME CoordinatorAssumption, IInv,
           (\E w \in Workers : Stop(w)) \/ StopAll \/ (\E w \in Workers : Remove(w))
    PROVE  Quiet /\ Resting /\ UNCHANGED Aside /\ Withdrawn
PROOF
<1>1. ASSUME NEW w \in Workers, Stop(w) PROVE Quiet /\ Resting /\ UNCHANGED Aside /\ Withdrawn
  <2>1. /\ UNCHANGED <<host, arrival, inFlight, maxConcurrent, entry, reported, phase, events, Aside>>
        /\ \A v \in Workers : status'[v] = IF v = w THEN "stopped" ELSE status[v]
        /\ \A v \in Workers : v # w => aborted'[v] = aborted[v]
        /\ terminating' = terminating \cup {w}
        /\ status[w] # "absent"
    BY <1>1 DEF Stop, Stopped, Become, Now, AbortControllers, IInv, OtherTypes
  <2>2. Quiet /\ Resting
    BY <2>1, IdleQuietly
  <2>3. Withdrawn
    BY <2>1 DEF Withdrawn
  <2> QED BY <2>1, <2>2, <2>3
<1>2. CASE StopAll
  <2> DEFINE Q == Queue(Now)
             a == Aborted(Now, Q)
  <2>1. a \in Records
    BY AbortedGood DEF IInv, Good
  <2>2. /\ a.status = status /\ a.host = host /\ a.arrival = arrival
        /\ a.terminating = terminating
        /\ a.inFlight = inFlight /\ a.maxConcurrent = maxConcurrent
        /\ a.entry = entry /\ a.reported = reported
        /\ \A t \in Tasks : a.phase[t] = IF t \in Q THEN "done" ELSE phase[t]
        /\ \A t \in Tasks : a.events[t] = IF t \in Q THEN events[t] + 1 ELSE events[t]
    BY NowFields, StopsQuietly
  <2>3. Become(Stopped(a, Entries(Now))) /\ UNCHANGED Aside
    BY <1>2 DEF StopAll
  <2> HIDE DEF a
  <2>4. /\ status' = [w \in Workers |-> IF w \in Entries(Now) THEN "stopped" ELSE a.status[w]]
        /\ terminating' = a.terminating \cup Entries(Now)
        /\ host' = a.host /\ arrival' = a.arrival /\ inFlight' = a.inFlight
        /\ maxConcurrent' = a.maxConcurrent /\ phase' = a.phase
        /\ entry' = a.entry /\ reported' = a.reported /\ events' = a.events
    BY <2>1, <2>3 DEF Become, Stopped, Records
  <2>5. /\ UNCHANGED <<host, arrival, inFlight, maxConcurrent, entry, reported>>
        /\ \A t \in Tasks : phase'[t] = IF t \in Q THEN "done" ELSE phase[t]
        /\ \A t \in Tasks : events'[t] = IF t \in Q THEN events[t] + 1 ELSE events[t]
        /\ \A w \in Workers : status'[w] \in {status[w], "stopped", "absent"}
    BY <2>2, <2>4
  <2> HIDE DEF Q
  <2>6. Quiet /\ Resting
    BY <2>5, DrainedQuietly DEF Q
  <2>7. \A w \in Workers \ Entries(Now) : aborted'[w] = aborted[w]
    BY <1>2 DEF StopAll, AbortControllers, IInv, OtherTypes
  <2>8. \A w \in Entries(Now) : status[w] # "absent"
    BY NowFields DEF Entries
  <2>9. Withdrawn
    BY <2>2, <2>4, <2>7, <2>8 DEF Withdrawn
  <2> QED BY <2>3, <2>6, <2>9
<1>3. ASSUME NEW w \in Workers, Remove(w) PROVE Quiet /\ Resting /\ UNCHANGED Aside /\ Withdrawn
  <2> DEFINE st == [status EXCEPT ![w] = "absent"]
             tm == terminating \ {w}
             s == [Now EXCEPT !.status = st, !.terminating = tm]
             pinned == {t \in Queue(Now) : host[t] = w}
             a == Aborted(s, pinned)
  <2>1. s \in Records
    <3>1. st \in [Workers -> WorkerStatus] /\ tm \in SUBSET Workers
      BY NowFields DEF WorkerStatus
    <3> HIDE DEF st, tm
    <3> QED BY <3>1, NowFields DEF Records
  <2>2. /\ Become(a) /\ s.phase = phase /\ s.host = host /\ s.arrival = arrival
        /\ s.inFlight = inFlight /\ s.maxConcurrent = maxConcurrent /\ s.events = events
        /\ s.entry = entry /\ s.reported = reported
        /\ s.status = st /\ s.terminating = tm
    BY <1>3 DEF Remove, Now
  <2> HIDE DEF s, st, tm
  <2>3. /\ a.status = st /\ a.terminating = tm /\ a.host = host /\ a.arrival = arrival
        /\ a.inFlight = inFlight /\ a.maxConcurrent = maxConcurrent
        /\ a.entry = entry /\ a.reported = reported
        /\ \A t \in Tasks : a.phase[t] = IF t \in pinned THEN "done" ELSE phase[t]
        /\ \A t \in Tasks : a.events[t] = IF t \in pinned THEN events[t] + 1 ELSE events[t]
    BY <2>1, <2>2, StopsQuietly
  <2> HIDE DEF a
  <2>4. /\ \A v \in Workers : status'[v] = IF v = w THEN "absent" ELSE status[v]
        /\ terminating' = terminating \ {w}
        /\ UNCHANGED <<host, arrival, inFlight, maxConcurrent, entry, reported>>
        /\ \A t \in Tasks : phase'[t] = IF t \in pinned THEN "done" ELSE phase[t]
        /\ \A t \in Tasks : events'[t] = IF t \in pinned THEN events[t] + 1 ELSE events[t]
    BY <2>2, <2>3, NowFields DEF Become, st, tm
  <2>5. pinned \in SUBSET Queue(Now)
    OBVIOUS
  <2> HIDE DEF pinned
  <2>6. Quiet /\ Resting
    BY <2>4, <2>5, DrainedQuietly
  <2>7. /\ \A v \in Workers : v # w => aborted'[v] = aborted[v]
        /\ status[w] # "absent" /\ UNCHANGED Aside
    BY <1>3 DEF Remove, AbortControllers, IInv, OtherTypes
  <2>8. Withdrawn
    BY <2>4, <2>7 DEF Withdrawn
  <2> QED BY <2>6, <2>7, <2>8
<1> QED BY <1>1, <1>2, <1>3

LEMMA SpawnsQuietly ==
    ASSUME IInv, NEW w \in Workers, Spawn(w)
    PROVE  /\ Quiet /\ Resting
           /\ \A v \in Workers : status'[v] = IF v = w THEN "idle" ELSE status[v]
PROOF
<1>1. \A v \in Workers : status'[v] = IF v = w THEN "idle" ELSE status[v]
  BY NowFields DEF Spawn
<1>2. status[w] = "absent"
        /\ UNCHANGED <<host, arrival, inFlight, maxConcurrent, entry, reported, phase, events>>
  BY DEF Spawn
<1> QED BY <1>1, <1>2, IdleQuietly

\* Steps that touch neither workers' states nor tasks.
LEMMA ElseQuietly ==
    ASSUME IInv, UNCHANGED vars \/ SetRunner \/ \E t \in Tasks : WatchdogFires(t)
    PROVE  Quiet /\ Resting /\ UNCHANGED <<status, terminating>>
PROOF
<1>1. UNCHANGED <<status, terminating, host, arrival, inFlight, maxConcurrent, entry, reported,
                  phase, events>>
  BY DEF vars, SetRunner, WatchdogFires
<1> QED BY <1>1, IdleQuietly

LEMMA DropsQuietly ==
    ASSUME IInv, Dropped, Onward(phase', events', reported')
    PROVE  Quiet
PROOF
<1>1. \A t \in Tasks : phase'[t] = phase[t] \/ (phase[t] # "new" /\ phase'[t] = "done")
  BY DEF Dropped, Ends
<1> QED BY <1>1 DEF Dropped, Quiet

LEMMA StepShape ==
    ASSUME CoordinatorAssumption, IInv, [Next]_vars
    PROVE  Quiet \/ \E s : Handed(s)
PROOF
<1>1. CASE UNCHANGED vars \/ SetRunner \/ \E t \in Tasks : WatchdogFires(t)
  BY <1>1, ElseQuietly
<1>2. ASSUME NEW w \in Workers, Spawn(w) PROVE Quiet
  BY <1>2, SpawnsQuietly
<1>3. CASE (\E w \in Workers : Stop(w)) \/ StopAll \/ (\E w \in Workers : Remove(w))
  BY <1>3, Withdraws
<1>4. CASE \/ \E t \in Tasks, p \in Pins : Assign(t, p)
           \/ \E t \in Tasks, p \in Pins : Retarget(t, p)
           \/ \E n \in Caps : SetMaxConcurrent(n)
  BY <1>4, AssignHands, ChangeHands
<1>5. ASSUME NEW t \in Tasks, Settle(t) \/ \E w \in Workers : CompleteTask(t, w)
      PROVE  Quiet \/ \E s : Handed(s)
  BY <1>5, EndHands, DropsQuietly
<1> QED BY <1>1, <1>2, <1>3, <1>4, <1>5 DEF Next, CoordinatorAssumption

\* The steps that end in the loop, or a completion that does not reach it.
LEMMA LoopSteps ==
    ASSUME CoordinatorAssumption, IInv,
           \/ \E t \in Tasks, p \in Pins : Assign(t, p)
           \/ \E t \in Tasks, p \in Pins : Retarget(t, p)
           \/ \E n \in Caps : SetMaxConcurrent(n)
           \/ \E t \in Tasks : Settle(t)
           \/ \E t \in Tasks, w \in Workers : CompleteTask(t, w)
    PROVE  (\E s : Handed(s)) \/ (Dropped /\ Quiet)
BY AssignHands, ChangeHands, EndHands, DropsQuietly

-----------------------------------------------------------------------------
(* The coordinator implements TaskLedger.                                    *)

LEMMA LoopOnward ==
    ASSUME CoordinatorAssumption, IInv, NEW s, Handed(s)
    PROVE  Onward(phase', events', reported')
PROOF
<1>1. PICK S \in SUBSET Queue(s) : \E f \in [S -> Idle(s)] : LoopDid(s, S, f)
  BY LoopDoes DEF Handed, IInv
<1>2. PICK f \in [S -> Idle(s)] : LoopDid(s, S, f)
  BY <1>1
<1>3. /\ \A t \in S : s.phase[t] = "pending"
      /\ \A t \in Tasks : s.phase[t] \in Phases /\ s.events[t] \in Nat
      /\ \A t \in Tasks : phase[t] \in Phases /\ events[t] \in Nat
  BY NowFields DEF Queue, Handed, Good, Records
<1>t. \A t \in Tasks : phase'[t] \in Phases /\ (s.phase[t] = "done" => phase'[t] = "done")
  BY <1>2, <1>3 DEF LoopDid, Phases
<1>4. \A t \in Tasks : Fwd(s.phase[t], phase'[t])
  BY <1>2, <1>3, FwdFacts DEF LoopDid
<1>5. \A t \in Tasks : Fwd(phase[t], s.phase[t])
  BY DEF Handed, Onward
<1>d. \A t \in Tasks : phase[t] = "done" => s.phase[t] = "done"
  BY <1>3, <1>5, FwdFacts
<1>6. ASSUME NEW t \in Tasks PROVE Fwd(phase[t], phase'[t])
  <2>1. phase[t] \in Phases /\ s.phase[t] \in Phases /\ phase'[t] \in Phases
    BY <1>3, <1>t
  <2>2. Fwd(phase[t], s.phase[t]) /\ Fwd(s.phase[t], phase'[t])
    BY <1>4, <1>5
  <2> QED BY <2>1, <2>2, FwdFacts
<1>7. /\ reported' = s.reported
      /\ \A t \in Tasks : events'[t] = IF s.phase[t] # "done" /\ phase'[t] = "done"
                                       THEN s.events[t] + 1 ELSE s.events[t]
  BY <1>2 DEF LoopDid
<1>8. /\ reported \subseteq s.reported
      /\ \A t \in Tasks :
          /\ events[t] <= s.events[t]
          /\ s.events[t] <= events[t] + (IF phase[t] # "done" /\ s.phase[t] = "done" THEN 1 ELSE 0)
                                      + (IF t \in s.reported \ reported THEN 1 ELSE 0)
  BY DEF Handed, Onward
<1>9. ASSUME NEW t \in Tasks
      PROVE  /\ events[t] <= events'[t]
             /\ events'[t] <= events[t] + (IF phase[t] # "done" /\ phase'[t] = "done" THEN 1 ELSE 0)
                                        + (IF t \in reported' \ reported THEN 1 ELSE 0)
  <2> DEFINE told == IF t \in s.reported \ reported THEN 1 ELSE 0
  <2>0. told = IF t \in reported' \ reported THEN 1 ELSE 0
    BY <1>7
  <2>a. events[t] <= s.events[t] /\ s.events[t] <= events[t] + (IF phase[t] # "done" /\ s.phase[t] = "done" THEN 1 ELSE 0) + told
    BY <1>8
  <2>1. /\ events'[t] = IF s.phase[t] # "done" /\ phase'[t] = "done"
                        THEN s.events[t] + 1 ELSE s.events[t]
        /\ events[t] <= s.events[t]
        /\ s.events[t] <= events[t] + (IF phase[t] # "done" /\ s.phase[t] = "done" THEN 1 ELSE 0)
                                    + told
        /\ phase[t] = "done" => s.phase[t] = "done"
        /\ s.phase[t] = "done" => phase'[t] = "done"
        /\ events[t] \in Nat /\ s.events[t] \in Nat
    BY <1>3, <1>d, <1>t, <1>7, <2>a
  <2>2. told \in Nat
    OBVIOUS
  <2> HIDE DEF told
  <2>3. /\ events[t] <= events'[t]
        /\ events'[t] <= events[t] + (IF phase[t] # "done" /\ phase'[t] = "done" THEN 1 ELSE 0) + told
    BY <2>1, <2>2
  <2> QED BY <2>0, <2>1, <2>3
<1> QED BY <1>6, <1>7, <1>8, <1>9 DEF Onward

\* Every behaviour of the coordinator is one of the ledger: no interleaving of
\* stop(), remove(), retargeting, timeouts, completions and callers' reports
\* moves a task back, or announces one more often than it settles and is reported.
THEOREM Refinement == Spec => ImplementsLedger
PROOF
<1> DEFINE stg == [t \in Tasks |-> StageOf[phase[t]]]
<1>1. Init => Ledger!LedgerInit
  <2> SUFFICES ASSUME Init PROVE Ledger!LedgerInit
    OBVIOUS
  <2> QED BY DEF Init, Ledger!LedgerInit, StageOf
<1>2. IInv /\ IInv' /\ OneNotice' /\ [Next]_vars => [Ledger!Advance]_<<stg, events, reported>>
  <2> SUFFICES ASSUME IInv, IInv', OneNotice', [Next]_vars PROVE Ledger!Advance
    OBVIOUS
  <2>1. /\ phase \in [Tasks -> Phases] /\ phase' \in [Tasks -> Phases]
        /\ events \in [Tasks -> Nat] /\ events' \in [Tasks -> Nat]
        /\ reported' \subseteq Tasks
    BY NowFields DEF IInv, Good, Records, Now
  <2>2. \A a \in Phases : StageOf[a] \in Ledger!Stages /\ (StageOf[a] = "settled" <=> a = "done")
    BY DEF Phases, StageOf, Ledger!Stages
  <2>3. Onward(phase', events', reported')
    BY StepShape, LoopOnward, CoordinatorAssumption DEF Quiet
  <2>4. Cardinality(Ledger!Unannounced') <= Cardinality(reported')
    <3>1. Ledger!Unannounced' = Silent'
      BY <2>1, <2>2 DEF Ledger!Unannounced, Silent
    <3> QED BY <3>1 DEF OneNotice
  <2>5. stg' \in [Tasks -> Ledger!Stages]
    BY <2>1, <2>2
  <2>6. \A t \in Tasks : /\ stg[t] = StageOf[phase[t]] /\ stg'[t] = StageOf[phase'[t]]
                        /\ Ledger!Rank[stg[t]] <= Ledger!Rank[stg'[t]]
    BY <2>3 DEF Onward, Fwd
  <2>7. ASSUME NEW t \in Tasks
        PROVE  /\ events[t] <= events'[t]
               /\ events'[t] <= events[t] + (IF stg[t] # "settled" /\ stg'[t] = "settled" THEN 1 ELSE 0)
                                          + (IF t \in reported' \ reported THEN 1 ELSE 0)
    <3>1. /\ events[t] <= events'[t]
          /\ events'[t] <= events[t] + (IF phase[t] # "done" /\ phase'[t] = "done" THEN 1 ELSE 0)
                                     + (IF t \in reported' \ reported THEN 1 ELSE 0)
      BY <2>3 DEF Onward
    <3>2. (stg[t] = "settled" <=> phase[t] = "done") /\ (stg'[t] = "settled" <=> phase'[t] = "done")
      BY <2>1, <2>2
    <3> HIDE DEF stg
    <3> QED BY <3>1, <3>2
  <2>9. reported \subseteq reported'
    BY <2>3 DEF Onward
  <2>10. \A t \in Tasks : Ledger!Rank[stg[t]] <= Ledger!Rank[stg'[t]]
    BY <2>6
  <2> HIDE DEF stg
  <2> QED BY <2>1, <2>4, <2>5, <2>7, <2>9, <2>10
          DEF Ledger!Advance, Ledger!Settles, Ledger!Told, stg, Cardinality, Ledger!Cardinality
<1> QED BY <1>1, <1>2, Invariance, NoticesExact, PTL DEF Spec, ImplementsLedger, Ledger!LedgerSpec
-----------------------------------------------------------------------------
(* What a step may never do.                                                 *)

\* A stopped entry stays stopped until it is removed: neither the completion of
\* the run it had nor the dispatch loop (recordCompletion(), tryDispatchNext())
\* makes it idle or gives it a task.
THEOREM StoppedForGood == Spec => StopIsFinal
PROOF
<1>1. ASSUME CoordinatorAssumption, IInv, [Next]_vars, NEW w \in Workers, status[w] = "stopped"
      PROVE  status'[w] \in {"stopped", "absent"}
  <2>1. CASE Quiet
    BY <1>1, <2>1 DEF Quiet
  <2>2. ASSUME NEW s, Handed(s) PROVE status'[w] \in {"stopped", "absent"}
    <3>1. s.status[w] = "stopped"
      <4>1. CASE Queueing(s) \/ Changing(s)
        BY <1>1, <4>1 DEF Queueing, Changing
      <4>2. CASE Ending(s)
        BY <1>1, <4>2 DEF Ending
      <4> QED BY <2>2, <4>1, <4>2 DEF Handed
    <3>2. PICK S \in SUBSET Queue(s) : \E f \in [S -> Idle(s)] : LoopDid(s, S, f)
      BY <1>1, <2>2, LoopDoes DEF Handed, IInv
    <3>3. PICK f \in [S -> Idle(s)] : LoopDid(s, S, f)
      BY <3>2
    <3>4. \A t \in S : s.status[f[t]] = "idle"
      BY <3>3 DEF Idle
    <3> QED BY <3>1, <3>3, <3>4 DEF LoopDid
  <2> QED BY <1>1, <2>1, <2>2, StepShape
<1>2. IInv /\ [Next]_vars =>
        [\A w \in Workers : status[w] = "stopped" => status'[w] \in {"stopped", "absent"}]_vars
  BY <1>1, CoordinatorAssumption
<1> QED BY <1>2, Invariance, PTL DEF Spec, StopIsFinal

LEMMA SlotsType == ASSUME CoordinatorAssumption, NEW s \in Records PROVE Slots(s) \in Nat
PROOF
<1>1. Cardinality(Queue(s)) \in Nat
  <2>1. Queue(s) \in SUBSET Tasks
    BY DEF Queue
  <2> QED BY <2>1, FS_Subset, FS_CardinalityType DEF CoordinatorAssumption
<1>2. s.inFlight \in Nat /\ s.maxConcurrent \in Nat
  BY DEF Records
<1> QED BY <1>1, <1>2 DEF Slots

LEMMA FirstFitFacts ==
    ASSUME CoordinatorAssumption, NEW s, NEW S \in SUBSET Queue(s),
           NEW f \in [S -> Idle(s)], FirstFit(f, s)
    PROVE  /\ DOMAIN f = S /\ IsFiniteSet(S) /\ Cardinality(S) \in Nat
           /\ Cardinality(S) <= Slots(s)
PROOF
<1>1. DOMAIN f = S /\ S \in SUBSET Tasks
  BY DEF Queue
<1>2. IsFiniteSet(S) /\ Cardinality(S) \in Nat
  BY <1>1, FS_Subset, FS_CardinalityType DEF CoordinatorAssumption
<1> QED BY <1>1, <1>2 DEF FirstFit

\* A run that tryDispatchNext() starts finds room under the ceiling, also just
\* after setMaxConcurrent() has put it below the runs in flight, and in the step
\* in which another run gives its slot back.
THEOREM CapRespected == Spec => NoStartAboveCap
PROOF
<1>1. ASSUME CoordinatorAssumption, IInv, [Next]_vars,
             NEW t \in Tasks, phase[t] # "running", phase'[t] = "running"
      PROVE  inFlight' <= maxConcurrent'
  <2>1. CASE Quiet
    BY <1>1, <2>1 DEF Quiet
  <2>2. ASSUME NEW s, Handed(s) PROVE inFlight' <= maxConcurrent'
    <3>1. s.inFlight \in Nat /\ s.maxConcurrent \in Nat
      BY <2>2 DEF Handed, Good, Records
    <3>2. PICK S \in SUBSET Queue(s) : \E f \in [S -> Idle(s)] : LoopDid(s, S, f)
      BY <1>1, <2>2, LoopDoes DEF Handed, IInv
    <3>3. PICK f \in [S -> Idle(s)] : LoopDid(s, S, f)
      BY <3>2
    <3>4. /\ Cardinality(S) \in Nat /\ IsFiniteSet(S) /\ S \subseteq Tasks
          /\ Cardinality(S) <= Slots(s)
      BY <1>1, <3>3, FirstFitFacts DEF LoopDid, Queue
    <3>5. /\ inFlight' = IF runner THEN s.inFlight + Cardinality(S) ELSE s.inFlight
          /\ maxConcurrent' = s.maxConcurrent
      BY <3>3 DEF LoopDid
    <3>6. s.phase[t] # "running"
      BY <1>1, <2>2, NowFields DEF Handed, Onward, Fwd, Queueing, Changing, Ending, Ends
    <3>7. t \in S /\ runner
      BY <1>1, <3>3, <3>6 DEF LoopDid
    <3>8. Cardinality(S) # 0
      BY <3>4, <3>7, FS_EmptySet
    <3> QED BY <3>1, <3>4, <3>5, <3>7, <3>8 DEF Slots
  <2> QED BY <1>1, <2>1, <2>2, StepShape
<1>2. IInv /\ [Next]_vars =>
        [(\E t \in Tasks : phase[t] # "running" /\ phase'[t] = "running")
           => inFlight' <= maxConcurrent']_vars
  BY <1>1, CoordinatorAssumption
<1> QED BY <1>2, Invariance, PTL DEF Spec, NoStartAboveCap

\* In one pass of the loop nothing that could have waited starts before an
\* unpinned task that does wait.
LEMMA PassInOrder ==
    ASSUME CoordinatorAssumption, NEW s \in Records, NEW S \in SUBSET Queue(s),
           NEW f \in [S -> Idle(s)], FirstFit(f, s),
           NEW t \in Queue(s), NEW u \in S, s.arrival[t] < s.arrival[u], s.host[t] = NoWorker
    PROVE  t \in S
PROOF
<1> SUFFICES ASSUME t \notin S PROVE FALSE
  OBVIOUS
<1> DEFINE ahead(x) == {v \in S : s.arrival[v] < s.arrival[x]}
           left(x) == Idle(s) \ {f[v] : v \in ahead(x)}
<1>1. DOMAIN f = S /\ IsFiniteSet(S)
  BY FirstFitFacts
<1>2. \A v \in Tasks : s.arrival[v] \in Nat
  BY DEF Records
<1>3. ahead(t) \subseteq ahead(u)
  BY <1>2 DEF Queue
<1>4. /\ Cardinality(ahead(u)) < Slots(s) /\ f[u] \in left(u)
      /\ Cardinality(ahead(t)) >= Slots(s) \/ left(t) = {}
  BY <1>1 DEF FirstFit
<1>5. IsFiniteSet(ahead(u)) /\ Cardinality(ahead(t)) <= Cardinality(ahead(u))
  <2>1. IsFiniteSet(ahead(u))
    BY <1>1, FS_Subset
  <2> HIDE DEF ahead
  <2> QED BY <1>3, <2>1, FS_Subset
<1>6. f[u] \in left(t)
  BY <1>3, <1>4
<1>7. Cardinality(ahead(t)) >= Slots(s)
  BY <1>4, <1>6
<1>8. Cardinality(ahead(u)) \in Nat /\ Cardinality(ahead(t)) \in Nat
  <2>1. IsFiniteSet(ahead(t))
    BY <1>1, FS_Subset
  <2> QED BY <1>5, <2>1, FS_CardinalityType
<1>9. Slots(s) \in Nat
  BY SlotsType
<1> HIDE DEF ahead
<1> QED BY <1>4, <1>5, <1>7, <1>8, <1>9

\* tryDispatchNext() starts unpinned tasks in the order of assign(): one that
\* waits is never passed by a later one, whatever is retargeted, drained or
\* stopped, and however the ceiling moves.
THEOREM FirstComeFirstServed == Spec => NoOvertaking
PROOF
<1> DEFINE Late(t, u) == /\ phase[t] = "pending" /\ phase[u] = "pending"
                         /\ host[t] = NoWorker /\ host[u] = NoWorker
                         /\ arrival[t] < arrival[u]
                         /\ phase'[u] \in {"running", "held"}
<1>1. ASSUME CoordinatorAssumption, IInv, [Next]_vars, NEW t \in Tasks, NEW u \in Tasks,
             Late(t, u), phase'[t] = "pending", host'[t] = NoWorker
      PROVE  FALSE
  <2>1. CASE Quiet
    BY <1>1, <2>1 DEF Quiet
  <2>2. ASSUME NEW s, Handed(s) PROVE FALSE
    <3>1. /\ s \in Records
          /\ s.phase[t] = "pending" /\ s.phase[u] = "pending"
          /\ s.arrival[t] = arrival[t] /\ s.arrival[u] = arrival[u]
      <4>1. /\ phase \in [Tasks -> Phases] /\ arrival \in [Tasks -> Nat]
            /\ phase[t] = "pending" /\ phase[u] = "pending"
        BY <1>1, NowFields
      <4>2. CASE Queueing(s)
        BY <2>2, <4>1, <4>2 DEF Queueing, Handed, Good
      <4>3. CASE Changing(s)
        BY <2>2, <4>1, <4>3 DEF Changing, Handed, Good
      <4>4. CASE Ending(s)
        BY <2>2, <4>1, <4>4 DEF Ending, Ends, Handed, Good
      <4> QED
        BY <2>2, <4>2, <4>3, <4>4 DEF Handed
    <3>2. PICK S \in SUBSET Queue(s) : \E f \in [S -> Idle(s)] : LoopDid(s, S, f)
      BY <1>1, <2>2, LoopDoes DEF Handed, IInv
    <3>3. PICK f \in [S -> Idle(s)] : LoopDid(s, S, f)
      BY <3>2
    <3>4. u \in S /\ t \notin S
      BY <1>1, <3>1, <3>3 DEF LoopDid
    <3>5. s.host[t] = NoWorker
      BY <1>1, <3>3, <3>4 DEF LoopDid
    <3>6. t \in Queue(s)
      BY <3>1 DEF Queue
    <3>7. FirstFit(f, s) /\ s.arrival[t] < s.arrival[u]
      BY <1>1, <3>1, <3>3 DEF LoopDid
    <3> QED BY <1>1, <3>1, <3>4, <3>5, <3>6, <3>7, PassInOrder
  <2> QED BY <1>1, <2>1, <2>2, StepShape
<1>2. IInv /\ [Next]_vars =>
        [\A t, u \in Tasks : Late(t, u) => ~(phase'[t] = "pending" /\ host'[t] = NoWorker)]_vars
  BY <1>1, CoordinatorAssumption
<1> QED BY <1>2, Invariance, PTL DEF Spec, NoOvertaking

-----------------------------------------------------------------------------
(* Work conservation, for callers that spawn before they assign.             *)

\* Before the last spawn nothing has been assigned.
StaffedFirst == SpawnFirst /\ spawns < MaxSpawns => \A t \in Tasks : phase[t] = "new"

\* What the loop leaves waiting has no idle worker, or no slot.
LEMMA PassConserves ==
    ASSUME CoordinatorAssumption, OtherTypes, NEW s, Good(s), TryDispatchNext(s)
    PROVE  WorkConserving'
PROOF
<1>1. PICK S \in SUBSET Queue(s) : \E f \in [S -> Idle(s)] : LoopDid(s, S, f)
  BY LoopDoes
<1>2. PICK f \in [S -> Idle(s)] : LoopDid(s, S, f)
  BY <1>1
<1>3. s \in Records /\ s.inFlight \in Nat /\ s.maxConcurrent \in Nat
  BY DEF Good, Records
<1>4. /\ DOMAIN f = S /\ IsFiniteSet(S) /\ Cardinality(S) \in Nat /\ FirstFit(f, s)
  BY <1>2, FirstFitFacts DEF LoopDid
<1> SUFFICES ASSUME NEW t \in Tasks, NEW w \in Workers,
                    phase'[t] = "pending", host'[t] \in {NoWorker, w},
                    status'[w] = "idle", w \notin terminating'
             PROVE  inFlight' >= maxConcurrent'
  BY DEF WorkConserving, Idle, Now
<1> DEFINE ahead == {v \in S : s.arrival[v] < s.arrival[t]}
           left == Idle(s) \ {f[v] : v \in ahead}
<1>5. t \in Queue(s) /\ t \notin S /\ s.host[t] \in {NoWorker, w}
  BY <1>2 DEF LoopDid, Queue
<1>6. w \in left
  <2>1. \A v \in S : f[v] # w
    BY <1>2 DEF LoopDid
  <2>2. w \in Idle(s)
    BY <1>2, <2>1 DEF LoopDid, Idle
  <2> QED BY <2>1, <2>2
<1>7. Cardinality(ahead) >= Slots(s)
  BY <1>4, <1>5, <1>6, CoordinatorAssumption DEF FirstFit, CoordinatorAssumption
<1>8. IsFiniteSet(ahead) /\ Cardinality(ahead) \in Nat /\ Cardinality(ahead) <= Cardinality(S)
  BY <1>4, FS_Subset, FS_CardinalityType
<1>9. Slots(s) \in Nat
  BY <1>3, SlotsType
<1>10. Cardinality(S) >= Slots(s)
  BY <1>4, <1>7, <1>8, <1>9
<1>11. /\ inFlight' = IF runner THEN s.inFlight + Cardinality(S) ELSE s.inFlight
       /\ maxConcurrent' = s.maxConcurrent
  BY <1>2 DEF LoopDid
<1>12. CASE s.inFlight >= s.maxConcurrent
  BY <1>3, <1>4, <1>11, <1>12
<1>13. CASE ~(s.inFlight >= s.maxConcurrent) /\ runner
  BY <1>3, <1>4, <1>10, <1>11, <1>13 DEF Slots
<1>14. CASE ~(s.inFlight >= s.maxConcurrent) /\ ~runner
  <2>1. Slots(s) = Cardinality(Queue(s))
    BY <1>14 DEF Slots
  <2>2. IsFiniteSet(Queue(s))
    BY FS_Subset DEF Queue, CoordinatorAssumption
  <2>3. Cardinality(S) = Cardinality(Queue(s)) => S = Queue(s)
    BY <2>2, FS_Subset
  <2>4. Cardinality(S) <= Cardinality(Queue(s)) /\ Cardinality(Queue(s)) \in Nat
    BY <2>2, FS_Subset, FS_CardinalityType
  <2> QED BY <1>4, <1>5, <1>10, <2>1, <2>3, <2>4
<1> QED BY <1>12, <1>13, <1>14

LEMMA StepStaffedFirst ==
    ASSUME CoordinatorAssumption, IInv, StaffedFirst, [Next]_vars, IInv'
    PROVE  StaffedFirst'
PROOF
<1> SUFFICES ASSUME SpawnFirst, spawns' < MaxSpawns, NEW t \in Tasks PROVE phase'[t] = "new"
  BY DEF StaffedFirst
<1>1. spawns \in Nat /\ MaxSpawns \in Nat /\ spawns' \in Nat
  BY DEF IInv, OtherTypes, CoordinatorAssumption
<1>2. spawns' = spawns \/ spawns' = spawns + 1
  BY DEF Next, Spawn, Assign, Retarget, SetMaxConcurrent, SetRunner, Stop, StopAll, Remove,
         WatchdogFires, Settle, CompleteTask, vars, Aside
<1>3. \A u \in Tasks : phase[u] = "new"
  BY <1>1, <1>2 DEF StaffedFirst
<1>4. CASE Quiet
  BY <1>3, <1>4 DEF Quiet
<1>5. ASSUME NEW s, Handed(s) PROVE phase'[t] = "new"
  <2>1. spawns' = spawns /\ ~Staffed
    BY <1>1, <1>5 DEF Handed, Staffed
  <2>2. \A u \in Tasks : s.phase[u] = "new"
    BY <1>3, <1>5, <2>1 DEF Handed, Queueing, Changing, Ending, Ends
  <2>3. PICK S \in SUBSET Queue(s) : \E f \in [S -> Idle(s)] : LoopDid(s, S, f)
    BY <1>5, LoopDoes DEF Handed, IInv
  <2>4. t \notin S
    BY <2>2 DEF Queue
  <2> QED BY <2>2, <2>3, <2>4 DEF LoopDid
<1> QED BY <1>4, <1>5, StepShape

LEMMA StepConserves ==
    ASSUME CoordinatorAssumption, SpawnFirst, IInv, StaffedFirst, WorkConserving, [Next]_vars
    PROVE  WorkConserving'
PROOF
<1>1. ASSUME Quiet, \A w \in Workers : status'[w] = "idle" /\ w \notin terminating'
                                         => status[w] = "idle" /\ w \notin terminating
      PROVE  WorkConserving'
  BY <1>1 DEF Quiet, WorkConserving, Idle, Now
<1>2. CASE UNCHANGED vars \/ SetRunner \/ \E t \in Tasks : WatchdogFires(t)
  BY <1>1, <1>2, ElseQuietly
<1>3. ASSUME NEW w \in Workers, Spawn(w) PROVE WorkConserving'
  <2>1. \A t \in Tasks : phase'[t] = "new"
    BY <1>3 DEF Spawn, StaffedFirst
  <2> QED BY <2>1 DEF WorkConserving
<1>4. CASE (\E w \in Workers : Stop(w)) \/ StopAll \/ (\E w \in Workers : Remove(w))
  BY <1>1, <1>4, Withdraws DEF Withdrawn
<1>5. ASSUME NEW s, Handed(s) PROVE WorkConserving'
  BY <1>5, PassConserves DEF Handed, IInv
<1>6. CASE Dropped /\ Quiet
  BY <1>1, <1>6 DEF Dropped
<1>7. CASE \/ \E t \in Tasks, p \in Pins : Assign(t, p)
           \/ \E t \in Tasks, p \in Pins : Retarget(t, p)
           \/ \E n \in Caps : SetMaxConcurrent(n)
           \/ \E t \in Tasks : Settle(t)
           \/ \E t \in Tasks, w \in Workers : CompleteTask(t, w)
  BY <1>5, <1>6, <1>7, LoopSteps
<1> QED BY <1>2, <1>3, <1>4, <1>7 DEF Next, CoordinatorAssumption

\* Where the workers are spawned before tasks are assigned (spawn() itself never
\* looks at the queue), no call leaves an idle worker, a free slot and a task it
\* may take side by side: assign(), retargetPendingTask(), setMaxConcurrent() and
\* recordCompletion() all end in the loop, and stop(), stopAll() and remove(),
\* which do not, make no worker idle and free no slot.
THEOREM NoIdleHands == ASSUME SpawnFirst PROVE Spec => []WorkConserving
PROOF
<1>1. Init => StaffedFirst /\ WorkConserving
  BY DEF Init, StaffedFirst, WorkConserving
<1>2. IInv /\ IInv' /\ StaffedFirst /\ WorkConserving /\ [Next]_vars
        => StaffedFirst' /\ WorkConserving'
  BY CoordinatorAssumption, StepStaffedFirst, StepConserves
<1> QED BY <1>1, <1>2, Invariance, PTL DEF Spec

-----------------------------------------------------------------------------
(* One task per entry.                                                       *)

\* The queue is numbered: no two tasks share a place.
Numbered(s) ==
    LET given == {t \in Tasks : s.arrival[t] # 0}
    IN  /\ \A t \in Tasks : s.phase[t] = "new" <=> s.arrival[t] = 0
        /\ \A t \in given : s.arrival[t] <= Cardinality(given)
        /\ \A t, u \in given : s.arrival[t] = s.arrival[u] => t = u

\* No task was dispatched to an entry that is still to come.
Aged(s) == \A t \in Tasks : s.entry[t] <= spawns

On(s, w) == {t \in Tasks : s.phase[t] \in {"running", "held"} /\ s.host[t] = w}

Given(s, w) == {t \in On(s, w) : s.entry[t] = born[w]}

\* Unless a completion that was not its own hit it, an idle entry has no task and
\* a live signal, a busy one has one task, which has timed out if the signal is
\* aborted, or another task's watchdog fired it; a, l and x are what aborted,
\* lateFired and strays are going to be.
Fit(s, a, l, x, w) ==
    w \notin x =>
        /\ s.status[w] = "idle" => Given(s, w) = {} /\ (a[w] => w \in l)
        /\ s.status[w] = "running" =>
              \E t \in Tasks : Given(s, w) = {t} /\ (a[w] => t \in fired \/ w \in l)

Pool(s, a, l, x) == \A w \in Workers : Fit(s, a, l, x, w)

BornInOrder == \A w \in Workers : born[w] <= spawns /\ (status[w] # "absent" => born[w] # 0)

PInv == Numbered(Now) /\ Aged(Now) /\ BornInOrder /\ Pool(Now, aborted, lateFired, strays)

LEMMA PoolSafe == ASSUME IInv, PInv PROVE BusyMeansOneRun /\ FreshSignal
PROOF
<1>1. \A w \in Workers : Given(Now, w) = Mine(w)
  BY NowFields DEF Given, On, Mine
<1>2. \A w \in Workers : Fit(Now, aborted, lateFired, strays, w)
  BY DEF PInv, Pool
<1>3. BusyMeansOneRun
  <2> SUFFICES ASSUME NEW w \in Workers \ strays
               PROVE  /\ status[w] = "running" => Cardinality(Mine(w)) = 1
                      /\ status[w] = "idle" => Mine(w) = {}
    BY DEF BusyMeansOneRun
  <2>1. \A t : Cardinality({t}) = 1
    BY FS_Singleton
  <2> QED BY <1>1, <1>2, <2>1, NowFields DEF Fit
<1>4. FreshSignal
  <2> SUFFICES ASSUME NEW w \in Workers \ (strays \cup lateFired), status[w] = "running",
                      NEW t \in Mine(w), t \notin fired
               PROVE  ~aborted[w]
    BY DEF FreshSignal
  <2> QED BY <1>1, <1>2, NowFields DEF Fit
<1> QED BY <1>3, <1>4

\* Two tasks are never placed on one worker in a pass.
LEMMA PlacementInjective ==
    ASSUME CoordinatorAssumption, NEW s \in Records, Numbered(s), NEW S \in SUBSET Queue(s),
           NEW f \in [S -> Idle(s)], FirstFit(f, s),
           NEW t \in S, NEW u \in S, f[t] = f[u]
    PROVE  t = u
PROOF
<1>1. DOMAIN f = S
  OBVIOUS
<1>2. ASSUME NEW x \in S, NEW y \in S, s.arrival[x] < s.arrival[y] PROVE f[x] # f[y]
  BY <1>1, <1>2 DEF FirstFit
<1>3. s.arrival[t] \in Nat /\ s.arrival[u] \in Nat /\ t \in Tasks /\ u \in Tasks
  BY DEF Records, Queue
<1>4. s.phase[t] = "pending" /\ s.phase[u] = "pending"
  BY DEF Queue
<1>5. s.arrival[t] = s.arrival[u] /\ s.arrival[t] # 0
  BY <1>2, <1>3, <1>4 DEF Numbered
<1> QED BY <1>3, <1>5 DEF Numbered

\* The loop keeps the places, and gives out entries that are there.
LEMMA PassNumbered ==
    ASSUME CoordinatorAssumption, OtherTypes, BornInOrder, NEW s, Good(s), TryDispatchNext(s),
           Numbered(s), Aged(s), UNCHANGED <<born, spawns>>
    PROVE  Numbered(Now)' /\ Aged(Now)'
PROOF
<1>1. PICK S \in SUBSET Queue(s) : \E f \in [S -> Idle(s)] : LoopDid(s, S, f)
  BY LoopDoes
<1>2. PICK f \in [S -> Idle(s)] : LoopDid(s, S, f)
  BY <1>1
<1>3. arrival' = s.arrival
  BY <1>2 DEF LoopDid
<1>4. \A t \in Tasks : phase'[t] = "new" <=> s.phase[t] = "new"
  BY <1>2 DEF LoopDid, Queue
<1>5. Now.arrival' = arrival' /\ Now.phase' = phase' /\ Now.entry' = entry'
  BY DEF Now
<1>6. \A t \in Tasks : entry'[t] <= spawns
  <2>1. \A t \in S : f[t] \in Workers
    BY DEF Idle
  <2> QED BY <1>2, <2>1 DEF LoopDid, Aged, BornInOrder
<1> QED BY <1>3, <1>4, <1>5, <1>6 DEF Numbered, Aged

LEMMA PassPool ==
    ASSUME CoordinatorAssumption, OtherTypes, NEW s, Good(s), TryDispatchNext(s),
           Numbered(s), Pool(s, aborted', lateFired', strays'), UNCHANGED <<born, fired>>
    PROVE  Pool(Now, aborted, lateFired, strays)'
PROOF
<1>1. PICK S \in SUBSET Queue(s) : \E f \in [S -> Idle(s)] : LoopDid(s, S, f)
  BY LoopDoes
<1>2. PICK f \in [S -> Idle(s)] : LoopDid(s, S, f)
  BY <1>1
<1>3. s \in Records /\ FirstFit(f, s) /\ S \subseteq Tasks
  BY <1>2 DEF Good, LoopDid, Queue
<1>4. \A t, u \in S : f[t] = f[u] => t = u
  BY <1>3, PlacementInjective
<1>5. /\ Now.status' = status' /\ Now.phase' = phase' /\ Now.host' = host' /\ Now.entry' = entry'
  BY DEF Now
<1>6. /\ \A t \in S : /\ phase'[t] \in {"running", "held"} /\ host'[t] = f[t]
                      /\ entry'[t] = born[f[t]]
      /\ \A t \in Tasks \ S : /\ phase'[t] \in {"running", "held"}
                                    <=> s.phase[t] \in {"running", "held"}
                              /\ host'[t] = s.host[t] /\ entry'[t] = s.entry[t]
      /\ \A w \in Workers : status'[w] = IF \E t \in S : f[t] = w THEN "running" ELSE s.status[w]
  BY <1>2, <1>3 DEF LoopDid
<1>7. \A t \in S : s.phase[t] = "pending"
  BY DEF Queue
<1>8. ASSUME NEW w \in Workers
      PROVE  \A t : t \in Given(Now, w)' <=> /\ t \in Tasks /\ phase'[t] \in {"running", "held"}
                                             /\ host'[t] = w /\ entry'[t] = born[w]
  BY <1>5 DEF Given, On
<1>9. \A t, w : t \in Given(s, w) <=> /\ t \in Tasks /\ s.phase[t] \in {"running", "held"}
                                      /\ s.host[t] = w /\ s.entry[t] = born[w]
  BY DEF Given, On
<1>10. ASSUME NEW w \in Workers, w \notin strays', NEW x \in S, f[x] = w
       PROVE  /\ status'[w] = "running" /\ Given(Now, w)' = {x}
              /\ aborted'[w] => w \in lateFired'
  <2>1. s.status[w] = "idle"
    BY <1>10 DEF Idle
  <2>2. Given(s, w) = {} /\ (aborted'[w] => w \in lateFired')
    BY <1>10, <2>1 DEF Pool, Fit
  <2>3. \A t \in Tasks : (phase'[t] \in {"running", "held"} /\ host'[t] = w /\ entry'[t] = born[w])
                            <=> t = x
    BY <1>3, <1>4, <1>6, <1>9, <1>10, <2>2
  <2>4. Given(Now, w)' = {x}
    BY <1>3, <1>8, <2>3
  <2> QED BY <1>6, <1>10, <2>2, <2>4
<1>11. ASSUME NEW w \in Workers, \A t \in S : f[t] # w
       PROVE  status'[w] = s.status[w] /\ Given(Now, w)' = Given(s, w)
  <2>1. \A t \in Tasks : (phase'[t] \in {"running", "held"} /\ host'[t] = w /\ entry'[t] = born[w])
                      <=> (s.phase[t] \in {"running", "held"} /\ s.host[t] = w /\ s.entry[t] = born[w])
    BY <1>6, <1>7, <1>11
  <2>2. Given(Now, w)' = Given(s, w)
    BY <1>5, <2>1 DEF Given, On
  <2> QED BY <1>6, <1>11, <2>2
<1>12. ASSUME NEW w \in Workers, w \notin strays'
       PROVE /\ status'[w] = "idle" => Given(Now, w)' = {} /\ (aborted'[w] => w \in lateFired')
             /\ status'[w] = "running" =>
                  \E t \in Tasks : Given(Now, w)' = {t} /\ (aborted'[w] => t \in fired' \/ w \in lateFired')
  <2>1. CASE \E x \in S : f[x] = w
    <3>1. PICK x \in S : f[x] = w
      BY <2>1
    <3> QED BY <1>3, <1>10, <1>12, <3>1
  <2>2. CASE \A x \in S : f[x] # w
    BY <1>11, <1>12, <2>2 DEF Pool, Fit
  <2> QED BY <2>1, <2>2
<1> QED BY <1>5, <1>12 DEF Pool, Fit

LEMMA QueueingPool ==
    ASSUME CoordinatorAssumption, IInv, PInv, NEW s, s \in Records, Queueing(s)
    PROVE  Numbered(s) /\ Pool(s, aborted', lateFired', strays')
PROOF
<1>1. PICK t \in Tasks : \E p \in Pins :
          /\ phase[t] = "new" /\ s.phase = [phase EXCEPT ![t] = "pending"]
          /\ s.host = [host EXCEPT ![t] = p]
          /\ s.arrival = [arrival EXCEPT ![t] = 1 + Cardinality({u \in Tasks : arrival[u] # 0})]
  BY DEF Queueing
<1> DEFINE given == {u \in Tasks : arrival[u] # 0}
           c == Cardinality(given)
           given2 == {u \in Tasks : s.arrival[u] # 0}
<1>2. IsFiniteSet(given) /\ c \in Nat
  BY FS_Subset, FS_CardinalityType DEF CoordinatorAssumption
<1>3. /\ \A u \in Tasks : phase[u] = "new" <=> arrival[u] = 0
      /\ \A u \in given : arrival[u] <= c
      /\ \A u, v \in given : arrival[u] = arrival[v] => u = v
      /\ \A u \in Tasks : arrival[u] \in Nat
  BY NowFields DEF PInv, Numbered
<1>4. /\ s.arrival[t] = c + 1 /\ s.phase[t] = "pending"
      /\ \A u \in Tasks \ {t} : s.arrival[u] = arrival[u] /\ s.phase[u] = phase[u]
                                /\ s.host[u] = host[u]
  <2>1. PICK p \in Pins :
          /\ s.phase = [phase EXCEPT ![t] = "pending"] /\ s.host = [host EXCEPT ![t] = p]
          /\ s.arrival = [arrival EXCEPT ![t] = 1 + c]
    BY <1>1
  <2>2. /\ phase \in [Tasks -> Phases] /\ host \in [Tasks -> Workers \cup {NoWorker}]
        /\ arrival \in [Tasks -> Nat]
    BY NowFields
  <2>3. 1 + c = c + 1
    BY <1>2
  <2> HIDE DEF c, given2
  <2> QED BY <2>1, <2>2, <2>3
<1> HIDE DEF c
<1>5. given2 = given \cup {t} /\ t \notin given
  <2>1. s.arrival[t] # 0 /\ arrival[t] = 0
    BY <1>1, <1>2, <1>3, <1>4
  <2>2. \A u \in Tasks : s.arrival[u] # 0 <=> (arrival[u] # 0 \/ u = t)
    BY <1>4, <2>1
  <2> QED BY <2>1, <2>2
<1>6. Cardinality(given2) = c + 1
  <2> HIDE DEF given, given2
  <2> QED BY <1>2, <1>5, FS_AddElement DEF c
<1>7. Numbered(s)
  <2>1. \A u \in Tasks : s.phase[u] = "new" <=> s.arrival[u] = 0
    BY <1>2, <1>3, <1>4
  <2>2. \A u \in given2 : s.arrival[u] <= Cardinality(given2)
    BY <1>2, <1>3, <1>4, <1>6
  <2>3. \A u, v \in given2 : s.arrival[u] = s.arrival[v] => u = v
    BY <1>2, <1>3, <1>4
  <2> QED BY <2>1, <2>2, <2>3 DEF Numbered
<1>8. s.status = status /\ s.entry = entry /\ UNCHANGED <<aborted, lateFired, strays>>
  BY DEF Queueing
<1>9. \A w \in Workers : Given(s, w) = Given(Now, w)
  BY <1>1, <1>4, <1>8, NowFields DEF Given, On
<1> QED BY <1>7, <1>8, <1>9, NowFields DEF PInv, Pool, Fit

LEMMA ChangingPool ==
    ASSUME CoordinatorAssumption, IInv, PInv, NEW s, s \in Records, Changing(s)
    PROVE  Numbered(s) /\ Pool(s, aborted', lateFired', strays')
PROOF
<1>1. /\ s.phase = phase /\ s.arrival = arrival /\ s.status = status /\ s.entry = entry
      /\ UNCHANGED <<aborted, lateFired, strays>>
  BY DEF Changing
<1>2. \A u \in Tasks : phase[u] \in {"running", "held"} => s.host[u] = host[u]
  BY NowFields DEF Changing
<1>3. \A w \in Workers : Given(s, w) = Given(Now, w)
  BY <1>1, <1>2, NowFields DEF Given, On
<1>4. Numbered(s)
  BY <1>1, NowFields DEF PInv, Numbered
<1> QED BY <1>1, <1>3, <1>4, NowFields DEF PInv, Pool, Fit

\* What the end of t under the id w leaves to whom.
LEMMA EndsGiven ==
    ASSUME NEW t \in Tasks, NEW w \in Workers, NEW ended \in BOOLEAN, NEW s,
           IInv, Ends(t, w, ended, s.phase, s.entry), s.host = host
    PROVE  \A v \in Workers \ {w} : Given(s, v) = Given(Now, v)
PROOF
<1>1. \A v \in Workers \ {w}, u \in Tasks :
         (s.phase[u] \in {"running", "held"} /\ s.host[u] = v /\ s.entry[u] = born[v])
           <=> (phase[u] \in {"running", "held"} /\ host[u] = v /\ entry[u] = born[v])
  BY DEF Ends
<1> QED BY <1>1, NowFields DEF Given, On

LEMMA EndingPool ==
    ASSUME CoordinatorAssumption, IInv, PInv, NEW s, s \in Records, Ending(s)
    PROVE  Numbered(s) /\ Pool(s, aborted', lateFired', strays')
PROOF
<1>1. PICK t \in Tasks, w \in Workers, ended \in BOOLEAN :
        /\ Ends(t, w, ended, s.phase, s.entry)
        /\ s.host = host /\ s.arrival = arrival /\ s.maxConcurrent = maxConcurrent
        /\ \A v \in Workers :
              s.status[v] = IF v # w \/ status[w] \in {"absent", "stopped"} THEN status[v] ELSE "idle"
        /\ s.terminating = terminating \ {w}
        /\ s.inFlight <= inFlight
        /\ Recycled(w)
        /\ strays' = IF ended /\ entry[t] = born[w] THEN strays ELSE strays \cup {w}
  BY DEF Ending
<1>2. Numbered(s)
  <2>1. \A u \in Tasks : s.phase[u] = "new" <=> phase[u] = "new"
    BY <1>1, NowFields DEF Ends
  <2> QED BY <1>1, <2>1, NowFields DEF PInv, Numbered
<1>3. \A v \in Workers \ {w} : Given(s, v) = Given(Now, v)
  BY <1>1, EndsGiven
<1>4. ASSUME NEW v \in Workers, v # w
      PROVE  Fit(s, aborted', lateFired', strays', v)
  <2>1. s.status[v] = status[v] /\ aborted'[v] = aborted[v]
    BY <1>1, <1>4 DEF Recycled, IInv, OtherTypes
  <2>2. (v \in lateFired' <=> v \in lateFired) /\ (v \in strays' <=> v \in strays)
    BY <1>1, <1>4 DEF Recycled
  <2> QED BY <1>3, <1>4, <2>1, <2>2, NowFields DEF PInv, Pool, Fit
<1>5. Fit(s, aborted', lateFired', strays', w)
  <2> SUFFICES ASSUME w \notin strays'
               PROVE  /\ s.status[w] = "idle" => Given(s, w) = {} /\ (aborted'[w] => w \in lateFired')
                      /\ s.status[w] # "running"
    BY DEF Fit
  <2>1. w \notin strays /\ ended /\ entry[t] = born[w]
    BY <1>1
  <2>2. t \in Given(Now, w) /\ phase[t] \in {"running", "held"} /\ s.phase[t] = "done"
    BY <1>1, <2>1, NowFields DEF Given, On, Ends
  <2>3. status[w] \in {"absent", "stopped", "running"}
    BY <2>1, <2>2, NowFields DEF PInv, Pool, Fit, WorkerStatus
  <2>4. CASE status[w] = "running"
    <3>1. Given(Now, w) = {t}
      BY <2>1, <2>2, <2>4, NowFields DEF PInv, Pool, Fit
    <3>2. Given(s, w) \subseteq Given(Now, w) \ {t}
      <4>1. \A u \in Tasks : (s.phase[u] \in {"running", "held"} /\ s.host[u] = w /\ s.entry[u] = born[w])
                          => (u # t /\ phase[u] \in {"running", "held"} /\ host[u] = w /\ entry[u] = born[w])
        BY <1>1, <2>2 DEF Ends
      <4> QED BY <4>1, NowFields DEF Given, On
    <3>3. ~aborted'[w]
      BY <1>1, <2>4 DEF Recycled, IInv, OtherTypes
    <3> QED BY <1>1, <2>4, <3>1, <3>2, <3>3
  <2>5. CASE status[w] \in {"absent", "stopped"}
    BY <1>1, <2>5
  <2> QED BY <2>3, <2>4, <2>5
<1> QED BY <1>2, <1>4, <1>5 DEF Pool

\* A step without the loop changes no place in the queue.
LEMMA QuietNumbered ==
    ASSUME IInv, PInv, Quiet
    PROVE  Numbered(Now)'
PROOF
<1>1. Now.phase' = phase' /\ Now.arrival' = arrival'
  BY DEF Now
<1>2. (\A t \in Tasks : phase'[t] = "new" <=> phase[t] = "new") /\ arrival' = arrival
  BY DEF Quiet
<1> QED BY <1>1, <1>2, NowFields DEF PInv, Numbered

\* Nor, unless it ends a run, whose task an entry has.
LEMMA RestingGiven ==
    ASSUME IInv, PInv, Quiet, Resting
    PROVE  \A t, w : t \in Given(Now, w) <=> /\ t \in Tasks /\ phase'[t] \in {"running", "held"}
                                             /\ host'[t] = w /\ entry'[t] = born[w]
PROOF
<1>1. \A t \in Tasks : phase'[t] \in {"running", "held"} <=> phase[t] \in {"running", "held"}
  BY DEF Quiet, Resting
<1> QED BY <1>1, NowFields DEF Quiet, Resting, Given, On

LEMMA RestingPool ==
    ASSUME IInv, PInv, Quiet, Resting, UNCHANGED Aside, Withdrawn
    PROVE  PInv'
PROOF
<1>1. \A w \in Workers :
        \/ status'[w] = status[w] /\ aborted'[w] = aborted[w]
        \/ status[w] # "absent" /\ status'[w] \in {"stopped", "absent"}
  BY DEF Withdrawn
<1>2. UNCHANGED <<born, fired, spawns, strays, lateFired, entry>>
  BY DEF Aside, Resting
<1>3. Now.status' = status' /\ Now.entry' = entry' /\ Now.phase' = phase' /\ Now.host' = host'
  BY DEF Now
<1>4. \A w : Given(Now, w)' = Given(Now, w)
  BY <1>2, <1>3, RestingGiven DEF Given, On
<1>5. Aged(Now)' /\ BornInOrder'
  BY <1>1, <1>2, <1>3, NowFields DEF PInv, Aged, BornInOrder
<1>6. Pool(Now, aborted, lateFired, strays)'
  <2> SUFFICES ASSUME NEW w \in Workers, w \notin strays
               PROVE  /\ status'[w] = "idle" => Given(Now, w)' = {} /\ (aborted'[w] => w \in lateFired)
                      /\ status'[w] = "running" =>
                            \E t \in Tasks : Given(Now, w)' = {t}
                                             /\ (aborted'[w] => t \in fired \/ w \in lateFired)
    BY <1>2, <1>3 DEF Pool, Fit
  <2>1. CASE status'[w] = status[w] /\ aborted'[w] = aborted[w]
    BY <1>4, <2>1, NowFields DEF PInv, Pool, Fit
  <2>2. CASE status[w] # "absent" /\ status'[w] \in {"stopped", "absent"}
    BY <2>2
  <2> QED BY <1>1, <2>1, <2>2
<1> QED BY <1>5, <1>6, QuietNumbered DEF PInv

\* A fresh entry has a number of its own, and so no task.
LEMMA SpawnPool ==
    ASSUME CoordinatorAssumption, IInv, PInv, NEW w \in Workers, Spawn(w)
    PROVE  PInv'
PROOF
<1>1. Quiet /\ Resting /\ \A v \in Workers : status'[v] = IF v = w THEN "idle" ELSE status[v]
  BY SpawnsQuietly
<1>2. /\ \A v \in Workers : born'[v] = IF v = w THEN spawns + 1 ELSE born[v]
      /\ \A v \in Workers : aborted'[v] = IF v = w THEN FALSE ELSE aborted[v]
      /\ spawns' = spawns + 1 /\ spawns \in Nat
      /\ lateFired' = lateFired \ {w} /\ strays' = strays \ {w}
      /\ UNCHANGED <<fired, entry, phase, host>>
  BY DEF Spawn, IInv, OtherTypes
<1>3. Now.status' = status' /\ Now.entry' = entry' /\ Now.phase' = phase' /\ Now.host' = host'
  BY DEF Now
<1>4. \A t \in Tasks : entry[t] \in Nat /\ entry[t] <= spawns
  BY NowFields DEF PInv, Aged
<1>5. Aged(Now)'
  BY <1>2, <1>3, <1>4 DEF Aged
<1>6. BornInOrder'
  <2>1. \A v \in Workers : born[v] \in Nat /\ born[v] <= spawns
    BY DEF PInv, BornInOrder, IInv, OtherTypes
  <2> QED BY <1>1, <1>2, <2>1, NowFields DEF PInv, BornInOrder
<1>7. Given(Now, w)' = {}
  BY <1>2, <1>3, <1>4 DEF Given, On
<1>8. \A v \in Workers \ {w} : Given(Now, v)' = Given(Now, v)
  BY <1>2, <1>3, NowFields DEF Given, On
<1>9. Pool(Now, aborted, lateFired, strays)'
  <2> SUFFICES ASSUME NEW v \in Workers, v \notin strays'
               PROVE  /\ status'[v] = "idle" => Given(Now, v)' = {} /\ (aborted'[v] => v \in lateFired')
                      /\ status'[v] = "running" =>
                            \E t \in Tasks : Given(Now, v)' = {t}
                                             /\ (aborted'[v] => t \in fired' \/ v \in lateFired')
    BY <1>3 DEF Pool, Fit
  <2>1. CASE v = w
    BY <1>1, <1>2, <1>7, <2>1
  <2>2. CASE v # w
    BY <1>1, <1>2, <1>8, <2>2, NowFields DEF PInv, Pool, Fit
  <2> QED BY <2>1, <2>2
<1> QED BY <1>1, <1>5, <1>6, <1>9, QuietNumbered DEF PInv

\* A watchdog aborts the entry of its own task, or marks the entry it hits.
LEMMA WatchdogPool ==
    ASSUME CoordinatorAssumption, IInv, PInv, NEW t \in Tasks, WatchdogFires(t)
    PROVE  PInv'
PROOF
<1> DEFINE w == host[t]
           own == phase[t] = "running" /\ entry[t] = born[w]
<1>1. Quiet /\ Resting /\ UNCHANGED status
  BY ElseQuietly
<1>2. /\ fired' = fired \cup {t}
      /\ UNCHANGED <<born, spawns, strays, entry, phase, host>>
      /\ IF status[w] = "absent" THEN UNCHANGED <<aborted, lateFired>>
         ELSE /\ AbortControllers({w})
              /\ lateFired' = IF own THEN lateFired ELSE lateFired \cup {w}
  BY DEF WatchdogFires
<1>3. Now.status' = status' /\ Now.entry' = entry' /\ Now.phase' = phase' /\ Now.host' = host'
  BY DEF Now
<1>4. \A v : Given(Now, v)' = Given(Now, v)
  BY <1>2, <1>3, NowFields DEF Given, On
<1>5. Aged(Now)' /\ BornInOrder'
  BY <1>1, <1>2, <1>3, NowFields DEF PInv, Aged, BornInOrder
<1>6. w \in Workers /\ (own => t \in Given(Now, w))
  BY NowFields DEF WatchdogFires, IInv, Good, Placed, Given, On
<1>7. Pool(Now, aborted, lateFired, strays)'
  <2> SUFFICES ASSUME NEW v \in Workers, v \notin strays
               PROVE  /\ status[v] = "idle" => Given(Now, v) = {} /\ (aborted'[v] => v \in lateFired')
                      /\ status[v] = "running" =>
                            \E u \in Tasks : Given(Now, v) = {u}
                                             /\ (aborted'[v] => u \in fired' \/ v \in lateFired')
    BY <1>1, <1>2, <1>3, <1>4 DEF Pool, Fit
  <2>1. Fit(Now, aborted, lateFired, strays, v)
    BY DEF PInv, Pool
  <2> HIDE DEF w
  <2>2. CASE v # w \/ status[w] = "absent"
    <3>1. (status[v] = "absent" \/ aborted'[v] = aborted[v]) /\ lateFired \subseteq lateFired' /\ fired \subseteq fired'
      BY <1>2, <2>2 DEF AbortControllers, IInv, OtherTypes
    <3> QED BY <2>1, <3>1, NowFields DEF Fit
  <2>3. CASE v = w /\ status[w] # "absent" /\ ~own
    BY <1>2, <2>1, <2>3, NowFields DEF Fit
  <2>4. CASE v = w /\ status[w] # "absent" /\ own
    BY <1>2, <1>6, <2>1, <2>4, NowFields DEF Fit
  <2> QED BY <2>2, <2>3, <2>4
<1> QED BY <1>1, <1>5, <1>7, QuietNumbered DEF PInv

LEMMA HandedPool ==
    ASSUME CoordinatorAssumption, IInv, PInv, NEW s, Handed(s)
    PROVE  PInv'
PROOF
<1>1. s \in Records /\ Good(s) /\ TryDispatchNext(s) /\ UNCHANGED <<born, fired, spawns>>
  BY DEF Handed, Good
<1>2. Numbered(s) /\ Pool(s, aborted', lateFired', strays')
  BY <1>1, QueueingPool, ChangingPool, EndingPool DEF Handed
<1>3. Aged(s)
  <2>1. \A t \in Tasks : s.entry[t] = entry[t] \/ s.entry[t] = 0
    BY DEF Handed, Queueing, Changing, Ending, Ends
  <2> QED BY <2>1, NowFields DEF PInv, Aged, IInv, OtherTypes
<1>4. Numbered(Now)' /\ Aged(Now)'
  BY <1>1, <1>2, <1>3, PassNumbered DEF IInv, PInv
<1>5. Pool(Now, aborted, lateFired, strays)'
  BY <1>1, <1>2, PassPool DEF IInv
<1>6. BornInOrder'
  <2>1. PICK S \in SUBSET Queue(s) : \E f \in [S -> Idle(s)] : LoopDid(s, S, f)
    BY <1>1, LoopDoes DEF IInv
  <2>2. \A w \in Workers : status'[w] # "absent" => s.status[w] # "absent"
    BY <2>1 DEF LoopDid, Idle
  <2>3. \A w \in Workers : s.status[w] # "absent" => status[w] # "absent"
    BY DEF Handed, Queueing, Changing, Ending
  <2> QED BY <1>1, <2>2, <2>3 DEF PInv, BornInOrder
<1> QED BY <1>4, <1>5, <1>6 DEF PInv

LEMMA DroppedPool ==
    ASSUME CoordinatorAssumption, IInv, PInv, Dropped, Quiet
    PROVE  PInv'
PROOF
<1>1. PICK t \in Tasks, w \in Workers, ended \in BOOLEAN :
          Ends(t, w, ended, phase', entry') /\ strays' = strays \cup {w}
  BY DEF Dropped
<1>2. UNCHANGED <<status, born, aborted, host, fired, spawns, lateFired>>
  BY DEF Dropped
<1>3. Now.status' = status' /\ Now.entry' = entry' /\ Now.phase' = phase' /\ Now.host' = host'
  BY DEF Now
<1>4. Aged(Now)' /\ BornInOrder'
  <2>1. \A u \in Tasks : entry'[u] = entry[u] \/ entry'[u] = 0
    BY <1>1 DEF Ends
  <2> QED BY <1>2, <1>3, <2>1, NowFields DEF PInv, Aged, BornInOrder, IInv, OtherTypes
<1>5. \A v \in Workers \ {w} : Given(Now, v)' = Given(Now, v)
  <2>1. \A v \in Workers \ {w}, u \in Tasks :
           (phase'[u] \in {"running", "held"} /\ host[u] = v /\ entry'[u] = born[v])
             <=> (phase[u] \in {"running", "held"} /\ host[u] = v /\ entry[u] = born[v])
    BY <1>1 DEF Ends
  <2> QED BY <1>2, <1>3, <2>1, NowFields DEF Given, On
<1>6. Pool(Now, aborted, lateFired, strays)'
  BY <1>1, <1>2, <1>3, <1>5, NowFields DEF PInv, Pool, Fit
<1> QED BY <1>4, <1>6, QuietNumbered DEF PInv

LEMMA StepPInv ==
    ASSUME CoordinatorAssumption, IInv, PInv, [Next]_vars
    PROVE  PInv'
PROOF
<1>1. CASE UNCHANGED vars \/ SetRunner
  <2>1. Quiet /\ Resting
    BY <1>1, ElseQuietly
  <2>2. UNCHANGED <<born, fired, spawns, strays, lateFired, entry, status, aborted, phase, host, arrival>>
    BY <1>1 DEF vars, SetRunner
  <2> QED BY <2>2 DEF PInv, Numbered, Aged, BornInOrder, Pool, Fit, Given, On, Now
<1>2. CASE (\E w \in Workers : Stop(w)) \/ StopAll \/ (\E w \in Workers : Remove(w))
  BY <1>2, Withdraws, RestingPool
<1>3. ASSUME NEW w \in Workers, Spawn(w) PROVE PInv'
  BY <1>3, SpawnPool
<1>4. ASSUME NEW t \in Tasks, WatchdogFires(t) PROVE PInv'
  BY <1>4, WatchdogPool
<1>5. CASE \/ \E t \in Tasks, p \in Pins : Assign(t, p)
           \/ \E t \in Tasks, p \in Pins : Retarget(t, p)
           \/ \E n \in Caps : SetMaxConcurrent(n)
           \/ \E t \in Tasks : Settle(t)
           \/ \E t \in Tasks, w \in Workers : CompleteTask(t, w)
  BY <1>5, LoopSteps, HandedPool, DroppedPool
<1> QED BY <1>1, <1>2, <1>3, <1>4, <1>5 DEF Next, CoordinatorAssumption

LEMMA InitPInv == ASSUME Init PROVE PInv
PROOF
<1>1. /\ Now.status = [w \in Workers |-> "absent"] /\ Now.phase = [t \in Tasks |-> "new"]
      /\ Now.arrival = [t \in Tasks |-> 0] /\ Now.entry = [t \in Tasks |-> 0]
  BY DEF Init, Now
<1>2. Numbered(Now) /\ Aged(Now)
  BY <1>1 DEF Init, Numbered, Aged
<1>3. BornInOrder
  BY DEF Init, BornInOrder
<1> QED BY <1>1, <1>2, <1>3 DEF PInv, Pool, Fit

LEMMA PoolInvariance == Spec => [](IInv /\ PInv)
PROOF
<1>1. Init => PInv
  BY InitPInv
<1>2. IInv /\ PInv /\ [Next]_vars => PInv'
  BY CoordinatorAssumption, StepPInv
<1> QED BY <1>1, <1>2, Invariance, PTL DEF Spec

\* A busy entry has exactly one task and an idle one none, ids used again after a
\* remove() included: recordCompletion() makes an entry idle under another's task
\* only when the entry was replaced under the run that ends, or the caller
\* reported a result with completeTask().
THEOREM OneTaskPerWorker == Spec => []BusyMeansOneRun
PROOF
<1>1. IInv /\ PInv => BusyMeansOneRun
  BY PoolSafe
<1> QED BY <1>1, PoolInvariance, PTL

\* The abort that ended one task never reaches the next one on the entry, because
\* recordCompletion() replaces the controller before the loop can give the entry a
\* task: of the signals that are down before their time, all are the doing of a
\* watchdog that outlived its run or hit another's entry.
THEOREM SignalsFresh == Spec => []FreshSignal
PROOF
<1>1. IInv /\ PInv => FreshSignal
  BY PoolSafe
<1> QED BY <1>1, PoolInvariance, PTL
-----------------------------------------------------------------------------
(* No dead end: a task that waits has somebody to wait for.                  *)

\* A stopped entry only is terminating.
MarkedStopped == \A w \in terminating : status[w] = "stopped"

\* completeTask() is for callers that drive subagents without a runner: what its
\* comment says, and nothing in the code enforces.
Contract == runner => reported = {}

\* A busy worker has a task, ids used again included.
Manned(s) == \A w \in Workers : s.status[w] = "running" => On(s, w) # {}

\* Only a spawn can help it: nobody is there, or not the worker it is pinned to.
WantsWorker(t) ==
    IF host[t] = NoWorker THEN Entries(Now) = {}
                          ELSE status[host[t]] \in {"absent", "stopped"}

NoDeadEnd ==
    \A t \in Tasks : phase[t] = "pending" =>
        WantsWorker(t) \/ \E u \in Tasks : phase[u] \in {"running", "held"}

\* The loop stops with a task left only when the slots are taken, or somebody
\* is left who may be busy; otherwise it drains the queue.
LEMMA LoopOpen ==
    ASSUME CoordinatorAssumption, OtherTypes, NEW s, Good(s), TryDispatchNext(s)
    PROVE  \/ \A t \in Tasks : phase'[t] # "pending"
           \/ inFlight' >= maxConcurrent'
           \/ HasLiveSubagent(Now)'
PROOF
<1>1. PICK S \in SUBSET Queue(s) : \E f \in [S -> Idle(s)] :
        FirstFit(f, s) /\ LET d == Dispatched(s, f)
                          IN Become(IF CanDispatch(d) /\ ~HasLiveSubagent(d)
                                    THEN Aborted(d, Queue(d)) ELSE d)
  BY DEF TryDispatchNext
<1>2. PICK f \in [S -> Idle(s)] :
        FirstFit(f, s) /\ LET d == Dispatched(s, f)
                          IN Become(IF CanDispatch(d) /\ ~HasLiveSubagent(d)
                                    THEN Aborted(d, Queue(d)) ELSE d)
  BY <1>1
<1> DEFINE d == Dispatched(s, f)
           a == Aborted(d, Queue(d))
<1>3. d \in Records
  BY DispatchedGood DEF Good
<1>4. Become(IF CanDispatch(d) /\ ~HasLiveSubagent(d) THEN a ELSE d)
  BY <1>2
<1> HIDE DEF d
<1>5. a.phase = [t \in Tasks |-> IF t \in Queue(d) THEN "done" ELSE d.phase[t]]
  BY <1>3 DEF Aborted, Records
<1> HIDE DEF a
<1>6. CASE Become(a)
  BY <1>5, <1>6 DEF Become, Queue
<1>7. CASE Become(d) /\ ~CanDispatch(d)
  <2>1. CASE Queue(d) = {}
    BY <1>7, <2>1 DEF Become, Queue
  <2>2. CASE ~(d.inFlight < d.maxConcurrent)
    BY <1>3, <1>7, <2>2 DEF Become, Records
  <2> QED BY <1>7, <2>1, <2>2 DEF CanDispatch
<1>8. CASE Become(d) /\ HasLiveSubagent(d)
  BY <1>8 DEF Become, HasLiveSubagent, Entries, Now
<1> QED BY <1>4, <1>6, <1>7, <1>8

\* The loop keeps busy workers busy with a task.
LEMMA PassManned ==
    ASSUME CoordinatorAssumption, IInv, NEW s, Handed(s), Manned(Now), MarkedStopped
    PROVE  Manned(Now)' /\ MarkedStopped'
PROOF
<1>1. PICK S \in SUBSET Queue(s) : \E f \in [S -> Idle(s)] : LoopDid(s, S, f)
  BY LoopDoes DEF Handed, IInv
<1>2. PICK f \in [S -> Idle(s)] : LoopDid(s, S, f)
  BY <1>1
<1>3. \A t \in S : s.phase[t] = "pending" /\ t \in Tasks /\ s.status[f[t]] = "idle"
                   /\ f[t] \notin s.terminating
  BY DEF Queue, Idle
<1>4. Manned(s) /\ \A w \in s.terminating : s.status[w] = "stopped"
  <2>1. CASE Queueing(s)
    BY <2>1, NowFields DEF Queueing, Manned, On, MarkedStopped
  <2>2. CASE Changing(s)
    <3>1. \A w \in Workers : On(Now, w) \subseteq On(s, w)
      BY <2>2, NowFields DEF Changing, On
    <3> QED BY <2>2, <3>1, NowFields DEF Changing, Manned, MarkedStopped
  <2>3. CASE Ending(s)
    <3>1. PICK t \in Tasks, w \in Workers, ended \in BOOLEAN :
            /\ Ends(t, w, ended, s.phase, s.entry)
            /\ s.host = host /\ s.arrival = arrival /\ s.maxConcurrent = maxConcurrent
            /\ \A v \in Workers :
                  s.status[v] = IF v # w \/ status[w] \in {"absent", "stopped"} THEN status[v] ELSE "idle"
            /\ s.terminating = terminating \ {w}
            /\ s.inFlight <= inFlight
            /\ Recycled(w)
            /\ strays' = IF ended /\ entry[t] = born[w] THEN strays ELSE strays \cup {w}
      BY <2>3 DEF Ending
    <3>2. s.status[w] # "running" /\ \A v \in Workers \ {w} : s.status[v] = status[v]
      BY <3>1
    <3>3. \A v \in Workers \ {w} : On(Now, v) \subseteq On(s, v)
      <4>1. \A u \in Tasks : phase[u] \in {"running", "held"} /\ host[u] # w => s.phase[u] = phase[u]
        BY <3>1 DEF Ends
      <4> QED BY <3>1, <4>1, NowFields DEF On
    <3>4. Manned(s)
      BY <3>2, <3>3, NowFields DEF Manned
    <3>5. \A v \in s.terminating : s.status[v] = "stopped"
      BY <3>1, NowFields DEF MarkedStopped
    <3> QED BY <3>4, <3>5
  <2> QED BY <2>1, <2>2, <2>3 DEF Handed
<1>5. Manned(Now)'
  <2> SUFFICES ASSUME NEW w \in Workers, status'[w] = "running"
               PROVE  \E t \in Tasks : phase'[t] \in {"running", "held"} /\ host'[t] = w
    BY DEF Manned, On, Now
  <2>1. CASE \E t \in S : f[t] = w
    BY <1>2, <1>3, <2>1 DEF LoopDid
  <2>2. CASE \A t \in S : f[t] # w
    <3>1. s.status[w] = "running"
      BY <1>2, <2>2 DEF LoopDid
    <3>2. PICK t \in Tasks : s.phase[t] \in {"running", "held"} /\ s.host[t] = w
      BY <1>4, <3>1 DEF Manned, On
    <3>3. t \notin S
      BY <1>3, <3>2
    <3> QED BY <1>2, <3>2, <3>3 DEF LoopDid
  <2> QED BY <2>1, <2>2
<1>6. MarkedStopped'
  <2>1. terminating' = s.terminating /\ s.terminating \subseteq Workers
    BY <1>2 DEF LoopDid, Handed, Good, Records
  <2> QED BY <1>2, <1>3, <1>4, <2>1 DEF MarkedStopped, LoopDid
<1> QED BY <1>5, <1>6

\* With every slot free and no worker busy, an idle worker would have been given
\* the task, and without one the queue would have been drained.
LEMMA PassEnds ==
    ASSUME CoordinatorAssumption, IInv, IInv', NEW s, Handed(s), Manned(Now), MarkedStopped
    PROVE  NoDeadEnd'
PROOF
<1>1. Manned(Now)' /\ MarkedStopped'
  BY PassManned
<1>2. WorkConserving'
  BY PassConserves DEF Handed, IInv
<1> SUFFICES ASSUME NEW t \in Tasks, phase'[t] = "pending", ~WantsWorker(t)',
                    \A u \in Tasks : phase'[u] \notin {"running", "held"}
             PROVE  FALSE
  BY DEF NoDeadEnd
<1>3. \A w \in Workers : status'[w] # "running"
  BY <1>1 DEF Manned, On, Now
<1>4. ~(inFlight' >= maxConcurrent')
  <2>1. inFlight' <= Cardinality({u \in Tasks : phase'[u] = "running"}) /\ inFlight' \in Nat
    BY DEF IInv, Good, InRun, Now, Records
  <2>2. {u \in Tasks : phase'[u] = "running"} = {}
    OBVIOUS
  <2>3. inFlight' = 0
    BY <2>1, <2>2, FS_EmptySet
  <2> QED BY <2>3 DEF IInv, Good, Records, Now
<1>5. \A w \in Workers : status'[w] = "idle" => w \notin terminating'
  BY <1>1 DEF MarkedStopped
<1>6. \A w \in Workers : host'[t] \in {NoWorker, w} => status'[w] # "idle"
  BY <1>2, <1>4, <1>5 DEF WorkConserving, Idle, Now
<1>7. /\ status' \in [Workers -> WorkerStatus]
      /\ host' \in [Tasks -> Workers \cup {NoWorker}]
  BY DEF IInv, Good, Records, Now
<1>8. CASE host'[t] # NoWorker
  <2>1. host'[t] \in Workers
    BY <1>7, <1>8
  <2> QED BY <1>3, <1>6, <1>7, <1>8, <2>1 DEF WantsWorker, WorkerStatus
<1>9. CASE host'[t] = NoWorker
  <2>1. HasLiveSubagent(Now)' /\ ~(Entries(Now) = {})'
    BY <1>4, <1>9, LoopOpen DEF WantsWorker, Handed, IInv
  <2>2. PICK w \in Workers : status'[w] \notin {"absent", "stopped"}
    BY <2>1 DEF HasLiveSubagent, Entries, Now
  <2> QED BY <1>3, <1>6, <1>7, <1>9, <2>2 DEF WorkerStatus
<1> QED BY <1>8, <1>9

\* Without the loop nothing new waits, and no run ends.
LEMMA QuietEnds ==
    ASSUME IInv, Quiet, Resting, NoDeadEnd,
           \A w \in Workers : \/ status'[w] = status[w]
                              \/ status[w] # "absent" /\ status'[w] \in {"stopped", "absent"}
    PROVE  NoDeadEnd'
PROOF
<1> SUFFICES ASSUME NEW t \in Tasks, phase'[t] = "pending"
             PROVE  WantsWorker(t)' \/ \E u \in Tasks : phase'[u] \in {"running", "held"}
  BY DEF NoDeadEnd
<1>1. phase[t] = "pending" /\ host' = host
  BY DEF Quiet
<1>2. CASE WantsWorker(t)
  <2>1. CASE host[t] = NoWorker
    BY <1>1, <1>2, <2>1 DEF WantsWorker, Entries, Now
  <2>2. CASE host[t] # NoWorker
    <3>1. host[t] \in Workers
      BY <2>2, NowFields
    <3> QED BY <1>1, <1>2, <2>2, <3>1 DEF WantsWorker
  <2> QED BY <2>1, <2>2
<1>3. CASE \E u \in Tasks : phase[u] \in {"running", "held"}
  BY <1>3 DEF Resting
<1> QED BY <1>1, <1>2, <1>3 DEF NoDeadEnd

Lively == Manned(Now) /\ MarkedStopped /\ NoDeadEnd

DInv == StaffedFirst /\ (Contract => Lively)

LEMMA StepDInv ==
    ASSUME CoordinatorAssumption, SpawnFirst, IInv, IInv', DInv, [Next]_vars
    PROVE  DInv'
PROOF
<1>a. Onward(phase', events', reported')
  BY StepShape, LoopOnward DEF Quiet
<1>b. runner => runner'
  <2>1. CASE UNCHANGED vars
    BY <2>1 DEF vars
  <2> QED BY <2>1 DEF Next, Spawn, Assign, Retarget, SetMaxConcurrent, SetRunner, Stop, StopAll, Remove,
         WatchdogFires, Settle, CompleteTask, Aside
<1>c. Contract' => Contract
  BY <1>a, <1>b DEF Contract, Onward
<1> SUFFICES ASSUME Contract', Lively PROVE Lively'
  BY <1>c, StepStaffedFirst DEF DInv
<1>1. ASSUME Quiet, Resting,
             \A w \in Workers :
                \/ status'[w] = status[w] /\ (w \in terminating' <=> w \in terminating)
                \/ /\ status[w] # "absent"
                   /\ status'[w] = "stopped" \/ (status'[w] = "absent" /\ w \notin terminating')
      PROVE  Lively'
  <2>1. Manned(Now)'
    <3> SUFFICES ASSUME NEW w \in Workers, status'[w] = "running"
                 PROVE  \E t \in Tasks : phase'[t] \in {"running", "held"} /\ host'[t] = w
      BY DEF Manned, On, Now
    <3>1. PICK t \in Tasks : phase[t] \in {"running", "held"} /\ host[t] = w
      BY <1>1, NowFields DEF Lively, Manned, On
    <3> QED BY <1>1, <3>1 DEF Quiet, Resting
  <2>2. terminating \subseteq Workers /\ terminating' \subseteq Workers
    BY DEF IInv, Good, Records, Now
  <2>3. MarkedStopped'
    BY <1>1, <2>2 DEF Lively, MarkedStopped
  <2>4. NoDeadEnd'
    BY <1>1, QuietEnds DEF Lively
  <2> QED BY <2>1, <2>3, <2>4 DEF Lively
<1>2. CASE UNCHANGED vars \/ SetRunner \/ \E t \in Tasks : WatchdogFires(t)
  BY <1>1, <1>2, ElseQuietly
<1>3. ASSUME NEW w \in Workers, Spawn(w) PROVE Lively'
  <2>1. \A t \in Tasks : phase'[t] = "new"
    BY <1>3 DEF Spawn, DInv, StaffedFirst
  <2>2. terminating' = terminating /\ host' = host /\ phase' = phase
        /\ status' = [status EXCEPT ![w] = "idle"] /\ status[w] = "absent"
    BY <1>3 DEF Spawn
  <2>3. Manned(Now)' /\ MarkedStopped'
    BY <2>2, NowFields DEF Lively, Manned, MarkedStopped, On, Now
  <2> QED BY <2>1, <2>3 DEF Lively, NoDeadEnd
<1>4. CASE (\E w \in Workers : Stop(w)) \/ StopAll \/ (\E w \in Workers : Remove(w))
  BY <1>1, <1>4, Withdraws DEF Withdrawn
<1>5. ASSUME NEW s, Handed(s) PROVE Lively'
  BY <1>5, PassManned, PassEnds DEF Lively
<1>6. ASSUME Dropped PROVE FALSE
  BY <1>6 DEF Dropped, Contract
<1>7. CASE \/ \E t \in Tasks, p \in Pins : Assign(t, p)
           \/ \E t \in Tasks, p \in Pins : Retarget(t, p)
           \/ \E n \in Caps : SetMaxConcurrent(n)
           \/ \E t \in Tasks : Settle(t)
           \/ \E t \in Tasks, w \in Workers : CompleteTask(t, w)
  BY <1>5, <1>6, <1>7, LoopSteps
<1> QED BY <1>2, <1>3, <1>4, <1>7 DEF Next, CoordinatorAssumption

\* With the workers spawned first, no call leaves a task in a queue that nothing
\* will move again: while a task waits for which a worker is there, some task
\* runs, whose completion runs the loop.  stop(), stopAll(), remove() and the
\* drain for want of live workers (tryDispatchNext(), hasLiveSubagent()) meet in
\* any order and ids are used again; only callers that report results of their own
\* beside a runner can break it, by making recordCompletion() drop the completion
\* that was to run the loop.
THEOREM QueueMoves == ASSUME SpawnFirst PROVE Spec => [](Contract => NoDeadEnd)
PROOF
<1>1. Init => DInv
  BY DEF Init, DInv, Lively, StaffedFirst, Manned, MarkedStopped, NoDeadEnd, Now
<1>2. IInv /\ IInv' /\ DInv /\ [Next]_vars => DInv'
  BY CoordinatorAssumption, StepDInv
<1>3. DInv => (Contract => NoDeadEnd)
  BY DEF DInv, Lively
<1> QED BY <1>1, <1>2, <1>3, Invariance, PTL DEF Spec
=============================================================================
