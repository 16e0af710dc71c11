--------------------------- MODULE TaskDagProofs ---------------------------
(***************************************************************************)
(* For any set of task ids: the graph stays acyclic and nothing in it is     *)
(* handed out twice, whatever methods are called in whatever order; a call   *)
(* leaves a node behind that waits for nothing for three reasons only; and   *)
(* where nobody removes a node, nodes added late included, none goes early.  *)
(***************************************************************************)
EXTENDS TaskDag, TLAPS

-----------------------------------------------------------------------------
\* The type invariant holds at the start and is kept by every step.
LEMMA InitType == Init => DagTypeOK
  BY DEF Init, DagTypeOK, Report

LEMMA StepType == DagTypeOK /\ [Next]_vars => DagTypeOK'
<1> SUFFICES ASSUME DagTypeOK, [Next]_vars
             PROVE  DagTypeOK'
  OBVIOUS
<1> USE DEF DagTypeOK, Present, DAGNodeStatus, Settled, Report, EmitReady
<1>1. ASSUME NEW n \in Nodes, NEW ds \in SUBSET Nodes, AddNode(n, ds)
      PROVE  DagTypeOK'
  BY <1>1 DEF AddNode
<1>2. ASSUME NEW n \in Nodes, RemoveNode(n)
      PROVE  DagTypeOK'
  BY <1>2 DEF RemoveNode, MadeReady
<1>3. ASSUME NEW n \in Nodes, Start(n)
      PROVE  DagTypeOK'
  BY <1>3 DEF Start
<1>4. ASSUME NEW n \in Nodes, NEW as \in Settled, NEW good, n \in Present, Settle(n, as, good)
      PROVE  DagTypeOK'
  BY <1>4 DEF Settle, MadeReady
<1>5. ASSUME NEW n \in Nodes, Skip(n)
      PROVE  DagTypeOK'
  BY <1>5 DEF Skip, MadeReady
<1>6. CASE UNCHANGED vars
  BY <1>6 DEF vars
<1>7. QED
  BY <1>1, <1>2, <1>3, <1>4, <1>5, <1>6 DEF Next, Complete, Fail, Repeat, Reported

\* Every variable keeps its type, and every edge is known at both of its ends,
\* for every use of the methods.
THEOREM DagTypeCorrect == Spec => []DagTypeOK
  BY InitType, StepType, PTL DEF Spec

-----------------------------------------------------------------------------
\* _transition() only ever touches a node that is pending.
LEMMA ReleasesPending ==
    ASSUME NEW st, NEW ms, NEW n \in Nodes, st[n] # "pending"
    PROVE  MadeReady(st, ms)[n] = st[n]
  BY DEF MadeReady

\* A node that was started or settled is never made ready again while it is in
\* the graph, whatever complete(), fail() and skip() are called on.
THEOREM NeverRestarted == Spec => NoRestart
<1> DEFINE Kept == \A n \in Nodes : status[n] \in Settled \cup {"running"} =>
                       status'[n] \notin {"pending", "ready"}
<1>1. DagTypeOK /\ [Next]_vars => [Kept]_vars
  <2> SUFFICES ASSUME DagTypeOK, Next
               PROVE  Kept
    OBVIOUS
  <2> USE DEF DagTypeOK, DAGNodeStatus, Settled, Present
  <2>1. ASSUME NEW n \in Nodes, NEW ds \in SUBSET Nodes, AddNode(n, ds)
        PROVE  Kept
    BY <2>1 DEF AddNode
  <2>2. ASSUME NEW n \in Nodes, RemoveNode(n)
        PROVE  Kept
    BY <2>2 DEF RemoveNode, MadeReady
  <2>3. ASSUME NEW n \in Nodes, Start(n)
        PROVE  Kept
    BY <2>3 DEF Start
  <2>4. ASSUME NEW n \in Nodes, NEW as \in Settled, NEW good, Settle(n, as, good)
        PROVE  Kept
    BY <2>4 DEF Settle, MadeReady
  <2>5. ASSUME NEW n \in Nodes, Skip(n)
        PROVE  Kept
    BY <2>5 DEF Skip, MadeReady
  <2>6. QED
    BY <2>1, <2>2, <2>3, <2>4, <2>5 DEF Next, Complete, Fail, Repeat
<1>2. QED
  BY DagTypeCorrect, <1>1, PTL DEF Spec, NoRestart

-----------------------------------------------------------------------------
\* T contains what its members wait on.
Closed(T) == \A x \in T : deps[x] \subseteq T

\* An id that S does not reach is left out by some closed set around S.
LEMMA Avoids ==
    ASSUME NEW S \in SUBSET Nodes, NEW n \in Nodes, ~Reaches(S, n)
    PROVE  \E T \in SUBSET Nodes : S \subseteq T /\ n \notin T /\ Closed(T)
  BY DEF Reaches, Closed

\* addNode() closes no cycle.  A node k other than the new node n is kept apart
\* from its own dependencies by a closed set: one without n if there is one;
\* else k leads to n, the new dependencies cannot lead to k, and the union of
\* what they reach and of what k reaches does.
LEMMA AddKeepsAcyclic ==
    ASSUME DagTypeOK, Acyclic, NEW n \in Nodes, NEW ds \in SUBSET Nodes, AddNode(n, ds)
    PROVE  Acyclic'
<1> USE DEF DagTypeOK
<1>1. /\ \A x \in Nodes : deps'[x] = IF x = n THEN ds ELSE deps[x]
      /\ Present' = Present \cup {n}
      /\ ~Reaches(ds, n)
  BY DEF AddNode, WouldCycle, Present
<1>2. PICK T \in SUBSET Nodes : ds \subseteq T /\ n \notin T /\ Closed(T)
  BY <1>1, Avoids
<1>3. ~Reaches(deps[n], n)'
  BY <1>1, <1>2 DEF Reaches, Closed
<1>4. ASSUME NEW k \in Present, k # n
      PROVE  ~Reaches(deps[k], k)'
  <2>1. k \in Nodes /\ deps[k] \in SUBSET Nodes
    BY DEF Present
  <2>2. PICK U \in SUBSET Nodes : deps[k] \subseteq U /\ k \notin U /\ Closed(U)
    <3>1. ~Reaches(deps[k], k)
      BY <1>4 DEF Acyclic
    <3>2. QED
      BY <2>1, <3>1, Avoids
  <2>3. CASE Reaches(deps[k], n)
    <3>1. ~Reaches(ds, k)
      <4>1. SUFFICES ASSUME NEW W \in SUBSET Nodes, ds \subseteq W, Closed(W), k \in W
                     PROVE  n \in W
        BY <1>1 DEF Reaches, Closed
      <4>2. deps[k] \subseteq W
        BY <4>1 DEF Closed
      <4>3. QED
        BY <2>3, <4>1, <4>2 DEF Reaches, Closed
    <3>2. PICK W \in SUBSET Nodes : ds \subseteq W /\ k \notin W /\ Closed(W)
      BY <2>1, <3>1, Avoids
    <3>3. /\ U \cup W \in SUBSET Nodes
          /\ k \notin U \cup W
          /\ deps'[k] \subseteq U \cup W
          /\ \A x \in U \cup W : deps'[x] \subseteq U \cup W
      BY <1>1, <1>4, <2>1, <2>2, <3>2 DEF Closed
    <3>4. QED
      BY <3>3 DEF Reaches
  <2>4. CASE ~Reaches(deps[k], n)
    <3>1. PICK W \in SUBSET Nodes : deps[k] \subseteq W /\ n \notin W /\ Closed(W)
      BY <2>1, <2>4, Avoids
    <3>2. /\ U \cap W \in SUBSET Nodes
          /\ k \notin U \cap W
          /\ deps'[k] \subseteq U \cap W
          /\ \A x \in U \cap W : deps'[x] \subseteq U \cap W
      BY <1>1, <1>4, <2>1, <2>2, <3>1 DEF Closed
    <3>3. QED
      BY <3>2 DEF Reaches
  <2>5. QED
    BY <2>3, <2>4
<1>5. QED
  BY <1>1, <1>3, <1>4 DEF Acyclic

\* removeNode() takes edges away; the other methods leave them alone.
LEMMA FewerEdgesAcyclic ==
    /\ DagTypeOK /\ DagTypeOK' /\ Acyclic
    /\ Present' \subseteq Present
    /\ \A x \in Nodes : deps'[x] \subseteq deps[x]
    => Acyclic'
<1> SUFFICES ASSUME DagTypeOK, DagTypeOK', Acyclic, Present' \subseteq Present,
                    \A x \in Nodes : deps'[x] \subseteq deps[x],
                    NEW k \in Present'
             PROVE  ~Reaches(deps[k], k)'
  BY DEF Acyclic
<1>1. k \in Nodes /\ deps[k] \in SUBSET Nodes /\ ~Reaches(deps[k], k)
  BY DEF Acyclic, Present, DagTypeOK
<1>2. PICK U \in SUBSET Nodes : deps[k] \subseteq U /\ k \notin U /\ Closed(U)
  BY <1>1, Avoids
<1>3. deps'[k] \subseteq U /\ \A x \in U : deps'[x] \subseteq U
  BY <1>1, <1>2 DEF Closed
<1>4. QED
  BY <1>2, <1>3 DEF Reaches

\* No sequence of calls makes the graph cyclic, not even one that removes an id
\* and adds it again below a node that still waits on it: _wouldCycle().
THEOREM NeverCyclic == Spec => []Acyclic
<1>1. Init => Acyclic
  BY DEF Init, Acyclic, Present
<1>2. DagTypeOK /\ DagTypeOK' /\ Acyclic /\ [Next]_vars => Acyclic'
  <2> SUFFICES ASSUME DagTypeOK, DagTypeOK', Acyclic, [Next]_vars
               PROVE  Acyclic'
    OBVIOUS
  <2> DEFINE Fewer == /\ Present' \subseteq Present
                      /\ \A x \in Nodes : deps'[x] \subseteq deps[x]
  <2>1. ASSUME NEW n \in Nodes, NEW ds \in SUBSET Nodes, AddNode(n, ds)
        PROVE  Acyclic'
    BY <2>1, AddKeepsAcyclic
  <2>2. ASSUME NEW n \in Nodes, RemoveNode(n)
        PROVE  Fewer
    BY <2>2 DEF RemoveNode, MadeReady, Present, DagTypeOK
  <2>3. ASSUME NEW n \in Nodes, Start(n)
        PROVE  Fewer
    BY <2>3 DEF Start, Present, DagTypeOK
  <2>4. ASSUME NEW n \in Nodes, NEW as, NEW good, n \in Present, Settle(n, as, good)
        PROVE  Fewer
    BY <2>4 DEF Settle, MadeReady, Present, DagTypeOK
  <2>5. ASSUME NEW n \in Nodes, Skip(n)
        PROVE  Fewer
    BY <2>5 DEF Skip, MadeReady, Present, DagTypeOK
  <2>6. ASSUME UNCHANGED vars
        PROVE  Fewer
    BY <2>6 DEF vars, Present
  <2>7. Fewer => Acyclic'
    BY FewerEdgesAcyclic
  <2> HIDE DEF Fewer
  <2>8. QED
    BY <2>1, <2>2, <2>3, <2>4, <2>5, <2>6, <2>7 DEF Next, Complete, Fail, Repeat, Reported, Present
<1>3. QED
  BY DagTypeCorrect, <1>1, <1>2, PTL DEF Spec

-----------------------------------------------------------------------------
\* The three reasons why a call may leave a node behind that waits for nothing.
ForReason(n) ==
    \E d \in deps[n] :
        \/ d \in Present /\ d \notin Present'
        \/ status[d] = "skipped" /\ \E e \in deps[n] : status[e] # "done" /\ status'[e] = "done"
        \/ status'[d] # status[d] /\ n \notin dependents[d]

\* A node that complete(), fail() or skip() of n leaves behind waited for n and is
\* not known to it, or has a skipped dependency, which complete() does not count.
LEMMA SettleStrands ==
    ASSUME DagTypeOK, NEW n \in Nodes, NEW as \in Settled, NEW good \in SUBSET {"done", "skipped"},
           "done" \in good, as = "skipped" => "skipped" \in good,
           UNCHANGED <<deps, dependents>>,
           status' = MadeReady([status EXCEPT ![n] = as], Freed([status EXCEPT ![n] = as], n, good)),
           NEW m \in Nodes, ~Stranded(m), Stranded(m)'
    PROVE  ForReason(m)
<1> DEFINE st == [status EXCEPT ![n] = as]
           freed == Freed(st, n, good)
<1>1. \A x \in Nodes : st[x] = IF x = n THEN as ELSE status[x]
  BY DEF DagTypeOK
<1>2. m \in dependents[n] /\ m \notin freed => \E e \in deps[m] : st[e] \notin good \cup {"absent"}
  BY DEF Freed, Met
<1>3. status' = MadeReady(st, freed)
  OBVIOUS
<1> HIDE DEF st, freed
<1>4. \A x \in Nodes : status'[x] = IF x \in freed /\ st[x] = "pending" THEN "ready" ELSE st[x]
  BY <1>3 DEF MadeReady
<1>5. deps[m] \subseteq Nodes /\ deps' = deps
  BY DEF DagTypeOK
<1>6. /\ status'[m] = "pending"
      /\ \A d \in deps[m] : status'[d] \in {"done", "skipped", "absent"}
  BY <1>5 DEF Stranded, Met
<1>7. st[m] = "pending" /\ m # n /\ status[m] = "pending" /\ m \notin freed
  BY <1>1, <1>4, <1>6 DEF Settled
<1>8. PICK d \in deps[m] : status[d] \notin {"done", "skipped", "absent"}
  BY <1>7 DEF Stranded, Met
<1>9. d = n /\ as \in {"done", "skipped"} /\ status'[n] = as
  <2>1. d \in Nodes /\ status'[d] \in {"done", "skipped", "absent"}
    BY <1>5, <1>6, <1>8
  <2>2. status'[d] = st[d]
    BY <1>4, <2>1
  <2>3. d = n
    BY <1>1, <1>8, <2>1, <2>2
  <2>4. QED
    BY <1>1, <2>1, <2>2, <2>3 DEF Settled
<1>10. CASE m \notin dependents[n]
  BY <1>8, <1>9, <1>10 DEF ForReason
<1>11. CASE m \in dependents[n]
  <2>1. PICK e \in deps[m] : st[e] \notin good \cup {"absent"}
    BY <1>2, <1>7, <1>11
  <2>2. status'[e] = st[e] /\ st[e] \in {"done", "skipped", "absent"}
    BY <1>4, <1>5, <1>6, <2>1
  <2>3. st[e] = "skipped" /\ "skipped" \notin good
    BY <2>1, <2>2
  <2>4. as = "done" /\ e # n /\ status[e] = "skipped"
    BY <1>1, <1>5, <1>9, <2>1, <2>3
  <2>5. QED
    BY <1>8, <1>9, <2>1, <2>4 DEF ForReason
<1>12. QED
  BY <1>10, <1>11

\* A step that leaves a node behind with nothing to wait for removes a dependency
\* of it, completes one beside a skipped one, or settles an id that was removed
\* and added again, whatever methods are called in whatever order.
THEOREM StrandedForReason == Spec => NotStranded
<1> DEFINE Left == \A n \in Present :
                       ~Stranded(n) /\ Stranded(n)' =>
                           \E d \in deps[n] :
                               \/ d \in Present /\ d \notin Present'
                               \/ /\ status[d] = "skipped"
                                  /\ \E e \in deps[n] : status[e] # "done" /\ status'[e] = "done"
                               \/ status'[d] # status[d] /\ n \notin dependents[d]
<1>1. DagTypeOK /\ [Next]_vars => [Left]_vars
  <2> SUFFICES ASSUME DagTypeOK, Next, NEW m \in Nodes, m \in Present, ~Stranded(m), Stranded(m)'
               PROVE  ForReason(m)
    BY DEF Present, ForReason
  <2>1. ASSUME NEW n \in Nodes, NEW ds \in SUBSET Nodes, AddNode(n, ds)
        PROVE  FALSE
    <3>1. m # n /\ deps'[m] = deps[m] /\ status'[m] = status[m] /\ deps[m] \subseteq Nodes
      BY <2>1 DEF AddNode, Present, DagTypeOK
    <3>2. \A d \in Nodes : d # n => status'[d] = status[d]
      BY <2>1 DEF AddNode, DagTypeOK
    <3>3. status[n] = "absent"
      BY <2>1 DEF AddNode, Present
    <3>4. QED
      BY <3>1, <3>2, <3>3 DEF Stranded, Met
  <2>2. ASSUME NEW n \in Nodes, RemoveNode(n)
        PROVE  ForReason(m)
    <3>1. \A x \in Nodes : status'[x] = IF x = n THEN "absent"
                                        ELSE MadeReady(status, Freed(status, n, {"done"}))[x]
      BY <2>2 DEF RemoveNode, MadeReady, DagTypeOK
    <3>2. \A x \in Nodes : x # n => status'[x] \in {status[x], "ready"}
      BY <3>1 DEF MadeReady
    <3>3. m # n /\ status[m] = "pending" /\ deps'[m] = deps[m] /\ deps[m] \subseteq Nodes
      <4>1. m # n
        BY <3>1 DEF Stranded
      <4>2. status'[m] = "pending"
        BY DEF Stranded
      <4>3. QED
        BY <2>2, <3>2, <4>1, <4>2 DEF RemoveNode, DagTypeOK
    <3>4. PICK d \in deps[m] : status[d] \notin {"done", "skipped", "absent"}
      BY <3>3 DEF Stranded, Met
    <3>5. status'[d] \in {"done", "skipped", "absent"}
      BY <3>3, <3>4 DEF Stranded, Met
    <3>6. d = n
      BY <3>2, <3>3, <3>4, <3>5
    <3>7. d \in Present /\ d \notin Present'
      BY <3>1, <3>3, <3>4, <3>6 DEF Present
    <3>8. QED
      BY <3>4, <3>7 DEF ForReason
  <2>3. ASSUME NEW n \in Nodes, Start(n)
        PROVE  FALSE
    <3>1. /\ deps' = deps /\ status[n] = "ready"
          /\ status' = [status EXCEPT ![n] = "running"]
      BY <2>3 DEF Start
    <3>2. \A x \in Nodes : status'[x] = IF x = n THEN "running" ELSE status[x]
      BY <3>1 DEF DagTypeOK
    <3>3. m # n /\ status[m] = "pending" /\ deps[m] \subseteq Nodes
      BY <3>2 DEF Stranded, DagTypeOK
    <3>4. PICK d \in deps[m] : status[d] \notin {"done", "skipped", "absent"}
      BY <3>3 DEF Stranded, Met
    <3>5. status'[d] \in {"done", "skipped", "absent"}
      BY <3>1, <3>4 DEF Stranded, Met
    <3>6. QED
      BY <3>2, <3>3, <3>4, <3>5
  <2>4. ASSUME NEW n \in Nodes, Settle(n, "done", {"done"})
        PROVE  ForReason(m)
    BY <2>4, SettleStrands DEF Settle, Settled
  <2>5. ASSUME NEW n \in Nodes, Settle(n, "failed", {"done", "skipped"})
        PROVE  ForReason(m)
    BY <2>5, SettleStrands DEF Settle, Settled
  <2>6. ASSUME NEW n \in Nodes, Skip(n)
        PROVE  ForReason(m)
    BY <2>6, SettleStrands DEF Skip, Settled
  <2>7. QED
    BY <2>1, <2>2, <2>3, <2>4, <2>5, <2>6 DEF Next, Complete, Fail, Repeat
<1>2. QED
  BY DagTypeCorrect, <1>1, PTL DEF Spec, NotStranded

-----------------------------------------------------------------------------
\* Without removals and stray reports, nodes skipped or added late included:
\* the nodes waited on stay in, and whatever is under way is ready by right.
DepsPresent == \A m \in Nodes : deps[m] \subseteq Present

\* A repeated report releases nodes, whose dependencies are all met, and does
\* nothing else to the statuses.
LEMMA RepeatPointwise ==
    ASSUME DagTypeOK, NEW n \in Nodes, Repeat(n)
    PROVE  /\ UNCHANGED <<deps, dependents>>
           /\ \A m \in Nodes :
                 status'[m] # status[m] => /\ status[m] = "pending" /\ status'[m] = "ready"
                                           /\ Met(status, m, {"done", "skipped"})
<1>1. ASSUME NEW as, NEW good \in SUBSET {"done", "skipped"}, status[n] = as, Settle(n, as, good),
             NEW m \in Nodes, status'[m] # status[m]
      PROVE  /\ status[m] = "pending" /\ status'[m] = "ready"
             /\ Met(status, m, {"done", "skipped"})
  <2>1. [status EXCEPT ![n] = as] = status
    BY <1>1 DEF DagTypeOK
  <2>2. status' = MadeReady(status, Freed(status, n, good))
    BY <1>1, <2>1 DEF Settle
  <2>3. status[m] = "pending" /\ status'[m] = "ready" /\ m \in Freed(status, n, good)
    BY <1>1, <2>2 DEF MadeReady
  <2>4. QED
    BY <2>3 DEF Freed, Met
<1>2. UNCHANGED <<deps, dependents>>
  BY DEF Repeat, Settle
<1>3. QED
  BY <1>1, <1>2 DEF Repeat

LEMMA StepEarned ==
    ASSUME Removable = {}, ~AnyReport, DagTypeOK, DepsPresent, ReadyIsEarned, [Next]_vars
    PROVE  DepsPresent' /\ ReadyIsEarned'
<1> USE DEF DagTypeOK, DepsPresent, ReadyIsEarned, DAGNodeStatus, Present, Met
<1>1. ASSUME NEW n \in Nodes, NEW ds \in SUBSET Nodes, AddNode(n, ds)
      PROVE  DepsPresent' /\ ReadyIsEarned'
  BY <1>1 DEF AddNode
<1>2. ASSUME NEW n \in Nodes, Start(n)
      PROVE  DepsPresent' /\ ReadyIsEarned'
  BY <1>2 DEF Start
<1>3. ASSUME NEW n \in Nodes, NEW as \in {"done", "failed", "skipped"},
             NEW good \in SUBSET {"done", "skipped"},
             status[n] \in {"pending", "ready", "running"}, UNCHANGED <<deps, dependents>>,
             status' = MadeReady([status EXCEPT ![n] = as],
                                 Freed([status EXCEPT ![n] = as], n, good))
      PROVE  DepsPresent' /\ ReadyIsEarned'
  <2> DEFINE st == [status EXCEPT ![n] = as]
             freed == Freed(st, n, good)
  <2>1. \A m \in Nodes : st[m] = IF m = n THEN as ELSE status[m]
    OBVIOUS
  <2>2. \A m \in freed : \A d \in deps[m] : st[d] \in {"done", "skipped", "absent"}
    BY DEF Freed
  <2> HIDE DEF st, freed
  <2>3. status' = MadeReady(st, freed)
    BY <1>3 DEF st, freed
  <2>4. \A m \in Nodes : status'[m] = IF m \in freed /\ st[m] = "pending" THEN "ready" ELSE st[m]
    BY <2>3 DEF MadeReady
  <2>5. DepsPresent'
    <3>1. \A m \in Nodes : status[m] # "absent" => status'[m] # "absent"
      BY <1>3, <2>1, <2>4
    <3> QED
      BY <1>3, <3>1
  <2>6. \A m \in Nodes : n \in deps[m] => status[m] \notin {"ready", "running"}
    <3>1. status[n] \notin {"done", "skipped"}
      BY <1>3
    <3> QED
      BY <3>1
  <2>7. ReadyIsEarned'
    <3> SUFFICES ASSUME NEW m \in Nodes, status'[m] \in {"ready", "running"}, NEW d \in deps'[m]
                 PROVE  status'[d] \in {"done", "skipped", "absent"}
      OBVIOUS
    <3>1. d \in Nodes /\ d \in deps[m]
      BY <1>3
    <3>2. st[d] \in {"done", "skipped", "absent"}
      <4>1. CASE m \in freed
        BY <2>2, <3>1, <4>1
      <4>2. CASE m \notin freed
        <5>1. m # n /\ status[m] \in {"ready", "running"}
          BY <1>3, <2>1, <2>4, <4>2
        <5>2. d # n /\ status[d] \in {"done", "skipped", "absent"}
          BY <2>6, <3>1, <5>1
        <5>3. QED
          BY <2>1, <3>1, <5>2
      <4>3. QED
        BY <4>1, <4>2
    <3>3. QED
      BY <2>4, <3>1, <3>2
  <2>8. QED
    BY <2>5, <2>7
<1>4. ASSUME NEW n \in Nodes, Complete(n)
      PROVE  DepsPresent' /\ ReadyIsEarned'
  <2>1. /\ status[n] \in {"pending", "ready", "running"}
        /\ status' = MadeReady([status EXCEPT ![n] = "done"],
                               Freed([status EXCEPT ![n] = "done"], n, {"done"}))
        /\ UNCHANGED <<deps, dependents>>
    BY <1>4 DEF Complete, Reported, Settle
  <2>2. {"done"} \in SUBSET {"done", "skipped"}
    OBVIOUS
  <2> HIDE DEF DagTypeOK, DepsPresent, ReadyIsEarned, DAGNodeStatus, Present, Met
  <2>3. QED
    BY <1>3, <2>1, <2>2
<1>5. ASSUME NEW n \in Nodes, Fail(n)
      PROVE  DepsPresent' /\ ReadyIsEarned'
  BY <1>3, <1>5 DEF Fail, Reported, Settle
<1>6. ASSUME NEW n \in Nodes, Skip(n)
      PROVE  DepsPresent' /\ ReadyIsEarned'
  BY <1>3, <1>6 DEF Skip
<1>7. ASSUME NEW n \in Nodes, Repeat(n)
      PROVE  DepsPresent' /\ ReadyIsEarned'
  <2>1. /\ UNCHANGED <<deps, dependents>>
        /\ \A m \in Nodes :
              status'[m] # status[m] => /\ status[m] = "pending" /\ status'[m] = "ready"
                                        /\ \A d \in deps[m] : status[d] \in {"done", "skipped", "absent"}
    BY <1>7, RepeatPointwise
  <2>2. DepsPresent'
    BY <2>1
  <2>3. ReadyIsEarned'
    BY <2>1
  <2>4. QED
    BY <2>2, <2>3
<1>8. CASE UNCHANGED vars
  BY <1>8 DEF vars
<1>9. QED
  BY <1>1, <1>2, <1>4, <1>5, <1>6, <1>7, <1>8 DEF Next, RemoveNode

\* complete(), fail() and skip() let a dependent go only when the last of its
\* dependencies is done or skipped, whatever is skipped and whenever nodes are
\* added.
THEOREM ReadyEarned ==
    ASSUME Removable = {}, ~AnyReport
    PROVE  Spec => []ReadyIsEarned
<1>1. Init => DepsPresent /\ ReadyIsEarned
  BY DEF Init, DepsPresent, ReadyIsEarned
<1>2. DagTypeOK /\ DepsPresent /\ ReadyIsEarned /\ [Next]_vars => DepsPresent' /\ ReadyIsEarned'
  BY StepEarned
<1>3. QED
  BY DagTypeCorrect, <1>1, <1>2, PTL DEF Spec

-----------------------------------------------------------------------------
\* A node that was done or failed has only done dependencies, and so has one on
\* its way there.
Led ==
    \A n \in Nodes : status[n] \in {"ready", "running", "done", "failed"} => Met(status, n, {"done"})

NoneSkipped == \A n \in Nodes : status[n] # "skipped"

LEMMA StepLed ==
    ASSUME Skippable = {}, Removable = {}, ~AnyReport, DagTypeOK, DepsPresent, Led, NoneSkipped,
           [Next]_vars
    PROVE  /\ DepsPresent' /\ Led' /\ NoneSkipped'
           /\ IsDone(status') /\ ~IsDone(status) => told' = "done"
<1> DEFINE Goal == /\ DepsPresent' /\ Led' /\ NoneSkipped'
                   /\ IsDone(status') /\ ~IsDone(status) => told' = "done"
<1> USE DEF DagTypeOK, DepsPresent, Led, NoneSkipped, DAGNodeStatus, Present, Met
<1>1. ASSUME NEW n \in Nodes, NEW ds \in SUBSET Nodes, AddNode(n, ds)
      PROVE  Goal
  <2>1. status'[n] \in {"ready", "pending"}
    BY <1>1 DEF AddNode
  <2>2. ~IsDone(status')
    BY <2>1 DEF IsDone, Settled
  <2>3. DepsPresent' /\ Led' /\ NoneSkipped'
    BY <1>1 DEF AddNode
  <2>4. QED
    BY <2>2, <2>3
<1>2. ASSUME NEW n \in Nodes, Start(n)
      PROVE  Goal
  <2>1. status'[n] = "running"
    BY <1>2 DEF Start
  <2>2. ~IsDone(status')
    BY <2>1 DEF IsDone, Settled
  <2>3. DepsPresent' /\ Led' /\ NoneSkipped'
    BY <1>2 DEF Start
  <2>4. QED
    BY <2>2, <2>3
<1>3. ASSUME NEW n \in Nodes, NEW as \in {"done", "failed"}, NEW good \in SUBSET {"done", "skipped"},
             status[n] \in {"pending", "ready", "running"}, Met(status, n, {"done"}),
             Settle(n, as, good)
      PROVE  Goal
  <2> DEFINE st == [status EXCEPT ![n] = as]
             freed == Freed(st, n, good)
  <2>1. \A m \in Nodes : st[m] = IF m = n THEN as ELSE status[m]
    OBVIOUS
  <2>2. \A m \in freed : m \in dependents[n] /\ \A d \in deps[m] : st[d] \in {"done", "skipped", "absent"}
    BY DEF Freed
  <2>3. /\ status' = MadeReady(st, freed)
        /\ told' = IF freed = dependents[n] THEN EmitReady(status') ELSE "nothing"
        /\ UNCHANGED <<deps, dependents>>
    BY <1>3 DEF Settle
  <2>4. freed \subseteq dependents[n]
    BY DEF Freed
  <2> HIDE DEF st, freed
  <2>5. \A m \in Nodes : status'[m] = IF m \in freed /\ st[m] = "pending" THEN "ready" ELSE st[m]
    BY <2>3 DEF MadeReady
  <2>6. NoneSkipped' /\ DepsPresent'
    <3>1. as \notin {"skipped", "absent"} /\ \A m \in Nodes : status[m] # "skipped"
      OBVIOUS
    <3>2. \A m \in Nodes : st[m] # "skipped" /\ (status[m] # "absent" => st[m] # "absent")
      BY <2>1, <3>1
    <3> HIDE DEF DagTypeOK, DepsPresent, Led, NoneSkipped, DAGNodeStatus, Present, Met
    <3>3. \A m \in Nodes : status'[m] # "skipped" /\ (status[m] # "absent" => status'[m] # "absent")
      BY <2>5, <3>2
    <3>4. QED
      BY <2>3, <3>3 DEF DepsPresent, NoneSkipped, Present, DagTypeOK
  <2>7. \A m \in Nodes : n \in deps[m] => status[m] \in {"pending", "absent"}
    BY <1>3
  <2>8. Led'
    <3> SUFFICES ASSUME NEW m \in Nodes, status'[m] \in {"ready", "running", "done", "failed"},
                        NEW d \in deps'[m]
                 PROVE  status'[d] \in {"done", "absent"}
      OBVIOUS
    <3>1. d \in Nodes /\ deps' = deps
      BY <2>3
    <3>2. CASE m \in freed /\ st[m] = "pending"
      <4>1. st[d] \in {"done", "absent"}
        <5>1. status[d] # "skipped" /\ as # "skipped"
          BY <1>3, <3>1
        <5>2. st[d] # "skipped"
          BY <2>1, <3>1, <5>1
        <5>3. st[d] \in {"done", "skipped", "absent"}
          BY <2>2, <3>1, <3>2
        <5>4. QED
          BY <5>2, <5>3
      <4>2. QED
        BY <2>5, <3>1, <4>1
    <3>3. CASE ~ (m \in freed /\ st[m] = "pending")
      <4>1. status'[m] = st[m]
        BY <2>5, <3>3
      <4>2. Met(status, m, {"done"}) /\ n \notin deps[m]
        <5>1. CASE m = n
          BY <1>3, <5>1
        <5>2. CASE m # n
          BY <1>3, <2>1, <2>7, <4>1, <5>2
        <5>3. QED
          BY <5>1, <5>2
      <4>3. status[d] \in {"done", "absent"} /\ d # n
        BY <3>1, <4>2
      <4>4. st[d] \in {"done", "absent"}
        BY <2>1, <3>1, <4>3
      <4>5. QED
        BY <2>5, <3>1, <4>4
    <3>4. QED
      BY <3>2, <3>3
  <2>9. ASSUME IsDone(status') PROVE told' = "done"
    <3>1. \A m \in dependents[n] : status[m] = "pending"
      BY <2>7
    <3>2. \A m \in dependents[n] : status'[m] \in {"ready", "pending"}
      BY <1>3, <2>1, <2>5, <3>1
    <3>3. dependents[n] = {}
      BY <2>9, <3>2 DEF IsDone, Settled
    <3>4. told' = EmitReady(status')
      BY <2>3, <2>4, <3>3
    <3>5. QED
      BY <2>9, <3>4 DEF EmitReady, HasDeadlock
  <2>10. QED
    BY <2>6, <2>8, <2>9
<1>4. ASSUME NEW n \in Nodes, Complete(n) \/ Fail(n)
      PROVE  Goal
  <2>1. status[n] \in {"pending", "ready", "running"} /\ Met(status, n, {"done"})
    BY <1>4 DEF Complete, Fail, Reported
  <2>2. Settle(n, "done", {"done"}) \/ Settle(n, "failed", {"done", "skipped"})
    BY <1>4 DEF Complete, Fail
  <2> HIDE DEF Goal, DagTypeOK, DepsPresent, Led, NoneSkipped, Met
  <2>3. QED
    BY <1>3, <2>1, <2>2
<1>5. ASSUME NEW n \in Nodes, Repeat(n)
      PROVE  Goal
  <2>1. /\ UNCHANGED <<deps, dependents>>
        /\ \A m \in Nodes :
              status'[m] # status[m] => /\ status[m] = "pending" /\ status'[m] = "ready"
                                        /\ \A d \in deps[m] : status[d] \in {"done", "skipped", "absent"}
    BY <1>5, RepeatPointwise
  <2>2. DepsPresent' /\ NoneSkipped'
    BY <2>1
  <2>3. Led'
    BY <2>1
  <2>4. IsDone(status') => IsDone(status)
    BY <2>1 DEF IsDone, Settled
  <2>5. QED
    BY <2>2, <2>3, <2>4
<1>6. CASE UNCHANGED vars
  BY <1>6 DEF vars, IsDone
<1>7. QED
  BY <1>1, <1>2, <1>4, <1>5, <1>6 DEF Next, RemoveNode, Skip

\* The report that settles the last node reaches _emitReady(): complete() and
\* fail() leave it out only when a dependent is left blocked, and then the graph
\* is not done.
THEOREM EndAnnounced ==
    ASSUME Skippable = {}, Removable = {}, ~AnyReport
    PROVE  Spec => DoneAnnounced
<1>1. Init => DepsPresent /\ Led /\ NoneSkipped
  BY DEF Init, DepsPresent, Led, NoneSkipped
<1>2. DagTypeOK /\ DepsPresent /\ Led /\ NoneSkipped /\ [Next]_vars => DepsPresent' /\ Led' /\ NoneSkipped'
  BY StepLed
<1>3. DagTypeOK /\ DepsPresent /\ Led /\ NoneSkipped /\ [Next]_vars
         => [(IsDone(status') /\ ~IsDone(status)) => told' = "done"]_vars
  BY StepLed
<1>4. QED
  BY DagTypeCorrect, <1>1, <1>2, <1>3, PTL DEF Spec, DoneAnnounced
=============================================================================
