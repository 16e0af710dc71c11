------------------------------ MODULE TaskDag ------------------------------
(***************************************************************************)
(* TaskDAG of coordination/task-dag.ts: nodes with dependency edges, whose   *)
(* status the caller moves with start, complete, fail and skip.  Every       *)
(* method is synchronous, so each is one action; handlers do not call back.  *)
(* Priorities, results and timestamps are left out.                          *)
(***************************************************************************)
EXTENDS Naturals, FiniteSets

CONSTANTS Nodes,      \* task ids
          MaxDeps,    \* bound: dependencies given to one addNode()
          Skippable,  \* ids skip() is called on
          Removable,  \* ids removeNode() is called on
          Failable,   \* ids fail() is called on
          LateDeps,   \* may a node be added after a dependency of it was done?
          Repeats,    \* does the caller report settled nodes again, at every sync?
          AnyReport   \* complete, fail, skip on any node, or as the caller does?

ASSUME DagAssumption ==
    /\ MaxDeps \in Nat
    /\ Skippable \subseteq Nodes
    /\ Removable \subseteq Nodes
    /\ Failable \subseteq Nodes
    /\ LateDeps \in BOOLEAN /\ Repeats \in BOOLEAN
    /\ AnyReport \in BOOLEAN

VARIABLES status,     \* [Nodes -> DAGNodeStatus or "absent"]
          deps,       \* [Nodes -> SUBSET Nodes]: ids it waits on
          dependents, \* [Nodes -> SUBSET Nodes]: ids that wait on it
          told        \* what the last call emitted about the graph as a whole

vars == <<status, deps, dependents, told>>

DAGNodeStatus == {"pending", "ready", "running", "done", "failed", "skipped"}

Settled == {"done", "failed", "skipped"}

\* "open" and "done": graph:done with allDone false and true.
Report == {"nothing", "deadlock", "open", "done"}

Present == {n \in Nodes : status[n] # "absent"}

\* Types, and: each edge is known at both of its ends.  (The converse fails for
\* an id removed and added again: it starts without dependents.)
DagTypeOK ==
    /\ status \in [Nodes -> DAGNodeStatus \cup {"absent"}]
    /\ deps \in [Nodes -> SUBSET Nodes]
    /\ dependents \in [Nodes -> SUBSET Nodes]
    /\ told \in Report
    /\ \A n \in Nodes : \A m \in dependents[n] :
          n \in deps[m] /\ {n, m} \subseteq Present

Init ==
    /\ status = [n \in Nodes |-> "absent"]
    /\ deps = [n \in Nodes |-> {}]
    /\ dependents = [n \in Nodes |-> {}]
    /\ told = "nothing"

\* isDone(), hasDeadlock() and the event of _emitReady(), in a given status.
IsDone(st) == \A n \in Nodes : st[n] \in Settled \cup {"absent"}

HasDeadlock(st) == ~IsDone(st) /\ \A n \in Nodes : st[n] \notin {"ready", "running"}

EmitReady(st) == IF HasDeadlock(st) THEN "deadlock"
                 ELSE IF IsDone(st) THEN "done" ELSE "open"

\* Every dependency that is still in the graph has a status in good.
Met(st, m, good) == \A d \in deps[m] : st[d] \in good \cup {"absent"}

\* Mutant: a transition that does not look at the status it leaves.
MadeReadyAnew(st, ms) == [m \in Nodes |-> IF m \in ms THEN "ready" ELSE st[m]]

\* _transition(m, 'pending', 'ready') for each m of ms.
MadeReady(st, ms) ==
    [m \in Nodes |-> IF m \in ms /\ st[m] = "pending" THEN "ready" ELSE st[m]]

\* Dependents of n that a change of status to st releases.
Freed(st, n, good) == {m \in dependents[n] : Met(st, m, good)}

\* Ids that S reaches along deps, S included.
Reaches(S, n) ==
    \A T \in SUBSET Nodes :
        (S \subseteq T /\ \A x \in T : deps[x] \subseteq T) => n \in T

\* Mutant: the walk of _wouldCycle() stops after one edge.
WouldCycleShallow(n, ds) == n \in ds

WouldCycle(n, ds) == Reaches(ds, n)

\* A known id is left as it is; an unknown dependency and a cycle throw.
AddNode(n, ds) ==
    /\ n \notin Present
    /\ ds \subseteq Present
    /\ LateDeps \/ \A d \in ds : status[d] \notin {"done", "skipped"}
    /\ ~WouldCycle(n, ds)
    /\ status' = [status EXCEPT ![n] = IF ds = {} THEN "ready" ELSE "pending"]
    /\ deps' = [deps EXCEPT ![n] = ds]
    /\ dependents' = [m \in Nodes |-> IF m \in ds THEN dependents[m] \cup {n}
                                      ELSE dependents[m]]
    /\ told' = EmitReady(status')

\* Mutant: the node stays among the dependents of its dependencies.
RemoveDangling(n) ==
    /\ n \in Removable \cap Present
    /\ status' = [status EXCEPT ![n] = "absent"]
    /\ deps' = [deps EXCEPT ![n] = {}]
    /\ told' = "nothing"
    /\ UNCHANGED dependents

\* Dependents are looked at while the node is still in the map.
RemoveNode(n) ==
    /\ n \in Removable \cap Present
    /\ status' = [MadeReady(status, Freed(status, n, {"done"})) EXCEPT ![n] = "absent"]
    /\ deps' = [deps EXCEPT ![n] = {}]
    /\ dependents' = [m \in Nodes |-> IF m = n THEN {} ELSE dependents[m] \ {n}]
    /\ told' = "nothing"

Start(n) ==
    /\ status[n] = "ready"
    /\ status' = [status EXCEPT ![n] = "running"]
    /\ told' = "nothing"
    /\ UNCHANGED <<deps, dependents>>

\* The methods themselves check only that the node exists.  The coordinator also
\* reports nodes that another session has settled: no session works on a goal
\* before what it waits for is done.
Reported(n) ==
    IF AnyReport THEN n \in Present
    ELSE \/ status[n] = "running"
         \/ status[n] \in {"pending", "ready"} /\ Met(status, n, {"done", "skipped"})


\* What complete() and fail() have in common: dependents whose dependencies are
\* all in good are released, and _emitReady() is left out if one is not.
Settle(n, as, good) ==
    LET st == [status EXCEPT ![n] = as]
        freed == Freed(st, n, good)
    IN /\ status' = MadeReady(st, freed)
       /\ told' = IF freed = dependents[n] THEN EmitReady(status') ELSE "nothing"
       /\ UNCHANGED <<deps, dependents>>

\* Mutant: the first of several dependencies releases the dependent.
CompleteFirst(n) ==
    /\ Reported(n)
    /\ status' = MadeReady([status EXCEPT ![n] = "done"], dependents[n])
    /\ told' = EmitReady(status')
    /\ UNCHANGED <<deps, dependents>>

\* Mutant: dependents are not looked at.
CompleteAlone(n) ==
    /\ Reported(n)
    /\ status' = [status EXCEPT ![n] = "done"]
    /\ told' = EmitReady(status')
    /\ UNCHANGED <<deps, dependents>>

\* Mutant: _emitReady() only if a dependent was released.
CompleteQuietly(n) ==
    /\ Reported(n)
    /\ LET st == [status EXCEPT ![n] = "done"]
           freed == Freed(st, n, {"done"})
       IN /\ status' = MadeReady(st, freed)
          /\ told' = IF freed # {} THEN EmitReady(status') ELSE "nothing"
    /\ UNCHANGED <<deps, dependents>>

Complete(n) == Reported(n) /\ Settle(n, "done", {"done"})

Fail(n) == n \in Failable /\ Reported(n) /\ Settle(n, "failed", {"done", "skipped"})

Skip(n) ==
    /\ n \in Skippable /\ (IF AnyReport THEN n \in Present
                                        ELSE status[n] \in {"pending", "ready", "running"})
    /\ LET st == [status EXCEPT ![n] = "skipped"]
       IN status' = MadeReady(st, Freed(st, n, {"done", "skipped"}))
    /\ told' = "nothing"
    /\ UNCHANGED <<deps, dependents>>

\* _rebuildDagNode() of a goal that is in the graph already: addNode() does
\* nothing, and the goal is reported again.
Repeat(n) ==
    /\ Repeats
    /\ \/ status[n] = "done" /\ Settle(n, "done", {"done"})
       \/ status[n] = "failed" /\ Settle(n, "failed", {"done", "skipped"})

Next ==
    \/ \E n \in Nodes, ds \in SUBSET Nodes : Cardinality(ds) <= MaxDeps /\ AddNode(n, ds)
    \/ \E n \in Nodes : RemoveNode(n)
    \/ \E n \in Nodes : Start(n)
    \/ \E n \in Nodes : Complete(n)
    \/ \E n \in Nodes : Fail(n)
    \/ \E n \in Nodes : Skip(n)
    \/ \E n \in Nodes : Repeat(n)

Spec == Init /\ [][Next]_vars

\* Ready nodes are started, running ones settle, and the loop of the coordinator
\* goes on to synchronize; nobody has to add a node, or settle one elsewhere.
FairSpec ==
    /\ Spec
    /\ \A n \in Nodes : WF_vars(Start(n))
    /\ \A n \in Nodes : WF_vars(status[n] = "running" /\ (Complete(n) \/ Fail(n)))
    /\ \A n \in Nodes : WF_vars(Repeat(n))

-----------------------------------------------------------------------------
\* A node is ready or running only once each of its dependencies is done or
\* skipped: the join of complete().
ReadyIsEarned ==
    \A n \in Nodes : status[n] \in {"ready", "running"} => Met(status, n, {"done", "skipped"})

\* It waits for nothing any more.
Stranded(n) == status[n] = "pending" /\ Met(status, n, {"done", "skipped"})

\* "Unblocks all dependents; they become 'ready' if all their deps are done": a
\* call leaves a node behind that waits for nothing only if it adds it late, or
\* takes away what it waits for, or completes that after another dependency was
\* skipped, or settles an id that was removed and added again.
NotStranded ==
    [][\A n \in Present :
          ~Stranded(n) /\ Stranded(n)' =>
              \E d \in deps[n] :
                  \/ d \in Present /\ d \notin Present'
                  \/ /\ status[d] = "skipped"
                     /\ \E e \in deps[n] : status[e] # "done" /\ status'[e] = "done"
                  \/ status'[d] # status[d] /\ n \notin dependents[d]]_vars

\* The edges of the nodes in the graph form no cycle, ids that were removed and
\* added again included: _wouldCycle().
Acyclic == \A n \in Present : ~Reaches(deps[n], n)

\* A node that was started or settled is not handed out again while it stays in
\* the graph, whatever complete(), fail() and skip() are called on, and however
\* often.
NoRestart ==
    [][\A n \in Nodes : status[n] \in Settled \cup {"running"} =>
          status'[n] \notin {"pending", "ready"}]_vars

\* The report that settles the last node emits graph:done with allDone = true,
\* although complete() and fail() leave _emitReady() out whenever a dependent
\* stays blocked: a listener that waits for the end of the graph hears of it.
DoneAnnounced ==
    [][(IsDone(status') /\ ~IsDone(status)) => told' = "done"]_vars

=============================================================================
