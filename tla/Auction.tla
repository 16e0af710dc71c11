------------------------------ MODULE Auction ------------------------------
(***************************************************************************)
(* TaskAuctioneer over the goals of the KnowledgeGraph.  A goal is published,*)
(* bidders bid while its window is open, the window's end awards it, and a   *)
(* goal with open blockers waits until the last of them completes.  Every    *)
(* write of the graph changes the memory at once and then awaits the append  *)
(* to the log: publishTask(), bid(), claim() and complete() go on after that *)
(* with what they had read, and other calls come in between.                 *)
(***************************************************************************)
EXTENDS Naturals, FiniteSets

CONSTANTS NumGoals,       \* bound: goals 1..NumGoals are published, in this order
          Bidders,        \* agents that bid
          Workers,        \* agents that are given goals directly
          Direct,         \* bound: the goals that may be given to a worker
          MaxTasks,       \* maxTasksPerAgent
          MaxBidRetries,  \* windows without a bid before the goal fails
          Twice,          \* bound: the goals reported twice (worker and fleet)
          Sooner          \* bound: the goals reported while their award is written

Nobody == "nobody"

ASSUME AuctionAssumption ==
    /\ NumGoals \in Nat /\ MaxTasks \in Nat \ {0} /\ MaxBidRetries \in Nat \ {0}
    /\ Bidders \cap Workers = {} /\ Nobody \notin Bidders \cup Workers
    /\ Direct \subseteq 1..NumGoals /\ Twice \subseteq 1..NumGoals
    /\ Sooner \subseteq 1..NumGoals

Goals == 1..NumGoals
Agents == Bidders \cup Workers

VARIABLES
    goal,     \* [Goals -> GoalNode in memory]: status, assignee, blockedBy, children
    window,   \* SUBSET Goals: bidTimers
    bids,     \* [Goals -> SUBSET Bidders]: pendingBids
    bidding,  \* SUBSET (Goals \X Bidders): bid() awaits dispatchAgent()
    tries,    \* [Goals -> Nat]: bidRetryCounts
    count,    \* [Agents -> Nat]: agentTaskCounts
    pub,      \* [Goals -> where publishTask() stands]
    unlinked, \* [Goals -> SUBSET Goals]: blockers not told of the goal yet
    claim,    \* [Goals -> where claim() stands]
    walk,     \* [Goals -> SUBSET Goals]: children complete() has yet to look at
    opening,  \* SUBSET Goals: unblocked, the window not started yet
    hire,     \* [Goals -> [Workers -> where _processGoal() stands with the subagent]]
    reports,  \* [Goals -> Nat]: reports received of a goal that its agent is counted for
    early,    \* SUBSET Goals: reported before that, while the award was being written
    everDone  \* history: goals that have been done

vars == <<goal, window, bids, bidding, tries, count, pub, unlinked, claim, walk, opening,
          hire, reports, early, everDone>>

NoGoal == [st |-> "none", who |-> Nobody, blockedBy |-> {}, children |-> {}, direct |-> FALSE]

Init ==
    /\ goal = [g \in Goals |-> NoGoal]
    /\ window = {} /\ bids = [g \in Goals |-> {}] /\ bidding = {}
    /\ tries = [g \in Goals |-> 0]
    /\ count = [a \in Agents |-> 0]
    /\ pub = [g \in Goals |-> "no"] /\ unlinked = [g \in Goals |-> {}]
    /\ claim = [g \in Goals |-> "no"]
    /\ walk = [g \in Goals |-> {}] /\ opening = {}
    /\ hire = [g \in Goals |-> [a \in Workers |-> "no"]]
    /\ reports = [g \in Goals |-> 0] /\ early = {} /\ everDone = {}

Known == {g \in Goals : goal[g].st # "none"}
Done(S) == \A g \in S : goal[g].st = "done"
Under(a) == count[a] < MaxTasks

-----------------------------------------------------------------------------
(* publishTask() *)

\* graph.add(): the node is in memory; its status was decided just before.
Publish(g, deps, who) ==
    /\ goal[g].st = "none" /\ \A h \in 1..(g - 1) : h \in Known
    /\ goal' = [goal EXCEPT ![g] =
                   [NoGoal EXCEPT !.st = IF who # Nobody THEN "in_progress"
                                         ELSE IF Done(deps) THEN "pending" ELSE "blocked",
                                  !.who = who, !.direct = (who # Nobody),
                                  !.blockedBy = deps]]
    /\ pub' = [pub EXCEPT ![g] = "adding"]
    /\ unlinked' = [unlinked EXCEPT ![g] = deps]
    /\ UNCHANGED <<window, bids, bidding, tries, count, claim, walk, opening, hire, reports,
                   early, everDone>>

\* The goal becomes a child of each blocker, one write after the other.
Link(g, b) ==
    /\ pub[g] = "adding" /\ b \in unlinked[g]
    /\ goal' = [goal EXCEPT ![b].children = @ \cup {g}]
    /\ unlinked' = [unlinked EXCEPT ![g] = @ \ {b}]
    /\ UNCHANGED <<window, bids, bidding, tries, count, pub, claim, walk, opening, hire,
                   reports, early, everDone>>

\* Then the bid window starts, blocked or not; a direct assignment is written
\* once more, whatever has been reported of it in the meantime.
Announce(g) ==
    /\ pub[g] = "adding" /\ unlinked[g] = {}
    /\ IF goal[g].direct
       THEN /\ goal' = [goal EXCEPT ![g].st = "in_progress"]
            /\ pub' = [pub EXCEPT ![g] = "assigning"] /\ UNCHANGED window
       ELSE /\ window' = window \cup {g}
            /\ pub' = [pub EXCEPT ![g] = "yes"] /\ UNCHANGED goal
    /\ UNCHANGED <<bids, bidding, tries, count, unlinked, claim, walk, opening, hire,
                   reports, early, everDone>>

\* _assignDirect() after its write: count, and notify the agent.
Assigned(g) ==
    /\ pub[g] = "assigning"
    /\ pub' = [pub EXCEPT ![g] = "yes"]
    /\ count' = [count EXCEPT ![goal[g].who] = @ + 1]
    /\ UNCHANGED <<goal, window, bids, bidding, tries, unlinked, claim, walk, opening, hire,
                   reports, early, everDone>>

-----------------------------------------------------------------------------
(* bid() *)

Bid(g, a) ==
    /\ goal[g].st = "pending" /\ Under(a) /\ <<g, a>> \notin bidding /\ a \notin bids[g]
    /\ bidding' = bidding \cup {<<g, a>>}
    /\ UNCHANGED <<goal, window, bids, tries, count, pub, unlinked, claim, walk, opening,
                   hire, reports, early, everDone>>

\* The dispatcher has scored it: the bid is taken unless the score is too low.
\* Nothing is looked at again.
BidScored(g, a, ok) ==
    /\ <<g, a>> \in bidding
    /\ bidding' = bidding \ {<<g, a>>}
    /\ bids' = IF ok THEN [bids EXCEPT ![g] = @ \cup {a}] ELSE bids
    /\ UNCHANGED <<goal, window, tries, count, pub, unlinked, claim, walk, opening, hire,
                   reports, early, everDone>>

-----------------------------------------------------------------------------
(* claim() *)

\* (mutant) The status read is the one in the log: a claim being written is not seen.
MayClaimLogged(g) == goal[g].st = "pending" \/ claim[g] = "saving"

MayClaim(g) == goal[g].st = "pending"

\* Checked, the window cancelled and the memory changed in one step.
Award(g, a) ==
    /\ goal' = [goal EXCEPT ![g].st = "in_progress", ![g].who = a]
    /\ claim' = [claim EXCEPT ![g] = "saving"]

\* _processGoal(): a subagent is spawned for a goal that was pending and has no
\* blockers; its node in the task graph is running from then on.
Dispatch(g, a) ==
    /\ goal[g].st = "pending" /\ goal[g].blockedBy = {}
    /\ \A b \in Workers : hire[g][b] = "no"
    /\ hire' = [hire EXCEPT ![g][a] = "spawning"]
    /\ UNCHANGED <<goal, window, bids, bidding, tries, count, pub, unlinked, claim, walk,
                   opening, reports, early, everDone>>

\* Once it is up the goal is claimed for it.  Nobody looks at claim()'s answer:
\* the goal goes to the subagent also when another has it by now.
ClaimFor(g, a) ==
    /\ hire[g][a] = "spawning"
    /\ IF MayClaim(g)
       THEN /\ Award(g, a)
            /\ window' = window \ {g}
            /\ hire' = [hire EXCEPT ![g][a] = "claiming"]
       ELSE /\ hire' = [hire EXCEPT ![g][a] = "assigned"]
            /\ UNCHANGED <<goal, claim, window>>
    /\ UNCHANGED <<bids, bidding, tries, count, pub, unlinked, walk, opening, reports, early,
                   everDone>>

\* After the write: the bids are dropped and the agent's count goes up.
ClaimSaved(g) ==
    /\ claim[g] = "saving"
    /\ claim' = [claim EXCEPT ![g] = "telling"]
    /\ bids' = [bids EXCEPT ![g] = {}]
    /\ count' = [count EXCEPT ![goal[g].who] = @ + 1]
    /\ UNCHANGED <<goal, window, bidding, tries, pub, unlinked, walk, opening, hire, reports,
                   early, everDone>>

\* After the message: task:claimed, which the auctioneer itself hears, and the
\* goal goes to the subagent it was claimed for.
ClaimTold(g) ==
    /\ claim[g] = "telling"
    /\ hire' = [hire EXCEPT ![g] = [a \in Workers |-> IF @[a] = "claiming" THEN "assigned"
                                                     ELSE @[a]]]
    /\ claim' = [claim EXCEPT ![g] = "told"]
    /\ bids' = [bids EXCEPT ![g] = {}]
    /\ window' = window \ {g}
    /\ UNCHANGED <<goal, bidding, tries, count, pub, unlinked, walk, opening, reports,
                   early, everDone>>

-----------------------------------------------------------------------------
(* complete() and fail() *)

\* (mutant) The floor is left out.
LessFreely(a) == IF a = Nobody THEN count ELSE [count EXCEPT ![a] = @ - 1]

\* agentTaskCount(assignee, -1), never below zero.
Less(a) == IF a = Nobody THEN count
           ELSE [count EXCEPT ![a] = IF @ = 0 THEN 0 ELSE @ - 1]

\* What both do once the status is written.
Forget(g) ==
    /\ tries' = [tries EXCEPT ![g] = 0]
    /\ bids' = [bids EXCEPT ![g] = {}]
    /\ window' = window \ {g}

\* The award or the assignment was written and its agent counted.
Counted(g) == claim[g] \in {"telling", "told"} \/ (goal[g].direct /\ pub[g] = "yes")

\* The end of an agent's run is reported for every goal that is its own by then
\* (_onSubagentTerminated()), also those whose award is still being written (once
\* each); an agent that was told of its goal reports on it, more than once if two
\* observers do.  A subagent that was given the goal of another reports in vain.
MayReport(g) ==
    /\ goal[g].who # Nobody
    /\ IF Counted(g)
       THEN /\ reports[g] < IF g \in Twice THEN 2 ELSE 1
            /\ reports' = [reports EXCEPT ![g] = @ + 1] /\ UNCHANGED early
       ELSE /\ g \in Sooner \ early
            /\ early' = early \cup {g} /\ UNCHANGED reports

\* The children are those the goal had when complete() was called.
Complete(g) ==
    /\ MayReport(g)
    /\ count' = Less(goal[g].who)
    /\ goal' = [goal EXCEPT ![g].st = "done"]
    /\ walk' = [walk EXCEPT ![g] = @ \cup goal[g].children]
    /\ everDone' = everDone \cup {g}
    /\ Forget(g)
    /\ UNCHANGED <<bidding, pub, unlinked, claim, opening, hire>>

\* (mutant) One blocker done is enough.
FreesEarly(c) == goal[c].st = "blocked" /\ \E b \in goal[c].blockedBy : goal[b].st = "done"

Frees(c) == goal[c].st = "blocked" /\ Done(goal[c].blockedBy)

\* One child: unblocked if it is blocked and every blocker is done.
Visit(g, c) ==
    /\ c \in walk[g]
    /\ walk' = [walk EXCEPT ![g] = @ \ {c}]
    /\ IF Frees(c)
       THEN goal' = [goal EXCEPT ![c].st = "pending"] /\ opening' = opening \cup {c}
       ELSE UNCHANGED <<goal, opening>>
    /\ UNCHANGED <<window, bids, bidding, tries, count, pub, unlinked, claim, hire, reports,
                   early, everDone>>

\* After the child's write: its window starts.
Open(c) ==
    /\ c \in opening
    /\ opening' = opening \ {c}
    /\ window' = window \cup {c}
    /\ UNCHANGED <<goal, bids, bidding, tries, count, pub, unlinked, claim, walk, hire,
                   reports, early, everDone>>

\* (mutant) A failure does not give the slot back.
FailKeepsCount(g) ==
    /\ goal' = [goal EXCEPT ![g].st = "failed"]
    /\ Forget(g)
    /\ UNCHANGED count

FailGoal(g) ==
    /\ count' = Less(goal[g].who)
    /\ goal' = [goal EXCEPT ![g].st = "failed"]
    /\ Forget(g)

Fail(g) ==
    /\ MayReport(g)
    /\ FailGoal(g)
    /\ UNCHANGED <<bidding, pub, unlinked, claim, walk, opening, hire, everDone>>

-----------------------------------------------------------------------------
(* _evaluateBids(), when a window ends.  A window outlasts the writes of a     *)
(* claim of the same goal.                                                     *)

Ends(g) == g \in window /\ claim[g] \in {"no", "told"}

\* (mutant) The goal is offered again without a new window.
OfferOnce(g) ==
    /\ Ends(g) /\ bids[g] = {}
    /\ window' = window \ {g}
    /\ UNCHANGED <<goal, bids, bidding, tries, count, pub, unlinked, claim, walk, opening,
                   hire, reports, early, everDone>>

\* (mutant) The goal is offered again without counting.
OfferAgain(g) == Ends(g) /\ bids[g] = {} /\ UNCHANGED vars

NoBids(g) ==
    /\ Ends(g) /\ bids[g] = {}
    /\ IF tries[g] + 1 >= MaxBidRetries
       THEN FailGoal(g)
       ELSE tries' = [tries EXCEPT ![g] = @ + 1] /\ UNCHANGED <<goal, window, bids, count>>
    /\ UNCHANGED <<bidding, pub, unlinked, claim, walk, opening, hire, reports, early,
                   everDone>>

\* The best bidder under capacity is awarded the goal, if it is still pending.
Wins(g, a) ==
    /\ Ends(g) /\ a \in bids[g] /\ Under(a)
    /\ window' = window \ {g}
    /\ IF MayClaim(g) THEN Award(g, a) ELSE UNCHANGED <<goal, claim>>
    /\ UNCHANGED <<bids, bidding, tries, count, pub, unlinked, walk, opening, hire, reports,
                   early, everDone>>

\* With every bidder at capacity the window starts again: nothing changes.

-----------------------------------------------------------------------------
Rest ==
    /\ \A g \in Goals : goal[g].st \in {"done", "failed"}
    /\ UNCHANGED vars

Next ==
    \/ \E g \in Goals, who \in Workers \cup {Nobody} :
          \E deps \in SUBSET (1..(g - 1)) :
              (who # Nobody => g \in Direct) /\ Publish(g, deps, who)
    \/ \E g \in Goals : \E b \in unlinked[g] : Link(g, b)
    \/ \E g \in Goals : Announce(g) \/ Assigned(g) \/ ClaimSaved(g) \/ ClaimTold(g)
    \/ \E g \in Goals, a \in Bidders : Bid(g, a) \/ Wins(g, a)
    \/ \E g \in Goals, a \in Bidders, ok \in BOOLEAN : BidScored(g, a, ok)
    \/ \E g \in Direct, a \in Workers : Dispatch(g, a) \/ ClaimFor(g, a)
    \/ \E g \in Goals : Complete(g) \/ Fail(g) \/ NoBids(g) \/ Open(g)
    \/ \E g \in Goals : \E c \in walk[g] : Visit(g, c)
    \/ Rest

Spec == Init /\ [][Next]_vars

Report(g) == Counted(g) /\ (Complete(g) \/ Fail(g))
Write(g) ==
    \/ Announce(g) \/ Assigned(g) \/ ClaimSaved(g) \/ ClaimTold(g) \/ Open(g)
    \/ \E b \in unlinked[g] : Link(g, b)
    \/ \E c \in walk[g] : Visit(g, c)
Evaluate(g) == NoBids(g) \/ \E a \in Bidders : Wins(g, a)

\* Writes end, timers fire, and an agent reports on what it was given; nobody
\* has to publish or to bid.
Fairness ==
    \A g \in Goals : WF_vars(Write(g)) /\ WF_vars(Evaluate(g)) /\ WF_vars(Report(g))

FairSpec == Spec /\ Fairness

-----------------------------------------------------------------------------
(* Properties *)

AuctionTypeOK ==
    /\ goal \in [Goals -> [st : {"none", "pending", "blocked", "in_progress", "done", "failed"},
                           who : Agents \cup {Nobody}, blockedBy : SUBSET Goals,
                           children : SUBSET Goals, direct : BOOLEAN]]
    /\ window \subseteq Goals /\ opening \subseteq Goals /\ everDone \subseteq Goals
    /\ bids \in [Goals -> SUBSET Bidders] /\ bidding \subseteq Goals \X Bidders
    /\ tries \in [Goals -> 0..MaxBidRetries]
    /\ count \in [Agents -> 0..NumGoals]
    /\ pub \in [Goals -> {"no", "adding", "assigning", "yes"}]
    /\ claim \in [Goals -> {"no", "saving", "telling", "told"}]
    /\ unlinked \in [Goals -> SUBSET Goals] /\ walk \in [Goals -> SUBSET Goals]
    /\ hire \in [Goals -> [Workers -> {"no", "spawning", "claiming", "assigned"}]]
    /\ reports \in [Goals -> 0..2] /\ early \subseteq Goals

\* A goal won or claimed was started only after every blocker had been done.
WorkedInOrder ==
    \A g \in Goals : goal[g].who # Nobody /\ ~goal[g].direct => goal[g].blockedBy \subseteq everDone

\* No biddable goal is left lying: its window is open, or the call that will
\* open it is under way.
Attended ==
    \A g \in Goals : goal[g].st = "pending" => g \in window \cup opening \/ pub[g] = "adding"

\* The capacity check holds no task against an agent but those it has, and those
\* that were reported while their award was being written: the count that comes
\* after such a report is never taken back.
Load(a) == {g \in Goals : /\ goal[g].who = a /\ Counted(g)
                          /\ goal[g].st = "in_progress" \/ g \in early}
NoPhantomLoad == \A a \in Agents : count[a] <= Cardinality(Load(a))

\* Of two awards, or of an award and a claim for a subagent that was being spawned
\* in the meantime, one is refused: the owner on record stays, and a goal is
\* claimed for a subagent only as its own.
NeverReassigned ==
    [][\A g \in Goals :
          /\ goal[g].who # Nobody => goal'[g].who = goal[g].who
          /\ \A a \in Workers : hire'[g][a] = "claiming" => goal'[g].who = a]_vars

\* Every goal that was published ends, whoever bids and whatever it waits for.
EveryGoalSettles ==
    []<>(\A g \in Known : goal[g].st \in {"done", "failed"})

\* Nobody but its owner is put to work on a goal.
OneWorker ==
    \A g \in Goals, a \in Workers : hire[g][a] = "assigned" => goal[g].who = a

\* What the second capacity check is for: an agent wins no more goals than it
\* may have at a time.
CapacityRespected ==
    \A a \in Bidders :
        Cardinality({g \in Goals : goal[g].st = "in_progress" /\ goal[g].who = a}) <= MaxTasks

\* A goal stays blocked only while some blocker is not done or the news of the
\* last one is on its way.
BlockedForReason ==
    \A g \in Goals : goal[g].st = "blocked" /\ pub[g] = "yes" =>
        ~Done(goal[g].blockedBy) \/ \E b \in Goals : g \in walk[b]

\* A goal is failed for want of bids only while nobody works on it.
NoBidsUnclaimed ==
    [][\A g \in Goals : NoBids(g) => goal[g].st # "in_progress"]_vars
=============================================================================
