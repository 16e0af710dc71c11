--------------------------- MODULE AuctionProofs ---------------------------
(***************************************************************************)
(* The auction for any goals, agents and capacities, any reports and any     *)
(* order of the writes: a goal keeps its owner, nobody wins one before its   *)
(* blockers have been done, a biddable goal always has its window, and no    *)
(* agent is counted for work it neither has nor gave back too early.          *)
(***************************************************************************)
EXTENDS Auction, Integers, FiniteSetTheorems, TLAPS

GoalNode == [st : {"none", "pending", "blocked", "in_progress", "done", "failed"},
             who : Agents \cup {Nobody}, blockedBy : SUBSET Goals,
             children : SUBSET Goals, direct : BOOLEAN]

\* Whoever may still be given a goal finds it without an owner.
Unowned ==
    \A g \in Goals : goal[g].st \in {"none", "pending", "blocked"} => goal[g].who = Nobody

\* A biddable goal has no blocker that was never done; a goal that is done now
\* has been recorded.
Earned ==
    \A g \in Goals : /\ goal[g].st = "done" => g \in everDone
                     /\ goal[g].st = "pending" => goal[g].blockedBy \subseteq everDone

AInv ==
    /\ goal \in [Goals -> GoalNode]
    /\ Unowned
    /\ Earned
    /\ WorkedInOrder

\* The step may change no owner and forgets no goal that was done.
Keeps ==
    /\ \A g \in Goals : goal[g].who # Nobody => goal'[g].who = goal[g].who
    /\ everDone \subseteq everDone'

LEMMA InitAInv == Init => AInv
<1> SUFFICES ASSUME Init PROVE AInv
    OBVIOUS
<1>1. goal = [g \in Goals |-> NoGoal]
    BY DEF Init
<1>2. NoGoal \in GoalNode
    BY DEF NoGoal, GoalNode, Nobody
<1>3. \A g \in Goals : goal[g].st = "none" /\ goal[g].who = Nobody
    BY <1>1 DEF NoGoal, Nobody
<1> QED
    BY <1>1, <1>2, <1>3 DEF AInv, Unowned, Earned, WorkedInOrder

\* An action that leaves the goals alone, and the history too.
LEMMA SameGoals ==
    ASSUME AInv, UNCHANGED <<goal, everDone>>
    PROVE  AInv' /\ Keeps
BY DEF AInv, Unowned, Earned, WorkedInOrder, Keeps

LEMMA PublishOK ==
    ASSUME AInv, NEW g \in Goals, NEW who \in Workers \cup {Nobody},
           NEW deps \in SUBSET (1..(g - 1)), Publish(g, deps, who)
    PROVE  AInv' /\ Keeps
<1> DEFINE s == IF who # Nobody THEN "in_progress"
                ELSE IF Done(deps) THEN "pending" ELSE "blocked"
           d == who # Nobody
           n == [NoGoal EXCEPT !.st = s, !.who = who, !.direct = d, !.blockedBy = deps]
<1>1. deps \subseteq Goals
    BY AuctionAssumption DEF Goals
<1>2. goal' = [goal EXCEPT ![g] = n] /\ everDone' = everDone /\ goal[g].st = "none"
    BY DEF Publish
<1>3. d \in BOOLEAN /\ (~d => who = Nobody)
    OBVIOUS
<1>4. s \in {"none", "pending", "blocked", "in_progress", "done", "failed"}
    OBVIOUS
<1>5. s \in {"none", "pending", "blocked"} => who = Nobody
    OBVIOUS
<1>6. s # "done" /\ (s = "pending" => deps \subseteq everDone)
    BY <1>1 DEF AInv, Earned, Done
<1>7. goal[g].who = Nobody
    BY <1>2 DEF AInv, Unowned
<1> HIDE DEF s, d
<1>8. NoGoal \in GoalNode
    BY DEF NoGoal, GoalNode, Nobody
<1>9. n \in GoalNode
    BY <1>1, <1>3, <1>4, <1>8 DEF GoalNode, Agents
<1>10. n.st = s /\ n.who = who /\ n.blockedBy = deps /\ n.direct = d
    BY <1>8 DEF GoalNode
<1> HIDE DEF n
<1>11. goal' \in [Goals -> GoalNode]
    BY <1>2, <1>9 DEF AInv
<1>12. goal'[g] = n /\ \A h \in Goals : h # g => goal'[h] = goal[h]
    BY <1>2 DEF AInv
<1>13. Unowned' /\ Keeps
    BY <1>2, <1>5, <1>7, <1>10, <1>12 DEF AInv, Unowned, Keeps
<1>14. Earned'
    BY <1>2, <1>6, <1>10, <1>12 DEF AInv, Earned
<1>15. WorkedInOrder'
    BY <1>2, <1>3, <1>10, <1>12 DEF AInv, WorkedInOrder
<1> QED
    BY <1>11, <1>13, <1>14, <1>15 DEF AInv

LEMMA LinkOK ==
    ASSUME AInv, NEW g \in Goals, NEW b \in Goals, Link(g, b)
    PROVE  AInv' /\ Keeps
<1>1. goal' = [goal EXCEPT ![b].children = @ \cup {g}] /\ everDone' = everDone
    BY DEF Link
<1>2. goal' \in [Goals -> GoalNode]
    BY <1>1 DEF AInv, GoalNode
<1>3. \A h \in Goals : /\ goal'[h].st = goal[h].st /\ goal'[h].who = goal[h].who
                       /\ goal'[h].blockedBy = goal[h].blockedBy
                       /\ goal'[h].direct = goal[h].direct
    BY <1>1 DEF AInv, GoalNode
<1> QED
    BY <1>1, <1>2, <1>3 DEF AInv, Unowned, Earned, WorkedInOrder, Keeps

\* The status and the owner of one goal change and nothing else of it.
OneGoal(g) ==
    /\ goal' \in [Goals -> GoalNode]
    /\ \A h \in Goals : /\ goal'[h].blockedBy = goal[h].blockedBy
                        /\ goal'[h].direct = goal[h].direct
                        /\ h # g => goal'[h].st = goal[h].st /\ goal'[h].who = goal[h].who

LEMMA SetStatus ==
    ASSUME AInv, NEW g \in Goals,
           NEW s \in {"none", "pending", "blocked", "in_progress", "done", "failed"},
           goal' = [goal EXCEPT ![g].st = s]
    PROVE  OneGoal(g) /\ goal'[g].st = s /\ goal'[g].who = goal[g].who
BY DEF AInv, GoalNode, OneGoal

LEMMA SetOwner ==
    ASSUME AInv, NEW g \in Goals, NEW a \in Agents,
           goal' = [goal EXCEPT ![g].st = "in_progress", ![g].who = a]
    PROVE  OneGoal(g) /\ goal'[g].st = "in_progress" /\ goal'[g].who = a
<1> DEFINE n == [goal[g] EXCEPT !.st = "in_progress", !.who = a]
<1>1. goal[g] \in GoalNode
    BY DEF AInv
<1>2. n \in GoalNode
    BY <1>1 DEF GoalNode
<1>3. n.st = "in_progress" /\ n.who = a /\ n.blockedBy = goal[g].blockedBy
    BY <1>1 DEF GoalNode
<1>4. n.direct = goal[g].direct
    BY <1>1 DEF GoalNode
<1>5. goal' = [goal EXCEPT ![g] = n]
    BY DEF AInv
<1> HIDE DEF n
<1> QED
    BY <1>2, <1>3, <1>4, <1>5 DEF AInv, OneGoal

\* When that keeps the invariant.
LEMMA OneGoalOK ==
    ASSUME AInv, NEW g \in Goals, OneGoal(g), everDone \subseteq everDone',
           goal[g].who # Nobody => goal'[g].who = goal[g].who,
           goal'[g].st \in {"none", "pending", "blocked"} => goal'[g].who = Nobody,
           goal'[g].st = "done" => g \in everDone',
           goal'[g].st = "pending" => goal[g].blockedBy \subseteq everDone,
           goal'[g].who # goal[g].who => goal[g].blockedBy \subseteq everDone
    PROVE  AInv' /\ Keeps
<1>1. \A h \in Goals : goal'[h].blockedBy = goal[h].blockedBy /\ goal'[h].direct = goal[h].direct
    BY Zenon DEF OneGoal
<1>2. \A h \in Goals : h # g => goal'[h].st = goal[h].st /\ goal'[h].who = goal[h].who
    BY Zenon DEF OneGoal
<1>3. Unowned' /\ Keeps
    BY <1>2 DEF AInv, Unowned, Keeps
<1>4. Earned'
    BY <1>1, <1>2 DEF AInv, Earned
<1>5. WorkedInOrder'
    <2> SUFFICES ASSUME NEW h \in Goals, goal'[h].who # Nobody, ~goal'[h].direct
                 PROVE  goal'[h].blockedBy \subseteq everDone'
        BY DEF WorkedInOrder
    <2>1. goal[h].blockedBy \subseteq everDone
        <3>1. CASE goal[h].who = Nobody
            BY <1>2, <3>1
        <3>2. CASE goal[h].who # Nobody
            BY <1>1, <3>2, Zenon DEF AInv, WorkedInOrder
        <3> QED
            BY <3>1, <3>2
    <2> QED
        BY <1>1, <2>1
<1> QED
    BY <1>3, <1>4, <1>5, Zenon DEF AInv, OneGoal

LEMMA AwardOK ==
    ASSUME AInv, NEW g \in Goals, NEW a \in Agents, MayClaim(g), Award(g, a),
           everDone' = everDone
    PROVE  AInv' /\ Keeps
<1>1. goal[g].st = "pending" /\ goal' = [goal EXCEPT ![g].st = "in_progress", ![g].who = a]
    BY DEF MayClaim, Award
<1>2. goal[g].who = Nobody /\ goal[g].blockedBy \subseteq everDone
    BY <1>1 DEF AInv, Unowned, Earned
<1>3. OneGoal(g) /\ goal'[g].st = "in_progress" /\ goal'[g].who = a
    BY <1>1, SetOwner
<1> QED
    BY <1>2, <1>3, OneGoalOK

\* The second write of a direct assignment.
LEMMA AnnounceOK ==
    ASSUME AInv, NEW g \in Goals, Announce(g)
    PROVE  AInv' /\ Keeps
<1>1. everDone' = everDone
    BY DEF Announce
<1>2. CASE ~goal[g].direct
    BY <1>1, <1>2, SameGoals DEF Announce
<1>3. CASE goal[g].direct
    <2>1. OneGoal(g) /\ goal'[g].st = "in_progress" /\ goal'[g].who = goal[g].who
        BY <1>3, SetStatus DEF Announce
    <2> QED
        BY <1>1, <2>1, OneGoalOK
<1> QED
    BY <1>2, <1>3

LEMMA FailOK ==
    ASSUME AInv, NEW g \in Goals, FailGoal(g), everDone' = everDone
    PROVE  AInv' /\ Keeps
<1>1. OneGoal(g) /\ goal'[g].st = "failed" /\ goal'[g].who = goal[g].who
    BY SetStatus DEF FailGoal
<1> QED
    BY <1>1, OneGoalOK

LEMMA CompleteOK ==
    ASSUME AInv, NEW g \in Goals, Complete(g)
    PROVE  AInv' /\ Keeps
<1>1. OneGoal(g) /\ goal'[g].st = "done" /\ goal'[g].who = goal[g].who
    BY SetStatus DEF Complete
<1>2. everDone' = everDone \cup {g}
    BY DEF Complete
<1> QED
    BY <1>1, <1>2, OneGoalOK

LEMMA VisitOK ==
    ASSUME AInv, NEW g \in Goals, NEW c \in Goals, Visit(g, c)
    PROVE  AInv' /\ Keeps
<1>1. everDone' = everDone
    BY DEF Visit
<1>2. CASE ~Frees(c)
    BY <1>1, <1>2, SameGoals DEF Visit
<1>3. CASE Frees(c)
    <2>1. OneGoal(c) /\ goal'[c].st = "pending" /\ goal'[c].who = goal[c].who
        BY <1>3, SetStatus DEF Visit
    <2>2. goal[c].who = Nobody
        BY <1>3 DEF Frees, AInv, Unowned
    <2>3. goal[c].blockedBy \subseteq Goals
        BY DEF AInv, GoalNode
    <2>4. goal[c].blockedBy \subseteq everDone
        BY <1>3, <2>3 DEF Frees, Done, AInv, Earned
    <2> QED
        BY <1>1, <2>1, <2>2, <2>4, OneGoalOK
<1> QED
    BY <1>2, <1>3

-----------------------------------------------------------------------------
(* The invariant and its step *)

\* What the links and the walks name are goals.
Named == unlinked \in [Goals -> SUBSET Goals] /\ walk \in [Goals -> SUBSET Goals]

LEMMA StepNamed ==
    ASSUME AInv, Named, [Next]_vars
    PROVE  Named'
<1>1. CASE UNCHANGED <<unlinked, walk>>
    BY <1>1 DEF Named
<1>2. ASSUME NEW g \in Goals, NEW who \in Workers \cup {Nobody},
             NEW deps \in SUBSET (1..(g - 1)), Publish(g, deps, who)
      PROVE  Named'
    <2>1. deps \subseteq Goals
        BY AuctionAssumption DEF Goals
    <2> QED
        BY <1>2, <2>1 DEF Named, Publish
<1>3. ASSUME NEW g \in Goals, NEW b \in unlinked[g], Link(g, b)
      PROVE  Named'
    BY <1>3 DEF Named, Link
<1>4. ASSUME NEW g \in Goals, Complete(g)
      PROVE  Named'
    <2>1. goal[g].children \subseteq Goals
        BY DEF AInv, GoalNode
    <2> QED
        BY <1>4, <2>1 DEF Named, Complete
<1>5. ASSUME NEW g \in Goals, NEW c \in walk[g], Visit(g, c)
      PROVE  Named'
    BY <1>5 DEF Named, Visit
<1>6. ASSUME NEW g \in Goals, Announce(g) \/ Assigned(g) \/ ClaimSaved(g) \/ ClaimTold(g)
      PROVE  UNCHANGED <<unlinked, walk>>
    BY <1>6 DEF Announce, Assigned, ClaimSaved, ClaimTold
<1>7. ASSUME NEW g \in Goals, NEW a \in Bidders, Bid(g, a) \/ Wins(g, a)
      PROVE  UNCHANGED <<unlinked, walk>>
    BY <1>7 DEF Bid, Wins
<1>8. ASSUME NEW g \in Goals, NEW a \in Bidders, NEW ok \in BOOLEAN, BidScored(g, a, ok)
      PROVE  UNCHANGED <<unlinked, walk>>
    BY <1>8 DEF BidScored
<1>9. ASSUME NEW g \in Direct, NEW a \in Workers, Dispatch(g, a) \/ ClaimFor(g, a)
      PROVE  UNCHANGED <<unlinked, walk>>
    BY <1>9 DEF Dispatch, ClaimFor
<1>10. ASSUME NEW g \in Goals, Fail(g) \/ NoBids(g) \/ Open(g)
       PROVE  UNCHANGED <<unlinked, walk>>
    BY <1>10 DEF Fail, NoBids, Open
<1>11. CASE Rest \/ UNCHANGED vars
    BY <1>1, <1>11 DEF Rest, vars
<1> QED
    BY <1>1, <1>2, <1>3, <1>4, <1>5, <1>6, <1>7, <1>8, <1>9, <1>10, <1>11 DEF Next

LEMMA StepAInv ==
    ASSUME AInv, Named, [Next]_vars
    PROVE  AInv' /\ Keeps
<1>1. CASE UNCHANGED <<goal, everDone>>
    BY <1>1, SameGoals
<1>2. ASSUME NEW g \in Goals, NEW who \in Workers \cup {Nobody},
             NEW deps \in SUBSET (1..(g - 1)), Publish(g, deps, who)
      PROVE  AInv' /\ Keeps
    BY <1>2, PublishOK
<1>3. ASSUME NEW g \in Goals, NEW b \in unlinked[g], Link(g, b)
      PROVE  AInv' /\ Keeps
    <2>1. b \in Goals
        BY DEF Named
    <2> QED
        BY <1>3, <2>1, LinkOK
<1>4. ASSUME NEW g \in Goals, Announce(g) \/ Assigned(g) \/ ClaimSaved(g) \/ ClaimTold(g)
      PROVE  AInv' /\ Keeps
    <2>1. CASE Announce(g)
        BY <2>1, AnnounceOK
    <2>2. CASE Assigned(g) \/ ClaimSaved(g) \/ ClaimTold(g)
        BY <1>1, <2>2 DEF Assigned, ClaimSaved, ClaimTold
    <2> QED
        BY <1>4, <2>1, <2>2
<1>5. ASSUME NEW g \in Goals, NEW a \in Bidders, Bid(g, a)
      PROVE  UNCHANGED <<goal, everDone>>
    BY <1>5 DEF Bid
<1>6. ASSUME NEW g \in Goals, NEW a \in Bidders, Wins(g, a)
      PROVE  AInv' /\ Keeps
    <2>1. everDone' = everDone /\ a \in Agents
        BY <1>6 DEF Wins, Agents
    <2>2. CASE MayClaim(g)
        <3>1. Award(g, a)
            BY <1>6, <2>2 DEF Wins
        <3> QED
            BY <2>1, <2>2, <3>1, AwardOK
    <2>3. CASE ~MayClaim(g)
        BY <1>1, <1>6, <2>1, <2>3 DEF Wins
    <2> QED
        BY <2>2, <2>3
<1>7. ASSUME NEW g \in Goals, NEW a \in Bidders, NEW ok \in BOOLEAN, BidScored(g, a, ok)
      PROVE  UNCHANGED <<goal, everDone>>
    BY <1>7 DEF BidScored
<1>8. ASSUME NEW g \in Direct, NEW a \in Workers, Dispatch(g, a) \/ ClaimFor(g, a)
      PROVE  AInv' /\ Keeps
    <2>1. g \in Goals /\ a \in Agents /\ everDone' = everDone
        BY <1>8, AuctionAssumption DEF Dispatch, ClaimFor, Agents, Goals
    <2>2. CASE UNCHANGED goal
        BY <1>1, <2>1, <2>2
    <2>3. CASE MayClaim(g) /\ Award(g, a)
        BY <2>1, <2>3, AwardOK
    <2> QED
        BY <1>8, <2>2, <2>3 DEF Dispatch, ClaimFor
<1>9. ASSUME NEW g \in Goals, Complete(g)
      PROVE  AInv' /\ Keeps
    BY <1>9, CompleteOK
<1>10. ASSUME NEW g \in Goals, Fail(g)
       PROVE  AInv' /\ Keeps
    BY <1>10, FailOK DEF Fail
<1>11. ASSUME NEW g \in Goals, NoBids(g)
       PROVE  AInv' /\ Keeps
    <2>1. everDone' = everDone /\ (FailGoal(g) \/ goal' = goal)
        BY <1>11 DEF NoBids
    <2> QED
        BY <1>1, <2>1, FailOK
<1>12. ASSUME NEW g \in Goals, Open(g)
       PROVE  UNCHANGED <<goal, everDone>>
    BY <1>12 DEF Open
<1>13. ASSUME NEW g \in Goals, NEW c \in walk[g], Visit(g, c)
       PROVE  AInv' /\ Keeps
    <2>1. c \in Goals
        BY DEF Named
    <2> QED
        BY <1>13, <2>1, VisitOK
<1>14. CASE Rest \/ UNCHANGED vars
    BY <1>1, <1>14 DEF Rest, vars
<1> QED
    BY <1>1, <1>2, <1>3, <1>4, <1>5, <1>6, <1>7, <1>8, <1>9, <1>10, <1>11, <1>12, <1>13, <1>14
       DEF Next

LEMMA AuctionInductive == Spec => [](AInv /\ Named)
<1>1. Init => AInv /\ Named
    BY InitAInv DEF Init, Named
<1>2. AInv /\ Named /\ [Next]_vars => (AInv /\ Named)'
    BY StepAInv, StepNamed
<1> QED
    BY <1>1, <1>2, PTL DEF Spec

-----------------------------------------------------------------------------
(* The windows and the load *)

Begun == {"in_progress", "done", "failed"}

\* What publishTask() and claim() have got to, and the goal's status: a claim
\* goes on with a goal that it has started, a direct assignment with one that
\* was never offered, and a goal that has ended before its agent was counted is
\* one of those reported early.
Stage(g) ==
    /\ claim[g] # "no" => goal[g].st \in Begun /\ ~goal[g].direct /\ goal[g].who \in Agents
    /\ claim[g] = "saving" => goal[g].st = "in_progress" \/ g \in early
    /\ goal[g].direct => goal[g].st \in Begun /\ goal[g].who \in Agents
    /\ goal[g].direct /\ pub[g] \in {"adding", "assigning"}
         => goal[g].st = "in_progress" \/ g \in early
    /\ pub[g] = "assigning" => goal[g].direct
    /\ pub[g] # "no" => goal[g].st # "none"
    /\ g \in window \cup opening => goal[g].st # "none" /\ ~goal[g].direct
Stages == \A g \in Goals : Stage(g)

Calls ==
    /\ pub \in [Goals -> {"no", "adding", "assigning", "yes"}]
    /\ claim \in [Goals -> {"no", "saving", "telling", "told"}]

Counts == count \in [Agents -> Nat] /\ NoPhantomLoad

LInv == Calls /\ Stages /\ Attended /\ Counts

LEMMA LoadFinite ==
    ASSUME NEW a
    PROVE  IsFiniteSet(Load(a)) /\ Cardinality(Load(a)) \in Nat /\ Cardinality(Load(a)) <= NumGoals
<1>1. IsFiniteSet(Goals) /\ Cardinality(Goals) = NumGoals
    BY AuctionAssumption, FS_Interval DEF Goals
<1>2. Load(a) \in SUBSET Goals
    BY DEF Load
<1> QED
    BY <1>1, <1>2, FS_Subset, FS_CardinalityType

LEMMA LoadFiniteNext ==
    ASSUME NEW a
    PROVE  IsFiniteSet(Load(a)') /\ Cardinality(Load(a)') \in Nat
<1>1. IsFiniteSet(Goals)
    BY AuctionAssumption, FS_Interval DEF Goals
<1>2. Load(a)' \in SUBSET Goals
    BY DEF Load
<1> QED
    BY <1>1, <1>2, FS_Subset, FS_CardinalityType

\* Nobody's load changes.
LEMMA LoadStays ==
    ASSUME Counts, count' = count, \A a \in Agents : Load(a)' = Load(a)
    PROVE  Counts'
BY DEF Counts, NoPhantomLoad

\* The owner is counted, and the goal comes to its load.
LEMMA LoadGrows ==
    ASSUME Counts, NEW g \in Goals, NEW w \in Agents, count' = [count EXCEPT ![w] = @ + 1],
           g \notin Load(w), Load(w)' = Load(w) \cup {g},
           \A a \in Agents : a # w => Load(a)' = Load(a)
    PROVE  Counts'
<1>1. count' \in [Agents -> Nat]
    BY DEF Counts
<1>2. Cardinality(Load(w)') = Cardinality(Load(w)) + 1
    BY LoadFinite, FS_AddElement
<1>3. count'[w] <= Cardinality(Load(w)')
    <2>1. count[w] \in Nat /\ Cardinality(Load(w)) \in Nat /\ count[w] <= Cardinality(Load(w))
        BY LoadFinite DEF Counts, NoPhantomLoad
    <2>2. count'[w] = count[w] + 1
        BY DEF Counts
    <2> QED
        BY <1>2, <2>1, <2>2
<1>4. \A a \in Agents : a # w => count'[a] <= Cardinality(Load(a)')
    BY DEF Counts, NoPhantomLoad
<1> QED
    BY <1>1, <1>3, <1>4 DEF Counts, NoPhantomLoad

\* A goal ends: it leaves its owner's load, if it was there, and the owner's
\* count goes down, if it is not at zero.
LEMMA LoadShrinks ==
    ASSUME Counts, NEW g \in Goals, NEW w \in Agents \cup {Nobody}, goal[g].who = w,
           count' = Less(w), \A a \in Agents : Load(a)' = Load(a) \ {g}
    PROVE  Counts'
<1>1. \A a \in Agents : a # w => Load(a)' = Load(a)
    BY DEF Load
<1>2. CASE w = Nobody
    <2>1. count' = count
        BY <1>2 DEF Less
    <2>2. \A a \in Agents : a # w
        BY <1>2, AuctionAssumption DEF Agents
    <2> QED
        BY <1>1, <2>1, <2>2, LoadStays
<1>3. CASE w # Nobody
    <2>1. w \in Agents /\ count' = [count EXCEPT ![w] = IF @ = 0 THEN 0 ELSE @ - 1]
        BY <1>3 DEF Less
    <2>2. count' \in [Agents -> Nat]
        BY <2>1 DEF Counts
    <2>3. Cardinality(Load(w)') = IF g \in Load(w) THEN Cardinality(Load(w)) - 1
                                  ELSE Cardinality(Load(w))
        BY <2>1, LoadFinite, FS_RemoveElement
    <2>4. count[w] \in Nat /\ Cardinality(Load(w)) \in Nat /\ count[w] <= Cardinality(Load(w))
        BY <2>1, LoadFinite DEF Counts, NoPhantomLoad
    <2>5. count'[w] = IF count[w] = 0 THEN 0 ELSE count[w] - 1
        BY <2>1 DEF Counts
    <2>6. Cardinality(Load(w)') \in Nat
        BY LoadFiniteNext
    <2>7. count'[w] <= Cardinality(Load(w)')
        BY <2>3, <2>4, <2>5, <2>6
    <2>8. \A a \in Agents : a # w => count'[a] = count[a]
        BY <2>1 DEF Counts
    <2>9. \A a \in Agents : a # w => count'[a] <= Cardinality(Load(a)')
        BY <1>1, <2>8 DEF Counts, NoPhantomLoad
    <2> QED
        BY <2>2, <2>7, <2>9 DEF Counts, NoPhantomLoad
<1> QED
    BY <1>2, <1>3

\* A step that changes no status, owner, call or count, and takes no biddable
\* goal out of the windows.
LEMMA IdleOK ==
    ASSUME LInv, UNCHANGED <<pub, claim, count, early>>,
           \A h \in Goals : /\ goal'[h].st = goal[h].st /\ goal'[h].who = goal[h].who
                            /\ goal'[h].direct = goal[h].direct,
           window' \cup opening' \subseteq window \cup opening,
           \A h \in window \cup opening : goal[h].st = "pending" => h \in window' \cup opening'
    PROVE  LInv'
<1>1. Calls' /\ Stages'
    BY DEF LInv, Calls, Stages, Stage
<1>2. Attended'
    BY DEF LInv, Attended
<1>3. \A a \in Agents : Load(a)' = Load(a)
    BY DEF Load, Counted
<1>4. Counts'
    BY <1>3, LoadStays DEF LInv
<1> QED
    BY <1>1, <1>2, <1>4 DEF LInv

\* The node that publishTask() adds.
LEMMA PublishNode ==
    ASSUME AInv, NEW g \in Goals, NEW who \in Workers \cup {Nobody},
           NEW deps \in SUBSET (1..(g - 1)), Publish(g, deps, who)
    PROVE  /\ goal[g].st = "none"
           /\ goal'[g].st \in {"pending", "blocked", "in_progress"}
           /\ goal'[g].direct => goal'[g].st = "in_progress" /\ goal'[g].who \in Agents
           /\ \A h \in Goals : h # g => goal'[h] = goal[h]
<1> DEFINE s == IF who # Nobody THEN "in_progress"
                ELSE IF Done(deps) THEN "pending" ELSE "blocked"
           d == who # Nobody
           n == [NoGoal EXCEPT !.st = s, !.who = who, !.direct = d, !.blockedBy = deps]
<1>1. goal' = [goal EXCEPT ![g] = n] /\ goal[g].st = "none"
    BY DEF Publish
<1>2. s \in {"pending", "blocked", "in_progress"} /\ d \in BOOLEAN
    OBVIOUS
<1>3. d => s = "in_progress" /\ who \in Agents
    BY DEF Agents
<1> HIDE DEF s, d
<1>4. NoGoal \in GoalNode
    BY DEF NoGoal, GoalNode, Nobody
<1>5. n.st = s /\ n.who = who /\ n.direct = d
    BY <1>4 DEF GoalNode
<1> HIDE DEF n
<1>6. goal'[g] = n /\ \A h \in Goals : h # g => goal'[h] = goal[h]
    BY <1>1 DEF AInv
<1> QED
    BY <1>1, <1>2, <1>3, <1>5, <1>6

LEMMA PublishLoad ==
    ASSUME AInv, LInv, NEW g \in Goals, NEW who \in Workers \cup {Nobody},
           NEW deps \in SUBSET (1..(g - 1)), Publish(g, deps, who)
    PROVE  LInv'
<1>1. /\ goal[g].st = "none"
      /\ goal'[g].st \in {"pending", "blocked", "in_progress"}
      /\ goal'[g].direct => goal'[g].st = "in_progress" /\ goal'[g].who \in Agents
      /\ \A h \in Goals : h # g => goal'[h] = goal[h]
    BY PublishNode
<1>2. pub' = [pub EXCEPT ![g] = "adding"] /\ UNCHANGED <<window, opening, claim, count, early>>
    BY DEF Publish
<1>3. pub'[g] = "adding" /\ \A h \in Goals : h # g => pub'[h] = pub[h]
    BY <1>2 DEF LInv, Calls
<1>4. claim[g] = "no" /\ g \notin window \cup opening
    BY <1>1 DEF LInv, Stages, Stage, Begun
<1>5. Calls'
    BY <1>2 DEF LInv, Calls
<1>6. Stages'
    <2>1. Stage(g)'
        BY <1>1, <1>2, <1>3, <1>4 DEF Stage, Begun
    <2>2. \A h \in Goals : h # g => Stage(h)'
        BY <1>1, <1>2, <1>3 DEF LInv, Stages, Stage
    <2> QED
        BY <2>1, <2>2 DEF Stages
<1>7. Attended'
    BY <1>1, <1>2, <1>3 DEF LInv, Attended
<1>8. \A a \in Agents : Load(a)' = Load(a)
    <2> SUFFICES ASSUME NEW a \in Agents PROVE Load(a)' = Load(a)
        OBVIOUS
    <2>1. g \notin Load(a)
        BY <1>1, <1>4 DEF Load, Counted, LInv, Stages, Stage, Begun
    <2>2. g \notin Load(a)'
        BY <1>2, <1>3, <1>4 DEF Load, Counted
    <2>3. \A h \in Goals : h # g => (h \in Load(a)' <=> h \in Load(a))
        BY <1>1, <1>2, <1>3 DEF Load, Counted
    <2> QED
        BY <2>1, <2>2, <2>3 DEF Load
<1>9. Counts'
    BY <1>2, <1>8, LoadStays DEF LInv
<1> QED
    BY <1>5, <1>6, <1>7, <1>9 DEF LInv

\* A direct assignment opens no window, every other goal gets its own.
LEMMA AnnounceLoad ==
    ASSUME AInv, LInv, NEW g \in Goals, Announce(g)
    PROVE  LInv'
<1>1. pub[g] = "adding" /\ UNCHANGED <<claim, count, opening, early>>
    BY DEF Announce
<1>2. CASE goal[g].direct
    <2>1. /\ pub' = [pub EXCEPT ![g] = "assigning"] /\ window' = window
          /\ goal' = [goal EXCEPT ![g].st = "in_progress"]
        BY <1>2 DEF Announce
    <2>2. pub'[g] = "assigning" /\ \A h \in Goals : h # g => pub'[h] = pub[h]
        BY <2>1 DEF LInv, Calls
    <2>3. OneGoal(g) /\ goal'[g].st = "in_progress" /\ goal'[g].who = goal[g].who
        BY <2>1, SetStatus
    <2>4. \A h \in Goals : /\ goal'[h].direct = goal[h].direct /\ goal'[h].who = goal[h].who
                           /\ h # g => goal'[h].st = goal[h].st
        BY <2>3 DEF OneGoal
    <2>5. Calls'
        BY <1>1, <2>1 DEF LInv, Calls
    <2>6. claim[g] = "no" /\ goal[g].who \in Agents /\ g \notin window \cup opening
        BY <1>2 DEF LInv, Stages, Stage, Calls
    <2>7. Stages'
        <3>1. Stage(g)'
            BY <1>1, <1>2, <2>1, <2>2, <2>3, <2>4, <2>6 DEF Stage, Begun
        <3>2. \A h \in Goals : h # g => Stage(h)'
            BY <1>1, <2>1, <2>2, <2>4 DEF LInv, Stages, Stage
        <3> QED
            BY <3>1, <3>2 DEF Stages
    <2>8. Attended'
        BY <1>1, <2>1, <2>2, <2>3, <2>4 DEF LInv, Attended
    <2>9. \A a \in Agents : Load(a)' = Load(a)
        <3> SUFFICES ASSUME NEW a \in Agents PROVE Load(a)' = Load(a)
            OBVIOUS
        <3>1. g \notin Load(a) /\ g \notin Load(a)'
            BY <1>1, <2>2, <2>6 DEF Load, Counted
        <3>2. \A h \in Goals : h # g => (h \in Load(a)' <=> h \in Load(a))
            BY <1>1, <2>2, <2>4 DEF Load, Counted
        <3> QED
            BY <3>1, <3>2 DEF Load
    <2> QED
        BY <1>1, <2>5, <2>7, <2>8, <2>9, LoadStays DEF LInv
<1>3. CASE ~goal[g].direct
    <2>1. pub' = [pub EXCEPT ![g] = "yes"] /\ window' = window \cup {g} /\ goal' = goal
        BY <1>3 DEF Announce
    <2>2. pub'[g] = "yes" /\ \A h \in Goals : h # g => pub'[h] = pub[h]
        BY <2>1 DEF LInv, Calls
    <2>3. Calls'
        BY <1>1, <2>1 DEF LInv, Calls
    <2>4. Stages'
        BY <1>1, <1>3, <2>1, <2>2 DEF LInv, Stages, Stage
    <2>5. Attended'
        BY <1>1, <2>1, <2>2 DEF LInv, Attended
    <2>6. \A a \in Agents : Load(a)' = Load(a)
        BY <1>1, <1>3, <2>1, <2>2 DEF Load, Counted
    <2> QED
        BY <1>1, <2>3, <2>4, <2>5, <2>6, LoadStays DEF LInv
<1> QED
    BY <1>2, <1>3

\* The agent of a direct assignment is counted when the goal becomes its load.
LEMMA AssignedLoad ==
    ASSUME AInv, LInv, NEW g \in Goals, Assigned(g)
    PROVE  LInv'
<1>1. /\ pub[g] = "assigning" /\ pub' = [pub EXCEPT ![g] = "yes"]
      /\ count' = [count EXCEPT ![goal[g].who] = @ + 1]
      /\ UNCHANGED <<goal, claim, window, opening, early>>
    BY DEF Assigned
<1>2. pub'[g] = "yes" /\ \A h \in Goals : h # g => pub'[h] = pub[h]
    BY <1>1 DEF LInv, Calls
<1>3. /\ goal[g].direct /\ goal[g].who \in Agents /\ claim[g] = "no"
      /\ goal[g].st = "in_progress" \/ g \in early
    BY <1>1 DEF LInv, Stages, Stage, Calls
<1>4. PICK w \in Agents : w = goal[g].who
    BY <1>3
<1>5. Calls'
    BY <1>1 DEF LInv, Calls
<1>6. Stages'
    BY <1>1, <1>2, <1>3 DEF LInv, Stages, Stage
<1>7. Attended'
    BY <1>1, <1>2 DEF LInv, Attended
<1>8. g \notin Load(w)
    BY <1>1, <1>3 DEF Load, Counted
<1>9. Load(w)' = Load(w) \cup {g}
    BY <1>1, <1>2, <1>3, <1>4 DEF Load, Counted
<1>10. \A a \in Agents : a # w => Load(a)' = Load(a)
    BY <1>1, <1>2, <1>4 DEF Load, Counted
<1>11. Counts'
    BY <1>1, <1>4, <1>8, <1>9, <1>10, LoadGrows DEF LInv
<1> QED
    BY <1>5, <1>6, <1>7, <1>11 DEF LInv

\* The winner is counted when the claim's write has ended.
LEMMA ClaimSavedLoad ==
    ASSUME AInv, LInv, NEW g \in Goals, ClaimSaved(g)
    PROVE  LInv'
<1>1. /\ claim[g] = "saving" /\ claim' = [claim EXCEPT ![g] = "telling"]
      /\ count' = [count EXCEPT ![goal[g].who] = @ + 1]
      /\ UNCHANGED <<goal, pub, window, opening, early>>
    BY DEF ClaimSaved
<1>2. claim'[g] = "telling" /\ \A h \in Goals : h # g => claim'[h] = claim[h]
    BY <1>1 DEF LInv, Calls
<1>3. /\ ~goal[g].direct /\ goal[g].who \in Agents
      /\ goal[g].st = "in_progress" \/ g \in early
    BY <1>1 DEF LInv, Stages, Stage
<1>4. PICK w \in Agents : w = goal[g].who
    BY <1>3
<1>5. Calls'
    BY <1>1 DEF LInv, Calls
<1>6. Stages'
    BY <1>1, <1>2, <1>3 DEF LInv, Stages, Stage
<1>7. Attended'
    BY <1>1, <1>2 DEF LInv, Attended
<1>8. g \notin Load(w)
    BY <1>1, <1>3 DEF Load, Counted
<1>9. Load(w)' = Load(w) \cup {g}
    BY <1>1, <1>2, <1>3, <1>4 DEF Load, Counted
<1>10. \A a \in Agents : a # w => Load(a)' = Load(a)
    BY <1>1, <1>2, <1>4 DEF Load, Counted
<1>11. Counts'
    BY <1>1, <1>4, <1>8, <1>9, <1>10, LoadGrows DEF LInv
<1> QED
    BY <1>5, <1>6, <1>7, <1>11 DEF LInv

LEMMA ClaimToldLoad ==
    ASSUME AInv, LInv, NEW g \in Goals, ClaimTold(g)
    PROVE  LInv'
<1>1. /\ claim[g] = "telling" /\ claim' = [claim EXCEPT ![g] = "told"]
      /\ window' = window \ {g} /\ UNCHANGED <<goal, pub, count, opening, early>>
    BY DEF ClaimTold
<1>2. claim'[g] = "told" /\ \A h \in Goals : h # g => claim'[h] = claim[h]
    BY <1>1 DEF LInv, Calls
<1>3. goal[g].st # "pending"
    BY <1>1 DEF LInv, Stages, Stage, Begun
<1>4. Calls'
    BY <1>1 DEF LInv, Calls
<1>5. Stages'
    BY <1>1, <1>2 DEF LInv, Stages, Stage
<1>6. Attended'
    BY <1>1, <1>3 DEF LInv, Attended
<1>7. \A a \in Agents : Load(a)' = Load(a)
    BY <1>1, <1>2 DEF Load, Counted
<1> QED
    BY <1>1, <1>4, <1>5, <1>6, <1>7, LoadStays DEF LInv

\* The award: not counted yet, and no window needed any more.
LEMMA AwardLoad ==
    ASSUME AInv, LInv, NEW g \in Goals, NEW a \in Agents, MayClaim(g), Award(g, a),
           window' = window \ {g}, UNCHANGED <<pub, count, opening, early>>
    PROVE  LInv'
<1>1. /\ goal[g].st = "pending" /\ claim' = [claim EXCEPT ![g] = "saving"]
      /\ goal' = [goal EXCEPT ![g].st = "in_progress", ![g].who = a]
    BY DEF MayClaim, Award
<1>2. claim'[g] = "saving" /\ \A h \in Goals : h # g => claim'[h] = claim[h]
    BY <1>1 DEF LInv, Calls
<1>3. OneGoal(g) /\ goal'[g].st = "in_progress" /\ goal'[g].who = a
    BY <1>1, SetOwner
<1>4. \A h \in Goals : /\ goal'[h].direct = goal[h].direct
                       /\ h # g => goal'[h].st = goal[h].st /\ goal'[h].who = goal[h].who
    BY <1>3 DEF OneGoal
<1>5. ~goal[g].direct
    BY <1>1 DEF LInv, Stages, Stage, Begun
<1>6. Calls'
    BY <1>1 DEF LInv, Calls
<1>7. Stages'
    <2>1. Stage(g)'
        BY <1>1, <1>2, <1>3, <1>4, <1>5 DEF LInv, Stages, Stage, Begun
    <2>2. \A h \in Goals : h # g => Stage(h)'
        BY <1>2, <1>4 DEF LInv, Stages, Stage
    <2> QED
        BY <2>1, <2>2 DEF Stages
<1>8. Attended'
    BY <1>3, <1>4 DEF LInv, Attended
<1>9. ASSUME NEW b \in Agents PROVE Load(b)' = Load(b)
    <2>1. g \notin Load(b)
        BY <1>1, <1>5 DEF Load, Counted, LInv, Stages, Stage, Begun
    <2>2. g \notin Load(b)'
        BY <1>2, <1>4, <1>5 DEF Load, Counted
    <2>3. ASSUME NEW h \in Goals, h # g PROVE h \in Load(b)' <=> h \in Load(b)
        <3>1. /\ goal'[h].st = goal[h].st /\ goal'[h].who = goal[h].who
              /\ goal'[h].direct = goal[h].direct /\ claim'[h] = claim[h] /\ pub' = pub
            BY <1>2, <1>4, <2>3
        <3> QED
            BY <3>1 DEF Load, Counted
    <2> QED
        BY <2>1, <2>2, <2>3 DEF Load
<1> QED
    BY <1>6, <1>7, <1>8, <1>9, LoadStays DEF LInv

\* The owner's count goes down and its load stays.
LEMMA LoadLess ==
    ASSUME Counts, NEW w \in Agents \cup {Nobody}, count' = Less(w),
           \A a \in Agents : Load(a)' = Load(a)
    PROVE  Counts'
<1>1. \A a \in Agents : count'[a] \in Nat /\ count'[a] <= count[a]
    BY DEF Counts, Less
<1>2. count' \in [Agents -> Nat]
    BY <1>1 DEF Counts, Less
<1>3. ASSUME NEW a \in Agents PROVE count'[a] <= Cardinality(Load(a)')
    <2>1. count[a] \in Nat /\ count[a] <= Cardinality(Load(a))
        BY DEF Counts, NoPhantomLoad
    <2>2. Cardinality(Load(a)) \in Nat
        BY LoadFinite
    <2>3. Cardinality(Load(a)') = Cardinality(Load(a))
        OBVIOUS
    <2> QED
        BY <1>1, <2>1, <2>2, <2>3
<1> QED
    BY <1>2, <1>3 DEF Counts, NoPhantomLoad

\* complete(), fail() and a goal nobody bids for: a goal that ends leaves the
\* load it is counted in, unless it was reported before.
LEMMA EndLoad ==
    ASSUME AInv, LInv, NEW g \in Goals, OneGoal(g), goal'[g].st \in {"done", "failed"},
           goal'[g].who = goal[g].who, window' = window \ {g}, count' = Less(goal[g].who),
           UNCHANGED <<pub, claim, opening>>, goal[g].st # "none",
           \/ early' = early /\ claim[g] # "saving" /\ (goal[g].direct => pub[g] = "yes")
           \/ early' = early \cup {g} /\ ~Counted(g)
    PROVE  LInv'
<1>1. \A h \in Goals : /\ goal'[h].direct = goal[h].direct /\ goal'[h].who = goal[h].who
                       /\ h # g => goal'[h].st = goal[h].st
    BY DEF OneGoal
<1>2. Calls'
    BY DEF LInv, Calls
<1>3. Stages'
    <2>1. Stage(g)'
        BY <1>1 DEF LInv, Stages, Stage, Begun
    <2>2. \A h \in Goals : h # g => Stage(h)'
        BY <1>1 DEF LInv, Stages, Stage
    <2> QED
        BY <2>1, <2>2 DEF Stages
<1>4. Attended'
    BY <1>1 DEF LInv, Attended
<1>5. PICK w \in Agents \cup {Nobody} : w = goal[g].who
    BY DEF AInv, GoalNode
<1>6. \A a \in Agents, h \in Goals : h # g => (h \in Load(a)' <=> h \in Load(a))
    BY <1>1 DEF Load, Counted
<1>7. Counts'
    <2>1. CASE Counted(g) /\ g \in early
        <3>1. \A a \in Agents : g \in Load(a)' <=> g \in Load(a)
            BY <1>1, <2>1 DEF Load, Counted
        <3>2. \A a \in Agents : Load(a)' = Load(a)
            BY <1>6, <3>1 DEF Load
        <3> QED
            BY <1>5, <3>2, LoadLess DEF LInv
    <2>2. CASE ~(Counted(g) /\ g \in early)
        <3>1. \A a \in Agents : g \notin Load(a)'
            BY <1>1, <2>2 DEF Load, Counted
        <3>2. \A a \in Agents : Load(a)' = Load(a) \ {g}
            BY <1>6, <3>1 DEF Load
        <3> QED
            BY <1>5, <3>2, LoadShrinks DEF LInv
    <2> QED
        BY <2>1, <2>2
<1> QED
    BY <1>2, <1>3, <1>4, <1>7 DEF LInv

LEMMA ReportLoad ==
    ASSUME AInv, LInv, NEW g \in Goals, Complete(g) \/ Fail(g)
    PROVE  LInv'
<1>1. /\ goal' = [goal EXCEPT ![g].st = "done"] \/ goal' = [goal EXCEPT ![g].st = "failed"]
      /\ window' = window \ {g} /\ count' = Less(goal[g].who)
      /\ UNCHANGED <<pub, claim, opening>>
    BY DEF Complete, Fail, FailGoal, Forget
<1>2. /\ goal[g].who # Nobody
      /\ IF Counted(g) THEN early' = early ELSE early' = early \cup {g}
    BY DEF Complete, Fail, MayReport
<1>3. goal[g].st # "none"
    BY <1>2 DEF AInv, Unowned
<1>4. Counted(g) => claim[g] # "saving" /\ (goal[g].direct => pub[g] = "yes")
    BY DEF Counted, LInv, Stages, Stage
<1>5. OneGoal(g) /\ goal'[g].st \in {"done", "failed"} /\ goal'[g].who = goal[g].who
    BY <1>1, SetStatus
<1> QED
    BY <1>1, <1>2, <1>3, <1>4, <1>5, EndLoad

LEMMA NoBidsLoad ==
    ASSUME AInv, LInv, NEW g \in Goals, NoBids(g)
    PROVE  LInv'
<1>1. g \in window /\ claim[g] \in {"no", "told"} /\ UNCHANGED <<pub, claim, opening, early>>
    BY DEF NoBids, Ends
<1>2. CASE FailGoal(g)
    <2>1. /\ goal' = [goal EXCEPT ![g].st = "failed"] /\ window' = window \ {g}
          /\ count' = Less(goal[g].who)
        BY <1>2 DEF FailGoal, Forget
    <2>2. claim[g] # "saving" /\ ~goal[g].direct /\ goal[g].st # "none"
        BY <1>1 DEF LInv, Stages, Stage
    <2>3. OneGoal(g) /\ goal'[g].st \in {"done", "failed"} /\ goal'[g].who = goal[g].who
        BY <2>1, SetStatus
    <2> QED
        BY <1>1, <2>1, <2>2, <2>3, EndLoad
<1>3. CASE UNCHANGED <<goal, window, bids, count>>
    BY <1>1, <1>3, IdleOK
<1> QED
    BY <1>2, <1>3 DEF NoBids

\* A goal that is unblocked is about to get its window.
LEMMA VisitLoad ==
    ASSUME AInv, LInv, NEW g \in Goals, NEW c \in Goals, Visit(g, c)
    PROVE  LInv'
<1>1. UNCHANGED <<pub, claim, count, window, early>>
    BY DEF Visit
<1>2. CASE ~Frees(c)
    <2>1. UNCHANGED <<goal, opening>>
        BY <1>2 DEF Visit
    <2> QED
        BY <1>1, <2>1, IdleOK
<1>3. CASE Frees(c)
    <2>1. /\ goal' = [goal EXCEPT ![c].st = "pending"] /\ opening' = opening \cup {c}
          /\ goal[c].st = "blocked"
        BY <1>3 DEF Visit, Frees
    <2>2. OneGoal(c) /\ goal'[c].st = "pending" /\ goal'[c].who = goal[c].who
        BY <2>1, SetStatus
    <2>3. \A h \in Goals : /\ goal'[h].direct = goal[h].direct /\ goal'[h].who = goal[h].who
                           /\ h # c => goal'[h].st = goal[h].st
        BY <2>2 DEF OneGoal
    <2>4. claim[c] = "no" /\ ~goal[c].direct
        BY <2>1 DEF LInv, Stages, Stage, Begun
    <2>5. Calls'
        BY <1>1 DEF LInv, Calls
    <2>6. Stage(c)'
        BY <1>1, <2>1, <2>2, <2>3, <2>4 DEF LInv, Stages, Stage
    <2>7. \A h \in Goals : h # c => Stage(h)'
        BY <1>1, <2>1, <2>3 DEF LInv, Stages, Stage
    <2>8. Attended'
        BY <1>1, <2>1, <2>3 DEF LInv, Attended
    <2>9. \A a \in Agents : Load(a)' = Load(a)
        <3> SUFFICES ASSUME NEW a \in Agents PROVE Load(a)' = Load(a)
            OBVIOUS
        <3>1. c \notin Load(a) /\ c \notin Load(a)'
            BY <1>1, <2>3, <2>4 DEF Load, Counted
        <3>2. \A h \in Goals : h # c => (h \in Load(a)' <=> h \in Load(a))
            BY <1>1, <2>3 DEF Load, Counted
        <3> QED
            BY <3>1, <3>2 DEF Load
    <2> QED
        BY <1>1, <2>5, <2>6, <2>7, <2>8, <2>9, LoadStays DEF LInv, Stages
<1> QED
    BY <1>2, <1>3

LEMMA StepLInv ==
    ASSUME AInv, Named, LInv, [Next]_vars
    PROVE  LInv'
<1>1. ASSUME NEW g \in Goals, NEW who \in Workers \cup {Nobody},
             NEW deps \in SUBSET (1..(g - 1)), Publish(g, deps, who)
      PROVE  LInv'
    BY <1>1, PublishLoad
<1>2. ASSUME NEW g \in Goals, NEW b \in unlinked[g], Link(g, b)
      PROVE  LInv'
    <2>1. /\ goal' = [goal EXCEPT ![b].children = @ \cup {g}]
          /\ UNCHANGED <<window, opening, pub, claim, count, early>>
        BY <1>2 DEF Link
    <2>2. \A h \in Goals : /\ goal'[h].st = goal[h].st /\ goal'[h].who = goal[h].who
                           /\ goal'[h].direct = goal[h].direct
        BY <2>1 DEF AInv, GoalNode
    <2> QED
        BY <2>1, <2>2, IdleOK
<1>3. ASSUME NEW g \in Goals, Announce(g) \/ Assigned(g) \/ ClaimSaved(g) \/ ClaimTold(g)
      PROVE  LInv'
    BY <1>3, AnnounceLoad, AssignedLoad, ClaimSavedLoad, ClaimToldLoad
<1>4. ASSUME NEW g \in Goals, NEW a \in Bidders, Bid(g, a)
      PROVE  LInv'
    BY <1>4, IdleOK DEF Bid
<1>5. ASSUME NEW g \in Goals, NEW a \in Bidders, Wins(g, a)
      PROVE  LInv'
    <2>1. window' = window \ {g} /\ UNCHANGED <<pub, count, opening, early>> /\ a \in Agents
        BY <1>5 DEF Wins, Agents
    <2>2. CASE MayClaim(g)
        <3>1. Award(g, a)
            BY <1>5, <2>2 DEF Wins
        <3> QED
            BY <2>1, <2>2, <3>1, AwardLoad
    <2>3. CASE ~MayClaim(g)
        <3>1. UNCHANGED <<goal, claim>> /\ goal[g].st # "pending"
            BY <1>5, <2>3 DEF Wins, MayClaim
        <3> QED
            BY <2>1, <3>1, IdleOK
    <2> QED
        BY <2>2, <2>3
<1>6. ASSUME NEW g \in Goals, NEW a \in Bidders, NEW ok \in BOOLEAN, BidScored(g, a, ok)
      PROVE  LInv'
    BY <1>6, IdleOK DEF BidScored
<1>7. ASSUME NEW g \in Direct, NEW a \in Workers, Dispatch(g, a) \/ ClaimFor(g, a)
      PROVE  LInv'
    <2>1. g \in Goals /\ a \in Agents /\ UNCHANGED <<pub, count, opening, early>>
        BY <1>7, AuctionAssumption DEF Agents, Goals, Dispatch, ClaimFor
    <2>2. CASE UNCHANGED <<goal, claim, window>>
        BY <2>1, <2>2, IdleOK
    <2>3. CASE MayClaim(g) /\ Award(g, a) /\ window' = window \ {g}
        BY <2>1, <2>3, AwardLoad
    <2> QED
        BY <1>7, <2>2, <2>3 DEF Dispatch, ClaimFor
<1>8. ASSUME NEW g \in Goals, Complete(g) \/ Fail(g)
      PROVE  LInv'
    BY <1>8, ReportLoad
<1>9. ASSUME NEW g \in Goals, NoBids(g)
      PROVE  LInv'
    BY <1>9, NoBidsLoad
<1>10. ASSUME NEW g \in Goals, Open(g)
       PROVE  LInv'
    <2>1. /\ g \in opening /\ opening' = opening \ {g} /\ window' = window \cup {g}
          /\ UNCHANGED <<goal, pub, claim, count, early>>
        BY <1>10 DEF Open
    <2> QED
        BY <2>1, IdleOK
<1>11. ASSUME NEW g \in Goals, NEW c \in walk[g], Visit(g, c)
       PROVE  LInv'
    <2>1. c \in Goals
        BY DEF Named
    <2> QED
        BY <1>11, <2>1, VisitLoad
<1>12. CASE Rest \/ UNCHANGED vars
    BY <1>12, IdleOK DEF Rest, vars
<1> QED
    BY <1>1, <1>2, <1>3, <1>4, <1>5, <1>6, <1>7, <1>8, <1>9, <1>10, <1>11, <1>12 DEF Next

LEMMA InitLInv == Init => LInv
<1> SUFFICES ASSUME Init PROVE LInv
    OBVIOUS
<1>1. \A g \in Goals : /\ goal[g].st = "none" /\ ~goal[g].direct
                       /\ claim[g] = "no" /\ pub[g] = "no"
    BY DEF Init, NoGoal
<1>2. Calls /\ Stages /\ Attended
    BY <1>1 DEF Init, Calls, Stages, Stage, Attended
<1>3. \A a \in Agents : count[a] = 0 /\ Cardinality(Load(a)) \in Nat
    BY LoadFinite DEF Init
<1>4. Counts
    BY <1>3 DEF Init, Counts, NoPhantomLoad
<1> QED
    BY <1>2, <1>4 DEF LInv

LEMMA LoadInductive == Spec => []LInv
<1>1. AInv /\ Named /\ LInv /\ [Next]_vars => LInv'
    BY StepLInv
<1> QED
    BY <1>1, InitLInv, AuctionInductive, PTL DEF Spec

\* Where _processGoal() stands, and whose the goal is that it is claiming.
Hired ==
    /\ hire \in [Goals -> [Workers -> {"no", "spawning", "claiming", "assigned"}]]
    /\ \A g \in Goals, a \in Workers : hire[g][a] = "claiming" => goal[g].who = a

\* One entry of the table changes.
LEMMA HireOne ==
    ASSUME Hired, NEW g \in Goals, NEW a \in Workers,
           NEW s \in {"no", "spawning", "claiming", "assigned"}, hire' = [hire EXCEPT ![g][a] = s]
    PROVE  /\ hire' \in [Goals -> [Workers -> {"no", "spawning", "claiming", "assigned"}]]
           /\ \A h \in Goals, b \in Workers :
                 hire'[h][b] = IF h = g /\ b = a THEN s ELSE hire[h][b]
BY DEF Hired

LEMMA StepHired ==
    ASSUME AInv, Named, Hired, [Next]_vars
    PROVE  Hired'
<1>1. \A g \in Goals : goal[g].who # Nobody => goal'[g].who = goal[g].who
    BY StepAInv DEF Keeps
<1>2. \A a \in Workers : a # Nobody
    BY AuctionAssumption
<1>3. CASE UNCHANGED hire
    BY <1>1, <1>2, <1>3 DEF Hired
<1>4. ASSUME NEW g \in Direct, NEW a \in Workers, Dispatch(g, a)
      PROVE  Hired'
    <2>1. g \in Goals /\ hire' = [hire EXCEPT ![g][a] = "spawning"]
        BY <1>4, AuctionAssumption DEF Dispatch, Goals
    <2> QED
        BY <1>1, <1>2, <2>1, HireOne DEF Hired
<1>5. ASSUME NEW g \in Direct, NEW a \in Workers, ClaimFor(g, a)
      PROVE  Hired'
    <2>1. g \in Goals
        BY AuctionAssumption DEF Goals
    <2>2. CASE MayClaim(g)
        <3>1. Award(g, a) /\ hire' = [hire EXCEPT ![g][a] = "claiming"]
            BY <1>5, <2>2 DEF ClaimFor
        <3>2. goal'[g].who = a
            BY <2>1, <3>1, SetOwner DEF Award, Agents
        <3> QED
            BY <1>1, <1>2, <2>1, <3>1, <3>2, HireOne DEF Hired
    <2>3. CASE ~MayClaim(g)
        <3>1. hire' = [hire EXCEPT ![g][a] = "assigned"]
            BY <1>5, <2>3 DEF ClaimFor
        <3> QED
            BY <1>1, <1>2, <2>1, <3>1, HireOne DEF Hired
    <2> QED
        BY <2>2, <2>3
<1>6. ASSUME NEW g \in Goals, ClaimTold(g)
      PROVE  Hired'
    <2>1. hire' = [hire EXCEPT ![g] = [a \in Workers |-> IF @[a] = "claiming" THEN "assigned"
                                                        ELSE @[a]]]
        BY <1>6 DEF ClaimTold
    <2>2. \A h \in Goals, b \in Workers :
             /\ hire'[h][b] \in {"no", "spawning", "claiming", "assigned"}
             /\ hire'[h][b] = "claiming" => hire[h][b] = "claiming"
        BY <2>1 DEF Hired
    <2>3. hire' \in [Goals -> [Workers -> {"no", "spawning", "claiming", "assigned"}]]
        BY <2>1 DEF Hired
    <2> QED
        BY <1>1, <1>2, <2>2, <2>3 DEF Hired
<1>7. ASSUME NEW g \in Goals, NEW who \in Workers \cup {Nobody},
             NEW deps \in SUBSET (1..(g - 1)), Publish(g, deps, who)
      PROVE  UNCHANGED hire
    BY <1>7 DEF Publish
<1>8. ASSUME NEW g \in Goals, NEW b \in unlinked[g], Link(g, b)
      PROVE  UNCHANGED hire
    BY <1>8 DEF Link
<1>9. ASSUME NEW g \in Goals, Announce(g) \/ Assigned(g) \/ ClaimSaved(g)
      PROVE  UNCHANGED hire
    BY <1>9 DEF Announce, Assigned, ClaimSaved
<1>10. ASSUME NEW g \in Goals, NEW a \in Bidders, Bid(g, a) \/ Wins(g, a)
       PROVE  UNCHANGED hire
    BY <1>10 DEF Bid, Wins
<1>11. ASSUME NEW g \in Goals, NEW a \in Bidders, NEW ok \in BOOLEAN, BidScored(g, a, ok)
       PROVE  UNCHANGED hire
    BY <1>11 DEF BidScored
<1>12. ASSUME NEW g \in Goals, Complete(g) \/ Fail(g) \/ NoBids(g) \/ Open(g)
       PROVE  UNCHANGED hire
    BY <1>12 DEF Complete, Fail, NoBids, Open
<1>13. ASSUME NEW g \in Goals, NEW c \in walk[g], Visit(g, c)
       PROVE  UNCHANGED hire
    BY <1>13 DEF Visit
<1>14. CASE Rest \/ UNCHANGED vars
    BY <1>3, <1>14 DEF Rest, vars
<1> QED
    BY <1>3, <1>4, <1>5, <1>6, <1>7, <1>8, <1>9, <1>10, <1>11, <1>12, <1>13, <1>14 DEF Next

LEMMA HiredInductive == Spec => []Hired
<1>1. Init => Hired
    BY DEF Init, Hired
<1>2. AInv /\ Named /\ Hired /\ [Next]_vars => Hired'
    BY StepHired
<1> QED
    BY <1>1, <1>2, AuctionInductive, PTL DEF Spec

\* claim() checks the status and writes it in one step, so that neither a window
\* that ends, nor a claim for a subagent that was being spawned when the goal was
\* taken, nor a report, early or late, gives a goal that has an owner to another,
\* however the writes of the graph interleave.
THEOREM OwnerKept == Spec => NeverReassigned
<1>1. AInv /\ Named /\ Hired /\ [Next]_vars
         => [\A g \in Goals :
               /\ goal[g].who # Nobody => goal'[g].who = goal[g].who
               /\ \A a \in Workers : hire'[g][a] = "claiming" => goal'[g].who = a]_vars
    BY StepAInv, StepHired DEF Keeps, Hired
<1> QED
    BY <1>1, AuctionInductive, HiredInductive, PTL DEF Spec, NeverReassigned

\* publishTask() and complete() make a goal biddable only over blockers that are
\* done, and nothing but a bid or a claim on a biddable goal gives it an owner:
\* whatever is won was earned, although a blocker may be reported failed later.
THEOREM BlockersFirst == Spec => []WorkedInOrder
<1>1. AInv => WorkedInOrder
    BY DEF AInv
<1> QED
    BY <1>1, AuctionInductive, PTL

\* The auctioneer's maps and timers.
Tables ==
    /\ window \subseteq Goals /\ opening \subseteq Goals /\ everDone \subseteq Goals
    /\ bids \in [Goals -> SUBSET Bidders] /\ bidding \subseteq Goals \X Bidders
    /\ tries \in [Goals -> 0..MaxBidRetries]
    /\ reports \in [Goals -> 0..2] /\ early \subseteq Goals

LEMMA ForgetTables ==
    ASSUME Tables, NEW g \in Goals, Forget(g)
    PROVE  /\ window' \subseteq Goals /\ bids' \in [Goals -> SUBSET Bidders]
           /\ tries' \in [Goals -> 0..MaxBidRetries]
BY AuctionAssumption DEF Tables, Forget

LEMMA StepTables ==
    ASSUME Tables, Named, [Next]_vars
    PROVE  Tables'
<1>1. CASE UNCHANGED <<window, opening, everDone, bids, bidding, tries, reports,
                      early>>
    BY <1>1 DEF Tables
<1>2. ASSUME NEW g \in Goals, NEW who \in Workers \cup {Nobody},
             NEW deps \in SUBSET (1..(g - 1)), Publish(g, deps, who)
      PROVE  Tables'
    BY <1>1, <1>2 DEF Publish
<1>3. ASSUME NEW g \in Goals, NEW b \in unlinked[g], Link(g, b)
      PROVE  Tables'
    BY <1>1, <1>3 DEF Link
<1>4. ASSUME NEW g \in Goals, Announce(g) \/ Assigned(g) \/ ClaimSaved(g) \/ ClaimTold(g)
      PROVE  Tables'
    BY <1>4 DEF Announce, Assigned, ClaimSaved, ClaimTold, Tables
<1>5. ASSUME NEW g \in Goals, NEW a \in Bidders, Bid(g, a) \/ Wins(g, a)
      PROVE  Tables'
    BY <1>5 DEF Bid, Wins, Tables
<1>6. ASSUME NEW g \in Goals, NEW a \in Bidders, NEW ok \in BOOLEAN, BidScored(g, a, ok)
      PROVE  Tables'
    BY <1>6 DEF BidScored, Tables
<1>7. ASSUME NEW g \in Direct, NEW a \in Workers, Dispatch(g, a) \/ ClaimFor(g, a)
      PROVE  Tables'
    BY <1>7 DEF Dispatch, ClaimFor, Tables
<1>8. ASSUME NEW g \in Goals, Complete(g) \/ Fail(g)
      PROVE  Tables'
    <2>1. Forget(g) /\ MayReport(g)
        BY <1>8 DEF Complete, Fail, FailGoal
    <2>2. reports' \in [Goals -> 0..2] /\ early' \subseteq Goals
        <3>1. CASE Counted(g)
            <4>1. reports[g] \in 0..2 /\ reports[g] < 2
                BY <2>1, <3>1 DEF MayReport, Tables
            <4>2. reports' = [reports EXCEPT ![g] = @ + 1] /\ reports[g] + 1 \in 0..2
                BY <2>1, <3>1, <4>1 DEF MayReport
            <4> QED
                BY <2>1, <3>1, <4>2 DEF MayReport, Tables
        <3>2. CASE ~Counted(g)
            BY <2>1, <3>2 DEF MayReport, Tables
        <3> QED
            BY <3>1, <3>2
    <2>3. opening' \subseteq Goals /\ everDone' \subseteq Goals /\ bidding' \subseteq Goals \X Bidders
        BY <1>8 DEF Complete, Fail, Tables
    <2> QED
        BY <2>1, <2>2, <2>3, ForgetTables DEF Tables
<1>9. ASSUME NEW g \in Goals, NoBids(g)
      PROVE  Tables'
    <2>1. UNCHANGED <<bidding, opening, reports, early, everDone>>
        BY <1>9 DEF NoBids
    <2>2. CASE FailGoal(g)
        BY <2>1, <2>2, ForgetTables DEF FailGoal, Tables
    <2>3. CASE ~FailGoal(g)
        <3>1. /\ ~ (tries[g] + 1 >= MaxBidRetries) /\ tries' = [tries EXCEPT ![g] = @ + 1]
              /\ UNCHANGED <<window, bids>>
            BY <1>9, <2>3 DEF NoBids
        <3>2. tries[g] + 1 \in 0..MaxBidRetries
            BY <3>1, AuctionAssumption DEF Tables
        <3>3. tries' \in [Goals -> 0..MaxBidRetries]
            BY <3>1, <3>2 DEF Tables
        <3> QED
            BY <2>1, <3>1, <3>3 DEF Tables
    <2> QED
        BY <2>2, <2>3
<1>10. ASSUME NEW g \in Goals, Open(g)
       PROVE  Tables'
    BY <1>10 DEF Open, Tables
<1>11. ASSUME NEW g \in Goals, NEW c \in walk[g], Visit(g, c)
       PROVE  Tables'
    <2>1. c \in Goals
        BY DEF Named
    <2> QED
        BY <1>11, <2>1 DEF Visit, Tables
<1>12. CASE Rest \/ UNCHANGED vars
    BY <1>1, <1>12 DEF Rest, vars
<1> QED
    BY <1>1, <1>2, <1>3, <1>4, <1>5, <1>6, <1>7, <1>8, <1>9, <1>10, <1>11, <1>12 DEF Next

\* The types of the auctioneer's state; an agent's count is never negative and
\* never above the number of goals, whatever is reported twice.
THEOREM AuctionTypeCorrect == Spec => []AuctionTypeOK
<1>1. Init => Tables
    BY AuctionAssumption DEF Init, Tables
<1>2. Tables /\ Named /\ [Next]_vars => Tables'
    BY StepTables
<1>3. AInv /\ Named /\ LInv /\ Tables /\ Hired => AuctionTypeOK
    <2> SUFFICES ASSUME AInv, Named, LInv, Tables, Hired PROVE AuctionTypeOK
        OBVIOUS
    <2>1. \A a \in Agents : count[a] \in 0..NumGoals
        <3> SUFFICES ASSUME NEW a \in Agents PROVE count[a] \in 0..NumGoals
            OBVIOUS
        <3>1. count[a] \in Nat /\ count[a] <= Cardinality(Load(a))
            BY DEF LInv, Counts, NoPhantomLoad
        <3>2. Cardinality(Load(a)) \in Nat /\ Cardinality(Load(a)) <= NumGoals
            BY LoadFinite
        <3> QED
            BY <3>1, <3>2, AuctionAssumption
    <2>2. count \in [Agents -> 0..NumGoals]
        BY <2>1 DEF LInv, Counts
    <2> QED
        BY <2>2 DEF AuctionTypeOK, AInv, GoalNode, Named, LInv, Calls, Tables, Hired
<1> QED
    BY <1>1, <1>2, <1>3, AuctionInductive, LoadInductive, HiredInductive, PTL DEF Spec

\* A goal that may be bid for is never left without a window: publishTask(),
\* complete() and claim() hand it on to one another without a gap.
THEOREM PendingAttended == Spec => []Attended
<1>1. LInv => Attended
    BY DEF LInv
<1> QED
    BY <1>1, LoadInductive, PTL

\* agentTaskCounts never exceeds what the agent works on, although the count goes
\* up and down in calls other than those that change the status and a goal may be
\* reported twice, except by the goals that were reported before they were
\* counted: the terminations that _onSubagentTerminated() gets during an award.
THEOREM LoadIsReal == Spec => []NoPhantomLoad
<1>1. LInv => NoPhantomLoad
    BY DEF LInv, Counts
<1> QED
    BY <1>1, LoadInductive, PTL

=============================================================================
