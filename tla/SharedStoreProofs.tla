------------------------- MODULE SharedStoreProofs -------------------------
(***************************************************************************)
(* What the file lock and the stores over it guarantee for any set of        *)
(* callers, as long as nobody holds the lock beyond staleMs: two callers may *)
(* be killed, fail to stamp a lock file and take each other's over; of more  *)
(* than two, nobody may leave a lock file behind, since three break the      *)
(* takeover (the run store_takeover).                                        *)
(***************************************************************************)
EXTENDS SharedStore, TLAPS

\* Nobody holds the lock beyond staleMs, and a failing read is an error.
Orderly == MayStall = {} /\ ReadErrors # "empty"

\* No caller is killed, or fails to stamp, between its open and its unlink.
NoneLeft == MayDie = {} /\ ~StampFails

\* One caller at most stands between the stat that found the lock file old and
\* the unlink of whatever file is there by then.
LoneTakeover == \A c, d \in Callers : pc[c] = "unlink" /\ pc[d] = "unlink" => c = d

\* A deletion deletes.
Deletes == Deleters = {} \/ ~UnlinkDenied

\* There are no more than two callers.
Pair == \A c, d, e \in Callers : c = d \/ d = e \/ c = e

Types ==
    /\ LockTypeOK
    /\ file \in SUBSET Callers
    /\ seen \in [Callers -> SUBSET Callers]
    /\ at \in [Callers -> Stage]

\* The lock file tells who holds the lock; it grows old only when it is left
\* behind, and a caller about to unlink it still finds that one.
LockExact ==
    /\ \A c \in Callers : Holds(c) <=> lockFile = c
    /\ old => lockFile = Orphan
    /\ \A c \in Callers : pc[c] = "unlink" => lockFile = Orphan

\* What a holder is about to save is based on what the file still contains.
ReadIsFresh ==
    \A c \in Callers : pc[c] = "fn" /\ at[c] \in {"write", "rename"} => seen[c] = file

StagesAgree ==
    \A c \in Callers :
        /\ at[c] \in {"write", "rename"} => pc[c] \in {"fn", "dead"}
        /\ pc[c] \in {"release", "over"} => at[c] \in {"saved", "notSaved"}
        /\ at[c] \in {"saved", "notSaved"} => pc[c] \in {"release", "over", "dead"}

IInv == Types /\ LockExact /\ ReadIsFresh /\ StagesAgree /\ NoLostUpdate

\* The invariant holds at the start.
LEMMA InitInv == Init => IInv
  BY LockAssumption, StoreAssumption
  DEF Init, LockInit, IInv, Types, LockTypeOK, LockExact, ReadIsFresh,
      StagesAgree, NoLostUpdate, Place, Stage, Holds

\* Every step keeps the invariant while at most one caller takes a file over, or
\* while nobody succeeds.
LEMMA StepInv ==
    ASSUME Orderly, IInv, LoneTakeover \/ UnlinkDenied, [Next]_vars
    PROVE  IInv'
<1> USE LockAssumption, StoreAssumption
        DEF Orderly, IInv, Types, LockTypeOK, LockExact, ReadIsFresh,
            StagesAgree, NoLostUpdate, Place, Stage, Holds
<1>1. ASSUME NEW c \in Callers, Acquire(c), UNCHANGED storeVars
      PROVE  IInv'
  <2> USE DEF GoTo, storeVars
  <2>1. CASE Begin(c)
    BY <1>1, <2>1 DEF Begin
  <2>2. CASE Open(c)
    <3>1. CASE lockFile = NoFile
      <4>1. Types'
        BY <1>1, <2>2, <3>1 DEF Open
      <4>2. \A d \in Callers : pc'[d] = IF d = c THEN "fn" ELSE pc[d]
        BY <2>2, <3>1 DEF Open
      <4>3. LockExact'
        BY <2>2, <3>1, <4>2 DEF Open
      <4>4. at[c] = "load"
        BY <2>2 DEF Open
      <4>5. ReadIsFresh' /\ StagesAgree' /\ NoLostUpdate'
        BY <1>1, <2>2, <3>1, <4>4 DEF Open
      <4>6. QED
        BY <4>1, <4>3, <4>5
    <3>2. CASE lockFile # NoFile
      BY <1>1, <2>2, <3>2 DEF Open
    <3>3. QED
      BY <3>1, <3>2
  <2>3. CASE OpenUnstamped(c)
    BY <1>1, <2>3 DEF OpenUnstamped
  <2>4. CASE Stat(c)
    BY <1>1, <2>4 DEF Stat
  <2>5. CASE Unlink(c)
    <3>1. \A d \in Callers : /\ pc'[d] = IF d = c THEN "open" ELSE pc[d]
                             /\ d # c => pc[d] # "unlink" \/ UnlinkDenied
      BY <2>5 DEF Unlink, LoneTakeover
    <3>2. Types'
      BY <1>1, <2>5 DEF Unlink
    <3>3. lockFile = Orphan
      BY <2>5 DEF Unlink
    <3>4. \/ lockFile' = lockFile /\ old' = old
          \/ ~UnlinkDenied /\ lockFile' = NoFile /\ old' = FALSE
      BY <2>5 DEF Unlink
    <3>5. LockExact'
      BY <2>5, <3>1, <3>3, <3>4 DEF Unlink
    <3>6. ReadIsFresh' /\ StagesAgree' /\ NoLostUpdate'
      BY <1>1, <2>5, <3>1 DEF Unlink
    <3>7. QED
      BY <3>2, <3>5, <3>6
  <2>6. CASE OpenThrows(c)
    BY <1>1, <2>6 DEF OpenThrows
  <2>7. QED
    BY <1>1, <2>1, <2>2, <2>3, <2>4, <2>5, <2>6 DEF Acquire
<1>2. ASSUME NEW c \in Callers, Load(c)
      PROVE  IInv'
  BY <1>2 DEF Load, InFn, AfterLoad, lockVars
<1>3. ASSUME NEW c \in Callers, LoadFails(c)
      PROVE  IInv'
  BY <1>3 DEF LoadFails, InFn, GoTo
<1>4. ASSUME NEW c \in Callers, WriteTmp(c)
      PROVE  IInv'
  BY <1>4 DEF WriteTmp, InFn, lockVars
<1>5. ASSUME NEW c \in Callers, Rename(c)
      PROVE  IInv'
  BY <1>5 DEF Rename, InFn, GoTo, Effect
<1>6. ASSUME NEW c \in Callers, SaveThrows(c)
      PROVE  IInv'
  BY <1>6 DEF SaveThrows, InFn, GoTo
<1>7. ASSUME NEW c \in Callers, Release(c), UNCHANGED storeVars
      PROVE  IInv'
  BY <1>7 DEF Release, GoTo, storeVars
<1>8. ASSUME NEW c \in Callers, Die(c), UNCHANGED storeVars
      PROVE  IInv'
  BY <1>8 DEF Die, GoTo, storeVars, Ended
<1>9. ASSUME NEW c \in Callers, Deadline(c), UNCHANGED storeVars
      PROVE  IInv'
  BY <1>9 DEF Deadline, storeVars
<1>10. ASSUME Age, UNCHANGED storeVars
       PROVE  IInv'
  BY <1>10 DEF Age, storeVars
<1>11. CASE UNCHANGED vars
  BY <1>11 DEF vars, lockVars
<1>12. QED
  BY <1>1, <1>2, <1>3, <1>4, <1>5, <1>6, <1>7, <1>8, <1>9, <1>10, <1>11
  DEF Next, Work, Mutate

\* A lock file is left behind by a call that is over.
LeftByEnded == lockFile = Orphan => \E c \in Callers : Ended(c)


\* Without such calls there is none, unless unlink is refused.
LeftByNone == NoneLeft /\ ~UnlinkDenied => lockFile # Orphan

Whose == LeftByEnded /\ LeftByNone

\* Of two callers one has ended before the other takes its lock file over; where
\* no file is left behind nobody takes one over.
LEMMA TakesAlone ==
    ASSUME Pair \/ NoneLeft, LockExact, Whose
    PROVE  LoneTakeover \/ UnlinkDenied
<1>1. CASE Pair
  <2> SUFFICES ASSUME NEW c \in Callers, NEW d \in Callers, pc[c] = "unlink", pc[d] = "unlink"
               PROVE  c = d
    BY DEF LoneTakeover
  <2>1. PICK e \in Callers : Ended(e)
    BY DEF LockExact, Whose, LeftByEnded
  <2>2. e # c /\ e # d
    BY <2>1 DEF Ended
  <2>3. QED
    BY <1>1, <2>2 DEF Pair
<1>2. CASE NoneLeft
  BY <1>2 DEF LockExact, Whose, LeftByNone, LoneTakeover
<1>3. QED
  BY <1>1, <1>2

LEMMA StepLeft ==
    ASSUME Types, LeftByEnded, [Next]_vars
    PROVE  LeftByEnded'
<1> USE DEF Types, LockTypeOK
<1>1. ASSUME NEW c \in Callers, Ended(c)
      PROVE  Ended(c)'
  BY <1>1 DEF Next, Work, Acquire, Begin, Open, OpenThrows, OpenUnstamped, Stat, Unlink,
              Mutate, Load, LoadFails, WriteTmp, Rename, SaveThrows, InFn,
              Release, Die, Deadline, Age, GoTo, Ended, lockVars, vars
<1>2. CASE lockFile' = Orphan /\ lockFile # Orphan
  <2>1. PICK c \in Callers : OpenUnstamped(c) \/ Release(c) \/ Die(c)
    <3>1. ASSUME NEW c \in Callers, Acquire(c), ~OpenUnstamped(c)
          PROVE  lockFile' # Orphan
      BY <1>2, <3>1, LockAssumption DEF Acquire, Begin, Open, OpenThrows, Stat, Unlink
    <3>2. ASSUME NEW c \in Callers, Mutate(c) \/ Deadline(c)
          PROVE  lockFile' = lockFile
      BY <3>2 DEF Mutate, Load, LoadFails, WriteTmp, Rename, SaveThrows, Deadline, lockVars
    <3>3. Age \/ UNCHANGED vars => lockFile' = lockFile
      BY DEF Age, vars, lockVars
    <3>4. QED
      BY <1>2, <3>1, <3>2, <3>3 DEF Next, Work
  <2>2. Ended(c)'
    BY <2>1 DEF OpenUnstamped, Release, Die, GoTo, Ended
  <2>3. QED
    BY <2>2 DEF LeftByEnded
<1>3. QED
  BY <1>1, <1>2 DEF LeftByEnded

LEMMA StepWhose ==
    ASSUME Types, LockExact, Whose, [Next]_vars
    PROVE  Whose'
<1>1. LeftByEnded'
  BY StepLeft DEF Whose
<1>2. ASSUME NoneLeft, ~UnlinkDenied
      PROVE  lockFile' # Orphan
  <2>1. lockFile # Orphan
    BY <1>2 DEF Whose, LeftByNone
  <2>2. ASSUME NEW c \in Callers, Acquire(c)
        PROVE  lockFile' # Orphan
    BY <1>2, <2>1, <2>2, LockAssumption
    DEF Acquire, Begin, Open, OpenThrows, OpenUnstamped, Stat, Unlink, NoneLeft
  <2>3. ASSUME NEW c \in Callers, Mutate(c) \/ Deadline(c)
        PROVE  lockFile' = lockFile
    BY <2>3 DEF Mutate, Load, LoadFails, WriteTmp, Rename, SaveThrows, Deadline, lockVars
  <2>4. ASSUME NEW c \in Callers, Release(c)
        PROVE  lockFile' # Orphan
    BY <1>2, <2>4, LockAssumption DEF Release
  <2>5. ASSUME NEW c \in Callers
        PROVE  ~Die(c)
    BY <1>2 DEF Die, NoneLeft
  <2>6. Age \/ UNCHANGED vars => lockFile' = lockFile
    BY DEF Age, vars, lockVars
  <2>7. QED
    BY <2>1, <2>2, <2>3, <2>4, <2>5, <2>6 DEF Next, Work
<1>3. QED
  BY <1>1, <1>2 DEF Whose, LeftByNone

\* All of it is inductive where the takeover is safe.
LEMMA StoreInductive ==
    ASSUME Orderly, Pair \/ NoneLeft
    PROVE  /\ Init => IInv /\ Whose
           /\ (IInv /\ Whose) /\ [Next]_vars => (IInv /\ Whose)'
<1>1. Init => IInv /\ Whose
  BY InitInv, LockAssumption DEF Init, LockInit, Whose, LeftByEnded, LeftByNone
<1>2. (IInv /\ Whose) /\ [Next]_vars => (IInv /\ Whose)'
  BY TakesAlone, StepInv, StepWhose DEF IInv
<1>3. QED
  BY <1>1, <1>2

\* withFileLock() runs one fn at a time: two callers of which any is killed, fails
\* to save or to stamp, gives up waiting or finds its unlink refused, wherever; and
\* any number of them that leave no lock file behind.
THEOREM Exclusive ==
    ASSUME Orderly, Pair \/ NoneLeft
    PROVE  Spec => []MutualExclusion
<1>1. IInv => MutualExclusion
  BY DEF IInv, LockExact, MutualExclusion
<1>2. QED
  BY StoreInductive, <1>1, PTL DEF Spec

\* No update of goal, task or plan file whose call returned is overwritten by
\* another one.
THEOREM UpdatesKept ==
    ASSUME Orderly, Pair \/ NoneLeft
    PROVE  Spec => []NoLostUpdate
<1>1. IInv => NoLostUpdate
  BY DEF IInv
<1>2. QED
  BY StoreInductive, <1>1, PTL DEF Spec

\* Every step of the stores is one step of AtomicStore, at the rename, or none.
LEMMA StepRefines ==
    ASSUME Orderly, Deletes, IInv, [Next]_vars
    PROVE  [Serial!StoreNext]_<<file, {c \in Callers : at[c] = "saved"}>>
<1> DEFINE saved == {c \in Callers : at[c] = "saved"}
<1> USE LockAssumption, StoreAssumption DEF Orderly, IInv, Types, LockTypeOK
<1>1. ASSUME NEW c \in Callers, Rename(c)
      PROVE  Serial!Apply(c)
  <2>1. c \notin saved /\ saved' = saved \cup {c}
    BY <1>1 DEF Rename, InFn, Stage
  <2>2. file' = Serial!Effect(c, file)
    BY <1>1 DEF Rename, InFn, Effect, Serial!Effect, ReadIsFresh, Deletes
  <2>3. QED
    BY <2>1, <2>2 DEF Serial!Apply
<1>2. ASSUME NEW c \in Callers, Load(c) \/ LoadFails(c) \/ WriteTmp(c) \/ SaveThrows(c)
      PROVE  UNCHANGED <<file, saved>>
  BY <1>2 DEF Load, LoadFails, WriteTmp, SaveThrows, InFn, AfterLoad, Stage
<1>3. ASSUME UNCHANGED storeVars
      PROVE  UNCHANGED <<file, saved>>
  BY <1>3 DEF storeVars
<1>4. CASE UNCHANGED vars
  BY <1>4 DEF vars
<1>5. QED
  BY <1>1, <1>2, <1>3, <1>4 DEF Next, Work, Mutate, Serial!StoreNext

\* The stores implement AtomicStore: each call has its effect in one step, on
\* what the previous one left.  A deletion whose unlink is refused has none.
THEOREM StoreRefinement ==
    ASSUME Orderly, Pair \/ NoneLeft, Deletes
    PROVE  Spec => ImplementsAtomicStore
<1>1. Init => Serial!StoreInit
  BY DEF Init, Serial!StoreInit
<1>2. IInv /\ [Next]_vars =>
          [Serial!StoreNext]_<<file, {c \in Callers : at[c] = "saved"}>>
  BY StepRefines
<1>3. QED
  BY StoreInductive, <1>1, <1>2, PTL DEF Spec, ImplementsAtomicStore, Serial!StoreSpec
=============================================================================
