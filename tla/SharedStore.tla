---------------------------- MODULE SharedStore ----------------------------
(***************************************************************************)
(* The read-modify-write cycle of updateGoal(), mutateTasks() and            *)
(* mutatePlan(): under the file lock, load the file, apply fn, and save with *)
(* atomicWrite() (a temporary file of its own name, then rename).            *)
(***************************************************************************)
EXTENDS FileLock

CONSTANTS Deleters,   \* callers whose fn returns null: the file is unlinked
          ReadErrors, \* "none"; a failing read "thrown" on, or taken as "empty"
          SaveFails   \* may atomicWrite() fail before its rename?

ASSUME StoreAssumption ==
    /\ Deleters \subseteq Callers
    /\ ReadErrors \in {"none", "thrown", "empty"}
    /\ SaveFails \in BOOLEAN

VARIABLES file,  \* the updates the file on disk contains
          seen,  \* [Callers -> SUBSET Callers]: what load returned
          at     \* [Callers -> Stage]: how far fn has come

Stage == {"load", "write", "rename", "saved", "notSaved"}

vars == <<lockVars, file, seen, at>>

\* The types, and: fn is only ever under way between acquire and release.
StoreTypeOK ==
    /\ LockTypeOK
    /\ file \in SUBSET Callers
    /\ seen \in [Callers -> SUBSET Callers]
    /\ at \in [Callers -> Stage]
    /\ \A c \in Callers :
          /\ at[c] \in {"write", "rename"} => pc[c] \in {"fn", "dead"}
          /\ pc[c] \in {"release", "over"} => at[c] \in {"saved", "notSaved"}

Init ==
    /\ LockInit
    /\ file = {}
    /\ seen = [c \in Callers |-> {}]
    /\ at = [c \in Callers |-> "load"]

Effect(c, v) == IF c \in Deleters THEN {} ELSE v \cup {c}

InFn(c, stage) == pc[c] = "fn" /\ at[c] = stage

\* A deletion has nothing to write.
AfterLoad(c) == IF c \in Deleters THEN "rename" ELSE "write"

\* Mutant: the file is read before the lock is obtained.
LoadEarly(c) ==
    /\ pc[c] \in {"open", "stat", "fn"}
    /\ at[c] = "load"
    /\ seen' = [seen EXCEPT ![c] = file]
    /\ at' = [at EXCEPT ![c] = AfterLoad(c)]
    /\ UNCHANGED <<lockVars, file>>

Load(c) ==
    /\ InFn(c, "load")
    /\ seen' = [seen EXCEPT ![c] = file]
    /\ at' = [at EXCEPT ![c] = AfterLoad(c)]
    /\ UNCHANGED <<lockVars, file>>

\* The read fails for another reason than a missing file: loadGoal() throws,
\* loadTasks() and loadPlan() return null and fn starts from an empty file.
LoadFails(c) ==
    /\ InFn(c, "load")
    /\ \/ /\ ReadErrors = "thrown"
          /\ at' = [at EXCEPT ![c] = "notSaved"]
          /\ GoTo(c, "release")
          /\ UNCHANGED <<lockFile, old, late, seen>>
       \/ /\ ReadErrors = "empty"
          /\ at' = [at EXCEPT ![c] = AfterLoad(c)]
          /\ UNCHANGED <<lockVars, seen>>
    /\ UNCHANGED file

\* Mutant: the file itself is truncated and written, not a temporary one.
WriteInPlace(c) ==
    /\ InFn(c, "write")
    /\ at' = [at EXCEPT ![c] = "rename"]
    /\ file' = {}
    /\ UNCHANGED <<lockVars, seen>>

\* The temporary file: its name is the caller's own, and nobody reads it.
WriteTmp(c) ==
    /\ InFn(c, "write")
    /\ at' = [at EXCEPT ![c] = "rename"]
    /\ UNCHANGED <<lockVars, file, seen>>

\* The rename, or the unlink of a deletion, whose failure updateGoal() ignores.
Rename(c) ==
    /\ InFn(c, "rename")
    /\ file' = IF c \in Deleters /\ UnlinkDenied THEN file
                                                ELSE Effect(c, seen[c])
    /\ at' = [at EXCEPT ![c] = "saved"]
    /\ GoTo(c, "release")
    /\ UNCHANGED <<lockFile, old, late, seen>>

\* atomicWrite() removes its temporary file and throws; so do the stores.
SaveThrows(c) ==
    /\ SaveFails /\ c \notin Deleters
    /\ InFn(c, "write") \/ InFn(c, "rename")
    /\ at' = [at EXCEPT ![c] = "notSaved"]
    /\ GoTo(c, "release")
    /\ UNCHANGED <<lockFile, old, late, file, seen>>

Mutate(c) == Load(c) \/ LoadFails(c) \/ WriteTmp(c) \/ Rename(c) \/ SaveThrows(c)

storeVars == <<file, seen, at>>

\* What the caller's own process does.
Work(c) ==
    \/ Acquire(c) /\ UNCHANGED storeVars
    \/ Mutate(c)
    \/ Release(c) /\ UNCHANGED storeVars

Next ==
    \/ \E c \in Callers : Work(c)
    \/ \E c \in Callers : Die(c) /\ UNCHANGED storeVars
    \/ \E c \in Callers : Deadline(c) /\ UNCHANGED storeVars
    \/ Age /\ UNCHANGED storeVars

Spec == Init /\ [][Next]_vars

\* A process that lives goes on, and time passes.
FairSpec ==
    /\ Spec
    /\ \A c \in Callers : WF_vars(Work(c))
    /\ \A c \in Callers : WF_vars(Deadline(c) /\ UNCHANGED storeVars)
    /\ WF_vars(Age /\ UNCHANGED storeVars)

-----------------------------------------------------------------------------
\* An update whose call returned is in the file until somebody deletes it:
\* "Prevents lost-update races when the autonomy engine and CLI /goal commands
\* write concurrently" (goal-store.ts).
NoLostUpdate ==
    \A c \in Callers \ Deleters :
        at[c] = "saved" => \/ c \in file
                           \/ \E d \in Deleters : at[d] = "saved"

\* A deletion removes what was there when it took effect, no later update, and
\* an update is applied to the file it finds: the calls have the effect of some
\* sequence of them, each in one step between its begin and its end.
Serial == INSTANCE AtomicStore
    WITH value <- file, applied <- {c \in Callers : at[c] = "saved"}

ImplementsAtomicStore == Serial!StoreSpec
=============================================================================
