------------------------------ MODULE FileLock ------------------------------
(***************************************************************************)
(* withFileLock() of utils/atomic-write.ts: a lock file created with open    *)
(* 'wx', polled by the callers that find it, taken over once its mtime is    *)
(* older than staleMs, unlinked when fn has settled.  A caller is one call,  *)
(* from any process.  Each action is the code between two awaits.  What fn   *)
(* does is left to the module that uses the lock.                            *)
(***************************************************************************)
EXTENDS Naturals

CONSTANTS Callers,
          MayDie,        \* callers whose process may be killed
          MayStall,      \* callers that may hold the lock beyond staleMs
          StampFails,    \* may the write into the fresh lock file fail?
          UnlinkDenied,  \* is unlink refused (EPERM, EBUSY)?
          NoFile,        \* lockFile: there is none
          Orphan         \* lockFile: nobody will remove it on release

ASSUME LockAssumption ==
    /\ MayDie \subseteq Callers
    /\ MayStall \subseteq Callers
    /\ StampFails \in BOOLEAN
    /\ UnlinkDenied \in BOOLEAN
    /\ NoFile \notin Callers
    /\ Orphan \notin Callers \cup {NoFile}

VARIABLES lockFile,  \* NoFile, Orphan, or the caller that created it
          old,       \* is the file's mtime older than staleMs?
          late,      \* [Callers -> BOOLEAN]: has timeoutMs passed?
          pc         \* [Callers -> Place]: the await the caller is at

lockVars == <<lockFile, old, late, pc>>

Place == {"start", "open", "stat", "unlink", "fn", "release", "over",
          "failed", "dead"}

LockTypeOK ==
    /\ lockFile \in Callers \cup {NoFile, Orphan}
    /\ old \in BOOLEAN
    /\ late \in [Callers -> BOOLEAN]
    /\ pc \in [Callers -> Place]

LockInit ==
    /\ lockFile = NoFile
    /\ old = FALSE
    /\ late = [c \in Callers |-> FALSE]
    /\ pc = [c \in Callers |-> "start"]

Holds(c) == pc[c] \in {"fn", "release"}
Waits(c) == pc[c] \in {"open", "stat", "unlink"}
Ended(c) == pc[c] \in {"over", "failed", "dead"}

GoTo(c, place) == pc' = [pc EXCEPT ![c] = place]

\* mkdir; its error is the caller's.
Begin(c) ==
    /\ pc[c] = "start"
    /\ GoTo(c, "open") \/ GoTo(c, "failed")
    /\ UNCHANGED <<lockFile, old, late>>

\* open 'wx' and the stamp; EEXIST sends the caller to stat.  ENOENT, the directory
\* is gone, makes it again and leads back here.
Open(c) ==
    /\ pc[c] = "open"
    /\ IF lockFile = NoFile
       THEN /\ lockFile' = c
            /\ old' = FALSE
            /\ GoTo(c, "fn")
       ELSE /\ GoTo(c, "stat")
            /\ UNCHANGED <<lockFile, old>>
    /\ UNCHANGED late

\* open 'wx' finds another error, or the mkdir after ENOENT does.
OpenThrows(c) ==
    /\ pc[c] = "open"
    /\ GoTo(c, "failed")
    /\ UNCHANGED <<lockFile, old, late>>

\* The file is created and writing the stamp into it throws: fn does not run,
\* and neither does the finally block that unlinks the file.
OpenUnstamped(c) ==
    /\ StampFails
    /\ pc[c] = "open"
    /\ lockFile = NoFile
    /\ lockFile' = Orphan
    /\ old' = FALSE
    /\ GoTo(c, "failed")
    /\ UNCHANGED late

\* Mutant: the age of the file is not looked at.
StatTakesAny(c) ==
    /\ pc[c] = "stat"
    /\ GoTo(c, IF lockFile = NoFile THEN "open" ELSE "unlink")
    /\ UNCHANGED <<lockFile, old, late>>

\* A file that is gone or old is followed by a retry at once; only a fresh one
\* leads to the timeout check.
Stat(c) ==
    /\ pc[c] = "stat"
    /\ \/ lockFile # NoFile /\ old /\ GoTo(c, "unlink")
       \/ lockFile # NoFile /\ ~old /\ late[c] /\ GoTo(c, "failed")
       \/ (lockFile = NoFile \/ ~(old \/ late[c])) /\ GoTo(c, "open")
    /\ UNCHANGED <<lockFile, old, late>>

\* Mutant: a takeover that leaves the file where it is.
UnlinkNothing(c) ==
    /\ pc[c] = "unlink"
    /\ GoTo(c, "open")
    /\ UNCHANGED <<lockFile, old, late>>

\* Whatever file is there by now goes; an error is swallowed and retried.
Unlink(c) ==
    /\ pc[c] = "unlink"
    /\ GoTo(c, "open")
    /\ IF UnlinkDenied \/ lockFile = NoFile
       THEN UNCHANGED <<lockFile, old>>
       ELSE lockFile' = NoFile /\ old' = FALSE
    /\ UNCHANGED late

\* The finally block.  The file it removes need not be the caller's own.
Release(c) ==
    /\ pc[c] = "release"
    /\ GoTo(c, "over")
    /\ IF UnlinkDenied
       THEN /\ lockFile' = IF lockFile = c THEN Orphan ELSE lockFile
            /\ UNCHANGED old
       ELSE lockFile' = NoFile /\ old' = FALSE
    /\ UNCHANGED late

\* The process is killed: no finally block runs.
Die(c) ==
    /\ c \in MayDie
    /\ pc[c] # "start" /\ ~Ended(c)
    /\ GoTo(c, "dead")
    /\ lockFile' = IF lockFile = c THEN Orphan ELSE lockFile
    /\ UNCHANGED <<old, late>>

\* staleMs pass.  A holder other than those of MayStall is done well before.
Age ==
    /\ ~old
    /\ lockFile \in MayStall \cup {Orphan}
    /\ old' = TRUE
    /\ UNCHANGED <<lockFile, late, pc>>

\* timeoutMs pass.
Deadline(c) ==
    /\ Waits(c) /\ ~late[c]
    /\ late' = [late EXCEPT ![c] = TRUE]
    /\ UNCHANGED <<lockFile, old, pc>>

\* The steps of c that fn has no part in.
Acquire(c) ==
    \/ Begin(c) \/ Open(c) \/ OpenThrows(c) \/ OpenUnstamped(c)
    \/ Stat(c) \/ Unlink(c)

-----------------------------------------------------------------------------
\* withFileLock() runs one fn at a time.
MutualExclusion ==
    \A c, d \in Callers : Holds(c) /\ Holds(d) => c = d

\* A call of withFileLock() returns or throws, whatever the other callers do
\* and whatever file they left behind.
EveryCallEnds == \A c \in Callers : Waits(c) ~> Ended(c)
=============================================================================
