--------------------------- MODULE SessionWriter ---------------------------
(***************************************************************************)
(* FileSessionWriter: the JSONL log of one session.  append() waits for the  *)
(* lazily written start record, then buffers; the buffer goes to disk in     *)
(* batches through a FIFO chain of writes, when it is full, after a timeout, *)
(* on flush() and on close().  truncateToCheckpoint() and clearSession()     *)
(* replace the file under the chain's feet.  The process may crash and the   *)
(* session be resumed.                                                       *)
(*                                                                           *)
(* One event loop: a step that only continues after an await whose promise   *)
(* is settled (a continuation) runs before any timer or completed I/O.       *)
(***************************************************************************)
EXTENDS Integers, Sequences, FiniteSets, SequencesExt

CONSTANTS FlushSize,   \* FLUSH_SIZE
          MaxEvents,   \* bound: events handed to append() and appendBatch()
          MaxBatch,    \* bound: events of one appendBatch()
          Prompts,     \* prompt indices of checkpoints; 0 has none
          DiskErrors,  \* may a write fail, part of it on disk?
          LongLog,     \* may a line cross a boundary of the scan's chunks?
          MaxUpsets    \* bound: rewinds, clears, crashes and disk errors

ASSUME SessionAssumption ==
    /\ FlushSize \in Nat \ {0} /\ MaxEvents \in Nat /\ MaxBatch \in Nat
    /\ Prompts \subseteq Nat
    /\ DiskErrors \in BOOLEAN /\ LongLog \in BOOLEAN
    /\ MaxUpsets \in Nat

VARIABLES
    called,   \* events handed to the writer so far; they are numbered from 1
    waiting,  \* appends that await ensureInit(), in call order
    init,     \* initPromise: "none", "pending" or "done"
    buffer,   \* writeBuffer
    timer,    \* is flushTimer set?
    chain,    \* the batches of writeChain that have not settled, oldest first
    handle,   \* "open" or "closed"
    file,     \* the lines on disk
    flusher,  \* the flush() under way
    closer,   \* the close() under way
    cutter,   \* the truncateToCheckpoint() under way
    wiper,    \* the clearSession() under way
    upsets,   \* rewinds, clears, crashes and disk errors so far
    erred,    \* history: has the disk failed?
    lost      \* history: the events that failed writes, closed handles, rewinds,
              \* clears and crashes have taken

memory == <<waiting, init, buffer, timer, chain>>
calls  == <<flusher, closer, cutter, wiper>>
vars   == <<called, memory, handle, file, calls, upsets, erred, lost>>

\* A line: an event with its number and, if it is a checkpoint, its prompt
\* index; the start record; a malformed line; a line cut short, no newline.
Start   == [k |-> "start",   id |-> 0, p |-> 0]
Torn    == [k |-> "torn",    id |-> 0, p |-> 0]
Partial == [k |-> "partial", id |-> 0, p |-> 0]
Event(n, k, p) == [k |-> k, id |-> n, p |-> p]

Ids(s) == {s[i].id : i \in DOMAIN s} \ {0}

IdsIn(batches) == UNION {Ids(batches[i]) : i \in DOMAIN batches}

\* The events this writer has observed for its summary.
Observed == 1..called \ IdsIn(waiting)

\* The events the writer holds in memory.
Held == IdsIn(waiting) \cup Ids(buffer) \cup IdsIn(chain)

\* The events it dropped, and those a rewind or a clear removed from disk.
Gone == 1..called \ (Ids(file) \cup Held)

\* What a call does next, and for how many batches of the chain it waits first.
NoFlush == [at |-> "idle", left |-> 0, ids |-> {}]
NoClose == [at |-> "idle", left |-> 0, early |-> {}, counted |-> {}]
NoCut   == [at |-> "idle", left |-> 0, target |-> 0, keep |-> 0, stop |-> 0, kept |-> <<>>]
NoWipe  == [at |-> "idle", left |-> 0]
At(call, stages) == call.at \in stages /\ call.left = 0

Init ==
    /\ called = 0 /\ upsets = 0
    /\ waiting = <<>> /\ init = "none" /\ buffer = <<>> /\ timer = FALSE
    /\ chain = <<>>
    /\ handle = "open" /\ file = <<>>
    /\ flusher = NoFlush /\ closer = NoClose /\ cutter = NoCut /\ wiper = NoWipe
    /\ erred = FALSE /\ lost = {}

\* The events a replaced file no longer has.
Erased == Ids(file) \ Ids(file')

-----------------------------------------------------------------------------
(* append(), appendBatch() and the write chain *)

Upset == upsets < MaxUpsets /\ upsets' = upsets + 1

\* No await is ready to continue: the event loop takes timers and I/O.
Quiet ==
    /\ ~ (init = "done" /\ waiting # <<>>)
    /\ ~ At(flusher, {"write"})
    /\ ~ At(closer, {"flush", "drain"})
    /\ ~ At(cutter, {"flush", "redrain"})

\* Mutant: a resumed session writes no record of its own before its events.
EnterAtOnce(batch) ==
    /\ called' = called + Len(batch)
    /\ waiting' = Append(waiting, batch)
    /\ init' = "done"
    /\ UNCHANGED chain

\* ensureInit(): the first call enqueues the start record.
Enter(batch) ==
    /\ called' = called + Len(batch)
    /\ waiting' = Append(waiting, batch)
    /\ init' = IF init = "none" THEN "pending" ELSE init
    /\ chain' = IF init = "none" THEN Append(chain, <<Start>>) ELSE chain

\* Mutant: a flag, not a promise, says that the start record was sent: a second
\* append does not wait.
AppendCallFlag(batch) ==
    /\ closer.at = "idle"
    /\ called + Len(batch) <= MaxEvents
    /\ \/ init = "none" /\ Enter(batch) /\ UNCHANGED <<buffer, timer>>
       \/ /\ init # "none"
          /\ called' = called + Len(batch)
          /\ buffer' = buffer \o batch /\ timer' = TRUE
          /\ UNCHANGED <<waiting, init, chain>>
    /\ UNCHANGED <<handle, file, calls, upsets, erred, lost>>

\* A closed writer ignores the call.
AppendCall(batch) ==
    /\ closer.at = "idle"
    /\ called + Len(batch) <= MaxEvents
    /\ Enter(batch)
    /\ UNCHANGED <<buffer, timer, handle, file, calls, upsets, erred, lost>>

\* A user or side-effect event, a marker, a snapshot or a checkpoint.
AppendOne ==
    \/ AppendCall(<<Event(called + 1, "plain", 0)>>)
    \/ \E p \in Prompts : AppendCall(<<Event(called + 1, "checkpoint", p)>>)

AppendBatch ==
    \E n \in 2..MaxBatch :
        AppendCall([i \in 1..n |-> Event(called + i, "plain", 0)])

\* Mutant: flush() does not wait for its write.
NoWait == 0

\* Batches a caller waits for that calls flushBuffer() now.
AfterFlush == IF buffer = <<>> THEN 0 ELSE Len(chain) + 1

\* flushBuffer(): the buffer becomes one batch at the end of the chain.
FlushBuffer ==
    /\ chain' = IF buffer = <<>> THEN chain ELSE Append(chain, buffer)
    /\ buffer' = <<>>
    /\ timer' = FALSE

\* Mutant: append() forgets scheduleFlush().
PushNoTimer ==
    /\ init = "done" /\ waiting # <<>>
    /\ waiting' = Tail(waiting)
    /\ buffer' = buffer \o Head(waiting)
    /\ UNCHANGED <<called, init, timer, chain, handle, file, calls, upsets, erred, lost>>

\* The rest of append() after the start record has settled, in call order.
Push ==
    /\ init = "done" /\ waiting # <<>>
    /\ waiting' = Tail(waiting)
    /\ LET full == buffer \o Head(waiting) IN
         IF Len(full) >= FlushSize
         THEN chain' = Append(chain, full) /\ buffer' = <<>> /\ timer' = FALSE
         ELSE buffer' = full /\ timer' = TRUE /\ UNCHANGED chain
    /\ UNCHANGED <<called, init, handle, file, calls, upsets, erred, lost>>

TimerFires ==
    /\ Quiet /\ timer
    /\ FlushBuffer
    /\ UNCHANGED <<called, waiting, init, handle, file, calls, upsets, erred, lost>>

\* Appended lines: an unfinished line takes the first of them into it.
Glue(f, lines) ==
    IF lines # <<>> /\ f # <<>> /\ f[Len(f)] = Partial
    THEN Front(f) \o <<IF lines[1] = Partial THEN Partial ELSE Torn>> \o Tail(lines)
    ELSE f \o lines

\* What can be on disk of a batch whose write was cut short.
PartsOf(batch) ==
    UNION {{SubSeq(batch, 1, n), SubSeq(batch, 1, n) \o <<Partial>>} : n \in 0..(Len(batch) - 1)}

OneLess(call) == [call EXCEPT !.left = IF @ > 0 THEN @ - 1 ELSE 0]

\* The oldest write settles, successfully or not: the chain goes on, and who
\* waits for it waits for one batch less.
Settle(lines) ==
    /\ file' = Glue(file, lines)
    /\ chain' = Tail(chain)
    /\ lost' = lost \cup (Ids(Head(chain)) \ Ids(file'))
    /\ init' = IF init = "pending" THEN "done" ELSE init
    /\ flusher' = OneLess(flusher) /\ closer' = OneLess(closer)
    /\ cutter' = OneLess(cutter) /\ wiper' = OneLess(wiper)
    /\ UNCHANGED <<called, waiting, buffer, timer, handle>>

WriteDone ==
    /\ Quiet /\ chain # <<>> /\ handle = "open"
    /\ Settle(Head(chain))
    /\ UNCHANGED <<upsets, erred>>

\* The handle is closed, or the disk fails.
WriteFails ==
    /\ Quiet /\ chain # <<>>
    /\ \/ handle = "closed" /\ Settle(<<>>) /\ UNCHANGED <<upsets, erred>>
       \/ /\ handle = "open" /\ DiskErrors /\ Upset
          /\ \E lines \in PartsOf(Head(chain)) : Settle(lines)
          /\ erred' = TRUE

-----------------------------------------------------------------------------
(* flush() and close() *)

\* With nothing buffered the call returns at once.
Flush ==
    /\ flusher.at = "idle" /\ buffer # <<>>
    /\ FlushBuffer
    /\ flusher' = [at |-> "write", left |-> AfterFlush, ids |-> Ids(buffer)]
    /\ UNCHANGED <<called, waiting, init, handle, file, closer, cutter, wiper, upsets, erred, lost>>

FlushReturns ==
    /\ At(flusher, {"write"})
    /\ flusher' = NoFlush
    /\ UNCHANGED <<called, memory, handle, file, closer, cutter, wiper, upsets, erred, lost>>

\* doClose(), up to its first await; later callers share its promise.
Close ==
    /\ closer.at = "idle"
    /\ FlushBuffer
    /\ closer' = [closer EXCEPT !.at = "flush", !.left = AfterFlush, !.early = Observed]
    /\ UNCHANGED <<called, waiting, init, handle, file, flusher, cutter, wiper, upsets, erred, lost>>

\* Mutant: the sidecar is written without waiting for the log.
CloseHurries ==
    /\ closer.at = "flush" /\ Quiet
    /\ closer' = [closer EXCEPT !.at = "sidecar", !.left = 0]
    /\ UNCHANGED <<called, memory, handle, file, flusher, cutter, wiper, upsets, erred, lost>>

\* The buffer is on disk; the chain is drained; the summary is finalized; its
\* sidecar and the index entry are written, best effort; the handle is closed.
CloseGoesOn ==
    /\ \/ /\ At(closer, {"flush"})
          /\ closer' = [closer EXCEPT !.at = "drain", !.left = Len(chain)]
          /\ UNCHANGED handle
       \/ /\ At(closer, {"drain"})
          /\ closer' = [closer EXCEPT !.at = "sidecar", !.counted = Observed]
          /\ UNCHANGED handle
       \/ /\ closer.at = "sidecar" /\ Quiet
          /\ closer' = [closer EXCEPT !.at = "index"]
          /\ UNCHANGED handle
       \/ /\ closer.at = "index" /\ Quiet
          /\ closer' = [closer EXCEPT !.at = "closed"]
          /\ handle' = "closed"
    /\ UNCHANGED <<called, memory, file, flusher, cutter, wiper, upsets, erred, lost>>

-----------------------------------------------------------------------------
(* truncateToCheckpoint() *)

Truncate(t) ==
    /\ cutter.at = "idle" /\ Upset
    /\ FlushBuffer
    /\ cutter' = [cutter EXCEPT !.at = "flush", !.left = AfterFlush, !.target = t]
    /\ UNCHANGED <<called, waiting, init, handle, file, flusher, closer, wiper, erred, lost>>

CutDrains ==
    /\ At(cutter, {"flush"})
    /\ cutter' = [cutter EXCEPT !.at = "drain", !.left = Len(chain)]
    /\ UNCHANGED <<called, memory, handle, file, flusher, closer, wiper, upsets, erred, lost>>

\* The lines at which the scan may stop: the target's checkpoint or a later
\* one.  A line across the boundary of two chunks is not recognised.
Stops(split) ==
    {i \in DOMAIN file \ split : file[i].k = "checkpoint" /\ file[i].p >= cutter.target}

Splits == {{}} \cup (IF LongLog THEN {{i} : i \in DOMAIN file} ELSE {})

Scan ==
    /\ At(cutter, {"drain"}) /\ Quiet
    /\ \E split \in Splits :
          \/ Stops(split) = {} /\ cutter' = NoCut
          \/ \E first \in Stops(split) :
                /\ \A i \in Stops(split) : first <= i
                /\ cutter' = [cutter EXCEPT !.at = "redrain", !.left = Len(chain),
                                            !.keep = first, !.stop = file[first].id]
    /\ UNCHANGED <<called, memory, handle, file, flusher, closer, wiper, upsets, erred, lost>>

CutCloses ==
    /\ At(cutter, {"redrain"})
    /\ handle' = "closed"
    /\ cutter' = [cutter EXCEPT !.at = "copy"]
    /\ UNCHANGED <<called, memory, file, flusher, closer, wiper, upsets, erred, lost>>

\* The temporary file: the lines up to and with the one the scan stopped at,
\* and every malformed line after it, which then ends with a newline.
Malformed(s) == [i \in 1..Cardinality({j \in DOMAIN s : s[j] \in {Torn, Partial}}) |-> Torn]

\* Mutant: the line the scan stopped at is cut off too.
CopyExclusive ==
    /\ cutter.at = "copy" /\ Quiet
    /\ LET n == Min({cutter.keep - 1, Len(file)}) IN
         cutter' = [cutter EXCEPT !.at = "rename",
                                  !.kept = SubSeq(file, 1, n)
                                           \o Malformed(SubSeq(file, n + 1, Len(file)))]
    /\ UNCHANGED <<called, memory, handle, file, flusher, closer, wiper, upsets, erred, lost>>

Copy ==
    /\ cutter.at = "copy" /\ Quiet
    /\ LET n == Min({cutter.keep, Len(file)}) IN
         cutter' = [cutter EXCEPT !.at = "rename",
                                  !.kept = SubSeq(file, 1, n)
                                           \o Malformed(SubSeq(file, n + 1, Len(file)))]
    /\ UNCHANGED <<called, memory, handle, file, flusher, closer, wiper, upsets, erred, lost>>

\* Rename, reopen, and append the record of the rewind.  A clearSession() in
\* the middle of its write goes on writing the file that was replaced.
Rename ==
    /\ cutter.at = "rename" /\ Quiet
    /\ file' = cutter.kept /\ lost' = lost \cup Erased
    /\ handle' = "open"
    /\ cutter' = NoCut
    /\ wiper' = IF wiper.at = "record" THEN NoWipe ELSE wiper
    /\ IF closer.at = "idle"
       THEN Enter(<<Event(called + 1, "rewound", 0)>>)
       ELSE UNCHANGED <<called, waiting, init, chain>>
    /\ UNCHANGED <<buffer, timer, flusher, closer, upsets, erred>>

\* The temporary file is removed, the handle opened again, the error thrown.
\* When the file cannot be opened for reading, or not be opened again, the
\* handle stays closed for good.
CutFails ==
    /\ cutter.at \in {"copy", "rename"} /\ DiskErrors /\ Quiet /\ Upset
    /\ handle' \in {"open", "closed"}
    /\ cutter' = NoCut
    /\ erred' = TRUE
    /\ UNCHANGED <<called, memory, file, flusher, closer, wiper, lost>>

-----------------------------------------------------------------------------
(* clearSession() *)

Clear ==
    /\ wiper.at = "idle" /\ Upset
    /\ timer' = FALSE /\ buffer' = <<>> /\ lost' = lost \cup Ids(buffer)
    /\ wiper' = [at |-> "drain", left |-> Len(chain)]
    /\ UNCHANGED <<called, waiting, init, chain, handle, file, flusher, closer, cutter, erred>>

\* writeFile() truncates the file when it opens it ...
WipeOpens ==
    /\ At(wiper, {"drain"}) /\ Quiet
    /\ file' = <<>> /\ lost' = lost \cup Erased
    /\ wiper' = [wiper EXCEPT !.at = "record"]
    /\ UNCHANGED <<called, memory, handle, flusher, closer, cutter, upsets, erred>>

Over(line) ==
    IF line = Start THEN <<Start>>
    ELSE <<Start, IF line = Partial THEN Partial ELSE Torn>>

\* ... and writes the start record at its beginning, over what the append
\* handle may have written there.
WipeWrites ==
    /\ wiper.at = "record" /\ Quiet
    /\ \/ file = <<>> /\ file' = <<Start>>
       \/ file # <<>> /\ file' = Over(file[1]) \o Tail(file)
    /\ lost' = lost \cup Erased
    /\ wiper' = NoWipe
    /\ UNCHANGED <<called, memory, handle, flusher, closer, cutter, upsets, erred>>

WipeFails ==
    /\ At(wiper, {"drain"}) /\ DiskErrors /\ Quiet /\ Upset
    /\ wiper' = NoWipe
    /\ erred' = TRUE
    /\ UNCHANGED <<called, memory, handle, file, flusher, closer, cutter, lost>>

-----------------------------------------------------------------------------
(* The process *)

\* The process dies in the middle of a write, or between two; the next one
\* resumes the session with a writer of its own.
CrashAndResume ==
    /\ Upset
    /\ \E lines \in (IF chain = <<>> \/ handle = "closed" THEN {<<>>}
                     ELSE PartsOf(Head(chain)) \cup {Head(chain)}) :
          file' = Glue(file, lines)
    /\ lost' = lost \cup (Held \ Ids(file'))
    /\ waiting' = <<>> /\ init' = "none" /\ buffer' = <<>> /\ timer' = FALSE /\ chain' = <<>>
    /\ handle' = "open"
    /\ flusher' = NoFlush /\ closer' = NoClose /\ cutter' = NoCut /\ wiper' = NoWipe
    /\ UNCHANGED <<called, erred>>

UserCalls == AppendOne \/ AppendBatch \/ Flush \/ Close \/ Clear
             \/ \E t \in Prompts \cup {0} : Truncate(t)

Continues == Push \/ FlushReturns \/ CloseGoesOn \/ CutDrains \/ CutCloses

Disk == WriteDone \/ WriteFails \/ Scan \/ Copy \/ Rename \/ CutFails
        \/ WipeOpens \/ WipeWrites \/ WipeFails

Next == UserCalls \/ Continues \/ Disk \/ TimerFires \/ CrashAndResume

Spec == Init /\ [][Next]_vars

\* The event loop goes round: what is ready continues, and I/O ends.
FairSpec ==
    /\ Spec
    /\ WF_vars(Continues)
    /\ WF_vars(Disk)
    /\ WF_vars(TimerFires)

-----------------------------------------------------------------------------
(* Properties *)

MaxId == MaxEvents + MaxUpsets
EventLine == [k : {"plain", "checkpoint", "rewound"}, id : 1..MaxId, p : Prompts \cup {0}]
Line == EventLine \cup {Start, Torn, Partial}

\* The types, and: the timer runs exactly while the buffer has events in it.
SessionTypeOK ==
    /\ called \in 0..MaxId
    /\ \A s \in {file, buffer, cutter.kept} \cup ToSet(waiting) \cup ToSet(chain) :
          ToSet(s) \subseteq Line
    /\ init \in {"none", "pending", "done"} /\ handle \in {"open", "closed"}
    /\ flusher.at \in {"idle", "write"}
    /\ closer.at \in {"idle", "flush", "drain", "sidecar", "index", "closed"}
    /\ cutter.at \in {"idle", "flush", "drain", "redrain", "copy", "rename"}
    /\ wiper.at \in {"idle", "drain", "record"}
    /\ timer = (buffer # <<>>)

\* The events among lines in the order of their numbers, and one set of them
\* before another.
Rising(s) == \A i, j \in DOMAIN s : i < j /\ s[i].id # 0 /\ s[j].id # 0 => s[i].id < s[j].id
Before(S, T) == \A m \in S, n \in T : m < n

\* Events are on disk, in the chain, in the buffer and among the waiting
\* appends in the order of the calls that handed them over, and none is there
\* twice: the order of ensureInit()'s waiters and of the chain is never broken
\* by a timer, a flush, a failed write, a rewind, a clear or a crash.
LogOrder ==
    LET all == <<file>> \o chain \o <<buffer>> \o waiting
    IN  /\ \A b \in DOMAIN all : Rising(all[b])
        /\ \A b, c \in DOMAIN all : b < c => Before(Ids(all[b]), Ids(all[c]))

\* What was in the buffer when flush() was called is on disk when it returns,
\* and stays, a crash or not: "to ensure they survive a crash or SIGKILL"
\* (types/session.ts).  Only a rewind, a clear or a failed write loses it.
FlushDurable == At(flusher, {"write"}) => flusher.ids \cap Held = {}

\* When close() writes the sidecar every event observed before close() was
\* called is in the log, or it was lost on the way: with a batch whose write
\* failed or met the handle a rewind had closed, with the file a rewind or a
\* clear replaced, or in a crash.  No other event of theirs is missing or still
\* in memory; for those lost the sidecar is written all the same.
CloseComplete ==
    closer.at \in {"sidecar", "index", "closed"} => closer.early \subseteq Ids(file) \cup lost

\* A writer that lives drops an event only in a batch that met a disk error or
\* its remains, while a rewind or a clear replaces the file, or when its
\* append() was still waiting for ensureInit() at the time of close(); a torn
\* line a crash leaves behind never takes an event of the next writer with it,
\* only its "resumed" record.
NoSilentLoss ==
    [][\A n \in Gone' \ Gone :
          \/ erred' /\ chain # <<>> /\ n \in Ids(Head(chain))
          \/ cutter.at \in {"copy", "rename"}
          \/ wiper.at \in {"drain", "record"} \/ wiper'.at = "drain"
          \/ init' = "none" /\ init # "none"
          \/ handle = "closed" /\ closer.at = "closed" /\ n \notin closer.early]_vars

\* A rewind to a checkpoint of the log removes the events after it and no
\* other, whatever is appended between its scan and its rename, unless a clear
\* has replaced the line the scan had stopped at.
RewindCuts ==
    [][LET marks == {file[i].id : i \in {j \in DOMAIN file :
                        file[j].k = "checkpoint" /\ file[j].p = cutter.target}}
       IN  /\ cutter.at = "rename" /\ cutter'.at = "idle" /\ file' = cutter.kept
           /\ cutter.keep \in DOMAIN file /\ file[cutter.keep].id = cutter.stop
           /\ marks # {}
           => Ids(file') = {n \in Ids(file) : n <= Min(marks)}]_vars

\* Once its callers pause every event has left the writer's memory, written or
\* dropped, and every flush, close, rewind and clear has ended: a failed write,
\* a closed handle or a crash holds up neither the chain nor who waits for it.
AllSettles ==
    []<>(/\ Held = {}
         /\ flusher.at = "idle" /\ closer.at \in {"idle", "closed"}
         /\ cutter.at = "idle" /\ wiper.at = "idle")

\* "the JSONL must have all events on disk before we write the .summary.json
\* sidecar" (doClose()): the sidecar counts only events of the log.
SidecarBacked ==
    closer.at \in {"index", "closed"} => closer.counted \subseteq Ids(file)

=============================================================================
