------------------------------ MODULE Mailbox ------------------------------
(***************************************************************************)
(* The message file of GlobalMailbox (coordination/global-mailbox.ts), shared *)
(* by processes, and the copy each of them keeps in memory.  Writers hold the *)
(* file lock, which is exclusive here (FileLock says when it is); readers do  *)
(* not, and trust the mtime and size they noted with their copy.  The calls   *)
(* of a process overlap: each await of one lets the others go on, as do the   *)
(* stats that nobody awaits.                                                  *)
(***************************************************************************)
EXTENDS Integers, Sequences, FiniteSets, SequencesExt

CONSTANTS Procs,
          Callers,   \* what makes calls, one at a time: an agent's loop, a tool
          Home,      \* [Callers -> Procs]
          Ids,       \* messages, each sent at most once
          Senders,   \* callers that send
          Ackers,    \* callers that mark messages read
          Purgers,   \* callers that drop old messages
          Readers,   \* callers that query
          MaxStats,  \* bound: stats of a process under way once a rewrite began
          MaxWrites, \* bound: writes of the file before which a rewrite begins
          Free       \* lock: nobody holds it

ASSUME MailboxAssumption ==
    /\ Home \in [Callers -> Procs]
    /\ Senders \cup Ackers \cup Purgers \cup Readers \subseteq Callers
    /\ IsFiniteSet(Callers)
    /\ MaxStats \in Nat /\ MaxWrites \in Nat
    /\ Free \notin Callers

VARIABLES file,      \* its lines
          mtime,     \* counts the writes; 0: there is no file
          lock,      \* the caller that writes the file, or Free
          pending,   \* the lines a rewrite is about to write
          dropping,  \* the ids it leaves out
          op,        \* [Callers -> Op]: the call under way
          draft,     \* [Callers -> messages]: what the call has read
          aliased,   \* callers whose array is the _messageCache of their process
          copy,      \* [Procs -> messages]: _messageCache
          copied,    \* [Procs -> BOOLEAN]: is _messageCache non-null?
          noted,     \* [Procs -> Stat]: _messageCacheMtime, _messageCacheSize
          stats,     \* [Procs -> Nat]: stats under way that nobody awaits
          torn,      \* processes with a copy set back while a call parsed a later tail
          seen,      \* [Callers -> Stat]: what the stat of the query returned
          from,      \* [Callers -> Int]: where the tail it reads begins
          owed,      \* [Callers -> SUBSET Ids]: sent when the query began
          missed,    \* callers that got an answer without all of these
          sent,      \* ids whose send() returned
          purged,    \* ids that were dropped
          acks       \* <<reader, id>> whose ack() is on disk

diskVars == <<file, mtime, lock, pending, dropping>>
callVars == <<op, draft, aliased>>
copyVars == <<copy, copied, noted, stats, torn>>
queryVars == <<seen, from, owed, missed>>
pastVars == <<sent, purged, acks>>
vars == <<diskVars, callVars, copyVars, queryVars, pastVars>>

Message == [id : Ids, readBy : SUBSET Callers]

\* "ack" and "purge": about to write the file; "ackCut" and "purgeCut": it is
\* truncated.
Rewriting == {"ack", "ackCut", "purge", "purgeCut"}

\* Where a query stands: "stat" has returned; "tail": the file is being opened,
\* then its tail read ("read") and parsed; "full": all of it is being read.
Querying == {"stat", "tail", "read", "parse", "full", "set"}

\* "appended": the line is in the file, send() still holds the lock; "adopt": the
\* lock is released, the copy not yet set.
Op == Rewriting \cup Querying \cup {"idle", "appended", "adopt"}

Unread(id) == [id |-> id, readBy |-> {}]

IdsOf(messages) == {m.id : m \in messages}

\* The lines at the positions of S, in their order.
Pick(lines, S) ==
    LET upTo(i) == Cardinality({j \in S : j <= i})
    IN  [k \in 1..Cardinality(S) |-> lines[CHOOSE i \in S : upTo(i) = k]]

\* The byte at which line i ends: a line grows with every reader in it.
EndOf(lines, i) ==
    2 * i + Cardinality({r \in (1..i) \X Callers : r[2] \in lines[r[1]].readBy})

NoStat == [mtime |-> -1, size |-> -1]

\* What stat() returns, and NoStat for ENOENT.
Stat == IF mtime = 0 THEN NoStat ELSE [mtime |-> mtime, size |-> EndOf(file, Len(file))]

\* The lines within bytes from .. to; a line cut in two does not parse.
Within(lines, first, last) ==
    {lines[i] : i \in {j \in DOMAIN lines :
                          EndOf(lines, j - 1) >= first /\ EndOf(lines, j) <= last}}

\* Types, and: the lock is held exactly while somebody writes the file.
MailboxTypeOK ==
    /\ ToSet(file) \cup ToSet(pending) \subseteq Message
    /\ draft \in [Callers -> SUBSET Message] /\ copy \in [Procs -> SUBSET Message]
    /\ mtime \in Nat
    /\ op \in [Callers -> Op]
    /\ copied \in [Procs -> BOOLEAN]
    /\ stats \in [Procs -> Nat]
    /\ sent \subseteq Ids /\ purged \subseteq sent
    /\ \A c \in Callers : op[c] \in Rewriting \cup {"appended"} <=> lock = c

Init ==
    /\ file = <<>> /\ mtime = 0 /\ lock = Free
    /\ pending = <<>> /\ dropping = {}
    /\ op = [c \in Callers |-> "idle"]
    /\ draft = [c \in Callers |-> {}]
    /\ aliased = {}
    /\ copy = [p \in Procs |-> {}]
    /\ copied = [p \in Procs |-> FALSE]
    /\ noted = [p \in Procs |-> NoStat]
    /\ stats = [p \in Procs |-> 0]
    /\ torn = {}
    /\ seen = [c \in Callers |-> NoStat]
    /\ from = [c \in Callers |-> 0]
    /\ owed = [c \in Callers |-> {}]
    /\ missed = {}
    /\ sent = {} /\ purged = {} /\ acks = {}

Goto(c, o) == op' = [op EXCEPT ![c] = o]

\* The array is a local variable of the call that ends.
Forget(c) == draft' = [draft EXCEPT ![c] = {}]

At(p) == {c \in Callers : Home[c] = p}

\* _setMessageCache(); whose: the call whose array it is, if that goes on.
Adopt(p, messages, whose) ==
    /\ copy' = [copy EXCEPT ![p] = messages]
    /\ copied' = [copied EXCEPT ![p] = TRUE]
    /\ aliased' = (aliased \ At(p)) \cup whose

\* By a rewriter, without a stat: one is started and not awaited, each of n times.
\* (Only a process that queries ever looks at what it notes.)
AdoptUnseen(p, messages, whose, n) ==
    /\ Adopt(p, messages, whose)
    /\ stats' = IF At(p) \cap Readers # {} THEN [stats EXCEPT ![p] = @ + n] ELSE stats
    /\ UNCHANGED <<noted, torn>>

\* By a query, with what its stat returned.  The copy may end before the tail
\* that another query of the process has begun to read.
AdoptSeen(p, messages, stat) ==
    /\ Adopt(p, messages, {})
    /\ noted' = [noted EXCEPT ![p] = stat]
    /\ torn' = IF \E d \in At(p) : op[d] \in {"read", "parse"} /\ from[d] > stat.size
               THEN torn \cup {p} ELSE torn
    /\ UNCHANGED stats

\* array.push() on _messageCache, which the array of a call may be as well.
Push(p, messages) ==
    /\ copy' = IF copied[p] THEN [copy EXCEPT ![p] = @ \cup messages] ELSE copy
    /\ UNCHANGED <<copied, stats, torn, aliased>>

Grown(p, messages) ==
    [c \in Callers |-> IF c \in aliased \cap At(p) THEN draft[c] \cup messages ELSE draft[c]]

\* Mutant: the append does not take the lock.
SendUnlocked(c, id) ==
    /\ c \in Senders /\ op[c] = "idle" /\ id \notin sent
    /\ file' = Append(file, Unread(id))
    /\ mtime' = mtime + 1
    /\ sent' = sent \cup {id}
    /\ UNCHANGED <<lock, pending, dropping, callVars, copyVars, queryVars, purged, acks>>

\* send() up to the end of appendFile().
SendAppend(c, id) ==
    /\ c \in Senders /\ op[c] = "idle" /\ id \notin sent
    /\ lock = Free
    /\ file' = Append(file, Unread(id))
    /\ mtime' = mtime + 1
    /\ lock' = c
    /\ draft' = [draft EXCEPT ![c] = {Unread(id)}]
    /\ Goto(c, "appended")
    /\ UNCHANGED <<pending, dropping, aliased, copyVars, queryVars, pastVars>>

\* Mutant: the size after the append is noted with it.
SendPushNoting(c) ==
    /\ op[c] = "appended"
    /\ Push(Home[c], draft[c])
    /\ noted' = [noted EXCEPT ![Home[c]] = Stat]
    /\ draft' = [Grown(Home[c], draft[c]) EXCEPT ![c] = {}]
    /\ sent' = sent \cup IdsOf(draft[c])
    /\ lock' = Free
    /\ Goto(c, "idle")
    /\ UNCHANGED <<file, mtime, pending, dropping, queryVars, purged, acks>>

\* _pushToCache() and the release: mtime and size stay as noted.
SendPush(c) ==
    /\ op[c] = "appended"
    /\ Push(Home[c], draft[c])
    /\ draft' = [Grown(Home[c], draft[c]) EXCEPT ![c] = {}]
    /\ sent' = sent \cup IdsOf(draft[c])
    /\ lock' = Free
    /\ Goto(c, "idle")
    /\ UNCHANGED <<file, mtime, pending, dropping, noted, queryVars, purged, acks>>

\* Mutant: the acknowledgement goes into the copy in memory.
ReadBack(p) == IF copied[p] THEN SetToSeq(copy[p]) ELSE file

\* _readMessagesFresh() of a writer that has just got the lock.
ReadFresh(p) == file

CanRewrite(c) ==
    /\ op[c] = "idle" /\ lock = Free
    /\ stats[Home[c]] + 2 <= MaxStats /\ mtime < MaxWrites

MarkRead(lines, id, c) ==
    [i \in DOMAIN lines |-> IF lines[i].id = id
                            THEN [lines[i] EXCEPT !.readBy = @ \cup {c}] ELSE lines[i]]

\* ackMany() of one id, up to the write, which it skips if no line changes.  The
\* lines it marks are the array it has put into _messageCache.  Callers pass ids
\* they were given; the message may have been marked or purged since.
AckRead(c, id) ==
    /\ c \in Ackers /\ CanRewrite(c) /\ id \in sent
    /\ LET lines == ReadFresh(Home[c])
           marked == MarkRead(lines, id, c)
       IN /\ AdoptUnseen(Home[c], ToSet(marked), {c}, 1)
          /\ draft' = [draft EXCEPT ![c] = ToSet(marked)]
          /\ IF marked = lines
             THEN Goto(c, "adopt") /\ UNCHANGED <<lock, pending>>
             ELSE Goto(c, "ack") /\ lock' = c /\ pending' = marked
    /\ UNCHANGED <<file, mtime, dropping, queryVars, pastVars>>

\* purgeStale(), up to the write: the messages of ids are old enough to go.  If
\* none is there, the array is adopted twice and the call returns.
PurgeRead(c, ids) ==
    /\ c \in Purgers /\ CanRewrite(c)
    /\ IF ids \cap IdsOf(ToSet(file)) = {}
       THEN /\ AdoptUnseen(Home[c], ToSet(file), {}, 2)
            /\ UNCHANGED <<op, lock, pending, dropping>>
       ELSE /\ AdoptUnseen(Home[c], ToSet(file), {}, 1)
            /\ pending' = Pick(file, {i \in DOMAIN file : file[i].id \notin ids})
            /\ dropping' = ids \cap IdsOf(ToSet(file))
            /\ lock' = c
            /\ Goto(c, "purge")
    /\ UNCHANGED <<file, mtime, draft, queryVars, pastVars>>

\* writeFile() opens the file with flag 'w' ...
Truncate(c) ==
    /\ op[c] \in {"ack", "purge"}
    /\ file' = <<>>
    /\ mtime' = mtime + 1
    /\ Goto(c, IF op[c] = "ack" THEN "ackCut" ELSE "purgeCut")
    /\ UNCHANGED <<lock, pending, dropping, draft, aliased, copyVars, queryVars, pastVars>>

\* ... then writes; the lock is released.  purgeStale() makes what it kept the
\* copy before that, ackMany() after.
Write(c) ==
    /\ op[c] \in {"ackCut", "purgeCut"}
    /\ file' = pending
    /\ mtime' = mtime + 1
    /\ lock' = Free /\ pending' = <<>> /\ dropping' = {}
    /\ IF op[c] = "ackCut"
       THEN Goto(c, "adopt") /\ UNCHANGED <<aliased, copyVars>>
       ELSE Goto(c, "idle") /\ AdoptUnseen(Home[c], ToSet(pending), {}, 1)
    /\ acks' = acks \cup {<<c, m.id>> : m \in {m \in ToSet(pending) : c \in m.readBy}}
    /\ purged' = purged \cup dropping
    /\ UNCHANGED <<draft, queryVars, sent>>

\* The snapshot becomes the copy, whatever was written since the release.
AdoptDraft(c) ==
    /\ op[c] = "adopt"
    /\ AdoptUnseen(Home[c], draft[c], {}, 1)
    /\ Goto(c, "idle")
    /\ Forget(c)
    /\ UNCHANGED <<diskVars, queryVars, pastVars>>

\* A stat that was not awaited: what it finds is noted beside whatever the copy
\* is by then.
StatLands(p) ==
    /\ stats[p] > 0
    /\ noted' = IF mtime > 0 THEN [noted EXCEPT ![p] = Stat] ELSE noted
    /\ stats' = [stats EXCEPT ![p] = @ - 1]
    /\ UNCHANGED <<diskVars, callVars, copy, copied, torn, queryVars, pastVars>>

\* The stat of _readMessagesCached().
QueryStat(c) ==
    /\ c \in Readers /\ op[c] = "idle"
    /\ Goto(c, "stat")
    /\ seen' = [seen EXCEPT ![c] = Stat]
    /\ owed' = [owed EXCEPT ![c] = sent \ purged]
    /\ UNCHANGED <<diskVars, draft, aliased, copyVars, from, missed, pastVars>>

Current(p, stat) == copied[p] /\ noted[p] = stat

OnlyGrew(p, stat) == copied[p] /\ noted[p].size >= 0 /\ stat.size > noted[p].size

\* The query ends, and returns ids.
Ends(c) ==
    /\ Goto(c, "idle")
    /\ seen' = [seen EXCEPT ![c] = NoStat]
    /\ from' = [from EXCEPT ![c] = 0]
    /\ owed' = [owed EXCEPT ![c] = {}]

Answers(c, ids) ==
    /\ Ends(c)
    /\ missed' = IF owed[c] \subseteq ids THEN missed ELSE missed \cup {c}

\* There was no file.
QueryNothing(c) ==
    /\ op[c] = "stat" /\ seen[c] = NoStat
    /\ AdoptSeen(Home[c], {}, NoStat)
    /\ Answers(c, {})
    /\ UNCHANGED <<diskVars, draft, pastVars>>

\* The copy is trusted.
QueryCopy(c) ==
    /\ op[c] = "stat" /\ seen[c] # NoStat /\ Current(Home[c], seen[c])
    /\ Answers(c, IdsOf(copy[Home[c]]))
    /\ UNCHANGED <<diskVars, draft, aliased, copyVars, pastVars>>

\* The file is opened, for its tail or for all of it.
QueryOpens(c) ==
    /\ op[c] = "stat" /\ seen[c] # NoStat /\ ~ Current(Home[c], seen[c])
    /\ Goto(c, IF OnlyGrew(Home[c], seen[c]) THEN "tail" ELSE "full")
    /\ UNCHANGED <<diskVars, draft, aliased, copyVars, queryVars, pastVars>>

\* The tail begins at the size noted by now; if that is behind the size seen, the
\* buffer has a negative length and the query throws.
TailFrom(c) ==
    /\ op[c] = "tail"
    /\ LET first == noted[Home[c]].size
       IN IF first > seen[c].size
          THEN Ends(c)
          ELSE /\ Goto(c, "read")
               /\ from' = [from EXCEPT ![c] = first]
               /\ UNCHANGED <<seen, owed>>
    /\ UNCHANGED <<diskVars, draft, aliased, copyVars, missed, pastVars>>

TailRead(c) ==
    /\ op[c] = "read"
    /\ Goto(c, "parse")
    /\ draft' = [draft EXCEPT ![c] = Within(file, from[c], seen[c].size)]
    /\ UNCHANGED <<diskVars, aliased, copyVars, queryVars, pastVars>>

\* What was read is pushed on what the copy is by then.
TailParsed(c) ==
    LET p == Home[c] IN
    /\ op[c] = "parse"
    /\ Push(p, draft[c])
    /\ noted' = [noted EXCEPT ![p] = seen[c]]
    /\ Answers(c, IdsOf(copy'[p]))
    /\ draft' = [Grown(p, draft[c]) EXCEPT ![c] = {}]
    /\ UNCHANGED <<diskVars, pastVars>>

FullRead(c) ==
    /\ op[c] = "full"
    /\ Goto(c, "set")
    /\ draft' = [draft EXCEPT ![c] = ToSet(file)]
    /\ UNCHANGED <<diskVars, aliased, copyVars, queryVars, pastVars>>

FullSet(c) ==
    /\ op[c] = "set"
    /\ AdoptSeen(Home[c], draft[c], seen[c])
    /\ Answers(c, IdsOf(draft[c]))
    /\ Forget(c)
    /\ UNCHANGED <<diskVars, pastVars>>

Next ==
    \/ \E p \in Procs : StatLands(p)
    \/ \E c \in Callers :
        \/ \E id \in Ids : SendAppend(c, id)
        \/ SendPush(c)
        \/ \E id \in Ids : AckRead(c, id)
        \/ \E ids \in SUBSET Ids : PurgeRead(c, ids)
        \/ Truncate(c)
        \/ Write(c)
        \/ AdoptDraft(c)
        \/ QueryStat(c)
        \/ QueryNothing(c)
        \/ QueryCopy(c)
        \/ QueryOpens(c)
        \/ TailFrom(c)
        \/ TailRead(c)
        \/ TailParsed(c)
        \/ FullRead(c)
        \/ FullSet(c)

Spec == Init /\ [][Next]_vars

-----------------------------------------------------------------------------
\* A message is in the file until it is purged: "an unlocked append racing
\* ack's read->rewrite gets silently erased when the rewrite lands".
MessagesKept == lock = Free => sent \ purged \subseteq IdsOf(ToSet(file))

\* So is the mark of every reader, whoever rewrote the file since.
AcksKept ==
    lock = Free =>
        \A a \in acks : a[2] \notin purged =>
            \E m \in ToSet(file) : m.id = a[2] /\ a[1] \in m.readBy

Untouched == acks = {} /\ purged = {} /\ \A c \in Callers : op[c] \notin Rewriting

PurgesNot == {c \in Callers : At(Home[c]) \cap Purgers = {}}

\* As long as nobody has rewritten the file, a process that does not purge misses
\* no message, however its queries overlap one another and sends of its own and of
\* others: a query that began after a send() returned answers with its message,
\* unless a full read has set the copy back behind the tail of another query.
QueryComplete ==
    Untouched =>
        \A c \in missed \cap PurgesNot : Home[c] \in torn

\* "an unchanged mtimeMs guarantees no write happened and the cache is current".
CopyCurrent ==
    \A p \in Procs :
        copied[p] /\ noted[p] = Stat /\ lock = Free => copy[p] = ToSet(file)
=============================================================================
