--------------------------- MODULE MailboxProofs ---------------------------
(***************************************************************************)
(* What holds of the message file and of the readers' copies for any set of  *)
(* processes and callers and any number of messages, acknowledgements and    *)
(* purges.                                                                   *)
(***************************************************************************)
EXTENDS Mailbox, FiniteSetTheorems, TLAPS

Lines == Seq(Message)
Stats == [mtime : Int, size : Int]
Writing == Rewriting \cup {"appended"}

Kinds ==
    /\ file \in Lines /\ pending \in Lines
    /\ draft \in [Callers -> SUBSET Message] /\ copy \in [Procs -> SUBSET Message]
    /\ mtime \in Nat
    /\ op \in [Callers -> Op] /\ copied \in [Procs -> BOOLEAN] /\ stats \in [Procs -> Nat]
    /\ noted \in [Procs -> Stats] /\ seen \in [Callers -> Stats]
    /\ from \in [Callers -> Int] /\ owed \in [Callers -> SUBSET Ids]
    /\ lock \in Callers \cup {Free}
    /\ \A c \in Callers : op[c] \in Writing <=> lock = c
    /\ sent \subseteq Ids /\ acks \subseteq Callers \X Ids

\* Whose lines are where: a call whose array is the copy is an ackMany(), and all
\* that is in the file was sent, but for the line of the send() under way.
Origins ==
    /\ \A c \in aliased : c \in Callers /\ op[c] \in {"ack", "ackCut", "adopt"}
    /\ \A c \in Callers : op[c] \in {"tail", "read", "parse"} => copied[Home[c]]
    /\ purged \subseteq sent /\ dropping \subseteq sent
    /\ lock = Free => IdsOf(ToSet(file)) \subseteq sent
    /\ \A c \in Callers :
          /\ op[c] = "appended" => /\ IdsOf(ToSet(file)) \subseteq sent \cup IdsOf(draft[c])
                                  /\ IdsOf(draft[c]) \subseteq IdsOf(ToSet(file)) \cap Ids
          /\ op[c] \in Rewriting => IdsOf(ToSet(pending)) \subseteq sent
    /\ mtime = 0 => sent = {} /\ lock = Free

Marked(a, lines) == \E m \in ToSet(lines) : m.id = a[2] /\ a[1] \in m.readBy

\* Unless somebody rewrites the file, it holds every message and every mark.
Stored ==
    (\A c \in Callers : op[c] \notin Rewriting) =>
        /\ sent \ purged \subseteq IdsOf(ToSet(file))
        /\ \A a \in acks : a[2] \notin purged => Marked(a, file)

\* While it is being rewritten, truncated or not, what it is to hold is pending,
\* but for the messages that the rewrite drops.
Rewrite ==
    \A c \in Callers : op[c] \in Rewriting =>
        /\ sent \ purged \subseteq IdsOf(ToSet(pending)) \cup dropping
        /\ \A a \in acks : a[2] \notin purged => Marked(a, pending) \/ a[2] \in dropping
        /\ op[c] \in {"ack", "ackCut"} => \E m \in ToSet(pending) : c \in m.readBy
        /\ op[c] \in {"purge", "purgeCut"} => dropping # {}

Safe == Stored /\ Rewrite

\* The sizes that a stat of a file without marks returned, and what such a file
\* held then.
Sizes(lines) == {-1} \cup {2 * n : n \in 0..Len(lines)}
Upto(lines, k) == {lines[i].id : i \in {j \in 1..Len(lines) : 2 * j <= k}}

\* The copy of a process holds the messages up to the size it noted.
CopyBehind(p) ==
    /\ stats[p] = 0
    /\ p \notin torn => /\ noted[p].size \in Sizes(file)
                       /\ Upto(file, noted[p].size) \subseteq IdsOf(copy[p])

\* A query owes what was sent up to the size it saw, and has it, in the copy or
\* in what it has read.
CallBehind(c) ==
    /\ op[c] # "adopt"
    /\ op[c] \in Querying => seen[c].size \in Sizes(file) /\ owed[c] \subseteq Upto(file, seen[c].size)
    /\ Home[c] \notin torn =>
          /\ op[c] \in {"read", "parse"} =>
                from[c] \in Sizes(file) /\ Upto(file, from[c]) \subseteq IdsOf(copy[Home[c]])
          /\ op[c] = "parse" => Upto(file, seen[c].size) \subseteq Upto(file, from[c]) \cup IdsOf(draft[c])
    /\ op[c] = "set" => Upto(file, seen[c].size) \subseteq IdsOf(draft[c])
    /\ c \in missed => Home[c] \in torn

AppendOnly ==
    Untouched =>
        /\ \A i \in DOMAIN file : file[i].readBy = {}
        /\ \A p \in Procs : At(p) \cap Purgers = {} => CopyBehind(p)
        /\ \A c \in PurgesNot : CallBehind(c)

MInv == Kinds /\ Origins /\ Safe /\ AppendOnly

LEMMA TypesOfMInv == MInv => MailboxTypeOK
<1> SUFFICES ASSUME MInv PROVE MailboxTypeOK
    OBVIOUS
<1>1. \A lines \in Lines : ToSet(lines) \subseteq Message
    BY DEF Lines, ToSet
<1> QED
    BY <1>1 DEF MInv, Kinds, Origins, MailboxTypeOK, Writing

LEMMA MInvSafe == MInv => MessagesKept /\ AcksKept /\ QueryComplete
<1> SUFFICES ASSUME MInv PROVE MessagesKept /\ AcksKept /\ QueryComplete
    OBVIOUS
<1>1. lock = Free => \A c \in Callers : op[c] \notin Rewriting
    BY MailboxAssumption DEF MInv, Kinds, Writing
<1>2. MessagesKept /\ AcksKept
    BY <1>1 DEF MInv, Safe, Stored, MessagesKept, AcksKept, Marked
<1>3. QueryComplete
    BY DEF MInv, AppendOnly, CallBehind, QueryComplete
<1> QED
    BY <1>2, <1>3

-----------------------------------------------------------------------------
(* The operators *)

\* Filtering an array keeps exactly the lines at the chosen positions.
LEMMA PickOK ==
    ASSUME NEW lines \in Lines, NEW S \in SUBSET DOMAIN lines
    PROVE  Pick(lines, S) \in Lines /\ ToSet(Pick(lines, S)) = {lines[i] : i \in S}
<1> DEFINE Below(i) == {j \in S : j <= i}
           c == Cardinality(S)
           rank == [i \in S |-> Cardinality(Below(i))]
           at == [k \in 1..c |-> CHOOSE i \in S : Cardinality(Below(i)) = k]
<1>1. S \subseteq Nat /\ IsFiniteSet(S) /\ c \in Nat
    <2>1. DOMAIN lines = 1..Len(lines) /\ Len(lines) \in Nat
        BY DEF Lines
    <2>2. IsFiniteSet(DOMAIN lines)
        BY <2>1, FS_Interval
    <2>3. IsFiniteSet(S)
        BY <2>2, FS_Subset
    <2> QED
        BY <2>1, <2>3, FS_CardinalityType
<1>2. \A i \in S : /\ IsFiniteSet(Below(i)) /\ Cardinality(Below(i)) \in Nat
                   /\ Cardinality(Below(i)) <= c /\ Cardinality(Below(i)) # 0
    <2> TAKE i \in S
    <2>1. IsFiniteSet(Below(i)) /\ Cardinality(Below(i)) <= c
        BY <1>1, FS_Subset
    <2>2. i \in Below(i)
        BY <1>1
    <2>3. Cardinality(Below(i)) \in Nat
        BY <2>1, FS_CardinalityType
    <2>4. Cardinality(Below(i)) # 0
        BY <2>1, <2>2, FS_EmptySet
    <2> QED
        BY <2>1, <2>3, <2>4
<1>3. rank \in [S -> 1..c]
    BY <1>1, <1>2
<1>4. \A i, j \in S : rank[i] = rank[j] => i = j
    <2> SUFFICES ASSUME NEW i \in S, NEW j \in S, i < j, rank[i] = rank[j] PROVE FALSE
        BY <1>1
    <2>1. Below(i) \subseteq Below(j) /\ j \in Below(j) /\ j \notin Below(i)
        BY <1>1
    <2>2. Below(i) = Below(j)
        <3>1. Below(i) \in SUBSET Below(j)
            BY <2>1
        <3>2. Cardinality(Below(j)) = Cardinality(Below(i))
            OBVIOUS
        <3>3. IsFiniteSet(Below(j))
            BY <1>2
        <3> HIDE DEF Below
        <3> QED
            BY <3>1, <3>2, <3>3, FS_Subset
    <2> QED
        BY <2>1, <2>2
<1>5. rank \in Surjection(S, 1..c)
    <2>1. rank \in Injection(S, 1..c)
        BY <1>3, <1>4 DEF Injection, IsInjective
    <2>2. IsFiniteSet(1..c) /\ Cardinality(1..c) = c
        BY <1>1, FS_Interval
    <2> HIDE DEF rank
    <2> QED
        BY <2>1, <2>2, FS_Injection
<1>6. \A k \in 1..c : \E i \in S : Cardinality(Below(i)) = k
    BY <1>5 DEF Surjection
<1>7. \A k \in 1..c : at[k] \in S /\ Cardinality(Below(at[k])) = k
    BY <1>6
<1>8. \A i \in S : rank[i] \in 1..c /\ at[rank[i]] = i
    <2> TAKE i \in S
    <2>1. rank[i] \in 1..c
        BY <1>3
    <2>2. at[rank[i]] \in S /\ rank[at[rank[i]]] = rank[i]
        BY <1>7, <2>1
    <2> QED
        BY <1>4, <2>1, <2>2
<1>9. Pick(lines, S) = [k \in 1..c |-> lines[at[k]]]
    BY DEF Pick
<1>10. \A i \in S : lines[i] \in Message
    BY DEF Lines
<1> HIDE DEF at, rank, c
<1>11. Pick(lines, S) \in Lines
    <2>1. \A k \in 1..c : lines[at[k]] \in Message
        BY <1>7, <1>10
    <2> QED
        BY <1>1, <1>9, <2>1 DEF Lines
<1>12. DOMAIN Pick(lines, S) = 1..c /\ \A k \in 1..c : Pick(lines, S)[k] = lines[at[k]]
    BY <1>9
<1>13. ToSet(Pick(lines, S)) = {lines[i] : i \in S}
    <2>1. ASSUME NEW k \in 1..c PROVE Pick(lines, S)[k] \in {lines[i] : i \in S}
        BY <1>7, <1>12, <2>1
    <2>2. ASSUME NEW i \in S PROVE \E k \in 1..c : lines[i] = Pick(lines, S)[k]
        BY <1>8, <1>12, <2>2
    <2> QED
        BY <1>12, <2>1, <2>2 DEF ToSet
<1> QED
    BY <1>11, <1>13

\* Sizes are sizes, and a line nobody has read takes two bytes.
LEMMA EndOfOK ==
    ASSUME NEW lines \in Lines, NEW i \in 0..Len(lines)
    PROVE  /\ EndOf(lines, i) \in Nat
           /\ (\A j \in 1..i : lines[j].readBy = {}) => EndOf(lines, i) = 2 * i
<1> DEFINE Reads == {r \in (1..i) \X Callers : r[2] \in lines[r[1]].readBy}
<1>1. i \in Nat
    BY DEF Lines
<1>2. IsFiniteSet(Reads) /\ Cardinality(Reads) \in Nat
    <2>1. IsFiniteSet(1..i)
        BY <1>1, FS_Interval
    <2>2. IsFiniteSet((1..i) \X Callers)
        BY <2>1, MailboxAssumption, FS_Product
    <2>3. IsFiniteSet(Reads)
        BY <2>2, FS_Subset
    <2> QED
        BY <2>3, FS_CardinalityType
<1>3. EndOf(lines, i) = 2 * i + Cardinality(Reads)
    BY DEF EndOf
<1>4. ASSUME \A j \in 1..i : lines[j].readBy = {} PROVE Cardinality(Reads) = 0
    <2>1. Reads = {}
        BY <1>4
    <2> QED
        BY <2>1, FS_EmptySet
<1> HIDE DEF Reads
<1> QED
    BY <1>1, <1>2, <1>3, <1>4

LEMMA LinesOK ==
    ASSUME NEW lines \in Lines
    PROVE  /\ DOMAIN lines = 1..Len(lines) /\ Len(lines) \in Nat
           /\ \A i \in DOMAIN lines : lines[i] \in Message
           /\ ToSet(lines) = {lines[i] : i \in DOMAIN lines}
           /\ ToSet(lines) \subseteq Message
           /\ IdsOf(ToSet(lines)) = {lines[i].id : i \in DOMAIN lines}
           /\ IdsOf(ToSet(lines)) \subseteq Ids
<1>1. DOMAIN lines = 1..Len(lines) /\ Len(lines) \in Nat
    BY DEF Lines
<1>2. \A i \in DOMAIN lines : lines[i] \in Message
    BY DEF Lines
<1>3. ToSet(lines) = {lines[i] : i \in DOMAIN lines}
    BY DEF ToSet
<1>4. \A m \in Message : m.id \in Ids
    BY DEF Message
<1> QED
    BY <1>1, <1>2, <1>3, <1>4 DEF IdsOf

LEMMA UnreadOK == \A id \in Ids : Unread(id) \in Message /\ Unread(id).id = id
                                  /\ Unread(id).readBy = {}
BY DEF Unread, Message

LEMMA AppendOK ==
    ASSUME NEW lines \in Lines, NEW id \in Ids
    PROVE  LET new == Append(lines, Unread(id))
           IN  /\ new \in Lines /\ Len(new) = Len(lines) + 1
               /\ \A i \in 1..Len(lines) : new[i] = lines[i]
               /\ new[Len(lines) + 1] = Unread(id)
               /\ ToSet(new) = ToSet(lines) \cup {Unread(id)}
               /\ IdsOf(ToSet(new)) = IdsOf(ToSet(lines)) \cup {id}
<1> DEFINE new == Append(lines, Unread(id))
<1>1. /\ new \in Lines /\ Len(new) = Len(lines) + 1
      /\ \A i \in 1..Len(lines) : new[i] = lines[i]
      /\ new[Len(lines) + 1] = Unread(id)
    BY UnreadOK DEF Lines
<1>2. /\ DOMAIN new = DOMAIN lines \cup {Len(lines) + 1}
      /\ DOMAIN lines = 1..Len(lines)
    BY <1>1 DEF Lines
<1> HIDE DEF new
<1>3. ToSet(new) = ToSet(lines) \cup {Unread(id)}
    BY <1>1, <1>2 DEF ToSet
<1>4. IdsOf(ToSet(new)) = IdsOf(ToSet(lines)) \cup {id}
    BY <1>3, UnreadOK DEF IdsOf
<1> QED
    BY <1>1, <1>3, <1>4 DEF new

LEMMA StatOK ==
    ASSUME file \in Lines, mtime \in Nat
    PROVE  /\ Stat \in Stats
           /\ mtime = 0 => Stat = NoStat
           /\ mtime > 0 => Stat.size \in Nat /\ Stat # NoStat
           /\ mtime > 0 /\ (\A i \in DOMAIN file : file[i].readBy = {})
                 => Stat.size = 2 * Len(file)
<1>1. Len(file) \in 0..Len(file) /\ DOMAIN file = 1..Len(file)
    BY DEF Lines
<1>2. EndOf(file, Len(file)) \in Nat
    BY <1>1, EndOfOK
<1>3. (\A j \in 1..Len(file) : file[j].readBy = {}) => EndOf(file, Len(file)) = 2 * Len(file)
    BY <1>1, EndOfOK
<1>4. NoStat \in Stats
    BY DEF NoStat, Stats
<1> QED
    BY <1>1, <1>2, <1>3, <1>4 DEF Stat, Stats, NoStat

\* MarkRead() keeps the ids and the marks, and adds p's.
LEMMA MarkReadOK ==
    ASSUME NEW lines \in Lines, NEW id \in Ids, NEW p \in Callers
    PROVE  LET new == MarkRead(lines, id, p)
           IN  /\ new \in Lines /\ IdsOf(ToSet(new)) = IdsOf(ToSet(lines))
               /\ \A a \in Callers \X Ids : Marked(a, lines) => Marked(a, new)
               /\ new # lines => \E m \in ToSet(new) : p \in m.readBy
               /\ (\E i \in DOMAIN lines : lines[i].id = id /\ p \notin lines[i].readBy)
                     => new # lines
<1> DEFINE new == MarkRead(lines, id, p)
           grown(m) == [m EXCEPT !.readBy = @ \cup {p}]
<1>1. \A m \in Message : /\ grown(m) \in Message /\ grown(m).id = m.id
                         /\ grown(m).readBy = m.readBy \cup {p}
    BY DEF Message
<1>2. /\ DOMAIN new = DOMAIN lines
      /\ \A i \in DOMAIN lines : new[i] = IF lines[i].id = id THEN grown(lines[i]) ELSE lines[i]
    BY DEF MarkRead
<1>3. /\ DOMAIN lines = 1..Len(lines) /\ Len(lines) \in Nat
      /\ \A i \in DOMAIN lines : lines[i] \in Message
    BY DEF Lines
<1>4. new = [i \in 1..Len(lines) |-> IF lines[i].id = id THEN grown(lines[i]) ELSE lines[i]]
    BY <1>3 DEF MarkRead
<1> HIDE DEF grown
<1>5. /\ \A i \in DOMAIN lines : new[i] \in Message /\ new[i].id = lines[i].id
      /\ \A i \in DOMAIN lines : lines[i].readBy \subseteq new[i].readBy
    <2> HIDE DEF new
    <2> QED
        BY <1>1, <1>2, <1>3
<1>6. new \in Lines
    <2>1. new \in [1..Len(lines) -> Message]
        BY <1>3, <1>4, <1>5
    <2> HIDE DEF new
    <2> QED
        BY <1>3, <2>1 DEF Lines
<1> HIDE DEF new
<1>7. IdsOf(ToSet(new)) = IdsOf(ToSet(lines))
    <2>1. IdsOf(ToSet(new)) = {new[i].id : i \in DOMAIN lines}
        BY <1>2, <1>6, LinesOK
    <2>2. IdsOf(ToSet(lines)) = {lines[i].id : i \in DOMAIN lines}
        BY LinesOK
    <2> QED
        BY <1>5, <2>1, <2>2
<1>8. ASSUME NEW a \in Callers \X Ids, Marked(a, lines) PROVE Marked(a, new)
    <2>1. PICK i \in DOMAIN lines : lines[i].id = a[2] /\ a[1] \in lines[i].readBy
        BY <1>8 DEF Marked, ToSet
    <2>2. new[i].id = a[2] /\ a[1] \in new[i].readBy
        BY <1>5, <2>1
    <2> QED
        BY <1>2, <2>2 DEF Marked, ToSet
<1>9. ASSUME new # lines PROVE \E m \in ToSet(new) : p \in m.readBy
    <2>1. PICK i \in DOMAIN lines : new[i] # lines[i]
        <3>1. new \in [1..Len(lines) -> Message] /\ lines \in [1..Len(lines) -> Message]
            BY <1>2, <1>3, <1>6 DEF Lines
        <3> QED
            BY <1>3, <1>9, <3>1
    <2>2. p \in new[i].readBy
        BY <1>1, <1>2, <1>3, <2>1
    <2> QED
        BY <1>2, <2>2 DEF ToSet
<1>10. ASSUME NEW i \in DOMAIN lines, lines[i].id = id, p \notin lines[i].readBy PROVE new # lines
    <2>1. p \in new[i].readBy
        BY <1>1, <1>2, <1>3, <1>10
    <2> QED
        BY <1>10, <2>1
<1> QED
    BY <1>6, <1>7, <1>8, <1>9, <1>10 DEF new

Without(lines, ids) == Pick(lines, {i \in DOMAIN lines : lines[i].id \notin ids})

LEMMA PurgeOK ==
    ASSUME NEW lines \in Lines, NEW ids \in SUBSET Ids
    PROVE  /\ Without(lines, ids) \in Lines
           /\ IdsOf(ToSet(Without(lines, ids))) = IdsOf(ToSet(lines)) \ ids
           /\ \A a \in Callers \X Ids :
                 Marked(a, lines) => Marked(a, Without(lines, ids)) \/ a[2] \in ids
<1> DEFINE S == {i \in DOMAIN lines : lines[i].id \notin ids}
           new == Pick(lines, S)
<1>1. new \in Lines /\ ToSet(new) = {lines[i] : i \in S}
    BY PickOK
<1> HIDE DEF new
<1>2. IdsOf(ToSet(new)) = {lines[i].id : i \in S}
    BY <1>1 DEF IdsOf
<1>3. IdsOf(ToSet(lines)) = {lines[i].id : i \in DOMAIN lines}
    BY LinesOK
<1>4. IdsOf(ToSet(new)) = IdsOf(ToSet(lines)) \ ids
    BY <1>2, <1>3
<1>5. ASSUME NEW a \in Callers \X Ids, Marked(a, lines) PROVE Marked(a, new) \/ a[2] \in ids
    <2>1. PICK i \in DOMAIN lines : lines[i].id = a[2] /\ a[1] \in lines[i].readBy
        BY <1>5 DEF Marked, ToSet
    <2> QED
        BY <1>1, <2>1 DEF Marked
<1> QED
    BY <1>1, <1>4, <1>5 DEF new, Without

-----------------------------------------------------------------------------
(* Types, the lock and the origin of lines *)

LEMMA HomeOK == \A c \in Callers : Home[c] \in Procs /\ c \in At(Home[c])
BY MailboxAssumption DEF At

LEMMA AdoptOK ==
    ASSUME Kinds, NEW p \in Procs, NEW messages \in SUBSET Message, NEW whose,
           Adopt(p, messages, whose)
    PROVE  /\ copy' \in [Procs -> SUBSET Message] /\ copied' \in [Procs -> BOOLEAN]
           /\ copy'[p] = messages /\ copied'[p]
           /\ \A q \in Procs \ {p} : copy'[q] = copy[q] /\ copied'[q] = copied[q]
           /\ aliased' = (aliased \ At(p)) \cup whose
BY DEF Kinds, Adopt

LEMMA AdoptUnseenOK ==
    ASSUME Kinds, NEW p \in Procs, NEW messages \in SUBSET Message, NEW whose, NEW n \in Nat,
           AdoptUnseen(p, messages, whose, n)
    PROVE  /\ copy' \in [Procs -> SUBSET Message] /\ copied' \in [Procs -> BOOLEAN]
           /\ \A q \in Procs : copied[q] => copied'[q]
           /\ \A q \in Procs \ {p} : copy'[q] = copy[q] /\ stats'[q] = stats[q]
           /\ aliased' = (aliased \ At(p)) \cup whose
           /\ stats' \in [Procs -> Nat]
           /\ UNCHANGED <<noted, torn>>
<1>1. /\ Adopt(p, messages, whose) /\ UNCHANGED <<noted, torn>>
      /\ stats' = stats \/ stats' = [stats EXCEPT ![p] = @ + n]
    BY DEF AdoptUnseen
<1>2. stats' \in [Procs -> Nat] /\ \A q \in Procs \ {p} : stats'[q] = stats[q]
    <2>1. stats \in [Procs -> Nat] /\ stats[p] + n \in Nat
        BY DEF Kinds
    <2> QED
        BY <1>1, <2>1
<1>3. \A q \in Procs : copied[q] => copied'[q]
    BY <1>1, AdoptOK
<1> QED
    BY <1>1, <1>2, <1>3, AdoptOK

LEMMA AdoptSeenOK ==
    ASSUME Kinds, NEW p \in Procs, NEW messages \in SUBSET Message, NEW stat \in Stats,
           AdoptSeen(p, messages, stat)
    PROVE  /\ copy' \in [Procs -> SUBSET Message] /\ copied' \in [Procs -> BOOLEAN]
           /\ copy'[p] = messages /\ noted'[p] = stat
           /\ \A q \in Procs : copied[q] => copied'[q]
           /\ \A q \in Procs \ {p} : copy'[q] = copy[q] /\ noted'[q] = noted[q]
           /\ aliased' = aliased \ At(p)
           /\ noted' \in [Procs -> Stats] /\ stats' = stats
           /\ torn \subseteq torn'
           /\ \A c \in At(p) : op[c] \in {"read", "parse"} /\ from[c] > stat.size => p \in torn'
<1>1. /\ Adopt(p, messages, {}) /\ stats' = stats
      /\ noted' = [noted EXCEPT ![p] = stat]
    BY DEF AdoptSeen
<1>2. noted' \in [Procs -> Stats] /\ noted'[p] = stat
      /\ \A q \in Procs \ {p} : noted'[q] = noted[q]
    BY <1>1 DEF Kinds
<1>3. /\ torn \subseteq torn'
      /\ \A c \in At(p) : op[c] \in {"read", "parse"} /\ from[c] > stat.size => p \in torn'
    BY DEF AdoptSeen
<1>4. /\ copy' \in [Procs -> SUBSET Message] /\ copied' \in [Procs -> BOOLEAN]
      /\ copy'[p] = messages /\ copied'[p]
      /\ \A q \in Procs \ {p} : copy'[q] = copy[q] /\ copied'[q] = copied[q]
      /\ aliased' = (aliased \ At(p)) \cup {}
    BY <1>1, AdoptOK
<1>5. aliased' = aliased \ At(p)
    BY <1>4
<1> QED
    BY <1>1, <1>2, <1>3, <1>4, <1>5

LEMMA PushOK ==
    ASSUME Kinds, NEW p \in Procs, NEW messages \in SUBSET Message, Push(p, messages)
    PROVE  /\ copy' \in [Procs -> SUBSET Message]
           /\ \A q \in Procs : copy[q] \subseteq copy'[q]
           /\ copied[p] => copy'[p] = copy[p] \cup messages
           /\ UNCHANGED <<copied, stats, torn, aliased>>
BY DEF Kinds, Push

LEMMA GrownOK ==
    ASSUME Kinds, NEW p \in Procs, NEW messages \in SUBSET Message, NEW c \in Callers,
           draft' = [Grown(p, messages) EXCEPT ![c] = {}]
    PROVE  /\ draft' \in [Callers -> SUBSET Message]
           /\ \A d \in Callers \ {c} : d \notin aliased => draft'[d] = draft[d]
<1>1. Grown(p, messages) \in [Callers -> SUBSET Message]
    BY DEF Kinds, Grown
<1>2. \A d \in Callers : d \notin aliased => Grown(p, messages)[d] = draft[d]
    BY DEF Grown
<1> QED
    BY <1>1, <1>2

LEMMA WithinOK ==
    ASSUME NEW lines \in Lines, NEW first, NEW last
    PROVE  Within(lines, first, last) \in SUBSET Message
BY LinesOK DEF Within

\* What a call does to the lock.
LEMMA GotoOK ==
    ASSUME Kinds, NEW c \in Callers, NEW o \in Op, Goto(c, o),
           \/ (o \in Writing <=> op[c] \in Writing) /\ lock' = lock
           \/ o \in Writing /\ lock = Free /\ lock' = c
           \/ o \notin Writing /\ op[c] \in Writing /\ lock' = Free
    PROVE  /\ op' \in [Callers -> Op] /\ lock' \in Callers \cup {Free}
           /\ \A d \in Callers : op'[d] \in Writing <=> lock' = d
           /\ op'[c] = o /\ \A d \in Callers \ {c} : op'[d] = op[d]
<1>1. /\ op' \in [Callers -> Op]
      /\ op'[c] = o /\ \A d \in Callers \ {c} : op'[d] = op[d]
    BY DEF Kinds, Goto
<1>2. /\ lock \in Callers \cup {Free} /\ \A d \in Callers : op[d] \in Writing <=> lock = d
      /\ Free \notin Callers
    BY MailboxAssumption DEF Kinds
<1>3. CASE (o \in Writing <=> op[c] \in Writing) /\ lock' = lock
    <2>1. \A d \in Callers : op'[d] \in Writing <=> op[d] \in Writing
        BY <1>1, <1>3
    <2> QED
        BY <1>1, <1>2, <1>3, <2>1
<1>4. CASE o \in Writing /\ lock = Free /\ lock' = c
    BY <1>1, <1>2, <1>4
<1>5. CASE o \notin Writing /\ op[c] \in Writing /\ lock' = Free
    BY <1>1, <1>2, <1>5
<1> QED
    BY <1>3, <1>4, <1>5

LEMMA Ops == \A o : /\ o \in Op <=> \/ o \in Writing \/ o \in Querying
                                 \/ o \in {"idle", "adopt"}
                    /\ o \in Writing <=> o \in {"ack", "ackCut", "purge", "purgeCut", "appended"}
                    /\ o \in Querying <=> o \in {"stat", "tail", "read", "parse", "full", "set"}
                    /\ o \in Rewriting <=> o \in {"ack", "ackCut", "purge", "purgeCut"}
BY DEF Op, Writing, Rewriting, Querying

\* What the end of a query does to the call.
LEMMA EndsOK ==
    ASSUME Kinds, NEW c \in Callers, op[c] \notin Writing, lock' = lock, Ends(c)
    PROVE  /\ op' \in [Callers -> Op] /\ lock' \in Callers \cup {Free}
           /\ \A d \in Callers : op'[d] \in Writing <=> lock' = d
           /\ op'[c] = "idle"
           /\ \A d \in Callers \ {c} : /\ op'[d] = op[d] /\ seen'[d] = seen[d]
                                       /\ from'[d] = from[d] /\ owed'[d] = owed[d]
           /\ seen' \in [Callers -> Stats] /\ from' \in [Callers -> Int]
           /\ owed' \in [Callers -> SUBSET Ids]
<1>1. Goto(c, "idle") /\ "idle" \in Op /\ "idle" \notin Writing
    BY Ops DEF Ends
<1>2. /\ op' \in [Callers -> Op] /\ lock' \in Callers \cup {Free}
      /\ \A d \in Callers : op'[d] \in Writing <=> lock' = d
      /\ op'[c] = "idle" /\ \A d \in Callers \ {c} : op'[d] = op[d]
    BY <1>1, GotoOK
<1>3. NoStat \in Stats
    BY DEF NoStat, Stats
<1>4. /\ seen' \in [Callers -> Stats] /\ from' \in [Callers -> Int]
      /\ owed' \in [Callers -> SUBSET Ids]
      /\ \A d \in Callers \ {c} : /\ seen'[d] = seen[d]
                                  /\ from'[d] = from[d] /\ owed'[d] = owed[d]
    BY <1>3 DEF Ends, Kinds
<1> QED
    BY <1>2, <1>4

LEMMA InitMInv == Init => MInv
<1> SUFFICES ASSUME Init PROVE MInv
    OBVIOUS
<1>1. << >> \in Lines /\ ToSet(<< >>) = {} /\ IdsOf({}) = {} /\ DOMAIN << >> = {}
      /\ Len(<< >>) = 0
    BY DEF Lines, IdsOf, ToSet
<1>2. NoStat \in Stats /\ NoStat.size = -1
    BY DEF NoStat, Stats
<1>3. Kinds
    BY <1>1, <1>2, Ops, MailboxAssumption DEF Init, Kinds
<1>4. Origins
    BY <1>1, Ops DEF Init, Origins
<1>5. Safe
    BY <1>1, Ops DEF Init, Safe, Stored, Rewrite
<1>6. AppendOnly
    <2>1. -1 \in Sizes(file) /\ Upto(file, -1) = {}
        BY <1>1 DEF Init, Sizes, Upto
    <2> QED
        BY <1>1, <1>2, <2>1, Ops, HomeOK DEF Init, AppendOnly, CopyBehind, CallBehind, PurgesNot
<1> QED
    BY <1>3, <1>4, <1>5, <1>6 DEF MInv

LEMMA KindsStep ==
    ASSUME Kinds, Origins, Next
    PROVE  Kinds'
<1>m. \A lines \in Lines : ToSet(lines) \in SUBSET Message
    BY LinesOK
<1>e. << >> \in Lines
    BY DEF Lines
<1>s. Stat \in Stats
    BY StatOK DEF Kinds
<1>h. \A c \in Callers : Home[c] \in Procs
    BY HomeOK
<1>1. ASSUME NEW p \in Procs, StatLands(p) PROVE Kinds'
    <2>1. noted' \in [Procs -> Stats] /\ stats' \in [Procs -> Nat]
        <3>1. noted' = noted \/ noted' = [noted EXCEPT ![p] = Stat]
            BY <1>1 DEF StatLands
        <3>2. stats' = [stats EXCEPT ![p] = @ - 1] /\ stats[p] - 1 \in Nat
            BY <1>1 DEF StatLands, Kinds
        <3> QED
            BY <1>s, <3>1, <3>2 DEF Kinds
    <2> QED
        BY <1>1, <2>1 DEF StatLands, Kinds, diskVars, callVars, queryVars, pastVars
<1>2. ASSUME NEW c \in Callers, NEW id \in Ids, SendAppend(c, id) PROVE Kinds'
    <2>1. file' \in Lines
        BY <1>2, AppendOK DEF SendAppend, Kinds
    <2>2. Goto(c, "appended") /\ lock = Free /\ lock' = c /\ "appended" \in Op /\ "appended" \in Writing
        BY <1>2, Ops DEF SendAppend
    <2>3. /\ op' \in [Callers -> Op] /\ lock' \in Callers \cup {Free}
          /\ \A d \in Callers : op'[d] \in Writing <=> lock' = d
        BY <2>2, GotoOK
    <2>4. draft' \in [Callers -> SUBSET Message]
        <3>1. draft' = [draft EXCEPT ![c] = {Unread(id)}] /\ {Unread(id)} \in SUBSET Message
            BY <1>2, UnreadOK DEF SendAppend
        <3> QED
            BY <3>1 DEF Kinds
    <2> QED
        BY <1>2, <2>1, <2>3, <2>4 DEF SendAppend, Kinds, copyVars, queryVars, pastVars
<1>3. ASSUME NEW c \in Callers, SendPush(c) PROVE Kinds'
    <2>1. draft[c] \in SUBSET Message
        BY DEF Kinds
    <2>2. /\ copy' \in [Procs -> SUBSET Message] /\ UNCHANGED <<copied, stats, torn, aliased>>
        BY <1>3, <1>h, <2>1, PushOK DEF SendPush
    <2>3. draft' \in [Callers -> SUBSET Message]
        BY <1>3, <1>h, <2>1, GrownOK DEF SendPush
    <2>4. Goto(c, "idle") /\ op[c] \in Writing /\ lock' = Free /\ "idle" \in Op /\ "idle" \notin Writing
        BY <1>3, Ops DEF SendPush
    <2>5. /\ op' \in [Callers -> Op] /\ lock' \in Callers \cup {Free}
          /\ \A d \in Callers : op'[d] \in Writing <=> lock' = d
        BY <2>4, GotoOK
    <2>6. sent' \subseteq Ids
        BY <1>3 DEF SendPush, Origins, Kinds
    <2> QED
        BY <1>3, <2>2, <2>3, <2>5, <2>6 DEF SendPush, Kinds, queryVars
<1>4. ASSUME NEW c \in Callers, NEW id \in Ids, AckRead(c, id) PROVE Kinds'
    <2> DEFINE new == MarkRead(file, id, c)
    <2>1. new \in Lines /\ ToSet(new) \in SUBSET Message
        BY <1>m, MarkReadOK DEF Kinds
    <2> HIDE DEF new
    <2>2. AdoptUnseen(Home[c], ToSet(new), {c}, 1) /\ draft' = [draft EXCEPT ![c] = ToSet(new)]
        BY <1>4 DEF AckRead, ReadFresh, new
    <2>3. /\ copy' \in [Procs -> SUBSET Message] /\ copied' \in [Procs -> BOOLEAN]
          /\ stats' \in [Procs -> Nat] /\ UNCHANGED <<noted, torn>>
        BY <1>h, <2>1, <2>2, AdoptUnseenOK
    <2>4. draft' \in [Callers -> SUBSET Message]
        BY <2>1, <2>2 DEF Kinds
    <2>5. /\ op[c] = "idle" /\ lock = Free
          /\ \/ Goto(c, "adopt") /\ lock' = lock /\ pending' = pending
             \/ Goto(c, "ack") /\ lock' = c /\ pending' = new
        BY <1>4 DEF AckRead, ReadFresh, CanRewrite, new
    <2>6. /\ op' \in [Callers -> Op] /\ lock' \in Callers \cup {Free}
          /\ \A d \in Callers : op'[d] \in Writing <=> lock' = d
        BY <2>5, Ops, GotoOK
    <2>7. pending' \in Lines
        BY <2>1, <2>5 DEF Kinds
    <2> QED
        BY <1>4, <2>3, <2>4, <2>6, <2>7 DEF AckRead, Kinds, queryVars, pastVars
<1>5. ASSUME NEW c \in Callers, NEW ids \in SUBSET Ids, PurgeRead(c, ids) PROVE Kinds'
    <2> DEFINE new == Without(file, ids)
    <2>1. new \in Lines /\ ToSet(file) \in SUBSET Message
        BY <1>m, PurgeOK DEF Kinds
    <2> HIDE DEF new
    <2>2. \E n \in Nat : AdoptUnseen(Home[c], ToSet(file), {}, n)
        BY <1>5 DEF PurgeRead
    <2>3. /\ copy' \in [Procs -> SUBSET Message] /\ copied' \in [Procs -> BOOLEAN]
          /\ stats' \in [Procs -> Nat] /\ UNCHANGED <<noted, torn>>
        BY <1>h, <2>1, <2>2, AdoptUnseenOK
    <2>4. /\ op[c] = "idle" /\ lock = Free
          /\ \/ op' = op /\ lock' = lock /\ pending' = pending
             \/ Goto(c, "purge") /\ lock' = c /\ pending' = new
        BY <1>5 DEF PurgeRead, CanRewrite, new, Without
    <2>5. /\ op' \in [Callers -> Op] /\ lock' \in Callers \cup {Free}
          /\ \A d \in Callers : op'[d] \in Writing <=> lock' = d
        <3>1. CASE op' = op /\ lock' = lock
            BY <3>1 DEF Kinds
        <3>2. CASE Goto(c, "purge") /\ lock' = c
            BY <2>4, <3>2, Ops, GotoOK
        <3> QED
            BY <2>4, <3>1, <3>2
    <2>6. pending' \in Lines
        BY <2>1, <2>4 DEF Kinds
    <2> QED
        BY <1>5, <2>3, <2>5, <2>6 DEF PurgeRead, Kinds, queryVars, pastVars
<1>6. ASSUME NEW c \in Callers, Truncate(c) PROVE Kinds'
    <2>1. \E o \in {"ackCut", "purgeCut"} : Goto(c, o)
        BY <1>6 DEF Truncate
    <2>2. op[c] \in Writing /\ lock' = lock
        BY <1>6, Ops DEF Truncate
    <2>3. /\ op' \in [Callers -> Op] /\ lock' \in Callers \cup {Free}
          /\ \A d \in Callers : op'[d] \in Writing <=> lock' = d
        BY <2>1, <2>2, Ops, GotoOK
    <2> QED
        BY <1>6, <1>e, <2>3 DEF Truncate, Kinds, copyVars, queryVars, pastVars
<1>7. ASSUME NEW c \in Callers, Write(c) PROVE Kinds'
    <2>1. op[c] \in Writing /\ lock' = Free /\ \E o \in {"adopt", "idle"} : Goto(c, o)
        BY <1>7, Ops DEF Write
    <2>2. /\ op' \in [Callers -> Op] /\ lock' \in Callers \cup {Free}
          /\ \A d \in Callers : op'[d] \in Writing <=> lock' = d
        BY <2>1, Ops, GotoOK
    <2>3. /\ copy' \in [Procs -> SUBSET Message] /\ copied' \in [Procs -> BOOLEAN]
          /\ stats' \in [Procs -> Nat] /\ noted' = noted
        <3>1. CASE UNCHANGED copyVars
            BY <3>1 DEF copyVars, Kinds
        <3>2. CASE AdoptUnseen(Home[c], ToSet(pending), {}, 1)
            <4>1. ToSet(pending) \in SUBSET Message
                BY <1>m DEF Kinds
            <4> QED
                BY <1>h, <3>2, <4>1, AdoptUnseenOK
        <3> QED
            BY <1>7, <3>1, <3>2 DEF Write
    <2>4. acks' \subseteq Callers \X Ids
        <3>1. \A m \in ToSet(pending) : m.id \in Ids
            BY LinesOK DEF Kinds, Message
        <3> QED
            BY <1>7, <3>1 DEF Write, Kinds
    <2> QED
        BY <1>7, <1>e, <2>2, <2>3, <2>4 DEF Write, Kinds, queryVars
<1>8. ASSUME NEW c \in Callers, AdoptDraft(c) PROVE Kinds'
    <2>1. draft[c] \in SUBSET Message
        BY DEF Kinds
    <2>2. /\ copy' \in [Procs -> SUBSET Message] /\ copied' \in [Procs -> BOOLEAN]
          /\ stats' \in [Procs -> Nat] /\ UNCHANGED <<noted, torn>>
        BY <1>8, <1>h, <2>1, AdoptUnseenOK DEF AdoptDraft
    <2>3. op[c] \notin Writing /\ lock' = lock /\ Goto(c, "idle")
        BY <1>8, Ops DEF AdoptDraft, diskVars
    <2>4. /\ op' \in [Callers -> Op] /\ lock' \in Callers \cup {Free}
          /\ \A d \in Callers : op'[d] \in Writing <=> lock' = d
        BY <2>3, Ops, GotoOK
    <2>5. draft' \in [Callers -> SUBSET Message]
        BY <1>8 DEF AdoptDraft, Forget, Kinds
    <2> QED
        BY <1>8, <2>2, <2>4, <2>5 DEF AdoptDraft, Kinds, diskVars, queryVars, pastVars
<1>9. ASSUME NEW c \in Callers, QueryStat(c) PROVE Kinds'
    <2>1. op[c] \notin Writing /\ lock' = lock /\ Goto(c, "stat")
        BY <1>9, Ops DEF QueryStat, diskVars
    <2>2. /\ op' \in [Callers -> Op] /\ lock' \in Callers \cup {Free}
          /\ \A d \in Callers : op'[d] \in Writing <=> lock' = d
        BY <2>1, Ops, GotoOK
    <2>3. seen' \in [Callers -> Stats]
        BY <1>9, <1>s DEF QueryStat, Kinds
    <2>4. owed' \in [Callers -> SUBSET Ids]
        <3>1. sent \ purged \in SUBSET Ids
            BY DEF Kinds
        <3> QED
            BY <1>9, <3>1 DEF QueryStat, Kinds
    <2> QED
        BY <1>9, <2>2, <2>3, <2>4 DEF QueryStat, Kinds, diskVars, copyVars, pastVars
<1>10. ASSUME NEW c \in Callers, NEW messages \in SUBSET Message, NEW stat \in Stats,
              op[c] \in Querying, AdoptSeen(Home[c], messages, stat), Ends(c),
              draft' = draft \/ Forget(c), UNCHANGED <<diskVars, pastVars>>
       PROVE  Kinds'
    <2>1. /\ copy' \in [Procs -> SUBSET Message] /\ copied' \in [Procs -> BOOLEAN]
          /\ noted' \in [Procs -> Stats] /\ stats' = stats
        BY <1>10, <1>h, AdoptSeenOK
    <2>2. op[c] \notin Writing /\ lock' = lock
        BY <1>10, Ops DEF diskVars
    <2>3. /\ op' \in [Callers -> Op] /\ lock' \in Callers \cup {Free}
          /\ \A d \in Callers : op'[d] \in Writing <=> lock' = d
          /\ seen' \in [Callers -> Stats] /\ from' \in [Callers -> Int]
          /\ owed' \in [Callers -> SUBSET Ids]
        BY <1>10, <2>2, EndsOK
    <2>4. draft' \in [Callers -> SUBSET Message]
        BY <1>10 DEF Forget, Kinds
    <2> QED
        BY <1>10, <2>1, <2>3, <2>4 DEF Kinds, diskVars, pastVars
<1>11. ASSUME NEW c \in Callers, QueryNothing(c) PROVE Kinds'
    <2>1. NoStat \in Stats /\ {} \in SUBSET Message
        BY DEF NoStat, Stats
    <2> QED
        BY <1>10, <1>11, <2>1, Ops DEF QueryNothing, Answers
<1>12. ASSUME NEW c \in Callers, QueryCopy(c) PROVE Kinds'
    <2>1. op[c] \notin Writing /\ lock' = lock /\ Ends(c)
        BY <1>12, Ops DEF QueryCopy, Answers, diskVars
    <2>2. /\ op' \in [Callers -> Op] /\ lock' \in Callers \cup {Free}
          /\ \A d \in Callers : op'[d] \in Writing <=> lock' = d
          /\ seen' \in [Callers -> Stats] /\ from' \in [Callers -> Int]
          /\ owed' \in [Callers -> SUBSET Ids]
        BY <2>1, EndsOK
    <2> QED
        BY <1>12, <2>2 DEF QueryCopy, Kinds, diskVars, copyVars, pastVars
<1>13. ASSUME NEW c \in Callers, QueryOpens(c) PROVE Kinds'
    <2>1. op[c] \notin Writing /\ lock' = lock /\ \E o \in {"tail", "full"} : Goto(c, o)
        BY <1>13, Ops DEF QueryOpens, diskVars
    <2>2. /\ op' \in [Callers -> Op] /\ lock' \in Callers \cup {Free}
          /\ \A d \in Callers : op'[d] \in Writing <=> lock' = d
        BY <2>1, Ops, GotoOK
    <2> QED
        BY <1>13, <2>2 DEF QueryOpens, Kinds, diskVars, copyVars, queryVars, pastVars
<1>14. ASSUME NEW c \in Callers, TailFrom(c) PROVE Kinds'
    <2>1. op[c] \notin Writing /\ lock' = lock
        BY <1>14, Ops DEF TailFrom, diskVars
    <2>2. /\ op' \in [Callers -> Op] /\ lock' \in Callers \cup {Free}
          /\ \A d \in Callers : op'[d] \in Writing <=> lock' = d
          /\ seen' \in [Callers -> Stats] /\ from' \in [Callers -> Int]
          /\ owed' \in [Callers -> SUBSET Ids]
        <3>1. CASE Ends(c)
            BY <2>1, <3>1, EndsOK
        <3>2. CASE Goto(c, "read") /\ from' = [from EXCEPT ![c] = noted[Home[c]].size]
                   /\ UNCHANGED <<seen, owed>>
            <4>1. /\ op' \in [Callers -> Op] /\ lock' \in Callers \cup {Free}
                  /\ \A d \in Callers : op'[d] \in Writing <=> lock' = d
                BY <2>1, <3>2, Ops, GotoOK
            <4>2. noted[Home[c]].size \in Int
                BY <1>h DEF Kinds, Stats
            <4> QED
                BY <3>2, <4>1, <4>2 DEF Kinds
        <3> QED
            BY <1>14, <3>1, <3>2 DEF TailFrom
    <2> QED
        BY <1>14, <2>2 DEF TailFrom, Kinds, diskVars, copyVars, pastVars
<1>15. ASSUME NEW c \in Callers, TailRead(c) \/ FullRead(c) PROVE Kinds'
    <2>1. op[c] \notin Writing /\ lock' = lock /\ \E o \in {"parse", "set"} : Goto(c, o)
        BY <1>15, Ops DEF TailRead, FullRead, diskVars
    <2>2. /\ op' \in [Callers -> Op] /\ lock' \in Callers \cup {Free}
          /\ \A d \in Callers : op'[d] \in Writing <=> lock' = d
        BY <2>1, Ops, GotoOK
    <2>3. \E read \in SUBSET Message : draft' = [draft EXCEPT ![c] = read]
        BY <1>15, <1>m, WithinOK DEF TailRead, FullRead, Kinds
    <2>4. draft' \in [Callers -> SUBSET Message]
        BY <2>3 DEF Kinds
    <2> QED
        BY <1>15, <2>2, <2>4 DEF TailRead, FullRead, Kinds, diskVars, copyVars, queryVars, pastVars
<1>16. ASSUME NEW c \in Callers, TailParsed(c) PROVE Kinds'
    <2>1. draft[c] \in SUBSET Message /\ seen[c] \in Stats
        BY DEF Kinds
    <2>2. /\ copy' \in [Procs -> SUBSET Message] /\ UNCHANGED <<copied, stats, torn, aliased>>
        BY <1>16, <1>h, <2>1, PushOK DEF TailParsed
    <2>3. draft' \in [Callers -> SUBSET Message]
        BY <1>16, <1>h, <2>1, GrownOK DEF TailParsed
    <2>4. op[c] \notin Writing /\ lock' = lock /\ Ends(c)
        BY <1>16, Ops DEF TailParsed, Answers, diskVars
    <2>5. /\ op' \in [Callers -> Op] /\ lock' \in Callers \cup {Free}
          /\ \A d \in Callers : op'[d] \in Writing <=> lock' = d
          /\ seen' \in [Callers -> Stats] /\ from' \in [Callers -> Int]
          /\ owed' \in [Callers -> SUBSET Ids]
        BY <2>4, EndsOK
    <2>6. noted' \in [Procs -> Stats]
        BY <1>16, <2>1 DEF TailParsed, Kinds
    <2> QED
        BY <1>16, <2>2, <2>3, <2>5, <2>6 DEF TailParsed, Kinds, diskVars, pastVars
<1>17. ASSUME NEW c \in Callers, FullSet(c) PROVE Kinds'
    <2>1. draft[c] \in SUBSET Message /\ seen[c] \in Stats
        BY DEF Kinds
    <2> QED
        BY <1>10, <1>17, <2>1, Ops DEF FullSet, Answers
<1> QED
    BY <1>1, <1>2, <1>3, <1>4, <1>5, <1>6, <1>7, <1>8, <1>9, <1>11, <1>12, <1>13, <1>14, <1>15,
       <1>16, <1>17 DEF Next

\* A step that writes nothing: the file, the rewrite and the past stay.
LEMMA OriginsFrame ==
    ASSUME Kinds, Origins,
           UNCHANGED <<file, mtime, lock, pending, dropping, sent, purged>>,
           aliased' \subseteq aliased,
           \A c \in aliased' : op'[c] = op[c],
           \A c \in Callers :
              /\ op'[c] \in {"tail", "read", "parse"} => copied'[Home[c]]
              /\ op'[c] = "appended" => op[c] = "appended" /\ draft'[c] = draft[c]
              /\ op'[c] \in Rewriting => op[c] \in Rewriting
    PROVE  Origins'
BY DEF Origins

LEMMA OriginsStep ==
    ASSUME Kinds, Origins, Next
    PROVE  Origins'
<1>h. \A c \in Callers : Home[c] \in Procs /\ c \in At(Home[c])
    BY HomeOK
<1>g. \A c \in Callers : \A o : Goto(c, o) =>
          op'[c] = o /\ \A d \in Callers \ {c} : op'[d] = op[d]
    BY DEF Goto, Kinds
<1>f. lock = Free => IdsOf(ToSet(file)) \subseteq sent
    BY DEF Origins
<1>o. \A c \in Callers : op[c] \in Writing => lock = c
    BY DEF Kinds
<1>1. ASSUME NEW p \in Procs, StatLands(p) PROVE Origins'
    BY <1>1, OriginsFrame DEF StatLands, diskVars, callVars, pastVars, Origins
<1>2. ASSUME NEW c \in Callers, NEW id \in Ids, SendAppend(c, id) PROVE Origins'
    <2>1. IdsOf(ToSet(file')) = IdsOf(ToSet(file)) \cup {id}
        BY <1>2, AppendOK DEF SendAppend, Kinds
    <2>2. /\ lock = Free /\ lock' = c /\ mtime' > 0 /\ op[c] = "idle"
          /\ op'[c] = "appended" /\ \A d \in Callers \ {c} : op'[d] = op[d]
          /\ UNCHANGED <<aliased, copied, dropping, pending, sent, purged>>
        BY <1>2, <1>g DEF SendAppend, copyVars, pastVars, Kinds
    <2>3. draft'[c] = {Unread(id)} /\ IdsOf(draft'[c]) = {id}
        <3>1. draft'[c] = {Unread(id)}
            BY <1>2 DEF SendAppend, Kinds
        <3> QED
            BY <3>1, UnreadOK DEF IdsOf
    <2>4. \A d \in Callers : op[d] \notin Writing
        BY <1>o, <2>2, MailboxAssumption
    <2>5. \A d \in Callers : op'[d] \notin Rewriting /\ (op'[d] = "appended" => d = c)
        BY <2>2, <2>4, Ops
    <2>6. \A d \in aliased' : d \in Callers /\ op'[d] \in {"ack", "ackCut", "adopt"}
        BY <2>2 DEF Origins
    <2>7. \A d \in Callers : op'[d] \in {"tail", "read", "parse"} => copied'[Home[d]]
        BY <2>2 DEF Origins
    <2>8. /\ IdsOf(ToSet(file')) \subseteq sent' \cup IdsOf(draft'[c])
          /\ IdsOf(draft'[c]) \subseteq IdsOf(ToSet(file')) \cap Ids
        BY <1>f, <2>1, <2>2, <2>3 DEF Kinds
    <2>9. purged' \subseteq sent' /\ dropping' \subseteq sent'
        BY <2>2 DEF Origins
    <2> QED
        BY <2>2, <2>5, <2>6, <2>7, <2>8, <2>9, MailboxAssumption DEF Origins
<1>3. ASSUME NEW c \in Callers, SendPush(c) PROVE Origins'
    <2>1. draft[c] \in SUBSET Message
        BY DEF Kinds
    <2>2. UNCHANGED <<copied, aliased>>
        BY <1>3, <1>h, <2>1, PushOK DEF SendPush
    <2>3. /\ op[c] = "appended" /\ lock = c /\ lock' = Free
          /\ sent' = sent \cup IdsOf(draft[c]) /\ IdsOf(ToSet(file)) \subseteq sent'
          /\ UNCHANGED <<file, mtime, pending, dropping, purged>>
          /\ op'[c] = "idle" /\ \A d \in Callers \ {c} : op'[d] = op[d]
        BY <1>3, <1>g, <1>o, Ops DEF SendPush, Origins
    <2>4. \A d \in Callers : op'[d] \notin Rewriting /\ op'[d] # "appended"
        BY <1>o, <2>3, Ops
    <2>5. \A d \in aliased' : d \in Callers /\ op'[d] \in {"ack", "ackCut", "adopt"}
        BY <2>2, <2>3 DEF Origins
    <2>6. mtime # 0
        BY <2>3, MailboxAssumption DEF Origins
    <2> QED
        BY <2>2, <2>3, <2>4, <2>5, <2>6 DEF Origins
<1>4. ASSUME NEW c \in Callers, NEW id \in Ids, AckRead(c, id) PROVE Origins'
    <2> DEFINE new == MarkRead(file, id, c)
    <2>1. new \in Lines /\ IdsOf(ToSet(new)) = IdsOf(ToSet(file)) /\ ToSet(new) \in SUBSET Message
        BY MarkReadOK, LinesOK DEF Kinds
    <2> HIDE DEF new
    <2>2. AdoptUnseen(Home[c], ToSet(new), {c}, 1)
        BY <1>4 DEF AckRead, ReadFresh, new
    <2>3. /\ \A q \in Procs : copied[q] => copied'[q]
          /\ aliased' = (aliased \ At(Home[c])) \cup {c}
        BY <1>h, <2>1, <2>2, AdoptUnseenOK
    <2>4. /\ op[c] = "idle" /\ lock = Free /\ id \in sent
          /\ \/ Goto(c, "adopt") /\ lock' = lock /\ pending' = pending
             \/ Goto(c, "ack") /\ lock' = c /\ pending' = new
          /\ UNCHANGED <<file, mtime, dropping, sent, purged>>
        BY <1>4 DEF AckRead, ReadFresh, CanRewrite, new, pastVars
    <2>5. op'[c] \in {"ack", "adopt"} /\ \A d \in Callers \ {c} : op'[d] = op[d]
        BY <1>g, <2>4
    <2>6. \A d \in Callers : op[d] \notin Writing
        BY <1>o, <2>4, MailboxAssumption
    <2>7. \A d \in aliased' : d \in Callers /\ op'[d] \in {"ack", "ackCut", "adopt"}
        BY <2>3, <2>5 DEF Origins
    <2>8. \A d \in Callers : op'[d] \in {"tail", "read", "parse"} => copied'[Home[d]]
        BY <1>h, <2>3, <2>5 DEF Origins
    <2>9. \A d \in Callers : /\ op'[d] # "appended"
                             /\ op'[d] \in Rewriting => d = c /\ op'[c] = "ack"
        BY <2>5, <2>6, Ops
    <2>10. op'[c] = "ack" => IdsOf(ToSet(pending')) \subseteq sent'
        BY <1>f, <1>g, <2>1, <2>4
    <2>11. mtime # 0
        BY <2>4 DEF Origins
    <2> QED
        BY <1>f, <2>4, <2>7, <2>8, <2>9, <2>10, <2>11 DEF Origins
<1>5. ASSUME NEW c \in Callers, NEW ids \in SUBSET Ids, PurgeRead(c, ids) PROVE Origins'
    <2> DEFINE new == Without(file, ids)
    <2>1. /\ new \in Lines /\ IdsOf(ToSet(new)) \subseteq IdsOf(ToSet(file))
          /\ ToSet(file) \in SUBSET Message
        BY PurgeOK, LinesOK DEF Kinds
    <2> HIDE DEF new
    <2>2. \E n \in Nat : AdoptUnseen(Home[c], ToSet(file), {}, n)
        BY <1>5 DEF PurgeRead
    <2>a. /\ \A q \in Procs : copied[q] => copied'[q]
          /\ aliased' = (aliased \ At(Home[c])) \cup {}
        BY <1>h, <2>1, <2>2, AdoptUnseenOK
    <2>3. /\ \A q \in Procs : copied[q] => copied'[q]
          /\ aliased' \subseteq aliased
        BY <2>a
    <2>4. /\ op[c] = "idle" /\ lock = Free
          /\ \/ UNCHANGED <<op, lock, pending, dropping>>
             \/ /\ Goto(c, "purge") /\ lock' = c /\ pending' = new
                /\ dropping' = ids \cap IdsOf(ToSet(file)) /\ dropping' # {}
          /\ UNCHANGED <<file, mtime, draft, sent, purged>>
        BY <1>5 DEF PurgeRead, CanRewrite, new, Without, pastVars
    <2>5. CASE UNCHANGED <<op, lock, pending, dropping>>
        BY <1>h, <2>3, <2>4, <2>5, OriginsFrame DEF Origins
    <2>6. CASE /\ Goto(c, "purge") /\ lock' = c /\ pending' = new
               /\ dropping' = ids \cap IdsOf(ToSet(file)) /\ dropping' # {}
        <3>1. op'[c] = "purge" /\ \A d \in Callers \ {c} : op'[d] = op[d]
            BY <1>g, <2>6
        <3>2. \A d \in Callers : op[d] \notin Writing
            BY <1>o, <2>4, MailboxAssumption
        <3>3. \A d \in aliased' : d \in Callers /\ op'[d] \in {"ack", "ackCut", "adopt"}
            BY <2>3, <2>4, <3>1 DEF Origins
        <3>4. \A d \in Callers : op'[d] \in {"tail", "read", "parse"} => copied'[Home[d]]
            BY <1>h, <2>3, <3>1 DEF Origins
        <3>5. \A d \in Callers : op'[d] # "appended"
            BY <3>1, <3>2, Ops
        <3>6. IdsOf(ToSet(pending')) \subseteq sent' /\ dropping' \subseteq sent' /\ sent # {}
            BY <1>f, <2>1, <2>4, <2>6
        <3>7. purged' \subseteq sent' /\ mtime # 0
            BY <2>4, <3>6 DEF Origins
        <3> QED
            BY <2>4, <2>6, <3>3, <3>4, <3>5, <3>6, <3>7, MailboxAssumption DEF Origins
    <2> QED
        BY <2>4, <2>5, <2>6
<1>6. ASSUME NEW c \in Callers, Truncate(c) PROVE Origins'
    <2>1. /\ op[c] \in {"ack", "purge"} /\ lock' = lock /\ mtime' > 0
          /\ UNCHANGED <<pending, dropping, aliased, copied, sent, purged>>
          /\ op'[c] = (IF op[c] = "ack" THEN "ackCut" ELSE "purgeCut")
          /\ \A d \in Callers \ {c} : op'[d] = op[d]
        BY <1>6, <1>g DEF Truncate, copyVars, pastVars, Kinds
    <2>2. lock = c /\ lock # Free
        BY <1>o, <2>1, Ops, MailboxAssumption
    <2>3. \A d \in aliased' : d \in Callers /\ op'[d] \in {"ack", "ackCut", "adopt"}
        BY <2>1 DEF Origins
    <2>4. \A d \in Callers : op'[d] # "appended" /\ (op'[d] \in Rewriting => op[d] \in Rewriting)
        BY <1>o, <2>1, <2>2, Ops
    <2> QED
        BY <2>1, <2>2, <2>3, <2>4 DEF Origins
<1>7. ASSUME NEW c \in Callers, Write(c) PROVE Origins'
    <2>1. /\ op[c] \in {"ackCut", "purgeCut"} /\ lock' = Free /\ mtime' > 0
          /\ file' = pending /\ dropping' = {} /\ sent' = sent
          /\ purged' = purged \cup dropping
          /\ op'[c] = (IF op[c] = "ackCut" THEN "adopt" ELSE "idle")
          /\ \A d \in Callers \ {c} : op'[d] = op[d]
        BY <1>7, <1>g DEF Write, Kinds
    <2>2. lock = c /\ \A d \in Callers : op'[d] \notin Writing
        BY <1>o, <2>1, Ops
    <2>3. /\ \A q \in Procs : copied[q] => copied'[q]
          /\ aliased' \subseteq aliased /\ (op[c] = "purgeCut" => c \notin aliased')
        <3>1. CASE op[c] = "ackCut"
            BY <1>7, <3>1 DEF Write, copyVars
        <3>2. CASE op[c] = "purgeCut"
            <4>1. AdoptUnseen(Home[c], ToSet(pending), {}, 1)
                BY <1>7, <3>2 DEF Write
            <4>2. ToSet(pending) \in SUBSET Message
                BY LinesOK DEF Kinds
            <4>3. /\ \A q \in Procs : copied[q] => copied'[q]
                  /\ aliased' = (aliased \ At(Home[c])) \cup {}
                BY <1>h, <4>1, <4>2, AdoptUnseenOK
            <4> QED
                BY <1>h, <4>3
        <3> QED
            BY <2>1, <3>1, <3>2
    <2>4. \A d \in aliased' : d \in Callers /\ op'[d] \in {"ack", "ackCut", "adopt"}
        BY <2>1, <2>3 DEF Origins
    <2>5. \A d \in Callers : op'[d] \in {"tail", "read", "parse"} => copied'[Home[d]]
        BY <1>h, <2>1, <2>3 DEF Origins
    <2>6. \A d \in Callers : op'[d] # "appended" /\ op'[d] \notin Rewriting
        BY <2>2, Ops
    <2>7. IdsOf(ToSet(file')) \subseteq sent' /\ purged' \subseteq sent'
        BY <2>1, Ops DEF Origins
    <2> QED
        BY <2>1, <2>4, <2>5, <2>6, <2>7 DEF Origins
<1>8. ASSUME NEW c \in Callers, AdoptDraft(c) PROVE Origins'
    <2>1. draft[c] \in SUBSET Message
        BY DEF Kinds
    <2>2. /\ \A q \in Procs : copied[q] => copied'[q]
          /\ aliased' = (aliased \ At(Home[c])) \cup {}
        BY <1>8, <1>h, <2>1, AdoptUnseenOK DEF AdoptDraft
    <2>3. /\ UNCHANGED <<file, mtime, lock, pending, dropping, sent, purged>>
          /\ op'[c] = "idle" /\ \A d \in Callers \ {c} : op'[d] = op[d] /\ draft'[d] = draft[d]
        BY <1>8, <1>g DEF AdoptDraft, Forget, Kinds, diskVars, pastVars
    <2>4. aliased' \subseteq aliased /\ c \notin aliased'
        BY <1>h, <2>2
    <2>5. \A d \in Callers :
              /\ op'[d] \in {"tail", "read", "parse"} => copied'[Home[d]]
              /\ op'[d] = "appended" => op[d] = "appended" /\ draft'[d] = draft[d]
              /\ op'[d] \in Rewriting => op[d] \in Rewriting
        BY <1>h, <2>2, <2>3, Ops DEF Origins
    <2>6. \A d \in aliased' : op'[d] = op[d]
        BY <2>3, <2>4 DEF Origins
    <2> QED
        BY <2>3, <2>4, <2>5, <2>6, OriginsFrame
\* What a query may do.
<1>9. ASSUME NEW c \in Callers, op[c] \in Querying \cup {"idle"}, op'[c] \in Querying \cup {"idle"},
             op'[c] \in {"tail", "read", "parse"} => copied'[Home[c]],
             \A d \in Callers \ {c} : op'[d] = op[d] /\ (d \notin aliased => draft'[d] = draft[d]),
             \A q \in Procs : copied[q] => copied'[q],
             aliased' \subseteq aliased, UNCHANGED <<diskVars, pastVars>>
      PROVE  Origins'
    <2>1. c \notin aliased
        BY <1>9, Ops DEF Origins
    <2>2. \A d \in Callers :
              /\ op'[d] \in {"tail", "read", "parse"} => copied'[Home[d]]
              /\ op'[d] = "appended" => op[d] = "appended" /\ draft'[d] = draft[d]
              /\ op'[d] \in Rewriting => op[d] \in Rewriting
        <3> TAKE d \in Callers
        <3>1. CASE d = c
            BY <1>9, <3>1, Ops
        <3>2. CASE d # c
            BY <1>9, <1>h, <3>2 DEF Origins
        <3> QED
            BY <3>1, <3>2
    <2>3. \A d \in aliased' : op'[d] = op[d]
        BY <1>9, <2>1 DEF Origins
    <2> QED
        BY <1>9, <2>2, <2>3, OriginsFrame DEF diskVars, pastVars
<1>10. ASSUME NEW c \in Callers, QueryStat(c) PROVE Origins'
    BY <1>9, <1>10, <1>g, Ops DEF QueryStat, copyVars
<1>11. ASSUME NEW c \in Callers, QueryNothing(c) PROVE Origins'
    <2>1. NoStat \in Stats /\ {} \in SUBSET Message
        BY DEF NoStat, Stats
    <2>a. (\A q \in Procs : copied[q] => copied'[q]) /\ aliased' = aliased \ At(Home[c])
        BY <1>11, <1>h, <2>1, AdoptSeenOK DEF QueryNothing
    <2>2. (\A q \in Procs : copied[q] => copied'[q]) /\ aliased' \subseteq aliased
        BY <2>a
    <2> QED
        BY <1>9, <1>11, <1>g, <2>2, Ops DEF QueryNothing, Answers, Ends
<1>12. ASSUME NEW c \in Callers, QueryCopy(c) PROVE Origins'
    BY <1>9, <1>12, <1>g, Ops DEF QueryCopy, Answers, Ends, copyVars
<1>13. ASSUME NEW c \in Callers, QueryOpens(c) PROVE Origins'
    <2>1. op'[c] \in {"tail", "full"} /\ (op'[c] = "tail" => copied[Home[c]])
        BY <1>13, <1>g DEF QueryOpens, OnlyGrew
    <2>2. op[c] = "stat" /\ \A d \in Callers \ {c} : op'[d] = op[d]
        BY <1>13, <1>g DEF QueryOpens
    <2> QED
        BY <1>9, <1>13, <2>1, <2>2, Ops DEF QueryOpens, copyVars
<1>14. ASSUME NEW c \in Callers, TailFrom(c) PROVE Origins'
    <2>1. op[c] = "tail" /\ copied[Home[c]] /\ UNCHANGED <<draft, aliased, copied, diskVars, pastVars>>
        BY <1>14 DEF TailFrom, Origins, copyVars
    <2>2. op'[c] \in {"idle", "read"} /\ \A d \in Callers \ {c} : op'[d] = op[d]
        BY <1>14, <1>g DEF TailFrom, Ends
    <2> QED
        BY <1>9, <2>1, <2>2, Ops
<1>15. ASSUME NEW c \in Callers, TailRead(c) \/ FullRead(c) PROVE Origins'
    <2>1. op[c] \in {"read", "full"} /\ UNCHANGED <<aliased, copied, diskVars, pastVars>>
        BY <1>15 DEF TailRead, FullRead, copyVars
    <2>2. op'[c] = (IF op[c] = "read" THEN "parse" ELSE "set") /\ \A d \in Callers \ {c} : op'[d] = op[d]
        BY <1>15, <1>g DEF TailRead, FullRead
    <2>3. \A d \in Callers \ {c} : draft'[d] = draft[d]
        BY <1>15 DEF TailRead, FullRead, Kinds
    <2>4. op[c] = "read" => copied[Home[c]]
        BY DEF Origins
    <2> QED
        BY <1>9, <2>1, <2>2, <2>3, <2>4, Ops
<1>16. ASSUME NEW c \in Callers, TailParsed(c) PROVE Origins'
    <2>1. draft[c] \in SUBSET Message
        BY DEF Kinds
    <2>2. UNCHANGED <<copied, aliased, diskVars, pastVars>>
        BY <1>16, <1>h, <2>1, PushOK DEF TailParsed
    <2>3. \A d \in Callers \ {c} : d \notin aliased => draft'[d] = draft[d]
        BY <1>16, <1>h, <2>1, GrownOK DEF TailParsed
    <2>4. op[c] = "parse" /\ op'[c] = "idle" /\ \A d \in Callers \ {c} : op'[d] = op[d]
        BY <1>16, <1>g DEF TailParsed, Answers, Ends
    <2> QED
        BY <1>9, <2>2, <2>3, <2>4, Ops
<1>17. ASSUME NEW c \in Callers, FullSet(c) PROVE Origins'
    <2>1. draft[c] \in SUBSET Message /\ seen[c] \in Stats
        BY DEF Kinds
    <2>a. (\A q \in Procs : copied[q] => copied'[q]) /\ aliased' = aliased \ At(Home[c])
        BY <1>17, <1>h, <2>1, AdoptSeenOK DEF FullSet
    <2>2. (\A q \in Procs : copied[q] => copied'[q]) /\ aliased' \subseteq aliased
        BY <2>a
    <2>3. op[c] = "set" /\ op'[c] = "idle" /\ \A d \in Callers \ {c} : op'[d] = op[d] /\ draft'[d] = draft[d]
        BY <1>17, <1>g DEF FullSet, Answers, Ends, Forget, Kinds
    <2> QED
        BY <1>9, <1>17, <2>2, <2>3, Ops DEF FullSet
<1> QED
    BY <1>1, <1>2, <1>3, <1>4, <1>5, <1>6, <1>7, <1>8, <1>10, <1>11, <1>12, <1>13, <1>14, <1>15,
       <1>16, <1>17 DEF Next

-----------------------------------------------------------------------------
(* The file and its rewrites *)

\* A step that leaves the file and the rewrite under way alone.
LEMMA SafeFrame ==
    ASSUME Kinds, Safe, UNCHANGED <<file, pending, dropping, sent, purged, acks>>,
           \A c \in Callers : op'[c] = op[c] \/ (op[c] \notin Rewriting /\ op'[c] \notin Rewriting)
    PROVE  Safe'
<1>1. \A c \in Callers : /\ op'[c] \in Rewriting <=> op[c] \in Rewriting
                         /\ op'[c] \in Rewriting => op'[c] = op[c]
    OBVIOUS
<1>2. Stored'
    BY <1>1 DEF Safe, Stored, Marked
<1>3. Rewrite'
    BY <1>1 DEF Safe, Rewrite, Marked
<1> QED
    BY <1>2, <1>3 DEF Safe

\* Where nobody rewrites the file before or after the step.
LEMMA SafeIfFree ==
    ASSUME Kinds, \A c \in Callers : op'[c] \notin Rewriting,
           sent' \ purged' \subseteq IdsOf(ToSet(file')),
           \A a \in acks' : a[2] \notin purged' => Marked(a, file')
    PROVE  Safe'
BY DEF Safe, Stored, Rewrite, Marked

\* From a free lock to a rewrite: what the file held is pending or dropped.
LEMMA SafeIfBegun ==
    ASSUME Kinds, Safe, lock = Free, NEW c \in Callers,
           op'[c] \in {"ack", "purge"}, \A d \in Callers \ {c} : op'[d] = op[d],
           UNCHANGED <<sent, purged, acks>>,
           IdsOf(ToSet(file)) \subseteq IdsOf(ToSet(pending')) \cup dropping',
           \A a \in acks : Marked(a, file) => Marked(a, pending') \/ a[2] \in dropping',
           op'[c] = "ack" => \E m \in ToSet(pending') : c \in m.readBy,
           op'[c] = "purge" => dropping' # {}
    PROVE  Safe'
<1>1. \A d \in Callers : op[d] \notin Rewriting
    BY MailboxAssumption DEF Kinds, Writing
<1>2. /\ sent \ purged \subseteq IdsOf(ToSet(file))
      /\ \A a \in acks : a[2] \notin purged => Marked(a, file)
    BY <1>1 DEF Safe, Stored
<1>3. Stored'
    BY Ops DEF Stored
<1>4. ASSUME NEW d \in Callers, op'[d] \in Rewriting PROVE d = c
    BY <1>1, <1>4
<1>5. Rewrite'
    BY <1>2, <1>4, Ops DEF Rewrite, Marked
<1> QED
    BY <1>3, <1>5 DEF Safe

LEMMA SafeStep ==
    ASSUME Kinds, Origins, Safe, Next
    PROVE  Safe'
<1>g. \A c \in Callers : \A o : Goto(c, o) =>
          op'[c] = o /\ \A d \in Callers \ {c} : op'[d] = op[d]
    BY DEF Goto, Kinds
<1>o. \A c \in Callers : op[c] \in Writing => lock = c
    BY DEF Kinds
<1>s. (\A c \in Callers : op[c] \notin Rewriting) =>
          /\ sent \ purged \subseteq IdsOf(ToSet(file))
          /\ \A a \in acks : a[2] \notin purged => Marked(a, file)
    BY DEF Safe, Stored
<1>1. ASSUME NEW p \in Procs, StatLands(p) PROVE Safe'
    BY <1>1, SafeFrame DEF StatLands, diskVars, callVars, pastVars
<1>2. ASSUME NEW c \in Callers, NEW id \in Ids, SendAppend(c, id) PROVE Safe'
    <2>1. /\ ToSet(file') = ToSet(file) \cup {Unread(id)}
          /\ IdsOf(ToSet(file')) = IdsOf(ToSet(file)) \cup {id}
        BY <1>2, AppendOK DEF SendAppend, Kinds
    <2>2. /\ lock = Free /\ op'[c] = "appended" /\ \A d \in Callers \ {c} : op'[d] = op[d]
          /\ UNCHANGED <<sent, purged, acks>>
        BY <1>2, <1>g DEF SendAppend, pastVars
    <2>3. \A d \in Callers : op[d] \notin Rewriting /\ op'[d] \notin Rewriting
        BY <1>o, <2>2, Ops, MailboxAssumption
    <2>4. sent' \ purged' \subseteq IdsOf(ToSet(file'))
        BY <1>s, <2>1, <2>2, <2>3
    <2>5. \A a \in acks' : a[2] \notin purged' => Marked(a, file')
        BY <1>s, <2>1, <2>2, <2>3 DEF Marked
    <2> QED
        BY <2>3, <2>4, <2>5, SafeIfFree
<1>3. ASSUME NEW c \in Callers, SendPush(c) PROVE Safe'
    <2>1. /\ op[c] = "appended" /\ op'[c] = "idle" /\ \A d \in Callers \ {c} : op'[d] = op[d]
          /\ sent' = sent \cup IdsOf(draft[c]) /\ UNCHANGED <<file, purged, acks>>
        BY <1>3, <1>g DEF SendPush
    <2>2. \A d \in Callers : op[d] \notin Rewriting /\ op'[d] \notin Rewriting
        BY <1>o, <2>1, Ops
    <2>3. Safe'
        <3>1. IdsOf(draft[c]) \subseteq IdsOf(ToSet(file))
            BY <2>1 DEF Origins
        <3> QED
            BY <1>s, <2>1, <2>2, <3>1, SafeIfFree
    <2> QED
        BY <2>3
<1>4. ASSUME NEW c \in Callers, NEW id \in Ids, AckRead(c, id) PROVE Safe'
    <2> DEFINE new == MarkRead(file, id, c)
    <2>1. /\ new \in Lines /\ IdsOf(ToSet(new)) = IdsOf(ToSet(file))
          /\ \A a \in acks : Marked(a, file) => Marked(a, new)
          /\ new # file => \E m \in ToSet(new) : c \in m.readBy
        <3>1. file \in Lines /\ acks \subseteq Callers \X Ids
            BY DEF Kinds
        <3> QED
            BY <3>1, MarkReadOK
    <2> HIDE DEF new
    <2>2. /\ op[c] = "idle" /\ lock = Free
          /\ \/ Goto(c, "adopt") /\ pending' = pending
             \/ Goto(c, "ack") /\ pending' = new /\ new # file
          /\ UNCHANGED <<file, dropping, sent, purged, acks>>
        BY <1>4 DEF AckRead, ReadFresh, CanRewrite, new, pastVars
    <2>3. CASE Goto(c, "adopt") /\ pending' = pending
        <3>1. op'[c] = "adopt" /\ \A d \in Callers \ {c} : op'[d] = op[d]
            BY <1>g, <2>3
        <3> QED
            BY <2>2, <2>3, <3>1, Ops, SafeFrame
    <2>4. CASE Goto(c, "ack") /\ pending' = new /\ new # file
        <3>1. op'[c] = "ack" /\ \A d \in Callers \ {c} : op'[d] = op[d]
            BY <1>g, <2>4
        <3> QED
            BY <2>1, <2>2, <2>4, <3>1, SafeIfBegun
    <2> QED
        BY <2>2, <2>3, <2>4
<1>5. ASSUME NEW c \in Callers, NEW ids \in SUBSET Ids, PurgeRead(c, ids) PROVE Safe'
    <2> DEFINE new == Without(file, ids)
    <2>1. /\ IdsOf(ToSet(new)) = IdsOf(ToSet(file)) \ ids
          /\ \A a \in acks : Marked(a, file) => Marked(a, new) \/ a[2] \in ids
        <3>1. file \in Lines /\ acks \subseteq Callers \X Ids
            BY DEF Kinds
        <3> QED
            BY <3>1, PurgeOK
    <2> HIDE DEF new
    <2>2. /\ lock = Free
          /\ \/ UNCHANGED <<op, pending, dropping>>
             \/ /\ Goto(c, "purge") /\ pending' = new
                /\ dropping' = ids \cap IdsOf(ToSet(file)) /\ dropping' # {}
          /\ UNCHANGED <<file, sent, purged, acks>>
        BY <1>5 DEF PurgeRead, CanRewrite, new, Without, pastVars
    <2>3. CASE UNCHANGED <<op, pending, dropping>>
        BY <2>2, <2>3, SafeFrame
    <2>4. CASE /\ Goto(c, "purge") /\ pending' = new
               /\ dropping' = ids \cap IdsOf(ToSet(file)) /\ dropping' # {}
        <3>1. op'[c] = "purge" /\ \A d \in Callers \ {c} : op'[d] = op[d]
            BY <1>g, <2>4
        <3>2. \A a \in acks : Marked(a, file) => Marked(a, pending') \/ a[2] \in dropping'
            BY <2>1, <2>4 DEF Marked, IdsOf
        <3>3. IdsOf(ToSet(file)) \subseteq IdsOf(ToSet(pending')) \cup dropping'
            BY <2>1, <2>4
        <3> QED
            BY <2>2, <2>4, <3>1, <3>2, <3>3, SafeIfBegun
    <2> QED
        BY <2>2, <2>3, <2>4
<1>6. ASSUME NEW c \in Callers, Truncate(c) PROVE Safe'
    <2>1. /\ op[c] \in {"ack", "purge"} /\ UNCHANGED <<pending, dropping, sent, purged, acks>>
          /\ op'[c] = (IF op[c] = "ack" THEN "ackCut" ELSE "purgeCut")
          /\ \A d \in Callers \ {c} : op'[d] = op[d]
        BY <1>6, <1>g DEF Truncate, pastVars
    <2>2. Stored'
        BY <2>1, Ops DEF Stored
    <2>3. \A d \in Callers : op'[d] \in Rewriting => op[d] \in Rewriting
        BY <2>1, Ops
    <2>4. \A d \in Callers : /\ op'[d] \in {"ack", "ackCut"} => op[d] \in {"ack", "ackCut"}
                             /\ op'[d] \in {"purge", "purgeCut"} => op[d] \in {"purge", "purgeCut"}
        BY <2>1
    <2>5. Rewrite'
        BY <2>1, <2>3, <2>4 DEF Safe, Rewrite, Marked
    <2> QED
        BY <2>2, <2>5 DEF Safe
<1>7. ASSUME NEW c \in Callers, Write(c) PROVE Safe'
    <2>1. /\ op[c] \in {"ackCut", "purgeCut"} /\ file' = pending /\ sent' = sent
          /\ acks' = acks \cup {<<c, m.id>> : m \in {m \in ToSet(pending) : c \in m.readBy}}
          /\ purged' = purged \cup dropping
          /\ op'[c] \in {"adopt", "idle"} /\ \A d \in Callers \ {c} : op'[d] = op[d]
        BY <1>7, <1>g DEF Write
    <2>2. \A d \in Callers : op'[d] \notin Rewriting
        BY <1>o, <2>1, Ops
    <2>3. /\ sent \ purged \subseteq IdsOf(ToSet(pending)) \cup dropping
          /\ \A a \in acks : a[2] \notin purged => Marked(a, pending) \/ a[2] \in dropping
        BY <2>1, Ops DEF Safe, Rewrite
    <2>4. \A a \in acks' \ acks : Marked(a, pending)
        BY <2>1 DEF Marked
    <2>5. \A a \in acks' : a[2] \notin purged' => Marked(a, file')
        BY <2>1, <2>3, <2>4
    <2> QED
        BY <2>1, <2>2, <2>3, <2>5, SafeIfFree
<1>8. ASSUME NEW c \in Callers, AdoptDraft(c) PROVE Safe'
    BY <1>8, <1>g, Ops, SafeFrame DEF AdoptDraft, diskVars, pastVars
<1>9. ASSUME NEW c \in Callers,
             \/ QueryStat(c) \/ QueryNothing(c) \/ QueryCopy(c) \/ QueryOpens(c) \/ TailFrom(c)
             \/ TailRead(c) \/ TailParsed(c) \/ FullRead(c) \/ FullSet(c)
      PROVE  Safe'
    <2>1. UNCHANGED <<file, pending, dropping, sent, purged, acks>> /\ op[c] \notin Rewriting
        BY <1>9, Ops DEF QueryStat, QueryNothing, QueryCopy, QueryOpens, TailFrom, TailRead,
                         TailParsed, FullRead, FullSet, diskVars, pastVars
    <2>2. \E o \in {"idle", "stat", "tail", "full", "read", "parse", "set"} : Goto(c, o)
        BY <1>9 DEF QueryStat, QueryNothing, QueryCopy, QueryOpens, TailFrom, TailRead,
                    TailParsed, FullRead, FullSet, Answers, Ends
    <2>3. op'[c] \notin Rewriting /\ \A d \in Callers \ {c} : op'[d] = op[d]
        BY <1>g, <2>2, Ops
    <2> QED
        BY <2>1, <2>3, SafeFrame
<1> QED
    BY <1>1, <1>2, <1>3, <1>4, <1>5, <1>6, <1>7, <1>8, <1>9 DEF Next

-----------------------------------------------------------------------------
(* Readers of a file that has only been appended to *)

\* What a longer file has up to an earlier size is what there was.
LEMMA UptoOK ==
    ASSUME NEW lines \in Lines
    PROVE  /\ \A k \in Sizes(lines) : k \in Int /\ (k = -1 \/ k \in Nat)
           /\ -1 \in Sizes(lines) /\ Upto(lines, -1) = {}
           /\ 2 * Len(lines) \in Sizes(lines)
           /\ Upto(lines, 2 * Len(lines)) = IdsOf(ToSet(lines))
           /\ \A k \in Sizes(lines) : Upto(lines, k) \subseteq IdsOf(ToSet(lines))
           /\ \A k, l \in Sizes(lines) : k <= l => Upto(lines, k) \subseteq Upto(lines, l)
<1>1. Len(lines) \in Nat /\ DOMAIN lines = 1..Len(lines)
    BY LinesOK
<1>2. IdsOf(ToSet(lines)) = {lines[i].id : i \in 1..Len(lines)}
    BY <1>1, LinesOK
<1>3. \A k \in Sizes(lines) : k \in Int /\ (k = -1 \/ k \in Nat)
    BY <1>1 DEF Sizes
<1>4. -1 \in Sizes(lines) /\ 2 * Len(lines) \in Sizes(lines)
    BY <1>1 DEF Sizes
<1>5. Upto(lines, -1) = {}
    BY <1>1 DEF Upto
<1>6. {j \in 1..Len(lines) : 2 * j <= 2 * Len(lines)} = 1..Len(lines)
    BY <1>1
<1>7. Upto(lines, 2 * Len(lines)) = IdsOf(ToSet(lines))
    BY <1>2, <1>6 DEF Upto
<1>8. \A k \in Sizes(lines) : Upto(lines, k) \subseteq IdsOf(ToSet(lines))
    BY <1>2 DEF Upto
<1>9. ASSUME NEW k \in Sizes(lines), NEW l \in Sizes(lines), k <= l
      PROVE  Upto(lines, k) \subseteq Upto(lines, l)
    <2>1. \A j \in 1..Len(lines) : 2 * j <= k => 2 * j <= l
        BY <1>1, <1>3, <1>9
    <2> QED
        BY <2>1 DEF Upto
<1> QED
    BY <1>3, <1>4, <1>5, <1>7, <1>8, <1>9

LEMMA UptoAppend ==
    ASSUME NEW lines \in Lines, NEW id \in Ids
    PROVE  \A k \in Sizes(lines) : /\ k \in Sizes(Append(lines, Unread(id)))
                                   /\ Upto(Append(lines, Unread(id)), k) = Upto(lines, k)
<1> DEFINE new == Append(lines, Unread(id))
<1>1. Len(lines) \in Nat /\ Len(new) = Len(lines) + 1 /\ \A i \in 1..Len(lines) : new[i] = lines[i]
    BY AppendOK, LinesOK
<1> HIDE DEF new
<1>2. ASSUME NEW k \in Sizes(lines) PROVE k \in Sizes(new) /\ Upto(new, k) = Upto(lines, k)
    <2>1. k = -1 \/ \E n \in 0..Len(lines) : k = 2 * n
        BY DEF Sizes
    <2>2. k \in Sizes(new)
        BY <1>1, <2>1 DEF Sizes
    <2>3. {j \in 1..Len(new) : 2 * j <= k} = {j \in 1..Len(lines) : 2 * j <= k}
        BY <1>1, <2>1
    <2> QED
        BY <1>1, <2>2, <2>3 DEF Upto
<1> QED
    BY <1>2 DEF new

\* The file was untouched before a step that leaves it so.
LEMMA UntouchedBefore ==
    ASSUME Kinds, Safe, Next, Untouched'
    PROVE  Untouched /\ \A c \in Callers : ~ Truncate(c) /\ ~ Write(c)
<1>g. \A c \in Callers : \A o : Goto(c, o) =>
          op'[c] = o /\ \A d \in Callers \ {c} : op'[d] = op[d]
    BY DEF Goto, Kinds
<1>1. ASSUME NEW c \in Callers, Write(c) PROVE FALSE
    <2>1. /\ op[c] \in {"ackCut", "purgeCut"}
          /\ acks' = acks \cup {<<c, m.id>> : m \in {m \in ToSet(pending) : c \in m.readBy}}
          /\ purged' = purged \cup dropping
        BY <1>1 DEF Write
    <2>2. /\ op[c] = "ackCut" => \E m \in ToSet(pending) : c \in m.readBy
          /\ op[c] = "purgeCut" => dropping # {}
        BY <2>1, Ops DEF Safe, Rewrite
    <2> QED
        BY <2>1, <2>2 DEF Untouched
<1>2. ASSUME NEW c \in Callers, Truncate(c) PROVE FALSE
    <2>1. op'[c] \in {"ackCut", "purgeCut"}
        BY <1>2, <1>g DEF Truncate
    <2> QED
        BY <2>1, Ops DEF Untouched
<1>3. acks' = acks /\ purged' = purged
    BY <1>1, <1>2 DEF Next, StatLands, SendAppend, SendPush, AckRead, PurgeRead, AdoptDraft,
                      QueryStat, QueryNothing, QueryCopy, QueryOpens, TailFrom, TailRead,
                      TailParsed, FullRead, FullSet, pastVars
<1>4. ASSUME NEW d \in Callers, op[d] \in Rewriting PROVE FALSE
    <2>1. op[d] \in {"ack", "ackCut", "purge", "purgeCut"} /\ op'[d] \notin Rewriting
        BY <1>4, Ops DEF Untouched
    <2>2. op'[d] # op[d]
        BY <1>4, <2>1
    <2>3. ASSUME NEW c \in Callers, NEW o, Goto(c, o),
                 op[c] \notin {"ack", "ackCut", "purge", "purgeCut"}
          PROVE  FALSE
        BY <1>g, <2>1, <2>2, <2>3
    <2>4. (\E p \in Procs : StatLands(p)) => op' = op
        BY DEF StatLands, callVars
    <2>5. \A c \in Callers :
              (\/ \E id \in Ids : SendAppend(c, id) \/ AckRead(c, id)
               \/ \E ids \in SUBSET Ids : PurgeRead(c, ids)
               \/ SendPush(c) \/ AdoptDraft(c) \/ QueryStat(c))
              => \/ op' = op
                 \/ op[c] \in {"idle", "appended", "adopt"} /\ \E o : Goto(c, o)
        BY DEF SendAppend, SendPush, AckRead, PurgeRead, CanRewrite, AdoptDraft, QueryStat
    <2>6. \A c \in Callers :
              (\/ QueryNothing(c) \/ QueryCopy(c) \/ QueryOpens(c) \/ TailFrom(c)
               \/ TailRead(c) \/ TailParsed(c) \/ FullRead(c) \/ FullSet(c))
              => op[c] \in {"stat", "tail", "read", "parse", "full", "set"} /\ \E o : Goto(c, o)
        BY DEF QueryNothing, QueryCopy, QueryOpens, TailFrom, TailRead, TailParsed, FullRead,
               FullSet, Answers, Ends
    <2>7. \/ op' = op
          \/ \E c \in Callers : \E o : Goto(c, o) /\ op[c] \notin {"ack", "ackCut", "purge", "purgeCut"}
        BY <1>1, <1>2, <2>4, <2>5, <2>6 DEF Next
    <2> QED
        BY <2>2, <2>3, <2>7
<1> QED
    BY <1>1, <1>2, <1>3, <1>4 DEF Untouched

\* What an untouched file looks like.
LEMMA FileFacts ==
    ASSUME Kinds, Origins, Safe, AppendOnly, Untouched
    PROVE  /\ \A i \in 1..Len(file) : EndOf(file, i - 1) = 2 * (i - 1) /\ EndOf(file, i) = 2 * i
           /\ Stat \in Stats /\ Stat.size \in Sizes(file)
           /\ sent \ purged \subseteq Upto(file, Stat.size)
<1>1. Len(file) \in Nat /\ DOMAIN file = 1..Len(file) /\ file \in Lines
    BY LinesOK DEF Kinds
<1>2. \A i \in DOMAIN file : file[i].readBy = {}
    BY DEF AppendOnly
<1>3. ASSUME NEW i \in 0..Len(file) PROVE EndOf(file, i) = 2 * i
    <2>1. \A j \in 1..i : file[j].readBy = {}
        BY <1>1, <1>2
    <2> QED
        BY <1>1, <2>1, EndOfOK
<1>4. \A i \in 1..Len(file) : i - 1 \in 0..Len(file) /\ i \in 0..Len(file)
    BY <1>1
<1>5. sent \ purged \subseteq IdsOf(ToSet(file))
    BY DEF Untouched, Safe, Stored
<1>6. Stat \in Stats
    BY <1>1, StatOK DEF Kinds
<1>7. Stat.size \in Sizes(file) /\ sent \ purged \subseteq Upto(file, Stat.size)
    <2>1. CASE mtime = 0
        BY <1>1, <2>1, StatOK, UptoOK DEF Kinds, Origins, NoStat
    <2>2. CASE mtime > 0
        <3>1. Stat.size = 2 * Len(file)
            BY <1>1, <1>2, <2>2, StatOK DEF Kinds
        <3> QED
            BY <1>1, <1>5, <3>1, UptoOK
    <2> QED
        BY <2>1, <2>2 DEF Kinds
<1> QED
    BY <1>3, <1>4, <1>6, <1>7

\* The bytes between two sizes of such a file are the lines between them.
LEMMA WithinUntouched ==
    ASSUME Kinds, Origins, Safe, AppendOnly, Untouched,
           NEW k \in Sizes(file), NEW l \in Sizes(file)
    PROVE  Upto(file, l) \subseteq Upto(file, k) \cup IdsOf(Within(file, k, l))
<1>1. Len(file) \in Nat /\ DOMAIN file = 1..Len(file)
    BY LinesOK DEF Kinds
<1>2. ASSUME NEW j \in 1..Len(file), 2 * j <= l
      PROVE  2 * j <= k \/ file[j] \in Within(file, k, l)
    <2>1. EndOf(file, j - 1) = 2 * (j - 1) /\ EndOf(file, j) = 2 * j
        BY FileFacts
    <2>2. k = -1 \/ \E n \in 0..Len(file) : k = 2 * n
        BY DEF Sizes
    <2>3. 2 * j <= k \/ 2 * (j - 1) >= k
        BY <1>1, <2>2
    <2> QED
        BY <1>1, <1>2, <2>1, <2>3 DEF Within
<1>3. ASSUME NEW x \in Upto(file, l) PROVE x \in Upto(file, k) \cup IdsOf(Within(file, k, l))
    <2>1. PICK j \in 1..Len(file) : 2 * j <= l /\ x = file[j].id
        BY <1>3 DEF Upto
    <2> QED
        BY <1>2, <2>1 DEF Upto, IdsOf
<1> QED
    BY <1>3

\* A copy that is only added to, while the file grows.
LEMMA CopyFrame ==
    ASSUME NEW p \in Procs, CopyBehind(p),
           \A k \in Sizes(file) : k \in Sizes(file') /\ Upto(file', k) = Upto(file, k),
           copy[p] \subseteq copy'[p], noted'[p] = noted[p], stats'[p] = stats[p],
           torn \subseteq torn'
    PROVE  CopyBehind(p)'
<1>1. IdsOf(copy[p]) \subseteq IdsOf(copy'[p])
    BY DEF IdsOf
<1> QED
    BY <1>1 DEF CopyBehind

\* A call that makes no step, while the copy of its process does not lose what it
\* had when the call's tail began.
LEMMA CallFrame ==
    ASSUME NEW c \in Callers, CallBehind(c),
           \A k \in Sizes(file) : k \in Sizes(file') /\ Upto(file', k) = Upto(file, k),
           op'[c] = op[c], seen'[c] = seen[c], from'[c] = from[c], owed'[c] = owed[c],
           op[c] \in Querying => draft'[c] = draft[c],
           \/ copy[Home[c]] \subseteq copy'[Home[c]]
           \/ op[c] \in {"read", "parse"} /\ Home[c] \notin torn' =>
                 Upto(file, from[c]) \subseteq IdsOf(copy'[Home[c]]),
           torn \subseteq torn', c \in missed' => c \in missed
    PROVE  CallBehind(c)'
<1>1. op[c] \in {"read", "parse"} /\ Home[c] \notin torn' =>
          /\ from[c] \in Sizes(file)
          /\ Upto(file, from[c]) \subseteq IdsOf(copy'[Home[c]])
    BY DEF CallBehind, IdsOf
<1>2. op[c] \in {"read", "parse", "set"} => draft'[c] = draft[c]
    BY Ops
<1>3. /\ op'[c] # "adopt" /\ (c \in missed' => Home[c] \in torn')
      /\ op'[c] \in Querying => /\ seen'[c].size \in Sizes(file')
                               /\ owed'[c] \subseteq Upto(file', seen'[c].size)
    BY DEF CallBehind
<1>4. op'[c] = "set" => Upto(file', seen'[c].size) \subseteq IdsOf(draft'[c])
    BY <1>2, <1>3, Ops DEF CallBehind
<1>5. Home[c] \notin torn' =>
          /\ op'[c] \in {"read", "parse"} =>
                from'[c] \in Sizes(file') /\ Upto(file', from'[c]) \subseteq IdsOf(copy'[Home[c]])
          /\ op'[c] = "parse" =>
                Upto(file', seen'[c].size) \subseteq Upto(file', from'[c]) \cup IdsOf(draft'[c])
    BY <1>1, <1>2, <1>3, Ops DEF CallBehind
<1> QED
    BY <1>3, <1>4, <1>5 DEF CallBehind

\* The call of c makes a step, and no other.
LEMMA AppendOnlyStep ==
    ASSUME Kinds, Origins, Safe, AppendOnly, Next
    PROVE  AppendOnly'
<1> SUFFICES ASSUME Untouched'
             PROVE  /\ \A i \in DOMAIN file' : file'[i].readBy = {}
                    /\ \A p \in Procs : At(p) \cap Purgers = {} => CopyBehind(p)'
                    /\ \A d \in PurgesNot : CallBehind(d)'
    BY DEF AppendOnly, At, PurgesNot
<1> DEFINE Goal == /\ \A i \in DOMAIN file' : file'[i].readBy = {}
                   /\ \A p \in Procs : At(p) \cap Purgers = {} => CopyBehind(p)'
                   /\ \A d \in PurgesNot : CallBehind(d)'
<1>h. \A c \in Callers : Home[c] \in Procs /\ c \in At(Home[c])
    BY HomeOK
<1>g. \A c \in Callers : \A o : Goto(c, o) =>
          op'[c] = o /\ \A d \in Callers \ {c} : op'[d] = op[d]
    BY DEF Goto, Kinds
<1>u. Untouched /\ \A c \in Callers : ~ Truncate(c) /\ ~ Write(c)
    BY UntouchedBefore
<1>b. /\ \A i \in DOMAIN file : file[i].readBy = {}
      /\ \A p \in Procs : At(p) \cap Purgers = {} => CopyBehind(p)
      /\ \A d \in PurgesNot : d \in Callers /\ At(Home[d]) \cap Purgers = {} /\ CallBehind(d)
    BY <1>u DEF AppendOnly, PurgesNot
<1>l. file \in Lines /\ Len(file) \in Nat /\ DOMAIN file = 1..Len(file)
    BY LinesOK DEF Kinds
<1>q. \A d \in Callers : op[d] \in Querying => d \notin aliased
    BY Ops DEF Origins
<1>e. \A c \in Callers : Ends(c) =>
          /\ op'[c] = "idle"
          /\ \A d \in Callers \ {c} : /\ op'[d] = op[d] /\ seen'[d] = seen[d]
                                      /\ from'[d] = from[d] /\ owed'[d] = owed[d]
    BY DEF Ends, Goto, Kinds
<1>a. \A c \in Callers : \A ids : Answers(c, ids) =>
          /\ Ends(c)
          /\ missed' = missed \/ (missed' = missed \cup {c} /\ ~ owed[c] \subseteq ids)
    BY DEF Answers
<1>i. "idle" # "adopt" /\ "idle" \notin Querying /\ "idle" \notin {"read", "parse", "set"}
    BY Ops
\* The copies first, then the calls: a call that idles, and one that goes on.
<1>k. ASSUME file' = file, NEW c \in Callers, c \in PurgesNot => CallBehind(c)',
             \A p \in Procs : At(p) \cap Purgers = {} =>
                \/ CopyBehind(p)'
                \/ /\ copy[p] \subseteq copy'[p] /\ noted'[p] = noted[p] /\ stats'[p] = stats[p],
             torn \subseteq torn', missed' \subseteq missed \cup {c},
             \A d \in Callers \ {c} :
                /\ op'[d] = op[d] /\ seen'[d] = seen[d] /\ from'[d] = from[d] /\ owed'[d] = owed[d]
                /\ op[d] \in Querying => draft'[d] = draft[d],
             \A d \in PurgesNot \ {c} :
                \/ copy[Home[d]] \subseteq copy'[Home[d]]
                \/ op[d] \in {"read", "parse"} /\ Home[d] \notin torn' =>
                      Upto(file, from[d]) \subseteq IdsOf(copy'[Home[d]])
      PROVE  Goal
    <2>1. \A k \in Sizes(file) : k \in Sizes(file') /\ Upto(file', k) = Upto(file, k)
        BY <1>k
    <2>2. ASSUME NEW p \in Procs, At(p) \cap Purgers = {} PROVE CopyBehind(p)'
        BY <1>b, <1>k, <2>1, <2>2, CopyFrame
    <2>3. ASSUME NEW d \in PurgesNot PROVE CallBehind(d)'
        <3>1. CASE d = c
            BY <1>k, <3>1
        <3>2. CASE d # c
            <4>1. d \in Callers /\ CallBehind(d) /\ (d \in missed' => d \in missed)
                BY <1>b, <1>k, <3>2
            <4>2. /\ op'[d] = op[d] /\ seen'[d] = seen[d] /\ from'[d] = from[d] /\ owed'[d] = owed[d]
                  /\ op[d] \in Querying => draft'[d] = draft[d]
                BY <1>k, <3>2, <4>1
            <4> QED
                BY <1>k, <2>1, <3>2, <4>1, <4>2, CallFrame
        <3> QED
            BY <3>1, <3>2
    <2> QED
        BY <1>b, <1>k, <2>2, <2>3
<1>1. ASSUME NEW p \in Procs, StatLands(p) PROVE Goal
    <2>1. At(p) \cap Purgers # {}
        BY <1>b, <1>1 DEF StatLands, CopyBehind, Kinds
    <2>2. \A q \in Procs \ {p} : noted'[q] = noted[q] /\ stats'[q] = stats[q]
        BY <1>1 DEF StatLands, Kinds
    <2>3. /\ UNCHANGED <<file, copy, torn, missed, op, draft, seen, from, owed>>
        BY <1>1 DEF StatLands, diskVars, callVars, queryVars
    <2>4. \A k \in Sizes(file) : k \in Sizes(file') /\ Upto(file', k) = Upto(file, k)
        BY <2>3
    <2>5. ASSUME NEW q \in Procs, At(q) \cap Purgers = {} PROVE CopyBehind(q)'
        BY <1>b, <2>1, <2>2, <2>3, <2>4, <2>5, CopyFrame
    <2>6. ASSUME NEW d \in PurgesNot PROVE CallBehind(d)'
        BY <1>b, <2>3, <2>4, <2>6, CallFrame
    <2> QED
        BY <1>b, <2>3, <2>5, <2>6
<1>2. ASSUME NEW c \in Callers, NEW id \in Ids, SendAppend(c, id) PROVE Goal
    <2>1. /\ file' = Append(file, Unread(id))
          /\ op[c] = "idle" /\ op'[c] = "appended" /\ \A d \in Callers \ {c} : op'[d] = op[d]
          /\ \A d \in Callers \ {c} : draft'[d] = draft[d]
          /\ UNCHANGED <<copy, noted, stats, torn, missed, seen, from, owed>>
        BY <1>2, <1>g DEF SendAppend, Kinds, copyVars, queryVars
    <2>2. \A k \in Sizes(file) : k \in Sizes(file') /\ Upto(file', k) = Upto(file, k)
        BY <1>l, <2>1, UptoAppend
    <2>3. \A i \in DOMAIN file' : file'[i].readBy = {}
        <3>1. /\ file' \in Lines /\ Len(file') = Len(file) + 1
              /\ \A i \in 1..Len(file) : file'[i] = file[i]
              /\ file'[Len(file) + 1] = Unread(id)
            BY <1>l, <2>1, AppendOK
        <3>2. DOMAIN file' = 1..Len(file) \cup {Len(file) + 1}
            BY <1>l, <3>1 DEF Lines
        <3> QED
            BY <1>b, <1>l, <3>1, <3>2, UnreadOK
    <2>4. ASSUME NEW q \in Procs, At(q) \cap Purgers = {} PROVE CopyBehind(q)'
        BY <1>b, <2>1, <2>2, <2>4, CopyFrame
    <2>5. ASSUME NEW d \in PurgesNot PROVE CallBehind(d)'
        <3>1. CASE d = c
            <4>1. op'[d] = "appended" /\ "appended" \notin Querying /\ (d \in missed' => Home[d] \in torn')
                BY <1>b, <2>1, <3>1, Ops DEF CallBehind
            <4> QED
                BY <4>1 DEF CallBehind
        <3>2. CASE d # c
            BY <1>b, <2>1, <2>2, <3>2, CallFrame
        <3> QED
            BY <3>1, <3>2
    <2> QED
        BY <2>3, <2>4, <2>5
<1>3. ASSUME NEW c \in Callers, SendPush(c) PROVE Goal
    <2>1. draft[c] \in SUBSET Message
        BY DEF Kinds
    <2>2. /\ \A q \in Procs : copy[q] \subseteq copy'[q]
          /\ UNCHANGED <<stats, torn, noted, file, missed, seen, from, owed>>
        BY <1>3, <1>h, <2>1, PushOK DEF SendPush, queryVars
    <2>3. \A d \in Callers \ {c} : d \notin aliased => draft'[d] = draft[d]
        BY <1>3, <1>h, <2>1, GrownOK DEF SendPush
    <2>4. op'[c] = "idle" /\ \A d \in Callers \ {c} : op'[d] = op[d]
        BY <1>3, <1>g DEF SendPush
    <2>5. c \in PurgesNot => CallBehind(c)'
        BY <1>b, <1>i, <2>2, <2>4 DEF CallBehind
    <2> QED
        BY <1>b, <1>h, <1>k, <1>q, <2>2, <2>3, <2>4, <2>5
<1>4. ASSUME NEW c \in Callers, NEW id \in Ids, AckRead(c, id) PROVE FALSE
    <2>1. id \in IdsOf(ToSet(file))
        BY <1>u, <1>4 DEF AckRead, Untouched, Safe, Stored
    <2>2. PICK i \in DOMAIN file : file[i].id = id
        BY <1>l, <2>1, LinesOK
    <2>3. c \notin file[i].readBy
        BY <1>b, <2>2
    <2>4. MarkRead(file, id, c) # file
        BY <1>l, <2>2, <2>3, MarkReadOK
    <2>5. op'[c] = "ack"
        BY <1>4, <1>g, <2>4 DEF AckRead, ReadFresh
    <2> QED
        BY <2>5, Ops DEF Untouched
<1>5. ASSUME NEW c \in Callers, NEW ids \in SUBSET Ids, PurgeRead(c, ids) PROVE Goal
    <2>1. ~ Goto(c, "purge")
        BY <1>g, Ops DEF Untouched
    <2>2. /\ AdoptUnseen(Home[c], ToSet(file), {}, 2) /\ c \in Purgers
          /\ UNCHANGED <<op, file, draft, seen, from, owed, missed>>
        BY <1>5, <2>1 DEF PurgeRead, queryVars
    <2>3. ToSet(file) \in SUBSET Message
        BY <1>l, LinesOK
    <2>4. /\ \A q \in Procs \ {Home[c]} : copy'[q] = copy[q] /\ stats'[q] = stats[q]
          /\ UNCHANGED <<noted, torn>>
        BY <1>h, <2>2, <2>3, AdoptUnseenOK
    <2>5. At(Home[c]) \cap Purgers # {}
        BY <1>h, <2>2
    <2>6. c \notin PurgesNot
        BY <2>5 DEF PurgesNot
    <2>7. \A d \in PurgesNot : Home[d] \in Procs \ {Home[c]}
        BY <1>b, <1>h, <2>5
    <2> QED
        BY <1>b, <1>h, <1>k, <2>2, <2>4, <2>5, <2>6, <2>7
<1>8. ASSUME NEW c \in Callers, AdoptDraft(c) PROVE Goal
    <2>1. c \notin PurgesNot
        BY <1>b, <1>8 DEF AdoptDraft, CallBehind
    <2>2. At(Home[c]) \cap Purgers # {}
        BY <2>1 DEF PurgesNot
    <2>3. draft[c] \in SUBSET Message
        BY DEF Kinds
    <2>4. /\ \A q \in Procs \ {Home[c]} : copy'[q] = copy[q] /\ stats'[q] = stats[q]
          /\ UNCHANGED <<noted, torn, file, seen, from, owed, missed>>
        BY <1>8, <1>h, <2>3, AdoptUnseenOK DEF AdoptDraft, diskVars, queryVars
    <2>5. \A d \in Callers \ {c} : op'[d] = op[d] /\ draft'[d] = draft[d]
        BY <1>8, <1>g DEF AdoptDraft, Forget, Kinds
    <2>6. \A d \in PurgesNot : Home[d] \in Procs \ {Home[c]}
        BY <1>b, <1>h, <2>2
    <2> QED
        BY <1>b, <1>h, <1>k, <2>1, <2>2, <2>4, <2>5, <2>6
<1>9. ASSUME NEW c \in Callers, QueryStat(c) PROVE Goal
    <2>1. /\ op'[c] = "stat" /\ seen'[c] = Stat /\ owed'[c] = sent \ purged
          /\ \A d \in Callers \ {c} : op'[d] = op[d] /\ seen'[d] = seen[d] /\ owed'[d] = owed[d]
          /\ UNCHANGED <<file, draft, copy, noted, stats, torn, from, missed>>
        BY <1>9, <1>g DEF QueryStat, Kinds, diskVars, copyVars
    <2>2. Stat.size \in Sizes(file) /\ sent \ purged \subseteq Upto(file, Stat.size)
        BY <1>u, FileFacts
    <2>3. c \in PurgesNot => CallBehind(c)'
        BY <1>b, <2>1, <2>2 DEF CallBehind
    <2> QED
        BY <1>b, <1>h, <1>k, <2>1, <2>3
<1>10. ASSUME NEW c \in Callers, NEW messages \in SUBSET Message, NEW stat \in Stats,
              AdoptSeen(Home[c], messages, stat), Ends(c), missed' \subseteq missed \cup {c},
              \A d \in Callers \ {c} : draft'[d] = draft[d], file' = file,
              c \in PurgesNot => /\ missed' = missed /\ stat.size \in Sizes(file)
                                 /\ Upto(file, stat.size) \subseteq IdsOf(messages)
       PROVE  Goal
    <2> DEFINE p == Home[c]
    <2>1. /\ copy'[p] = messages /\ noted'[p] = stat
          /\ \A q \in Procs \ {p} : copy'[q] = copy[q] /\ noted'[q] = noted[q]
          /\ stats' = stats /\ torn \subseteq torn'
          /\ \A d \in At(p) : op[d] \in {"read", "parse"} /\ from[d] > stat.size => p \in torn'
        <3>1. p \in Procs /\ AdoptSeen(p, messages, stat)
            BY <1>10, <1>h
        <3> HIDE DEF p, Goal
        <3> QED
            BY <3>1, AdoptSeenOK
    <2>2. /\ op'[c] = "idle"
          /\ \A d \in Callers \ {c} : /\ op'[d] = op[d] /\ seen'[d] = seen[d]
                                      /\ from'[d] = from[d] /\ owed'[d] = owed[d]
        BY <1>10, <1>e
    <2>3. At(p) \cap Purgers = {} <=> c \in PurgesNot
        BY DEF PurgesNot
    <2>4. At(p) \cap Purgers = {} => CopyBehind(p)'
        BY <1>10, <1>b, <1>h, <2>1, <2>3 DEF CopyBehind
    <2>5. c \in PurgesNot => CallBehind(c)'
        BY <1>10, <1>b, <1>i, <2>1, <2>2 DEF CallBehind
    <2>6. ASSUME NEW d \in PurgesNot \ {c}
          PROVE  \/ copy[Home[d]] \subseteq copy'[Home[d]]
                 \/ op[d] \in {"read", "parse"} /\ Home[d] \notin torn' =>
                       Upto(file, from[d]) \subseteq IdsOf(copy'[Home[d]])
        <3>1. CASE Home[d] # p
            BY <1>b, <1>h, <2>1, <3>1
        <3>2. CASE Home[d] = p
            <4>1. SUFFICES ASSUME op[d] \in {"read", "parse"}, p \notin torn'
                           PROVE  Upto(file, from[d]) \subseteq IdsOf(copy'[p])
                BY <3>2
            <4>2. d \in At(p) /\ c \in PurgesNot
                BY <1>b, <2>3, <3>2 DEF At
            <4>3. from[d] \in Sizes(file) /\ ~ (from[d] > stat.size)
                BY <1>b, <2>1, <3>2, <4>1, <4>2 DEF CallBehind
            <4>4. stat.size \in Sizes(file) /\ from[d] \in Int /\ stat.size \in Int
                BY <1>10, <1>l, <4>2, <4>3, UptoOK
            <4>5. from[d] <= stat.size
                BY <4>3, <4>4
            <4>6. Upto(file, from[d]) \subseteq Upto(file, stat.size)
                BY <1>l, <4>3, <4>4, <4>5, UptoOK
            <4> QED
                BY <1>10, <2>1, <4>2, <4>6
        <3> QED
            BY <3>1, <3>2
    <2>7. \A q \in Procs : At(q) \cap Purgers = {} =>
              \/ CopyBehind(q)'
              \/ copy[q] \subseteq copy'[q] /\ noted'[q] = noted[q] /\ stats'[q] = stats[q]
        BY <2>1, <2>4
    <2>8. \A d \in Callers \ {c} :
              /\ op'[d] = op[d] /\ seen'[d] = seen[d] /\ from'[d] = from[d] /\ owed'[d] = owed[d]
              /\ op[d] \in Querying => draft'[d] = draft[d]
        BY <1>10, <2>2
    <2>9. file' = file /\ missed' \subseteq missed \cup {c} /\ torn \subseteq torn'
        BY <1>10, <2>1
    <2> HIDE DEF p, Goal
    <2> QED
        BY <1>k, <2>5, <2>6, <2>7, <2>8, <2>9
<1>11. ASSUME NEW c \in Callers, QueryNothing(c) PROVE Goal
    <2>1. NoStat \in Stats /\ NoStat.size = -1 /\ {} \in SUBSET Message
        BY DEF NoStat, Stats
    <2>2. -1 \in Sizes(file) /\ Upto(file, -1) = {}
        BY <1>l, UptoOK
    <2>3. /\ op[c] = "stat" /\ seen[c] = NoStat /\ AdoptSeen(Home[c], {}, NoStat)
          /\ Answers(c, {}) /\ UNCHANGED <<file, draft>>
        BY <1>11 DEF QueryNothing, diskVars
    <2>4. c \in PurgesNot => owed[c] \subseteq {}
        BY <1>b, <2>1, <2>2, <2>3, Ops DEF CallBehind
    <2>5. /\ Ends(c) /\ missed' \subseteq missed \cup {c}
          /\ c \in PurgesNot => missed' = missed
        BY <1>a, <2>3, <2>4
    <2> HIDE DEF Goal
    <2> QED
        BY <1>10, <2>1, <2>2, <2>3, <2>5
<1>12. ASSUME NEW c \in Callers, QueryCopy(c) PROVE Goal
    <2>1. /\ op[c] = "stat" /\ seen[c] = noted[Home[c]]
          /\ Answers(c, IdsOf(copy[Home[c]]))
          /\ UNCHANGED <<file, draft, copy, noted, stats, torn>>
        BY <1>12 DEF QueryCopy, Current, diskVars, copyVars
    <2>2. c \in PurgesNot /\ Home[c] \notin torn => owed[c] \subseteq IdsOf(copy[Home[c]])
        <3>1. c \in PurgesNot => /\ owed[c] \subseteq Upto(file, seen[c].size)
                                 /\ CopyBehind(Home[c])
            BY <1>b, <1>h, <2>1, Ops DEF CallBehind
        <3> QED
            BY <2>1, <3>1 DEF CopyBehind
    <2>3. /\ Ends(c) /\ missed' \subseteq missed \cup {c}
          /\ c \in PurgesNot /\ Home[c] \notin torn => missed' = missed
        BY <1>a, <2>1, <2>2
    <2>4. c \in PurgesNot => CallBehind(c)'
        BY <1>b, <1>e, <1>i, <2>1, <2>3 DEF CallBehind
    <2> HIDE DEF Goal
    <2> QED
        BY <1>e, <1>k, <2>1, <2>3, <2>4
<1>13. ASSUME NEW c \in Callers, QueryOpens(c) PROVE Goal
    <2>1. /\ op[c] = "stat" /\ op'[c] \in {"tail", "full"}
          /\ \A d \in Callers \ {c} : op'[d] = op[d]
          /\ UNCHANGED <<file, draft, copy, noted, stats, torn, seen, from, owed, missed>>
        BY <1>13, <1>g DEF QueryOpens, diskVars, copyVars, queryVars
    <2>2. c \in PurgesNot => CallBehind(c)'
        BY <1>b, <2>1, Ops DEF CallBehind
    <2> HIDE DEF Goal
    <2> QED
        BY <1>k, <2>1, <2>2
<1>14. ASSUME NEW c \in Callers, TailFrom(c) PROVE Goal
    <2>1. op[c] = "tail" /\ UNCHANGED <<file, draft, copy, noted, stats, torn, missed>>
        BY <1>14 DEF TailFrom, diskVars, copyVars
    <2>2. CASE Ends(c)
        <3>1. c \in PurgesNot => CallBehind(c)'
            BY <1>b, <1>e, <1>i, <2>1, <2>2 DEF CallBehind
        <3> HIDE DEF Goal
        <3> QED
            BY <1>e, <1>k, <2>1, <2>2, <3>1
    <2>3. CASE ~ Ends(c)
        <3>1. /\ op'[c] = "read" /\ from'[c] = noted[Home[c]].size
              /\ \A d \in Callers \ {c} : op'[d] = op[d] /\ from'[d] = from[d]
              /\ UNCHANGED <<seen, owed>>
            BY <1>14, <1>g, <2>3 DEF TailFrom, Kinds
        <3>2. c \in PurgesNot => CopyBehind(Home[c])
            BY <1>b, <1>h
        <3>3. c \in PurgesNot => CallBehind(c)'
            BY <1>b, <2>1, <3>1, <3>2, Ops DEF CallBehind, CopyBehind
        <3> HIDE DEF Goal
        <3> QED
            BY <1>k, <2>1, <3>1, <3>3
    <2> QED
        BY <2>2, <2>3
<1>15. ASSUME NEW c \in Callers, TailRead(c) PROVE Goal
    <2>1. /\ op[c] = "read" /\ op'[c] = "parse"
          /\ \A d \in Callers \ {c} : op'[d] = op[d] /\ draft'[d] = draft[d]
          /\ draft'[c] = Within(file, from[c], seen[c].size)
          /\ UNCHANGED <<file, copy, noted, stats, torn, seen, from, owed, missed>>
        BY <1>15, <1>g DEF TailRead, Kinds, diskVars, copyVars, queryVars
    <2>2. c \in PurgesNot /\ Home[c] \notin torn =>
              Upto(file, seen[c].size) \subseteq Upto(file, from[c]) \cup IdsOf(draft'[c])
        <3>1. c \in PurgesNot /\ Home[c] \notin torn =>
                  seen[c].size \in Sizes(file) /\ from[c] \in Sizes(file)
            BY <1>b, <2>1, Ops DEF CallBehind
        <3> QED
            BY <1>u, <2>1, <3>1, WithinUntouched
    <2>3. c \in PurgesNot => CallBehind(c)'
        BY <1>b, <2>1, <2>2, Ops DEF CallBehind
    <2> HIDE DEF Goal
    <2> QED
        BY <1>k, <2>1, <2>3
<1>16. ASSUME NEW c \in Callers, TailParsed(c) PROVE Goal
    <2> DEFINE p == Home[c]
    <2>1. draft[c] \in SUBSET Message /\ p \in Procs
        BY <1>h DEF Kinds
    <2>2. /\ \A q \in Procs : copy[q] \subseteq copy'[q]
          /\ copied[p] => copy'[p] = copy[p] \cup draft[c]
          /\ UNCHANGED <<stats, torn, aliased, file>>
        BY <1>16, <2>1, PushOK DEF TailParsed, diskVars
    <2>3. \A d \in Callers \ {c} : d \notin aliased => draft'[d] = draft[d]
        BY <1>16, <2>1, GrownOK DEF TailParsed
    <2>4. op[c] = "parse" /\ Answers(c, IdsOf(copy'[p])) /\ copied[p]
        BY <1>16 DEF TailParsed, Origins
    <2>5. noted'[p] = seen[c] /\ \A q \in Procs \ {p} : noted'[q] = noted[q]
        BY <1>16, <2>1 DEF TailParsed, Kinds
    <2>6. c \in PurgesNot => seen[c].size \in Sizes(file) /\ owed[c] \subseteq Upto(file, seen[c].size)
        BY <1>b, <2>4, Ops DEF CallBehind
    <2>7. c \in PurgesNot /\ p \notin torn => Upto(file, seen[c].size) \subseteq IdsOf(copy'[p])
        BY <1>b, <2>2, <2>4 DEF CallBehind, IdsOf
    <2>8. /\ Ends(c) /\ missed' \subseteq missed \cup {c}
          /\ c \in PurgesNot /\ p \notin torn => missed' = missed
        BY <1>a, <2>4, <2>6, <2>7
    <2>9. c \in PurgesNot => CallBehind(c)'
        BY <1>b, <1>e, <1>i, <2>2, <2>8 DEF CallBehind
    <2>10. At(p) \cap Purgers = {} => c \in PurgesNot
        BY DEF PurgesNot
    <2>11. At(p) \cap Purgers = {} => CopyBehind(p)'
        BY <1>b, <2>1, <2>2, <2>5, <2>6, <2>7, <2>10 DEF CopyBehind
    <2>12. \A d \in Callers \ {c} :
              /\ op'[d] = op[d] /\ seen'[d] = seen[d] /\ from'[d] = from[d] /\ owed'[d] = owed[d]
              /\ op[d] \in Querying => draft'[d] = draft[d]
        BY <1>e, <1>q, <2>3, <2>8
    <2>13. \A q \in Procs : At(q) \cap Purgers = {} =>
              \/ CopyBehind(q)'
              \/ copy[q] \subseteq copy'[q] /\ noted'[q] = noted[q] /\ stats'[q] = stats[q]
        BY <2>2, <2>5, <2>11
    <2>14. \A d \in PurgesNot \ {c} : copy[Home[d]] \subseteq copy'[Home[d]]
        BY <1>b, <1>h, <2>2
    <2> HIDE DEF Goal, p
    <2> QED
        BY <1>k, <2>2, <2>8, <2>9, <2>12, <2>13, <2>14
<1>17. ASSUME NEW c \in Callers, FullRead(c) PROVE Goal
    <2>1. /\ op[c] = "full" /\ op'[c] = "set"
          /\ \A d \in Callers \ {c} : op'[d] = op[d] /\ draft'[d] = draft[d]
          /\ draft'[c] = ToSet(file)
          /\ UNCHANGED <<file, copy, noted, stats, torn, seen, from, owed, missed>>
        BY <1>17, <1>g DEF FullRead, Kinds, diskVars, copyVars, queryVars
    <2>2. c \in PurgesNot => Upto(file, seen[c].size) \subseteq IdsOf(draft'[c])
        BY <1>b, <1>l, <2>1, Ops, UptoOK DEF CallBehind
    <2>3. c \in PurgesNot => CallBehind(c)'
        BY <1>b, <2>1, <2>2, Ops DEF CallBehind
    <2> HIDE DEF Goal
    <2> QED
        BY <1>k, <2>1, <2>3
<1>18. ASSUME NEW c \in Callers, FullSet(c) PROVE Goal
    <2>1. /\ op[c] = "set" /\ AdoptSeen(Home[c], draft[c], seen[c])
          /\ Answers(c, IdsOf(draft[c])) /\ file' = file
          /\ \A d \in Callers \ {c} : draft'[d] = draft[d]
          /\ draft[c] \in SUBSET Message /\ seen[c] \in Stats
        BY <1>18 DEF FullSet, Forget, Kinds, diskVars
    <2>2. c \in PurgesNot => /\ seen[c].size \in Sizes(file)
                             /\ owed[c] \subseteq Upto(file, seen[c].size)
                             /\ Upto(file, seen[c].size) \subseteq IdsOf(draft[c])
        BY <1>b, <2>1, Ops DEF CallBehind
    <2>3. /\ Ends(c) /\ missed' \subseteq missed \cup {c}
          /\ c \in PurgesNot => missed' = missed
        BY <1>a, <2>1, <2>2
    <2> HIDE DEF Goal
    <2> QED
        BY <1>10, <2>1, <2>2, <2>3
<1> HIDE DEF Goal
<1>n. Goal
    BY <1>u, <1>1, <1>2, <1>3, <1>4, <1>5, <1>8, <1>9, <1>11, <1>12, <1>13, <1>14, <1>15, <1>16,
       <1>17, <1>18 DEF Next
<1> QED
    BY <1>n DEF Goal

-----------------------------------------------------------------------------
(* The theorems *)

LEMMA NextMInv == MInv /\ [Next]_vars => MInv'
<1> SUFFICES ASSUME MInv, [Next]_vars PROVE MInv'
    OBVIOUS
<1>1. CASE Next
    BY <1>1, KindsStep, OriginsStep, SafeStep, AppendOnlyStep DEF MInv
<1>2. CASE UNCHANGED vars
    <2>1. /\ UNCHANGED <<file, mtime, lock, pending, dropping, op, draft, aliased, copy, copied>>
          /\ UNCHANGED <<noted, stats, torn, seen, from, owed, missed, sent, purged, acks>>
        BY <1>2 DEF vars, diskVars, callVars, copyVars, queryVars, pastVars
    <2>2. Kinds'
        BY <2>1 DEF MInv, Kinds
    <2>3. Origins'
        BY <2>1 DEF MInv, Origins
    <2>4. Safe'
        BY <2>1, SafeFrame DEF MInv
    <2>5. AppendOnly'
        <3>1. \A p : CopyBehind(p)' <=> CopyBehind(p)
            BY <2>1 DEF CopyBehind
        <3>2. \A c : CallBehind(c)' <=> CallBehind(c)
            BY <2>1 DEF CallBehind
        <3> QED
            BY <2>1, <3>1, <3>2 DEF MInv, AppendOnly, Untouched, PurgesNot, At
    <2> QED
        BY <2>2, <2>3, <2>4, <2>5 DEF MInv
<1> QED
    BY <1>1, <1>2

LEMMA MailboxInvariance == Spec => []MInv
<1>1. Init => MInv
    BY InitMInv
<1>2. MInv /\ [Next]_vars => MInv'
    BY NextMInv
<1> QED
    BY <1>1, <1>2, PTL DEF Spec

\* The lock is held exactly while somebody writes the file (send(), ackMany() and
\* purgeStale() in global-mailbox.ts), and nothing is purged that was not sent.
THEOREM MailboxTypeCorrect == Spec => []MailboxTypeOK
<1>1. MInv => MailboxTypeOK
    BY TypesOfMInv
<1> QED
    BY <1>1, MailboxInvariance, PTL

\* No message is lost: whatever sends, acknowledgements, purges and queries of any
\* number of callers in any number of processes interleave, a message whose send()
\* returned is in the file, unless it is being rewritten, until a purge drops it.
THEOREM NoMessageLost == Spec => []MessagesKept
<1>1. MInv => MessagesKept
    BY MInvSafe
<1> QED
    BY <1>1, MailboxInvariance, PTL

\* No acknowledgement is lost: the mark that ackMany() has written stays in the
\* line as long as the line does, whoever rewrites the file afterwards.
THEOREM NoAckLost == Spec => []AcksKept
<1>1. MInv => AcksKept
    BY MInvSafe
<1> QED
    BY <1>1, MailboxInvariance, PTL

\* While the file has only been appended to, the copy of a process and the tails
\* that _readNewMessagesOnly() adds to it miss no message, however many queries of
\* the process overlap one another and its sends, until a full read or a stat that
\* found no file has set the copy back behind the tail of another query.
THEOREM QueriesComplete == Spec => []QueryComplete
<1>1. MInv => QueryComplete
    BY MInvSafe
<1> QED
    BY <1>1, MailboxInvariance, PTL
=============================================================================
