------------------------ MODULE SessionWriterProofs ------------------------
(***************************************************************************)
(* What holds of one session's log for any number of events, prompts,        *)
(* rewinds, clears, crashes and disk errors, and for any FLUSH_SIZE.         *)
(***************************************************************************)
EXTENDS SessionWriter, FiniteSetTheorems, TLAPS

Lines == Seq(Line)
Batches == Seq(Lines)

\* The events of a batch, and of each batch and the next, are in order.
InTurn(c) ==
    /\ \A i \in DOMAIN c : Rising(c[i])
    /\ \A i, j \in DOMAIN c : i < j => Before(Ids(c[i]), Ids(c[j]))

\* The lines f, then the batches c, the buffer b and the waiting appends w hold
\* events of the first n calls, in the order of the calls.
Ordered(f, c, b, w, n) ==
    /\ Rising(f) /\ InTurn(c) /\ Rising(b) /\ InTurn(w)
    /\ Before(Ids(f), IdsIn(c) \cup Ids(b) \cup IdsIn(w))
    /\ Before(IdsIn(c), Ids(b) \cup IdsIn(w))
    /\ Before(Ids(b), IdsIn(w))
    /\ Ids(f) \cup IdsIn(c) \cup Ids(b) \cup IdsIn(w) \subseteq 1..n

\* None of the events S of the first n calls is buffered, waits, or is in a
\* batch behind the first `left` ones of the chain.
Sent(S, left, c, b, w, n) ==
    /\ S \subseteq 1..n
    /\ S \cap (Ids(b) \cup IdsIn(w)) = {}
    /\ \A i \in DOMAIN c : i > left => S \cap Ids(c[i]) = {}

\* The types.
Shapes ==
    /\ called \in Nat /\ upsets \in 0..MaxUpsets
    /\ called <= MaxEvents + upsets
    /\ cutter.at # "idle" => upsets > 0 /\ called < MaxEvents + upsets
    /\ file \in Lines /\ buffer \in Lines /\ chain \in Batches
    /\ waiting \in Batches /\ \A i \in DOMAIN waiting : waiting[i] # <<>>
    /\ init \in {"none", "pending", "done"} /\ handle \in {"open", "closed"}
    /\ timer = (buffer # <<>>)

Callers ==
    /\ flusher \in [at : {"idle", "write"}, left : Nat, ids : SUBSET Nat]
    /\ closer \in [at : {"idle", "flush", "drain", "sidecar", "index", "closed"},
                   left : Nat, early : SUBSET Nat, counted : SUBSET Nat]
    /\ cutter \in [at : {"idle", "flush", "drain", "redrain", "copy", "rename"},
                   left : Nat, target : Nat, keep : Nat, stop : Nat, kept : Lines]
    /\ wiper \in [at : {"idle", "drain", "record"}, left : Nat]

\* The log, and the one a rewind is about to put in its place.
LogInv ==
    /\ Ordered(file, chain, buffer, waiting, called)
    /\ cutter.at = "rename" => Ordered(cutter.kept, chain, buffer, waiting, called)

\* flush() waits for its batch and all before it; close() for its buffer, then
\* for every batch of the chain it finds.
WaitInv ==
    /\ flusher.at = "write" => Sent(flusher.ids, flusher.left, chain, buffer, waiting, called)
    /\ closer.at = "flush" => Sent(closer.early, Len(chain), chain, buffer, waiting, called)
    /\ closer.at \in {"drain", "sidecar", "index", "closed"}
          => Sent(closer.early, closer.left, chain, buffer, waiting, called)
    /\ closer.at \in {"sidecar", "index", "closed"} => closer.left = 0

SInv == Shapes /\ Callers /\ LogInv /\ WaitInv

-----------------------------------------------------------------------------
(* Events among lines *)

LEMMA LineFacts ==
    \A l \in Line : /\ l.id \in Nat /\ l.id \in 0..MaxId
                    /\ l.k = "checkpoint" => l.id # 0 /\ l.p \in Nat
<1>1. ASSUME NEW l \in {Start, Torn, Partial}
      PROVE  l.id = 0 /\ l.k # "checkpoint"
    BY <1>1 DEF Start, Torn, Partial
<1>2. ASSUME NEW l \in EventLine
      PROVE  l.id \in 1..MaxId /\ l.p \in Nat
    <2>1. l.id \in 1..MaxId /\ l.p \in Prompts \cup {0}
        BY <1>2 DEF EventLine
    <2>2. Prompts \cup {0} \subseteq Nat
        BY SessionAssumption
    <2> QED
        BY <2>1, <2>2
<1>3. MaxId \in Nat
    BY SessionAssumption DEF MaxId
<1>4. 0 \in 0..MaxId /\ \A n \in 1..MaxId : n \in Nat /\ n \in 0..MaxId /\ n # 0
    BY <1>3
<1>5. \A l \in Line : l \in {Start, Torn, Partial} \/ l \in EventLine
    BY DEF Line
<1> SUFFICES ASSUME NEW l \in Line
             PROVE  /\ l.id \in Nat /\ l.id \in 0..MaxId
                    /\ l.k = "checkpoint" => l.id # 0 /\ l.p \in Nat
    OBVIOUS
<1>6. CASE l \in {Start, Torn, Partial}
    <2>1. l.id = 0 /\ l.k # "checkpoint"
        BY <1>1, <1>6
    <2> QED
        BY <1>4, <2>1
<1>7. CASE l \in EventLine
    <2>1. l.id \in 1..MaxId /\ l.p \in Nat
        BY <1>2, <1>7
    <2> QED
        BY <1>4, <2>1
<1> QED
    BY <1>5, <1>6, <1>7

LEMMA EmptyLog == <<>> \in Lines /\ Ids(<<>>) = {} /\ Rising(<<>>)
BY DEF Lines, Ids, Rising

LEMMA EmptyBatches == <<>> \in Batches /\ IdsIn(<<>>) = {}
BY DEF Batches, IdsIn

LEMMA IdsOfLines == ASSUME NEW s \in Lines PROVE Ids(s) \subseteq Nat \ {0}
BY LineFacts DEF Lines, Ids

LEMMA IdsInFacts ==
    ASSUME NEW c \in Batches
    PROVE  /\ IdsIn(c) \subseteq Nat \ {0}
           /\ \A i \in DOMAIN c : c[i] \in Lines /\ Ids(c[i]) \subseteq IdsIn(c)
BY IdsOfLines DEF Batches, IdsIn

\* A line that is no event.
LEMMA NoEvent ==
    ASSUME NEW l \in Line, l.id = 0
    PROVE  <<l>> \in Lines /\ Ids(<<l>>) = {} /\ Rising(<<l>>)
BY DEF Lines, Ids, Rising

LEMMA RecordLines == /\ Start \in Line /\ Torn \in Line /\ Partial \in Line
                     /\ Start.id = 0 /\ Torn.id = 0 /\ Partial.id = 0
BY SessionAssumption DEF Start, Torn, Partial, Line, MaxId

LEMMA ConcatLog ==
    ASSUME NEW s \in Lines, NEW t \in Lines
    PROVE  /\ s \o t \in Lines
           /\ Ids(s \o t) = Ids(s) \cup Ids(t)
           /\ Rising(s) /\ Rising(t) /\ Before(Ids(s), Ids(t)) => Rising(s \o t)
<1>1. s \o t \in Lines
    BY DEF Lines
<1>2. /\ DOMAIN s = 1..Len(s) /\ DOMAIN t = 1..Len(t) /\ Len(s) \in Nat /\ Len(t) \in Nat
      /\ DOMAIN (s \o t) = 1..(Len(s) + Len(t))
      /\ \A i \in 1..(Len(s) + Len(t)) :
            (s \o t)[i] = IF i <= Len(s) THEN s[i] ELSE t[i - Len(s)]
    BY DEF Lines
<1>3. Ids(s \o t) = Ids(s) \cup Ids(t)
    <2>1. Ids(s \o t) \subseteq Ids(s) \cup Ids(t)
        <3> SUFFICES ASSUME NEW i \in 1..(Len(s) + Len(t)), (s \o t)[i].id # 0
                     PROVE  (s \o t)[i].id \in Ids(s) \cup Ids(t)
            BY <1>2 DEF Ids
        <3>1. CASE i <= Len(s)
            BY <3>1, <1>2 DEF Ids
        <3>2. CASE i > Len(s)
            <4>1. i - Len(s) \in DOMAIN t /\ (s \o t)[i] = t[i - Len(s)]
                BY <3>2, <1>2
            <4> QED
                BY <4>1 DEF Ids
        <3> QED
            BY <3>1, <3>2, <1>2
    <2>2. \A i \in DOMAIN s : s[i] = (s \o t)[i] /\ i \in DOMAIN (s \o t)
        BY <1>2
    <2>3. \A i \in DOMAIN t : t[i] = (s \o t)[Len(s) + i] /\ Len(s) + i \in DOMAIN (s \o t)
        BY <1>2
    <2>4. Ids(s) \cup Ids(t) \subseteq Ids(s \o t)
        BY <2>2, <2>3 DEF Ids
    <2> QED
        BY <2>1, <2>4
<1>4. ASSUME Rising(s), Rising(t), Before(Ids(s), Ids(t)) PROVE Rising(s \o t)
    <2> SUFFICES ASSUME NEW i \in 1..(Len(s) + Len(t)), NEW j \in 1..(Len(s) + Len(t)), i < j,
                        (s \o t)[i].id # 0, (s \o t)[j].id # 0
                 PROVE  (s \o t)[i].id < (s \o t)[j].id
        BY <1>2 DEF Rising
    <2>1. CASE j <= Len(s)
        BY <2>1, <1>2, <1>4 DEF Rising
    <2>2. CASE i > Len(s)
        <3>1. /\ i - Len(s) \in DOMAIN t /\ (s \o t)[i] = t[i - Len(s)]
              /\ j - Len(s) \in DOMAIN t /\ (s \o t)[j] = t[j - Len(s)]
              /\ i - Len(s) < j - Len(s)
            BY <2>2, <1>2
        <3> QED
            BY <3>1, <1>4 DEF Rising
    <2>3. CASE i <= Len(s) /\ j > Len(s)
        <3>1. /\ i \in DOMAIN s /\ (s \o t)[i] = s[i]
              /\ j - Len(s) \in DOMAIN t /\ (s \o t)[j] = t[j - Len(s)]
            BY <2>3, <1>2
        <3>2. (s \o t)[i].id \in Ids(s) /\ (s \o t)[j].id \in Ids(t)
            BY <3>1 DEF Ids
        <3> QED
            BY <3>2, <1>4 DEF Before
    <2> QED
        BY <2>1, <2>2, <2>3, <1>2
<1> QED
    BY <1>1, <1>3, <1>4

LEMMA PartLog ==
    ASSUME NEW s \in Lines, NEW m \in 1..(Len(s) + 1), NEW n \in 0..Len(s)
    PROVE  /\ SubSeq(s, m, n) \in Lines
           /\ Ids(SubSeq(s, m, n)) \subseteq Ids(s)
           /\ Rising(s) => Rising(SubSeq(s, m, n))
<1> DEFINE t == SubSeq(s, m, n)
<1>1. t \in Lines
    BY DEF Lines
<1>2. \A i \in DOMAIN t : m + i - 1 \in DOMAIN s /\ t[i] = s[m + i - 1] /\ i \in Nat
    BY DEF Lines
<1> HIDE DEF t
<1>3. Ids(t) \subseteq Ids(s)
    BY <1>2 DEF Ids
<1>4. ASSUME Rising(s) PROVE Rising(t)
    <2> SUFFICES ASSUME NEW i \in DOMAIN t, NEW j \in DOMAIN t, i < j, t[i].id # 0, t[j].id # 0
                 PROVE  t[i].id < t[j].id
        BY DEF Rising
    <2>1. m + i - 1 < m + j - 1
        BY <1>2
    <2> QED
        BY <2>1, <1>2, <1>4 DEF Rising
<1> QED
    BY <1>1, <1>3, <1>4 DEF t

LEMMA TailLog ==
    ASSUME NEW s \in Lines, s # <<>>
    PROVE  /\ Tail(s) \in Lines /\ Ids(Tail(s)) \subseteq Ids(s)
           /\ Rising(s) => Rising(Tail(s))
<1>1. Tail(s) = SubSeq(s, 2, Len(s)) /\ Len(s) \in Nat /\ Len(s) >= 1
    BY DEF Lines
<1>2. 2 \in 1..(Len(s) + 1) /\ Len(s) \in 0..Len(s)
    BY <1>1
<1> QED
    BY <1>1, <1>2, PartLog

\* A write after an unfinished line loses at most its first line.
LEMMA GlueLog ==
    ASSUME NEW f \in Lines, NEW s \in Lines
    PROVE  /\ Glue(f, s) \in Lines
           /\ Ids(Glue(f, s)) \subseteq Ids(f) \cup Ids(s)
           /\ Rising(f) /\ Rising(s) /\ Before(Ids(f), Ids(s)) => Rising(Glue(f, s))
<1>1. CASE s # <<>> /\ f # <<>> /\ f[Len(f)] = Partial
    <2> DEFINE x == IF s[1] = Partial THEN Partial ELSE Torn
               front == SubSeq(f, 1, Len(f) - 1)
    <2>1. Glue(f, s) = (front \o <<x>>) \o Tail(s)
        BY <1>1 DEF Glue, Front
    <2>2. Len(f) \in Nat /\ Len(f) >= 1
        BY <1>1 DEF Lines
    <2>3. front \in Lines /\ Ids(front) \subseteq Ids(f) /\ (Rising(f) => Rising(front))
        BY <2>2, PartLog
    <2>4. <<x>> \in Lines /\ Ids(<<x>>) = {} /\ Rising(<<x>>)
        BY RecordLines, NoEvent
    <2>5. /\ Tail(s) \in Lines /\ Ids(Tail(s)) \subseteq Ids(s)
          /\ Rising(s) => Rising(Tail(s))
        BY <1>1, TailLog
    <2> HIDE DEF x, front
    <2>6. /\ front \o <<x>> \in Lines /\ Ids(front \o <<x>>) \subseteq Ids(f)
          /\ Rising(f) => Rising(front \o <<x>>)
        BY <2>3, <2>4, ConcatLog DEF Before
    <2>7. Before(Ids(f), Ids(s)) => Before(Ids(front \o <<x>>), Ids(Tail(s)))
        BY <2>5, <2>6 DEF Before
    <2>8. /\ (front \o <<x>>) \o Tail(s) \in Lines
          /\ Ids((front \o <<x>>) \o Tail(s)) = Ids(front \o <<x>>) \cup Ids(Tail(s))
          /\ Rising(front \o <<x>>) /\ Rising(Tail(s)) /\ Before(Ids(front \o <<x>>), Ids(Tail(s)))
                => Rising((front \o <<x>>) \o Tail(s))
        BY <2>5, <2>6, ConcatLog
    <2> QED
        BY <2>1, <2>5, <2>6, <2>7, <2>8
<1>2. CASE ~ (s # <<>> /\ f # <<>> /\ f[Len(f)] = Partial)
    BY <1>2, ConcatLog DEF Glue
<1> QED
    BY <1>1, <1>2

\* A write cut short.
LEMMA PartsLog ==
    ASSUME NEW s \in Lines, NEW t \in PartsOf(s)
    PROVE  /\ t \in Lines /\ Ids(t) \subseteq Ids(s)
           /\ Rising(s) => Rising(t)
<1>1. PICK n \in 0..(Len(s) - 1) : t \in {SubSeq(s, 1, n), SubSeq(s, 1, n) \o <<Partial>>}
    BY DEF PartsOf
<1>2. Len(s) \in Nat
    BY DEF Lines
<1>3. n \in 0..Len(s) /\ 1 \in 1..(Len(s) + 1)
    BY <1>1, <1>2
<1>4. /\ SubSeq(s, 1, n) \in Lines /\ Ids(SubSeq(s, 1, n)) \subseteq Ids(s)
      /\ Rising(s) => Rising(SubSeq(s, 1, n))
    BY <1>3, PartLog
<1>5. <<Partial>> \in Lines /\ Ids(<<Partial>>) = {} /\ Rising(<<Partial>>)
    BY RecordLines, NoEvent
<1>6. Before(Ids(SubSeq(s, 1, n)), Ids(<<Partial>>))
    BY <1>5 DEF Before
<1> QED
    BY <1>1, <1>4, <1>5, <1>6, ConcatLog

\* The malformed lines a rewind keeps are no events.
LEMMA MalformedLog ==
    ASSUME NEW s \in Lines
    PROVE  Malformed(s) \in Lines /\ Ids(Malformed(s)) = {} /\ Rising(Malformed(s))
<1> DEFINE bad == {j \in DOMAIN s : s[j] \in {Torn, Partial}}
<1>1. Cardinality(bad) \in Nat
    <2>1. IsFiniteSet(1..Len(s))
        BY FS_Interval DEF Lines
    <2>2. bad \subseteq 1..Len(s)
        BY DEF Lines
    <2> QED
        BY <2>1, <2>2, FS_Subset, FS_CardinalityType
<1> HIDE DEF bad
<1>2. Malformed(s) = [i \in 1..Cardinality(bad) |-> Torn]
    BY DEF Malformed, bad
<1>3. Malformed(s) \in Lines
    BY <1>1, <1>2, RecordLines DEF Lines
<1> QED
    BY <1>2, <1>3, RecordLines DEF Ids, Rising

\* What Copy keeps of the file.
LEMMA KeptLog ==
    ASSUME NEW f \in Lines, NEW n \in 0..Len(f)
    PROVE  LET kept == SubSeq(f, 1, n) \o Malformed(SubSeq(f, n + 1, Len(f)))
           IN  /\ kept \in Lines /\ Ids(kept) \subseteq Ids(f)
               /\ Rising(f) => Rising(kept)
<1> DEFINE s == SubSeq(f, 1, n)
           t == SubSeq(f, n + 1, Len(f))
<1>1. Len(f) \in Nat
    BY DEF Lines
<1>2. 1 \in 1..(Len(f) + 1) /\ n + 1 \in 1..(Len(f) + 1) /\ Len(f) \in 0..Len(f)
    BY <1>1
<1>3. s \in Lines /\ Ids(s) \subseteq Ids(f) /\ (Rising(f) => Rising(s))
    BY <1>2, PartLog
<1>4. t \in Lines
    BY <1>2, PartLog
<1> HIDE DEF s, t
<1>5. Malformed(t) \in Lines /\ Ids(Malformed(t)) = {} /\ Rising(Malformed(t))
    BY <1>4, MalformedLog
<1>6. Before(Ids(s), Ids(Malformed(t)))
    BY <1>5 DEF Before
<1>7. /\ s \o Malformed(t) \in Lines /\ Ids(s \o Malformed(t)) \subseteq Ids(f)
      /\ Rising(f) => Rising(s \o Malformed(t))
    BY <1>3, <1>5, <1>6, ConcatLog
<1> QED
    BY <1>7 DEF s, t

\* What the start record leaves of a file it is written over.
LEMMA OverLog ==
    ASSUME NEW f \in Lines, f # <<>>
    PROVE  /\ Over(f[1]) \o Tail(f) \in Lines
           /\ Ids(Over(f[1]) \o Tail(f)) \subseteq Ids(f)
           /\ Rising(f) => Rising(Over(f[1]) \o Tail(f))
<1> DEFINE x == IF f[1] = Partial THEN Partial ELSE Torn
<1>1. /\ <<Start>> \in Lines /\ Ids(<<Start>>) = {} /\ Rising(<<Start>>)
    BY RecordLines, NoEvent
<1>2. /\ <<x>> \in Lines /\ Ids(<<x>>) = {} /\ Rising(<<x>>)
    BY RecordLines, NoEvent
<1> HIDE DEF x
<1>3. <<Start, x>> = <<Start>> \o <<x>>
    OBVIOUS
<1>4. /\ <<Start, x>> \in Lines /\ Ids(<<Start, x>>) = {} /\ Rising(<<Start, x>>)
    <2>1. Before({}, {})
        BY DEF Before
    <2>2. /\ <<Start>> \o <<x>> \in Lines /\ Ids(<<Start>> \o <<x>>) = {}
          /\ Rising(<<Start>> \o <<x>>)
        BY <1>1, <1>2, <2>1, ConcatLog
    <2> QED
        BY <1>3, <2>2
<1>5. /\ Over(f[1]) \in Lines /\ Ids(Over(f[1])) = {} /\ Rising(Over(f[1]))
    BY <1>1, <1>4 DEF Over, x
<1>6. /\ Tail(f) \in Lines /\ Ids(Tail(f)) \subseteq Ids(f) /\ (Rising(f) => Rising(Tail(f)))
    BY TailLog
<1>7. Before(Ids(Over(f[1])), Ids(Tail(f)))
    BY <1>5 DEF Before
<1> QED
    BY <1>5, <1>6, <1>7, ConcatLog

-----------------------------------------------------------------------------
(* Batches *)

LEMMA AppendBatches ==
    ASSUME NEW c \in Batches, NEW s \in Lines
    PROVE  /\ Append(c, s) \in Batches
           /\ IdsIn(Append(c, s)) = IdsIn(c) \cup Ids(s)
           /\ InTurn(c) /\ Rising(s) /\ Before(IdsIn(c), Ids(s)) => InTurn(Append(c, s))
<1> DEFINE d == Append(c, s)
<1>1. d \in Batches
    BY DEF Batches
<1>2. /\ Len(c) \in Nat /\ DOMAIN c = 1..Len(c) /\ DOMAIN d = 1..(Len(c) + 1)
      /\ \A i \in DOMAIN c : d[i] = c[i]
      /\ d[Len(c) + 1] = s
    BY DEF Batches
<1> HIDE DEF d
<1>3. \A i \in DOMAIN d : i \in DOMAIN c \/ i = Len(c) + 1
    BY <1>2
<1>4. IdsIn(d) = IdsIn(c) \cup Ids(s)
    <2>1. DOMAIN c \subseteq DOMAIN d /\ Len(c) + 1 \in DOMAIN d
        BY <1>2
    <2> QED
        BY <2>1, <1>2, <1>3 DEF IdsIn
<1>5. ASSUME InTurn(c), Rising(s), Before(IdsIn(c), Ids(s)) PROVE InTurn(d)
    <2>1. \A i \in DOMAIN d : Rising(d[i])
        BY <1>2, <1>3, <1>5 DEF InTurn
    <2>2. ASSUME NEW i \in DOMAIN d, NEW j \in DOMAIN d, i < j
          PROVE  Before(Ids(d[i]), Ids(d[j]))
        <3>1. i \in DOMAIN c
            BY <2>2, <1>2
        <3>2. CASE j \in DOMAIN c
            BY <2>2, <3>1, <3>2, <1>2, <1>5 DEF InTurn
        <3>3. CASE j = Len(c) + 1
            <4>1. Ids(d[i]) \subseteq IdsIn(c)
                BY <3>1, <1>2 DEF IdsIn
            <4> QED
                BY <4>1, <3>3, <1>2, <1>5 DEF Before
        <3> QED
            BY <3>2, <3>3, <1>3
    <2> QED
        BY <2>1, <2>2 DEF InTurn
<1> QED
    BY <1>1, <1>4, <1>5 DEF d

LEMMA TailBatches ==
    ASSUME NEW c \in Batches, c # <<>>
    PROVE  /\ Head(c) \in Lines /\ Tail(c) \in Batches
           /\ 1 \in DOMAIN c /\ Head(c) = c[1]
           /\ \A i \in DOMAIN Tail(c) : i \in Nat /\ i + 1 \in DOMAIN c /\ Tail(c)[i] = c[i + 1]
           /\ IdsIn(c) = Ids(Head(c)) \cup IdsIn(Tail(c))
           /\ InTurn(c) => /\ Rising(Head(c)) /\ InTurn(Tail(c))
                           /\ Before(Ids(Head(c)), IdsIn(Tail(c)))
<1> DEFINE d == Tail(c)
           s == Head(c)
<1>1. d \in Batches /\ s \in Lines
    BY DEF Batches
<1>2. /\ Len(c) \in Nat /\ Len(c) >= 1 /\ DOMAIN c = 1..Len(c) /\ DOMAIN d = 1..(Len(c) - 1)
      /\ \A i \in DOMAIN d : d[i] = c[i + 1]
      /\ s = c[1]
    BY DEF Batches
<1> HIDE DEF d, s
<1>3. /\ 1 \in DOMAIN c
      /\ \A i \in DOMAIN d : i \in Nat /\ i + 1 \in DOMAIN c /\ 1 < i + 1
      /\ \A i \in DOMAIN c : i = 1 \/ (i - 1 \in DOMAIN d /\ c[i] = d[i - 1])
    <2>1. ASSUME NEW i \in DOMAIN c, i # 1 PROVE i - 1 \in DOMAIN d /\ c[i] = d[i - 1]
        <3>1. i - 1 \in DOMAIN d /\ (i - 1) + 1 = i
            BY <2>1, <1>2
        <3> QED
            BY <3>1, <1>2
    <2>2. 1 \in DOMAIN c /\ \A i \in DOMAIN d : i \in Nat /\ i + 1 \in DOMAIN c /\ 1 < i + 1
        BY <1>2
    <2> QED
        BY <2>1, <2>2
<1>4. IdsIn(c) = Ids(s) \cup IdsIn(d)
    BY <1>2, <1>3 DEF IdsIn
<1>5. ASSUME InTurn(c) PROVE Rising(s) /\ InTurn(d) /\ Before(Ids(s), IdsIn(d))
    <2>1. Rising(s)
        BY <1>2, <1>3, <1>5 DEF InTurn
    <2>2. \A i \in DOMAIN d : Rising(d[i]) /\ Before(Ids(s), Ids(d[i]))
        BY <1>2, <1>3, <1>5 DEF InTurn
    <2>3. ASSUME NEW i \in DOMAIN d, NEW j \in DOMAIN d, i < j
          PROVE  Before(Ids(d[i]), Ids(d[j]))
        <3>1. i + 1 < j + 1
            BY <2>3, <1>3
        <3> QED
            BY <3>1, <1>2, <1>3, <1>5 DEF InTurn
    <2>4. Before(Ids(s), IdsIn(d))
        BY <2>2 DEF IdsIn, Before
    <2> QED
        BY <2>1, <2>2, <2>3, <2>4 DEF InTurn
<1> QED
    BY <1>1, <1>2, <1>3, <1>4, <1>5 DEF d, s

LEMMA NoBatches == InTurn(<<>>)
BY DEF InTurn

-----------------------------------------------------------------------------
(* What the writer's moves do to the order and to who waits *)

\* flushBuffer(): the buffer goes to the end of the chain.
LEMMA OrderedSend ==
    ASSUME NEW f \in Lines, NEW c \in Batches, NEW b \in Lines, NEW w \in Batches, NEW n \in Nat,
           Ordered(f, c, b, w, n)
    PROVE  Ordered(f, Append(c, b), <<>>, w, n)
<1>1. Before(IdsIn(c), Ids(b))
    BY DEF Ordered, Before
<1>2. InTurn(Append(c, b)) /\ IdsIn(Append(c, b)) = IdsIn(c) \cup Ids(b)
    BY <1>1, AppendBatches DEF Ordered
<1>3. Before(IdsIn(c) \cup Ids(b), IdsIn(w))
    BY DEF Ordered, Before
<1>4. Before(Ids(f), IdsIn(c) \cup Ids(b) \cup IdsIn(w)) /\ Before({}, IdsIn(w))
    BY DEF Ordered, Before
<1> QED
    BY <1>2, <1>3, <1>4, EmptyLog DEF Ordered

\* append() after its wait: the oldest waiting batch goes to the buffer.
LEMMA OrderedPush ==
    ASSUME NEW f \in Lines, NEW c \in Batches, NEW b \in Lines, NEW w \in Batches, NEW n \in Nat,
           Ordered(f, c, b, w, n), w # <<>>
    PROVE  Ordered(f, c, b \o Head(w), Tail(w), n)
<1> DEFINE h == Head(w)
           t == Tail(w)
<1>1. /\ h \in Lines /\ t \in Batches /\ IdsIn(w) = Ids(h) \cup IdsIn(t)
      /\ Rising(h) /\ InTurn(t) /\ Before(Ids(h), IdsIn(t))
    BY TailBatches DEF Ordered
<1> HIDE DEF h, t
<1>2. Before(Ids(b), Ids(h))
    BY <1>1 DEF Ordered, Before
<1>3. Rising(b \o h) /\ Ids(b \o h) = Ids(b) \cup Ids(h)
    BY <1>1, <1>2, ConcatLog DEF Ordered
<1>4. Before(Ids(b) \cup Ids(h), IdsIn(t))
    BY <1>1 DEF Ordered, Before
<1>5. Ordered(f, c, b \o h, t, n)
    BY <1>1, <1>3, <1>4 DEF Ordered, Before
<1> QED
    BY <1>5 DEF h, t

\* A call of append(): its events are new, its batch is the last to wait.
LEMMA OrderedEnter ==
    ASSUME NEW f \in Lines, NEW c \in Batches, NEW b \in Lines, NEW w \in Batches, NEW n \in Nat,
           Ordered(f, c, b, w, n),
           NEW s \in Lines, NEW m \in Nat, n <= m, Rising(s), Ids(s) \subseteq (n + 1)..m
    PROVE  Ordered(f, c, b, Append(w, s), m)
<1>1. \A S \in SUBSET (1..n) : Before(S, Ids(s))
    BY DEF Before
<1>2. /\ Ids(f) \in SUBSET (1..n) /\ IdsIn(c) \in SUBSET (1..n)
      /\ Ids(b) \in SUBSET (1..n) /\ IdsIn(w) \in SUBSET (1..n)
    BY DEF Ordered
<1>3. /\ Before(Ids(f), Ids(s)) /\ Before(IdsIn(c), Ids(s))
      /\ Before(Ids(b), Ids(s)) /\ Before(IdsIn(w), Ids(s))
    BY <1>1, <1>2
<1>4. InTurn(Append(w, s)) /\ IdsIn(Append(w, s)) = IdsIn(w) \cup Ids(s)
    BY <1>3, AppendBatches DEF Ordered
<1>5. 1..n \subseteq 1..m /\ (n + 1)..m \subseteq 1..m
    OBVIOUS
<1>6. Ids(f) \cup IdsIn(c) \cup Ids(b) \cup (IdsIn(w) \cup Ids(s)) \subseteq 1..m
    BY <1>2, <1>5
<1>7. /\ Before(Ids(f), IdsIn(c) \cup Ids(b) \cup (IdsIn(w) \cup Ids(s)))
      /\ Before(IdsIn(c), Ids(b) \cup (IdsIn(w) \cup Ids(s)))
      /\ Before(Ids(b), IdsIn(w) \cup Ids(s))
    BY <1>3 DEF Ordered, Before
<1> QED
    BY <1>4, <1>6, <1>7 DEF Ordered

\* The start record is sent.
LEMMA OrderedRecord ==
    ASSUME NEW f \in Lines, NEW c \in Batches, NEW b \in Lines, NEW w \in Batches, NEW n \in Nat,
           Ordered(f, c, b, w, n)
    PROVE  Ordered(f, Append(c, <<Start>>), b, w, n)
<1>1. <<Start>> \in Lines /\ Ids(<<Start>>) = {} /\ Rising(<<Start>>)
    BY RecordLines, NoEvent
<1>2. Before(IdsIn(c), {})
    BY DEF Before
<1>3. InTurn(Append(c, <<Start>>)) /\ IdsIn(Append(c, <<Start>>)) = IdsIn(c)
    BY <1>1, <1>2, AppendBatches DEF Ordered
<1> QED
    BY <1>3 DEF Ordered

\* The oldest batch leaves the chain, and any of its events may reach the lines.
LEMMA OrderedSettle ==
    ASSUME NEW f \in Lines, NEW c \in Batches, NEW b \in Lines, NEW w \in Batches, NEW n \in Nat,
           Ordered(f, c, b, w, n), c # <<>>,
           NEW g \in Lines, Rising(g), Ids(g) \subseteq Ids(f) \cup Ids(Head(c))
    PROVE  Ordered(g, Tail(c), b, w, n)
<1> DEFINE h == Head(c)
           t == Tail(c)
<1>1. /\ h \in Lines /\ t \in Batches /\ IdsIn(c) = Ids(h) \cup IdsIn(t)
      /\ Rising(h) /\ InTurn(t) /\ Before(Ids(h), IdsIn(t))
    BY TailBatches DEF Ordered
<1>2. Ids(g) \subseteq Ids(f) \cup Ids(h)
    OBVIOUS
<1> HIDE DEF h, t
<1>3. Before(Ids(f) \cup Ids(h), IdsIn(t) \cup Ids(b) \cup IdsIn(w))
    BY <1>1 DEF Ordered, Before
<1>4. Before(Ids(g), IdsIn(t) \cup Ids(b) \cup IdsIn(w))
    BY <1>2, <1>3 DEF Before
<1>5. Before(IdsIn(t), Ids(b) \cup IdsIn(w))
    BY <1>1 DEF Ordered, Before
<1>6. Ids(g) \cup IdsIn(t) \cup Ids(b) \cup IdsIn(w) \subseteq 1..n
    BY <1>1, <1>2 DEF Ordered
<1>7. Ordered(g, t, b, w, n)
    BY <1>1, <1>4, <1>5, <1>6 DEF Ordered
<1> QED
    BY <1>7 DEF t

\* Events are dropped: from the lines, from the buffer, or all that is in memory.
LEMMA OrderedDrop ==
    ASSUME NEW f \in Lines, NEW c \in Batches, NEW b \in Lines, NEW w \in Batches, NEW n \in Nat,
           Ordered(f, c, b, w, n),
           NEW g \in Lines, Rising(g), Ids(g) \subseteq Ids(f)
    PROVE  Ordered(g, c, b, w, n) /\ Ordered(g, c, <<>>, w, n)
BY EmptyLog DEF Ordered, Before

LEMMA OrderedCrash ==
    ASSUME NEW f \in Lines, NEW c \in Batches, NEW b \in Lines, NEW w \in Batches, NEW n \in Nat,
           Ordered(f, c, b, w, n),
           NEW g \in Lines, Rising(g), Ids(g) \subseteq Ids(f) \cup IdsIn(c)
    PROVE  Ordered(g, <<>>, <<>>, <<>>, n)
BY EmptyLog, EmptyBatches, NoBatches DEF Ordered, Before

LEMMA SentSend ==
    ASSUME NEW c \in Batches, NEW b \in Lines, NEW w \in Batches, NEW n \in Nat,
           NEW S, NEW left \in Nat, Sent(S, left, c, b, w, n)
    PROVE  Sent(S, left, Append(c, b), <<>>, w, n)
<1>1. /\ Len(c) \in Nat /\ DOMAIN c = 1..Len(c) /\ DOMAIN Append(c, b) = 1..(Len(c) + 1)
      /\ \A i \in DOMAIN c : Append(c, b)[i] = c[i]
      /\ Append(c, b)[Len(c) + 1] = b
    BY DEF Batches
<1>2. \A i \in DOMAIN Append(c, b) : i \in DOMAIN c \/ i = Len(c) + 1
    BY <1>1
<1> QED
    BY <1>1, <1>2, EmptyLog DEF Sent

LEMMA SentPush ==
    ASSUME NEW c \in Batches, NEW b \in Lines, NEW w \in Batches, NEW n \in Nat,
           NEW S, NEW left \in Nat, Sent(S, left, c, b, w, n), w # <<>>
    PROVE  Sent(S, left, c, b \o Head(w), Tail(w), n)
<1>1. Head(w) \in Lines /\ IdsIn(w) = Ids(Head(w)) \cup IdsIn(Tail(w))
    BY TailBatches
<1>2. Ids(b \o Head(w)) = Ids(b) \cup Ids(Head(w))
    BY <1>1, ConcatLog
<1> QED
    BY <1>1, <1>2 DEF Sent

LEMMA SentEnter ==
    ASSUME NEW c \in Batches, NEW b \in Lines, NEW w \in Batches, NEW n \in Nat,
           NEW S, NEW left \in Nat, Sent(S, left, c, b, w, n),
           NEW s \in Lines, NEW m \in Nat, n <= m, Ids(s) \subseteq (n + 1)..m
    PROVE  Sent(S, left, c, b, Append(w, s), m)
<1>1. IdsIn(Append(w, s)) = IdsIn(w) \cup Ids(s)
    BY AppendBatches
<1>2. 1..n \cap (n + 1)..m = {} /\ 1..n \subseteq 1..m
    OBVIOUS
<1> QED
    BY <1>1, <1>2 DEF Sent

LEMMA SentRecord ==
    ASSUME NEW c \in Batches, NEW b \in Lines, NEW w \in Batches, NEW n \in Nat,
           NEW S, NEW left \in Nat, Sent(S, left, c, b, w, n)
    PROVE  Sent(S, left, Append(c, <<Start>>), b, w, n)
<1>1. <<Start>> \in Lines /\ Ids(<<Start>>) = {}
    BY RecordLines, NoEvent
<1>2. /\ Len(c) \in Nat /\ DOMAIN c = 1..Len(c)
      /\ DOMAIN Append(c, <<Start>>) = 1..(Len(c) + 1)
      /\ \A i \in DOMAIN c : Append(c, <<Start>>)[i] = c[i]
      /\ Append(c, <<Start>>)[Len(c) + 1] = <<Start>>
    BY <1>1 DEF Batches
<1>3. \A i \in DOMAIN Append(c, <<Start>>) : i \in DOMAIN c \/ i = Len(c) + 1
    BY <1>2
<1> QED
    BY <1>1, <1>2, <1>3 DEF Sent

\* Who waits for `left` batches waits for one less when one settles.
LEMMA SentSettle ==
    ASSUME NEW c \in Batches, NEW b \in Lines, NEW w \in Batches, NEW n \in Nat,
           NEW S, NEW left \in Nat, Sent(S, left, c, b, w, n), c # <<>>
    PROVE  Sent(S, IF left > 0 THEN left - 1 ELSE 0, Tail(c), b, w, n)
<1>1. \A i \in DOMAIN Tail(c) : i \in Nat /\ i + 1 \in DOMAIN c /\ Tail(c)[i] = c[i + 1]
    BY TailBatches
<1>2. ASSUME NEW i \in DOMAIN Tail(c), i > (IF left > 0 THEN left - 1 ELSE 0)
      PROVE  S \cap Ids(Tail(c)[i]) = {}
    <2>1. i + 1 > left
        BY <1>1, <1>2
    <2> QED
        BY <2>1, <1>1 DEF Sent
<1> QED
    BY <1>2 DEF Sent

LEMMA SentDrop ==
    ASSUME NEW c \in Batches, NEW b \in Lines, NEW w \in Batches, NEW n \in Nat,
           NEW S, NEW left \in Nat, Sent(S, left, c, b, w, n)
    PROVE  Sent(S, left, c, <<>>, w, n)
BY EmptyLog DEF Sent

\* Waiting for the whole chain, or for nothing that holds an event of S.
LEMMA SentAll ==
    ASSUME NEW c \in Batches, NEW b \in Lines, NEW w \in Batches, NEW n \in Nat,
           NEW S \in SUBSET (1..n), S \cap (Ids(b) \cup IdsIn(w)) = {}
    PROVE  Sent(S, Len(c), c, b, w, n)
<1>1. \A i \in DOMAIN c : ~ (i > Len(c))
    BY DEF Batches
<1> QED
    BY <1>1 DEF Sent

LEMMA SentDone ==
    ASSUME NEW c \in Batches, NEW b \in Lines, NEW w \in Batches, NEW n \in Nat,
           NEW S, Sent(S, 0, c, b, w, n)
    PROVE  S \cap (IdsIn(w) \cup Ids(b) \cup IdsIn(c)) = {}
<1>1. \A i \in DOMAIN c : i > 0
    BY DEF Batches
<1> QED
    BY <1>1 DEF Sent, IdsIn

LEMMA SentWhole ==
    ASSUME NEW c \in Batches, NEW b \in Lines, NEW w \in Batches, NEW n \in Nat,
           NEW S, NEW left, Sent(S, left, c, b, w, n)
    PROVE  Sent(S, Len(c), c, b, w, n)
BY SentAll DEF Sent

\* The memory has moved on, and the calls under way, as they were, wait for the
\* right batches still.
Moved ==
    /\ chain' \in Batches /\ buffer' \in Lines
    /\ waiting' \in Batches /\ \A i \in DOMAIN waiting' : waiting'[i] # <<>>
    /\ timer' = (buffer' # <<>>)
    /\ Ordered(file, chain', buffer', waiting', called')
    /\ cutter.at = "rename" => Ordered(cutter.kept, chain', buffer', waiting', called')
    /\ flusher.at = "write" => Sent(flusher.ids, flusher.left, chain', buffer', waiting', called')
    /\ closer.at = "flush" => Sent(closer.early, Len(chain'), chain', buffer', waiting', called')
    /\ closer.at \in {"drain", "sidecar", "index", "closed"}
          => Sent(closer.early, closer.left, chain', buffer', waiting', called')

LEMMA CallTypes ==
    ASSUME SInv
    PROVE  /\ flusher.left \in Nat /\ closer.left \in Nat /\ Len(chain) \in Nat
           /\ cutter.kept \in Lines
BY DEF SInv, Shapes, Callers, Batches

LEMMA StayMoves ==
    ASSUME SInv, called' = called, UNCHANGED memory
    PROVE  Moved
BY DEF SInv, Shapes, LogInv, WaitInv, Moved, memory

LEMMA FlushMoves ==
    ASSUME SInv, FlushBuffer, called' = called, waiting' = waiting
    PROVE  Moved
<1> USE DEF SInv, Shapes, LogInv, WaitInv
<1>1. CASE buffer = <<>>
    BY <1>1 DEF FlushBuffer, Moved
<1>2. CASE buffer # <<>>
    <2>1. chain' = Append(chain, buffer) /\ buffer' = <<>> /\ timer' = FALSE
        BY <1>2 DEF FlushBuffer
    <2>2. chain' \in Batches /\ buffer' \in Lines /\ timer' = (buffer' # <<>>)
        BY <2>1, AppendBatches, EmptyLog
    <2>3. Ordered(file, chain', buffer', waiting', called')
        BY <2>1, OrderedSend
    <2>4. cutter.at = "rename" => Ordered(cutter.kept, chain', buffer', waiting', called')
        BY <2>1, OrderedSend, CallTypes
    <2>5. \A S : \A left \in Nat : Sent(S, left, chain, buffer, waiting, called)
                           => Sent(S, left, chain', buffer', waiting', called')
        BY <2>1, SentSend
    <2>6. \A S, left : Sent(S, left, chain', buffer', waiting', called')
                           => Sent(S, Len(chain'), chain', buffer', waiting', called')
        BY <2>2, SentWhole
    <2> QED
        BY <2>2, <2>3, <2>4, <2>5, <2>6, CallTypes DEF Moved
<1> QED
    BY <1>1, <1>2

LEMMA PushMoves ==
    ASSUME SInv, Push
    PROVE  Moved
<1> USE DEF SInv, Shapes, LogInv, WaitInv
<1> DEFINE full == buffer \o Head(waiting)
           rest == Tail(waiting)
<1>1. waiting # <<>> /\ waiting' = rest /\ called' = called
    BY DEF Push
<1>2. /\ Head(waiting) \in Lines /\ rest \in Batches /\ Head(waiting) # <<>>
      /\ \A i \in DOMAIN rest : rest[i] # <<>>
    BY <1>1, TailBatches
<1>3. full \in Lines /\ full # <<>>
    <2>1. Len(full) = Len(buffer) + Len(Head(waiting)) /\ Len(buffer) >= 0 /\ Len(Head(waiting)) > 0
        BY <1>2 DEF Lines
    <2>2. Len(full) # 0
        BY <2>1, <1>2 DEF Lines
    <2> QED
        BY <1>2, <2>2, ConcatLog
<1>4. Ordered(file, chain, full, rest, called)
    BY <1>1, OrderedPush
<1>5. cutter.at = "rename" => Ordered(cutter.kept, chain, full, rest, called)
    BY <1>1, OrderedPush, CallTypes
<1>6. \A S : \A left \in Nat : Sent(S, left, chain, buffer, waiting, called)
                                => Sent(S, left, chain, full, rest, called)
    BY <1>1, SentPush
<1>7. \/ chain' = Append(chain, full) /\ buffer' = <<>> /\ timer' = FALSE
      \/ chain' = chain /\ buffer' = full /\ timer' = TRUE
    BY DEF Push
<1> HIDE DEF full, rest
<1>8. CASE chain' = chain /\ buffer' = full /\ timer' = TRUE
    BY <1>1, <1>2, <1>3, <1>4, <1>5, <1>6, <1>8, CallTypes DEF Moved
<1>9. CASE chain' = Append(chain, full) /\ buffer' = <<>> /\ timer' = FALSE
    <2>1. chain' \in Batches /\ buffer' \in Lines /\ timer' = (buffer' # <<>>)
        BY <1>3, <1>9, AppendBatches, EmptyLog
    <2>2. Ordered(file, chain', buffer', rest, called)
        BY <1>2, <1>3, <1>4, <1>9, OrderedSend
    <2>3. cutter.at = "rename" => Ordered(cutter.kept, chain', buffer', rest, called)
        BY <1>2, <1>3, <1>5, <1>9, OrderedSend, CallTypes
    <2>4. \A S : \A left \in Nat : Sent(S, left, chain, full, rest, called)
                           => Sent(S, left, chain', buffer', rest, called)
        BY <1>2, <1>3, <1>9, SentSend
    <2>5. \A S, left : Sent(S, left, chain', buffer', rest, called)
                           => Sent(S, Len(chain'), chain', buffer', rest, called)
        BY <1>2, <2>1, SentWhole
    <2> QED
        BY <1>1, <1>2, <1>6, <2>1, <2>2, <2>3, <2>4, <2>5, CallTypes DEF Moved
<1> QED
    BY <1>7, <1>8, <1>9

LEMMA ClearMoves ==
    ASSUME SInv, timer' = FALSE, buffer' = <<>>, chain' = chain, waiting' = waiting, called' = called
    PROVE  Moved
<1> USE DEF SInv, Shapes, LogInv, WaitInv
<1>1. Ordered(file, chain, <<>>, waiting, called)
    <2>1. Rising(file)
        BY DEF Ordered
    <2> QED
        BY <2>1, OrderedDrop
<1>2. cutter.at = "rename" => Ordered(cutter.kept, chain, <<>>, waiting, called)
    <2>1. cutter.at = "rename" => Rising(cutter.kept)
        BY DEF Ordered
    <2> QED
        BY <2>1, CallTypes, OrderedDrop
<1>3. \A S : \A left \in Nat : Sent(S, left, chain, buffer, waiting, called)
                                => Sent(S, left, chain, <<>>, waiting, called)
    BY SentDrop
<1> QED
    BY <1>1, <1>2, <1>3, CallTypes, EmptyLog DEF Moved

LEMMA EnterMoves ==
    ASSUME SInv, NEW s \in Lines, s # <<>>, Rising(s), Ids(s) \subseteq (called + 1)..(called + Len(s)),
           Enter(s), UNCHANGED <<buffer, timer>>
    PROVE  Moved /\ called' = called + Len(s) /\ init' \in {"none", "pending", "done"}
<1> USE DEF SInv, Shapes, LogInv, WaitInv
<1> DEFINE all == Append(waiting, s)
<1>1. /\ waiting' = all /\ called' = called + Len(s) /\ buffer' = buffer /\ timer' = timer
      /\ init' \in {"none", "pending", "done"}
      /\ chain' = chain \/ chain' = Append(chain, <<Start>>)
    BY DEF Enter
<1>2. called' \in Nat /\ called <= called'
    BY <1>1 DEF Lines
<1>3. all \in Batches /\ \A i \in DOMAIN all : all[i] # <<>>
    <2>1. all \in Batches
        BY AppendBatches
    <2>2. \A i \in DOMAIN all : all[i] = s \/ (i \in DOMAIN waiting /\ all[i] = waiting[i])
        BY DEF Batches
    <2> QED
        BY <2>1, <2>2
<1>4. Ordered(file, chain, buffer, all, called')
    BY <1>1, <1>2, OrderedEnter
<1>5. cutter.at = "rename" => Ordered(cutter.kept, chain, buffer, all, called')
    BY <1>1, <1>2, OrderedEnter, CallTypes
<1>6. \A S : \A left \in Nat : Sent(S, left, chain, buffer, waiting, called)
                                => Sent(S, left, chain, buffer, all, called')
    BY <1>1, <1>2, SentEnter
<1> HIDE DEF all
<1>7. CASE chain' = chain
    BY <1>1, <1>2, <1>3, <1>4, <1>5, <1>6, <1>7, CallTypes DEF Moved
<1>8. CASE chain' = Append(chain, <<Start>>)
    <2>1. chain' \in Batches
        BY <1>8, AppendBatches, RecordLines, NoEvent
    <2>2. Ordered(file, chain', buffer, all, called')
        BY <1>2, <1>3, <1>4, <1>8, OrderedRecord
    <2>3. cutter.at = "rename" => Ordered(cutter.kept, chain', buffer, all, called')
        BY <1>2, <1>3, <1>5, <1>8, OrderedRecord, CallTypes
    <2>4. \A S : \A left \in Nat : Sent(S, left, chain, buffer, all, called')
                           => Sent(S, left, chain', buffer, all, called')
        BY <1>2, <1>3, <1>8, SentRecord
    <2>5. \A S, left : Sent(S, left, chain', buffer, all, called')
                           => Sent(S, Len(chain'), chain', buffer, all, called')
        BY <1>2, <1>3, <2>1, SentWhole
    <2> QED
        BY <1>1, <1>2, <1>3, <1>6, <2>1, <2>2, <2>3, <2>4, <2>5, CallTypes DEF Moved
<1> QED
    BY <1>1, <1>7, <1>8

\* The batches append() and appendBatch() are called with.
LEMMA OneEvent ==
    ASSUME NEW n \in Nat, n < MaxId, NEW k \in {"plain", "checkpoint", "rewound"},
           NEW p \in Prompts \cup {0}
    PROVE  LET s == <<Event(n + 1, k, p)>>
           IN  /\ s \in Lines /\ s # <<>> /\ Len(s) = 1
               /\ Rising(s) /\ Ids(s) \subseteq (n + 1)..(n + Len(s))
<1>1. Event(n + 1, k, p) \in Line /\ Event(n + 1, k, p).id = n + 1
    BY SessionAssumption DEF Line, EventLine, MaxId, Event
<1> QED
    BY <1>1 DEF Lines, Rising, Ids

LEMMA SomeEvents ==
    ASSUME NEW n \in Nat, NEW m \in Nat, m > 0, n + m <= MaxId
    PROVE  LET s == [i \in 1..m |-> Event(n + i, "plain", 0)]
           IN  /\ s \in Lines /\ s # <<>> /\ Len(s) = m
               /\ Rising(s) /\ Ids(s) \subseteq (n + 1)..(n + Len(s))
<1> DEFINE s == [i \in 1..m |-> Event(n + i, "plain", 0)]
<1>1. \A i \in 1..m : Event(n + i, "plain", 0) \in Line /\ s[i].id = n + i
    BY SessionAssumption DEF Line, EventLine, MaxId, Event
<1>2. DOMAIN s = 1..m /\ Len(s) = m
    OBVIOUS
<1>3. s \in Lines /\ s # <<>>
    <2>1. s \in [1..m -> Line]
        BY <1>1
    <2> HIDE DEF s
    <2> QED
        BY <2>1, <1>2 DEF Lines
<1> HIDE DEF s
<1>4. Rising(s) /\ Ids(s) \subseteq (n + 1)..(n + Len(s))
    BY <1>1, <1>2 DEF Rising, Ids
<1> QED
    BY <1>2, <1>3, <1>4 DEF s

-----------------------------------------------------------------------------
(* The steps *)

LEMMA InitSInv == Init => SInv
<1> SUFFICES ASSUME Init PROVE SInv
    OBVIOUS
<1>1. Shapes /\ Callers
    <2>1. Callers
        BY EmptyLog DEF Init, Callers, NoFlush, NoClose, NoCut, NoWipe
    <2>2. timer = (buffer # <<>>)
        BY DEF Init
    <2>3. cutter.at = "idle" /\ \A i \in DOMAIN waiting : FALSE
        BY DEF Init, NoCut
    <2> QED
        BY <2>1, <2>2, <2>3, EmptyLog, EmptyBatches, SessionAssumption DEF Init, Shapes
<1>2. Ordered(file, chain, buffer, waiting, called)
    BY EmptyLog, EmptyBatches, NoBatches DEF Init, Ordered, Before
<1> QED
    BY <1>1, <1>2 DEF Init, SInv, LogInv, WaitInv, NoFlush, NoClose, NoCut

\* A step of the memory that changes neither the file nor a call under way.
LEMMA MemoryStep ==
    ASSUME SInv, Moved, UNCHANGED <<file, handle, calls, upsets>>,
           init' \in {"none", "pending", "done"},
           called' \in Nat, called' <= MaxEvents \/ called' = called
    PROVE  SInv'
<1>1. Shapes'
    BY SessionAssumption DEF SInv, Shapes, Moved, calls, Callers
<1>2. Callers'
    BY DEF SInv, Callers, calls
<1>3. LogInv' /\ WaitInv'
    BY DEF SInv, LogInv, WaitInv, Moved, calls
<1> QED
    BY <1>1, <1>2, <1>3 DEF SInv

LEMMA AppendStep ==
    ASSUME SInv, NEW s \in Lines, s # <<>>, Rising(s),
           Ids(s) \subseteq (called + 1)..(called + Len(s)), AppendCall(s)
    PROVE  SInv'
<1>1. /\ Enter(s) /\ UNCHANGED <<buffer, timer>> /\ called + Len(s) <= MaxEvents
      /\ UNCHANGED <<file, handle, calls, upsets>>
    BY DEF AppendCall
<1>2. Moved /\ called' = called + Len(s) /\ init' \in {"none", "pending", "done"}
    BY <1>1, EnterMoves
<1>3. called' \in Nat /\ called' <= MaxEvents
    BY <1>1, <1>2 DEF SInv, Shapes, Lines
<1> QED
    BY <1>1, <1>2, <1>3, MemoryStep

LEMMA AppendOneStep == ASSUME SInv, AppendOne PROVE SInv'
<1>1. PICK k \in {"plain", "checkpoint"}, p \in Prompts \cup {0} :
          AppendCall(<<Event(called + 1, k, p)>>)
    BY DEF AppendOne
<1> DEFINE s == <<Event(called + 1, k, p)>>
<1>2. Len(s) = 1
    OBVIOUS
<1>3. called \in Nat /\ called < MaxId
    BY <1>1, <1>2, SessionAssumption DEF AppendCall, SInv, Shapes, MaxId
<1>4. s \in Lines /\ s # <<>> /\ Rising(s) /\ Ids(s) \subseteq (called + 1)..(called + Len(s))
    BY <1>3, OneEvent
<1> HIDE DEF s
<1> QED
    BY <1>1, <1>4, AppendStep DEF s

LEMMA AppendBatchStep == ASSUME SInv, AppendBatch PROVE SInv'
<1>1. PICK m \in 2..MaxBatch : AppendCall([i \in 1..m |-> Event(called + i, "plain", 0)])
    BY DEF AppendBatch
<1> DEFINE s == [i \in 1..m |-> Event(called + i, "plain", 0)]
<1>2. Len(s) = m /\ m \in Nat /\ m > 0
    BY SessionAssumption
<1>3. called \in Nat /\ called + m <= MaxId
    BY <1>1, <1>2, SessionAssumption DEF AppendCall, SInv, Shapes, MaxId
<1>4. s \in Lines /\ s # <<>> /\ Rising(s) /\ Ids(s) \subseteq (called + 1)..(called + Len(s))
    BY <1>2, <1>3, SomeEvents
<1> HIDE DEF s
<1> QED
    BY <1>1, <1>4, AppendStep DEF s

LEMMA PushStep == ASSUME SInv, Push PROVE SInv'
<1>1. Moved
    BY PushMoves
<1>2. /\ UNCHANGED <<file, handle, calls, upsets>> /\ called' = called /\ called' \in Nat
      /\ init' \in {"none", "pending", "done"}
    BY DEF Push, SInv, Shapes
<1> QED
    BY <1>1, <1>2, MemoryStep

LEMMA TimerStep == ASSUME SInv, TimerFires PROVE SInv'
<1>1. Moved
    BY FlushMoves DEF TimerFires
<1>2. /\ UNCHANGED <<file, handle, calls, upsets>> /\ called' = called /\ called' \in Nat
      /\ init' \in {"none", "pending", "done"}
    BY DEF TimerFires, SInv, Shapes
<1> QED
    BY <1>1, <1>2, MemoryStep

\* flush() waits for its own batch, the last of the chain.
LEMMA FlushStep == ASSUME SInv, Flush PROVE SInv'
<1> USE DEF SInv, Shapes
<1>1. /\ Moved /\ chain' = Append(chain, buffer) /\ buffer' = <<>>
      /\ flusher' = [at |-> "write", left |-> Len(chain) + 1, ids |-> Ids(buffer)]
      /\ UNCHANGED <<called, waiting, init, handle, file, closer, cutter, wiper, upsets>>
    BY FlushMoves DEF Flush, FlushBuffer, AfterFlush
<1>2. Len(chain') = Len(chain) + 1 /\ Len(chain) \in Nat
    BY <1>1 DEF Batches
<1>3. Shapes'
    BY <1>1 DEF Moved
<1>4. Ids(buffer) \subseteq Nat
    BY IdsOfLines
<1>5. Callers'
    BY <1>1, <1>2, <1>4 DEF Callers
<1>6. LogInv'
    BY <1>1 DEF LogInv, Moved
<1>7. Sent(Ids(buffer), Len(chain'), chain', buffer', waiting', called')
    <2>1. Ids(buffer) \in SUBSET (1..called) /\ Ids(buffer) \cap (Ids(<<>>) \cup IdsIn(waiting)) = {}
        BY EmptyLog, IdsOfLines DEF LogInv, Ordered, Before
    <2> QED
        BY <2>1, <1>1, SentAll DEF Moved
<1>8. WaitInv'
    BY <1>1, <1>2, <1>7 DEF WaitInv, Moved
<1> QED
    BY <1>3, <1>5, <1>6, <1>8

\* close() has every event observed so far behind it in the buffer's batch, the
\* chain or the file.
LEMMA CloseStep == ASSUME SInv, Close PROVE SInv'
<1> USE DEF SInv, Shapes
<1>1. /\ Moved /\ buffer' = <<>>
      /\ closer.at = "idle"
      /\ closer' = [closer EXCEPT !.at = "flush", !.left = AfterFlush, !.early = Observed]
      /\ UNCHANGED <<called, waiting, init, handle, file, flusher, cutter, wiper, upsets>>
    BY FlushMoves DEF Close, FlushBuffer
<1>2. AfterFlush \in Nat
    BY DEF AfterFlush, Batches
<1>3. Shapes'
    BY <1>1 DEF Moved
<1>4. Observed \in SUBSET (1..called) /\ Observed \cap IdsIn(waiting) = {} /\ Observed \subseteq Nat
    BY DEF Observed
<1>5. Callers'
    BY <1>1, <1>2, <1>4 DEF Callers
<1>6. LogInv'
    BY <1>1 DEF LogInv, Moved
<1>7. Sent(Observed, Len(chain'), chain', buffer', waiting', called')
    BY <1>1, <1>4, EmptyLog, SentAll DEF Moved
<1>8. closer'.at = "flush" /\ closer'.early = Observed
    BY <1>1 DEF Callers
<1>9. WaitInv'
    BY <1>1, <1>7, <1>8 DEF WaitInv, Moved
<1> QED
    BY <1>3, <1>5, <1>6, <1>9

LEMMA FlushReturnsStep == ASSUME SInv, FlushReturns PROVE SInv'
<1>1. /\ flusher' = NoFlush
      /\ UNCHANGED <<called, waiting, init, buffer, timer, chain, handle, file,
                     closer, cutter, wiper, upsets>>
    BY DEF FlushReturns, memory
<1>2. Shapes' /\ Callers'
    BY <1>1 DEF SInv, Shapes, Callers, NoFlush
<1>3. LogInv' /\ WaitInv'
    BY <1>1 DEF SInv, LogInv, WaitInv, NoFlush
<1> QED
    BY <1>2, <1>3 DEF SInv

\* doClose(): from the buffer's batch to all of the chain.
LEMMA CloseGoesOnStep == ASSUME SInv, CloseGoesOn PROVE SInv'
<1>1. UNCHANGED <<called, waiting, init, buffer, timer, chain, file, flusher, cutter, wiper, upsets>>
    BY DEF CloseGoesOn, memory
<1>2. handle' \in {"open", "closed"} /\ Len(chain) \in Nat
    BY DEF CloseGoesOn, SInv, Shapes, Batches
<1>3. Shapes'
    BY <1>1, <1>2 DEF SInv, Shapes
<1>4. LogInv'
    BY <1>1 DEF SInv, LogInv
<1>5. \/ /\ closer.at = "flush"
         /\ closer' = [closer EXCEPT !.at = "drain", !.left = Len(chain)]
      \/ /\ closer.at = "drain" /\ closer.left = 0
         /\ closer' = [closer EXCEPT !.at = "sidecar", !.counted = Observed]
      \/ closer.at = "sidecar" /\ closer' = [closer EXCEPT !.at = "index"]
      \/ closer.at = "index" /\ closer' = [closer EXCEPT !.at = "closed"]
    BY DEF CloseGoesOn, At
<1>6. Observed \subseteq Nat
    BY DEF Observed
<1>7. Callers'
    BY <1>1, <1>2, <1>5, <1>6 DEF SInv, Callers
<1>8. WaitInv'
    BY <1>1, <1>2, <1>5 DEF SInv, WaitInv, Callers
<1> QED
    BY <1>3, <1>4, <1>7, <1>8 DEF SInv

LEMMA TruncateStep ==
    ASSUME SInv, NEW t \in Prompts \cup {0}, Truncate(t)
    PROVE  SInv'
<1> USE DEF SInv, Shapes
<1>1. /\ Moved
      /\ cutter.at = "idle" /\ upsets < MaxUpsets /\ upsets' = upsets + 1
      /\ cutter' = [cutter EXCEPT !.at = "flush", !.left = AfterFlush, !.target = t]
      /\ UNCHANGED <<called, waiting, init, handle, file, flusher, closer, wiper>>
    BY FlushMoves DEF Truncate, Upset
<1>2. AfterFlush \in Nat /\ t \in Nat
    BY SessionAssumption DEF AfterFlush, Batches
<1>3. Callers' /\ cutter'.at = "flush"
    BY <1>1, <1>2 DEF Callers
<1>4. Shapes'
    BY <1>1, SessionAssumption DEF Moved
<1>5. LogInv' /\ WaitInv'
    BY <1>1, <1>3 DEF LogInv, WaitInv, Moved
<1> QED
    BY <1>3, <1>4, <1>5

LEMMA UpsetCounts ==
    ASSUME Shapes, upsets' = upsets \/ Upset
    PROVE  upsets' \in 0..MaxUpsets /\ upsets <= upsets'
BY SessionAssumption DEF Shapes, Upset

\* The bound on the events leaves room for the record of a rewind under way.
LEMMA Room ==
    ASSUME Shapes, NEW u \in 0..MaxUpsets, upsets <= u
    PROVE  /\ called <= MaxEvents + u
           /\ cutter.at # "idle" => u > 0 /\ called < MaxEvents + u
<1>1. MaxEvents \in Nat /\ upsets \in Nat /\ called \in Nat /\ u \in Nat
    BY SessionAssumption DEF Shapes
<1>2. called <= MaxEvents + u
    BY <1>1 DEF Shapes
<1>3. cutter.at # "idle" => u > 0 /\ called < MaxEvents + u
    BY <1>1 DEF Shapes
<1> QED
    BY <1>2, <1>3

\* A step of the rewind that leaves the file and the memory alone.
LEMMA CutterStep ==
    ASSUME SInv, Callers', cutter.at # "idle",
           cutter'.at = "rename" => Ordered(cutter'.kept, chain, buffer, waiting, called),
           handle' \in {"open", "closed"},
           UNCHANGED <<called, memory, file, flusher, closer, wiper>>,
           upsets' = upsets \/ Upset
    PROVE  SInv'
<1>1. called' = called
    OBVIOUS
<1>2. Shapes'
    BY <1>1, UpsetCounts, Room DEF SInv, Shapes, memory
<1>3. LogInv' /\ WaitInv'
    BY DEF SInv, LogInv, WaitInv, memory
<1> QED
    BY <1>2, <1>3 DEF SInv

LEMMA CutDrainsStep == ASSUME SInv, CutDrains PROVE SInv'
<1>1. cutter.at = "flush" /\ cutter' = [cutter EXCEPT !.at = "drain", !.left = Len(chain)]
    BY DEF CutDrains, At
<1>2. Len(chain) \in Nat
    BY CallTypes
<1>3. Callers' /\ cutter'.at = "drain"
    BY <1>1, <1>2 DEF SInv, Callers, CutDrains
<1> QED
    BY <1>1, <1>3, CutterStep DEF CutDrains, SInv, Shapes

LEMMA ScanStep == ASSUME SInv, Scan PROVE SInv'
<1>1. /\ cutter.at = "drain"
      /\ UNCHANGED <<called, memory, handle, file, flusher, closer, wiper, upsets>>
    BY DEF Scan, At
<1>2. PICK split \in Splits :
          \/ Stops(split) = {} /\ cutter' = NoCut
          \/ \E first \in Stops(split) :
                /\ \A i \in Stops(split) : first <= i
                /\ cutter' = [cutter EXCEPT !.at = "redrain", !.left = Len(chain),
                                            !.keep = first, !.stop = file[first].id]
    BY DEF Scan
<1>3. CASE cutter' = NoCut
    <2>1. Callers' /\ cutter'.at = "idle"
        BY <1>1, <1>3, EmptyLog DEF SInv, Callers, NoCut
    <2> QED
        BY <1>1, <2>1, CutterStep DEF SInv, Shapes
<1>4. CASE cutter' # NoCut
    <2>1. PICK first \in Stops(split) :
              cutter' = [cutter EXCEPT !.at = "redrain", !.left = Len(chain),
                                       !.keep = first, !.stop = file[first].id]
        BY <1>2, <1>4
    <2>2. first \in DOMAIN file
        BY DEF Stops
    <2>3. first \in Nat /\ file[first].id \in Nat /\ Len(chain) \in Nat
        BY <2>2, LineFacts, CallTypes DEF SInv, Shapes, Lines
    <2>4. Callers' /\ cutter'.at = "redrain"
        BY <1>1, <2>1, <2>3 DEF SInv, Callers
    <2> QED
        BY <1>1, <2>4, CutterStep DEF SInv, Shapes
<1> QED
    BY <1>3, <1>4

LEMMA CutClosesStep == ASSUME SInv, CutCloses PROVE SInv'
<1>1. cutter.at = "redrain" /\ cutter' = [cutter EXCEPT !.at = "copy"]
    BY DEF CutCloses, At
<1>2. Callers' /\ cutter'.at = "copy"
    BY <1>1 DEF SInv, Callers, CutCloses
<1> QED
    BY <1>1, <1>2, CutterStep DEF CutCloses

\* The copy keeps a part of the file, in its order.
LEMMA CopyStep == ASSUME SInv, Copy PROVE SInv'
<1> DEFINE n == Min({cutter.keep, Len(file)})
           kept == SubSeq(file, 1, n) \o Malformed(SubSeq(file, n + 1, Len(file)))
<1>1. /\ cutter.at = "copy" /\ cutter' = [cutter EXCEPT !.at = "rename", !.kept = kept]
      /\ UNCHANGED <<called, memory, handle, file, flusher, closer, wiper, upsets>>
    BY DEF Copy
<1>2. n \in 0..Len(file)
    <2>1. cutter.keep \in Nat /\ Len(file) \in Nat
        BY DEF SInv, Shapes, Callers, Lines
    <2>2. \E x \in {cutter.keep, Len(file)} : \A y \in {cutter.keep, Len(file)} : x <= y
        BY <2>1
    <2>3. n \in {cutter.keep, Len(file)} /\ n <= Len(file)
        BY <2>2 DEF Min
    <2> QED
        BY <2>1, <2>3
<1>3. /\ kept \in Lines /\ Ids(kept) \subseteq Ids(file)
      /\ Rising(file) => Rising(kept)
    <2> HIDE DEF n
    <2> QED
        BY <1>2, KeptLog DEF SInv, Shapes
<1> HIDE DEF n, kept
<1>4. Rising(file)
    BY DEF SInv, LogInv, Ordered
<1>5. Ordered(kept, chain, buffer, waiting, called)
    BY <1>3, <1>4, OrderedDrop DEF SInv, Shapes, LogInv
<1>6. Callers' /\ cutter'.kept = kept
    BY <1>1, <1>3 DEF SInv, Callers
<1> QED
    BY <1>1, <1>5, <1>6, CutterStep DEF SInv, Shapes

LEMMA CutFailsStep == ASSUME SInv, CutFails PROVE SInv'
<1>1. Callers' /\ cutter'.at = "idle" /\ cutter.at # "idle"
    BY EmptyLog DEF CutFails, SInv, Callers, NoCut
<1> QED
    BY <1>1, CutterStep DEF CutFails

\* The rewound file takes the log's place; its record is the newest event.
LEMMA RenameStep == ASSUME SInv, Rename PROVE SInv'
<1> USE DEF SInv, Shapes
<1> DEFINE s == <<Event(called + 1, "rewound", 0)>>
<1>1. /\ cutter.at = "rename" /\ file' = cutter.kept /\ handle' = "open" /\ cutter' = NoCut
      /\ wiper' \in {NoWipe, wiper} /\ UNCHANGED <<buffer, timer, flusher, closer, upsets>>
    BY DEF Rename
<1>2. called \in Nat /\ called < MaxId /\ called < MaxEvents + upsets
    BY <1>1, SessionAssumption DEF MaxId
<1>3. Callers' /\ cutter'.at = "idle"
    BY <1>1, EmptyLog DEF Callers, NoCut, NoWipe
<1>4. Moved /\ called' \in {called, called + 1} /\ init' \in {"none", "pending", "done"}
    <2>1. CASE closer.at = "idle"
        <3>1. Enter(s)
            BY <2>1 DEF Rename
        <3>2. /\ s \in Lines /\ s # <<>> /\ Len(s) = 1
              /\ Rising(s) /\ Ids(s) \subseteq (called + 1)..(called + Len(s))
            BY <1>2, OneEvent
        <3> HIDE DEF s
        <3> QED
            BY <1>1, <3>1, <3>2, EnterMoves
    <2>2. CASE closer.at # "idle"
        <3>1. called' = called /\ UNCHANGED memory
            BY <1>1, <2>2 DEF Rename, memory
        <3> QED
            BY <3>1, StayMoves DEF memory
    <2> QED
        BY <2>1, <2>2
<1>5. Shapes'
    <2>1. called' \in Nat /\ called' <= MaxEvents + upsets' /\ upsets' \in 0..MaxUpsets
        BY <1>1, <1>2, <1>4, SessionAssumption
    <2> QED
        BY <1>1, <1>3, <1>4, <2>1, CallTypes DEF Moved
<1>6. LogInv' /\ WaitInv'
    BY <1>1, <1>3, <1>4 DEF Moved, LogInv, WaitInv
<1> QED
    BY <1>3, <1>5, <1>6

LEMMA ClearStep == ASSUME SInv, Clear PROVE SInv'
<1> USE DEF SInv, Shapes
<1>1. /\ upsets < MaxUpsets /\ upsets' = upsets + 1
      /\ wiper' = [at |-> "drain", left |-> Len(chain)]
      /\ UNCHANGED <<called, waiting, init, chain, handle, file, flusher, closer, cutter>>
      /\ timer' = FALSE /\ buffer' = <<>>
    BY DEF Clear, Upset
<1>2. Moved
    BY <1>1, ClearMoves
<1>3. Callers'
    BY <1>1, CallTypes DEF Callers
<1>4. called' <= MaxEvents + upsets' /\ upsets' \in 0..MaxUpsets
    BY <1>1, SessionAssumption
<1>5. cutter'.at # "idle" => upsets' > 0 /\ called' < MaxEvents + upsets'
    BY <1>1, SessionAssumption
<1>6. Shapes'
    BY <1>1, <1>2, <1>4, <1>5 DEF Moved
<1>7. LogInv' /\ WaitInv'
    BY <1>1, <1>2 DEF Moved, LogInv, WaitInv
<1> QED
    BY <1>3, <1>6, <1>7

\* A step of the clear: the file may lose events, the rest is as it was.
LEMMA WiperStep ==
    ASSUME SInv, UNCHANGED <<called, memory, handle, flusher, closer, cutter>>,
           file' \in Lines, Rising(file'), Ids(file') \subseteq Ids(file),
           wiper' \in [at : {"idle", "drain", "record"}, left : Nat],
           upsets' = upsets \/ Upset
    PROVE  SInv'
<1>1. called' = called
    OBVIOUS
<1>2. Shapes'
    BY <1>1, UpsetCounts, Room DEF SInv, Shapes, memory
<1>3. Callers' /\ WaitInv'
    BY DEF SInv, Callers, WaitInv, memory
<1>4. Ordered(file', chain, buffer, waiting, called)
    BY OrderedDrop DEF SInv, Shapes, LogInv
<1>5. LogInv'
    BY <1>4 DEF SInv, LogInv, memory
<1> QED
    BY <1>2, <1>3, <1>5 DEF SInv

LEMMA WipeOpensStep == ASSUME SInv, WipeOpens PROVE SInv'
<1>1. wiper' \in [at : {"idle", "drain", "record"}, left : Nat]
    BY DEF WipeOpens, SInv, Callers
<1> QED
    BY <1>1, EmptyLog, WiperStep DEF WipeOpens

LEMMA WipeWritesStep == ASSUME SInv, WipeWrites PROVE SInv'
<1>1. wiper' \in [at : {"idle", "drain", "record"}, left : Nat]
    BY DEF WipeWrites, NoWipe
<1>2. file \in Lines /\ Rising(file)
    BY DEF SInv, Shapes, LogInv, Ordered
<1>3. file' \in Lines /\ Rising(file') /\ Ids(file') \subseteq Ids(file)
    <2>1. CASE file = <<>> /\ file' = <<Start>>
        BY <2>1, RecordLines, NoEvent
    <2>2. CASE file # <<>> /\ file' = Over(file[1]) \o Tail(file)
        BY <2>2, <1>2, OverLog
    <2> QED
        BY <2>1, <2>2 DEF WipeWrites
<1> QED
    BY <1>1, <1>3, WiperStep DEF WipeWrites

LEMMA WipeFailsStep == ASSUME SInv, WipeFails PROVE SInv'
<1>1. wiper' \in [at : {"idle", "drain", "record"}, left : Nat]
    BY DEF WipeFails, NoWipe
<1>2. file' = file /\ file \in Lines /\ Rising(file)
    BY DEF WipeFails, SInv, Shapes, LogInv, Ordered
<1> QED
    BY <1>1, <1>2, WiperStep DEF WipeFails

\* The oldest write settles: what reaches the file is a part of its batch.
LEMMA SettleStep ==
    ASSUME SInv, chain # <<>>, NEW s \in Lines, Rising(s), Ids(s) \subseteq Ids(Head(chain)),
           Settle(s), upsets' = upsets \/ Upset
    PROVE  SInv'
<1>1. /\ file' = Glue(file, s) /\ chain' = Tail(chain)
      /\ init' = IF init = "pending" THEN "done" ELSE init
      /\ flusher' = OneLess(flusher) /\ closer' = OneLess(closer)
      /\ cutter' = OneLess(cutter) /\ wiper' = OneLess(wiper)
      /\ UNCHANGED <<called, waiting, buffer, timer, handle>>
    BY DEF Settle
<1>2. /\ Head(chain) \in Lines /\ Tail(chain) \in Batches
      /\ IdsIn(chain) = Ids(Head(chain)) \cup IdsIn(Tail(chain))
    BY TailBatches DEF SInv, Shapes
<1>3. Rising(file) /\ Before(Ids(file), Ids(s))
    BY <1>2 DEF SInv, LogInv, Ordered, Before
<1>4. file' \in Lines /\ Rising(file') /\ Ids(file') \subseteq Ids(file) \cup Ids(Head(chain))
    BY <1>1, <1>3, GlueLog DEF SInv, Shapes
<1>5. Callers'
    <2>1. /\ flusher.left \in Nat /\ closer.left \in Nat /\ cutter.left \in Nat /\ wiper.left \in Nat
        BY DEF SInv, Callers
    <2>2. \A n \in Nat : (IF n > 0 THEN n - 1 ELSE 0) \in Nat
        OBVIOUS
    <2>3. flusher' \in [at : {"idle", "write"}, left : Nat, ids : SUBSET Nat]
        BY <1>1, <2>1, <2>2 DEF SInv, Callers, OneLess
    <2>4. closer' \in [at : {"idle", "flush", "drain", "sidecar", "index", "closed"},
                       left : Nat, early : SUBSET Nat, counted : SUBSET Nat]
        BY <1>1, <2>1, <2>2 DEF SInv, Callers, OneLess
    <2>5. cutter' \in [at : {"idle", "flush", "drain", "redrain", "copy", "rename"},
                       left : Nat, target : Nat, keep : Nat, stop : Nat, kept : Lines]
        BY <1>1, <2>1, <2>2 DEF SInv, Callers, OneLess
    <2>6. wiper' \in [at : {"idle", "drain", "record"}, left : Nat]
        BY <1>1, <2>1, <2>2 DEF SInv, Callers, OneLess
    <2> QED
        BY <2>3, <2>4, <2>5, <2>6 DEF Callers
<1>6. /\ flusher'.at = flusher.at /\ flusher'.ids = flusher.ids
      /\ flusher'.left = IF flusher.left > 0 THEN flusher.left - 1 ELSE 0
      /\ closer'.at = closer.at /\ closer'.early = closer.early
      /\ closer'.left = IF closer.left > 0 THEN closer.left - 1 ELSE 0
      /\ cutter'.at = cutter.at /\ cutter'.kept = cutter.kept
    BY <1>1 DEF SInv, Callers, OneLess
<1>7. Shapes'
    BY <1>1, <1>2, <1>4, <1>6, UpsetCounts, Room DEF SInv, Shapes
<1>8. Ordered(file', chain', buffer', waiting', called')
    BY <1>1, <1>4, OrderedSettle DEF SInv, Shapes, LogInv
<1>9. cutter.at = "rename" => Ordered(cutter.kept, chain', buffer', waiting', called')
    <2>1. cutter.at = "rename" => Rising(cutter.kept)
        BY DEF SInv, LogInv, Ordered
    <2>2. cutter.kept \in Lines
        BY CallTypes
    <2> QED
        BY <1>1, <2>1, <2>2, OrderedSettle DEF SInv, Shapes, LogInv
<1>10. LogInv'
    BY <1>6, <1>8, <1>9 DEF LogInv
<1>11. \A S : \A left \in Nat :
          Sent(S, left, chain, buffer, waiting, called)
             => Sent(S, IF left > 0 THEN left - 1 ELSE 0, chain', buffer', waiting', called')
    BY <1>1, SentSettle DEF SInv, Shapes
<1>12. \A S, left : Sent(S, left, chain', buffer', waiting', called')
             => Sent(S, Len(chain'), chain', buffer', waiting', called')
    BY <1>7, SentWhole DEF Shapes
<1>13. WaitInv'
    BY <1>6, <1>11, <1>12, CallTypes DEF SInv, WaitInv
<1> QED
    BY <1>5, <1>7, <1>10, <1>13 DEF SInv

LEMMA WriteDoneStep == ASSUME SInv, WriteDone PROVE SInv'
<1>1. chain # <<>> /\ Settle(Head(chain)) /\ upsets' = upsets
    BY DEF WriteDone
<1>2. Head(chain) \in Lines /\ Rising(Head(chain))
    BY <1>1, TailBatches DEF SInv, Shapes, LogInv, Ordered
<1> QED
    BY <1>1, <1>2, SettleStep

LEMMA WriteFailsStep == ASSUME SInv, WriteFails PROVE SInv'
<1>1. chain # <<>>
    BY DEF WriteFails
<1>2. Head(chain) \in Lines /\ Rising(Head(chain))
    BY <1>1, TailBatches DEF SInv, Shapes, LogInv, Ordered
<1>3. CASE Settle(<<>>) /\ upsets' = upsets
    BY <1>1, <1>3, EmptyLog, SettleStep
<1>4. CASE Upset /\ \E s \in PartsOf(Head(chain)) : Settle(s)
    <2>1. PICK s \in PartsOf(Head(chain)) : Settle(s)
        BY <1>4
    <2>2. s \in Lines /\ Rising(s) /\ Ids(s) \subseteq Ids(Head(chain))
        BY <1>2, PartsLog
    <2> QED
        BY <1>1, <1>4, <2>1, <2>2, SettleStep
<1> QED
    BY <1>3, <1>4 DEF WriteFails

\* A crash leaves the file and, of the memory, at most a part of one batch.
LEMMA CrashStep == ASSUME SInv, CrashAndResume PROVE SInv'
<1> USE DEF SInv, Shapes
<1>1. /\ Upset /\ waiting' = <<>> /\ init' = "none" /\ buffer' = <<>> /\ timer' = FALSE
      /\ chain' = <<>> /\ handle' = "open" /\ called' = called
      /\ flusher' = NoFlush /\ closer' = NoClose /\ cutter' = NoCut /\ wiper' = NoWipe
    BY DEF CrashAndResume
<1>2. PICK s \in (IF chain = <<>> \/ handle = "closed" THEN {<<>>}
                  ELSE PartsOf(Head(chain)) \cup {Head(chain)}) : file' = Glue(file, s)
    BY DEF CrashAndResume
<1>3. s \in Lines /\ Rising(s) /\ Ids(s) \subseteq IdsIn(chain)
    <2>1. CASE s = <<>>
        BY <2>1, EmptyLog
    <2>2. CASE s # <<>>
        <3>1. chain # <<>> /\ s \in PartsOf(Head(chain)) \cup {Head(chain)}
            BY <1>2, <2>2
        <3>2. /\ Head(chain) \in Lines /\ Rising(Head(chain))
              /\ Ids(Head(chain)) \subseteq IdsIn(chain)
            BY <3>1, TailBatches DEF LogInv, Ordered
        <3> QED
            BY <3>1, <3>2, PartsLog
    <2> QED
        BY <2>1, <2>2
<1>4. Rising(file) /\ Before(Ids(file), Ids(s))
    BY <1>3 DEF LogInv, Ordered, Before
<1>5. file' \in Lines /\ Rising(file') /\ Ids(file') \subseteq Ids(file) \cup IdsIn(chain)
    BY <1>2, <1>3, <1>4, GlueLog
<1>6. Ordered(file', chain', buffer', waiting', called')
    BY <1>1, <1>5, OrderedCrash DEF LogInv
<1>7. Callers' /\ cutter'.at = "idle" /\ closer'.at = "idle" /\ flusher'.at = "idle"
    BY <1>1, EmptyLog DEF Callers, NoFlush, NoClose, NoCut, NoWipe
<1>8. Shapes'
    <2>1. called' \in Nat /\ called' <= MaxEvents + upsets' /\ upsets' \in 0..MaxUpsets
        BY <1>1, UpsetCounts, Room
    <2>2. timer' = (buffer' # <<>>)
        BY <1>1
    <2> QED
        BY <1>1, <1>5, <1>7, <2>1, <2>2, EmptyLog, EmptyBatches
<1>9. LogInv' /\ WaitInv'
    BY <1>6, <1>7 DEF LogInv, WaitInv
<1> QED
    BY <1>7, <1>8, <1>9

LEMMA StepSInv == ASSUME SInv, [Next]_vars PROVE SInv'
<1>1. CASE UserCalls
    BY <1>1, AppendOneStep, AppendBatchStep, FlushStep, CloseStep, ClearStep, TruncateStep
       DEF UserCalls
<1>2. CASE Continues
    BY <1>2, PushStep, FlushReturnsStep, CloseGoesOnStep, CutDrainsStep, CutClosesStep
       DEF Continues
<1>3. CASE Disk
    BY <1>3, WriteDoneStep, WriteFailsStep, ScanStep, CopyStep, RenameStep, CutFailsStep,
       WipeOpensStep, WipeWritesStep, WipeFailsStep
       DEF Disk
<1>4. CASE TimerFires \/ CrashAndResume
    BY <1>4, TimerStep, CrashStep
<1>5. CASE UNCHANGED vars
    <2>1. /\ UNCHANGED <<called, waiting, init, buffer, timer, chain, handle, file>>
          /\ UNCHANGED <<flusher, closer, cutter, wiper, upsets>>
        BY <1>5 DEF vars, memory, calls
    <2>2. Shapes' /\ Callers'
        BY <2>1 DEF SInv, Shapes, Callers
    <2>3. LogInv' /\ WaitInv'
        BY <2>1 DEF SInv, LogInv, WaitInv
    <2> QED
        BY <2>2, <2>3 DEF SInv
<1> QED
    BY <1>1, <1>2, <1>3, <1>4, <1>5 DEF Next

LEMMA AlwaysSInv == Spec => []SInv
<1>1. SInv /\ [Next]_vars => SInv'
    BY StepSInv
<1> QED
    BY <1>1, InitSInv, PTL DEF Spec

-----------------------------------------------------------------------------
(* The theorems *)

\* The types of the session writer's state, and: flushTimer runs exactly while
\* writeBuffer holds events, so that none is left behind there.
THEOREM SessionTypeCorrect == Spec => []SessionTypeOK
<1>1. SInv => SessionTypeOK
    <2> SUFFICES ASSUME SInv PROVE SessionTypeOK
        OBVIOUS
    <2>1. called \in 0..MaxId
        BY SessionAssumption DEF SInv, Shapes, MaxId
    <2>2. \A s \in Lines : ToSet(s) \subseteq Line
        BY DEF ToSet, Lines
    <2>3. \A c \in Batches : ToSet(c) \subseteq Lines
        BY DEF ToSet, Batches
    <2>4. \A s \in {file, buffer, cutter.kept} \cup ToSet(waiting) \cup ToSet(chain) : s \in Lines
        BY <2>3, CallTypes DEF SInv, Shapes
    <2> QED
        BY <2>1, <2>2, <2>4 DEF SessionTypeOK, SInv, Shapes, Callers
<1> QED
    BY <1>1, AlwaysSInv, PTL

\* What lies before what in the file, the chain, the buffer and the waiting
\* appends, taken as one sequence.
LEMMA OrderedAll ==
    ASSUME NEW f \in Lines, NEW c \in Batches, NEW b \in Lines, NEW w \in Batches, NEW n \in Nat,
           Ordered(f, c, b, w, n)
    PROVE  LET all == <<f>> \o c \o <<b>> \o w
           IN  /\ \A i \in DOMAIN all : Rising(all[i])
               /\ \A i, j \in DOMAIN all : i < j => Before(Ids(all[i]), Ids(all[j]))
<1> DEFINE all == <<f>> \o c \o <<b>> \o w
           k == Len(c)
<1>1. k \in Nat /\ DOMAIN c = 1..k /\ Len(w) \in Nat /\ DOMAIN w = 1..Len(w)
    BY DEF Batches
<1>2. /\ DOMAIN all = 1..(k + 2 + Len(w))
      /\ all[1] = f /\ all[k + 2] = b
      /\ \A i \in 2..(k + 1) : i - 1 \in DOMAIN c /\ all[i] = c[i - 1]
      /\ \A i \in (k + 3)..(k + 2 + Len(w)) : i - (k + 2) \in DOMAIN w /\ all[i] = w[i - (k + 2)]
    <2> DEFINE x == <<f>> \o c
               y == x \o <<b>>
    <2>1. /\ x \in Batches /\ Len(x) = k + 1
          /\ x[1] = f /\ \A i \in 2..(k + 1) : i - 1 \in DOMAIN c /\ x[i] = c[i - 1]
        BY <1>1 DEF Batches
    <2> HIDE DEF x
    <2>2. /\ y \in Batches /\ Len(y) = k + 2 /\ y[k + 2] = b
          /\ \A i \in 1..(k + 1) : y[i] = x[i]
        BY <1>1, <2>1 DEF Batches
    <2>3. all = y \o w
        BY DEF x
    <2> HIDE DEF y, all
    <2>4. /\ DOMAIN all = 1..(k + 2 + Len(w))
          /\ \A i \in 1..(k + 2) : all[i] = y[i]
          /\ \A i \in (k + 3)..(k + 2 + Len(w)) : i - (k + 2) \in DOMAIN w /\ all[i] = w[i - (k + 2)]
        <3>1. DOMAIN all = 1..(k + 2 + Len(w)) /\ \A i \in 1..(k + 2) : all[i] = y[i]
            <4>1. /\ DOMAIN all = 1..(Len(y) + Len(w))
                  /\ \A i \in 1..(Len(y) + Len(w)) : i <= Len(y) => all[i] = y[i]
                <5>1. y \in Seq(Lines) /\ w \in Seq(Lines)
                    BY <2>2 DEF Batches
                <5>2. /\ DOMAIN (y \o w) = 1..(Len(y) + Len(w))
                      /\ \A i \in 1..(Len(y) + Len(w)) : i <= Len(y) => (y \o w)[i] = y[i]
                    BY <5>1
                <5> QED
                    BY <5>2, <2>3
            <4>2. \A i \in 1..(k + 2) : i \in 1..(Len(y) + Len(w)) /\ i <= Len(y)
                BY <1>1, <2>2
            <4> QED
                BY <2>2, <4>1, <4>2
        <3>2. \A i \in (k + 3)..(k + 2 + Len(w)) : i - (k + 2) \in 1..Len(w)
            BY <1>1
        <3>3. \A i \in (k + 3)..(k + 2 + Len(w)) : all[i] = w[i - (k + 2)]
            <4>1. \A i \in 1..(Len(y) + Len(w)) : i > Len(y) => all[i] = w[i - Len(y)]
                BY <2>2, <2>3 DEF Batches
            <4>2. \A i \in (k + 3)..(k + 2 + Len(w)) : i \in 1..(Len(y) + Len(w)) /\ i > Len(y)
                BY <1>1, <2>2
            <4> QED
                BY <2>2, <4>1, <4>2
        <3> QED
            BY <1>1, <3>1, <3>2, <3>3
    <2>5. 1 \in 1..(k + 1) /\ k + 2 \in 1..(k + 2) /\ 1 \in 1..(k + 2)
        BY <1>1
    <2>6. 2..(k + 1) \subseteq 1..(k + 1) /\ 2..(k + 1) \subseteq 1..(k + 2)
        BY <1>1
    <2>7. all[1] = f /\ all[k + 2] = b
        BY <2>1, <2>2, <2>4, <2>5
    <2>8. \A i \in 2..(k + 1) : i - 1 \in DOMAIN c /\ all[i] = c[i - 1]
        BY <2>1, <2>2, <2>4, <2>6
    <2> QED
        BY <2>4, <2>7, <2>8
<1> HIDE DEF all
<1>3. \A i \in DOMAIN all :
          \/ i = 1 /\ all[i] = f
          \/ i \in 2..(k + 1) /\ all[i] = c[i - 1] /\ i - 1 \in DOMAIN c
          \/ i = k + 2 /\ all[i] = b
          \/ /\ i \in (k + 3)..(k + 2 + Len(w))
             /\ all[i] = w[i - (k + 2)] /\ i - (k + 2) \in DOMAIN w
    BY <1>1, <1>2
<1>4. \A i \in DOMAIN all : Rising(all[i])
    BY <1>3 DEF Ordered, InTurn
<1>5. (\A i \in DOMAIN c : Ids(c[i]) \subseteq IdsIn(c)) /\ (\A i \in DOMAIN w : Ids(w[i]) \subseteq IdsIn(w))
    BY IdsInFacts
<1>6. ASSUME NEW i \in DOMAIN all, NEW j \in DOMAIN all, i < j
      PROVE  Before(Ids(all[i]), Ids(all[j]))
    <2>0. i \in Nat /\ j \in Nat
        BY <1>1, <1>2
    <2>1. CASE i = 1
        <3>1. Ids(all[j]) \subseteq IdsIn(c) \cup Ids(b) \cup IdsIn(w)
            BY <2>0, <2>1, <1>3, <1>5, <1>6
        <3> QED
            BY <2>1, <3>1, <1>2 DEF Ordered, Before
    <2>2. CASE i \in 2..(k + 1)
        <3>1. all[i] = c[i - 1] /\ i - 1 \in DOMAIN c
            BY <2>2, <1>2
        <3>2. CASE j \in 2..(k + 1)
            <4>1. all[j] = c[j - 1] /\ j - 1 \in DOMAIN c /\ i - 1 < j - 1
                BY <3>2, <1>2, <1>6, <2>0
            <4> QED
                BY <3>1, <4>1 DEF Ordered, InTurn
        <3>3. CASE j \notin 2..(k + 1)
            <4>1. Ids(all[j]) \subseteq Ids(b) \cup IdsIn(w)
                BY <2>0, <2>2, <3>3, <1>3, <1>5, <1>6
            <4>2. Ids(all[i]) \subseteq IdsIn(c)
                BY <3>1, <1>5
            <4> QED
                BY <4>1, <4>2 DEF Ordered, Before
        <3> QED
            BY <3>2, <3>3
    <2>3. CASE i = k + 2
        <3>1. Ids(all[j]) \subseteq IdsIn(w)
            BY <2>0, <2>3, <1>1, <1>3, <1>5, <1>6
        <3> QED
            BY <2>3, <3>1, <1>2 DEF Ordered, Before
    <2>4. CASE i \in (k + 3)..(k + 2 + Len(w))
        <3>1. j \in (k + 3)..(k + 2 + Len(w))
            BY <2>0, <2>4, <1>1, <1>2, <1>6
        <3>2. /\ all[i] = w[i - (k + 2)] /\ i - (k + 2) \in DOMAIN w
              /\ all[j] = w[j - (k + 2)] /\ j - (k + 2) \in DOMAIN w
            BY <2>4, <3>1, <1>2
        <3>3. i - (k + 2) < j - (k + 2)
            BY <2>0, <1>1, <1>6
        <3> QED
            BY <3>2, <3>3 DEF Ordered, InTurn
    <2> QED
        BY <2>1, <2>2, <2>3, <2>4, <1>3
<1> QED
    BY <1>4, <1>6 DEF all

\* append(), appendBatch(), flushBuffer() and the write chain keep the order of
\* the calls and write no event twice, whatever a timer, a flush, a failed
\* write, a rewind, a clear, a close or a crash comes between.
THEOREM EventsInCallOrder == Spec => []LogOrder
<1>1. SInv => LogOrder
    <2> SUFFICES ASSUME SInv PROVE LogOrder
        OBVIOUS
    <2>1. LET all == <<file>> \o chain \o <<buffer>> \o waiting
          IN  /\ \A b \in DOMAIN all : Rising(all[b])
              /\ \A b, c \in DOMAIN all : b < c => Before(Ids(all[b]), Ids(all[c]))
        BY OrderedAll DEF SInv, Shapes, LogInv
    <2> QED
        BY <2>1 DEF LogOrder
<1> QED
    BY <1>1, AlwaysSInv, PTL

\* When flush() returns nothing of what was buffered at its call is left in the
\* writer's memory: a later crash cannot take it.
THEOREM FlushedEventsDurable == Spec => []FlushDurable
<1>1. SInv => FlushDurable
    <2> SUFFICES ASSUME SInv, At(flusher, {"write"}) PROVE flusher.ids \cap Held = {}
        BY DEF FlushDurable
    <2>1. Sent(flusher.ids, 0, chain, buffer, waiting, called)
        BY DEF SInv, WaitInv, At
    <2> QED
        BY <2>1, SentDone DEF SInv, Shapes, Held
<1> QED
    BY <1>1, AlwaysSInv, PTL

-----------------------------------------------------------------------------
(* Unfinished lines, and what they can take with them *)

\* Lines with no unfinished one, with at most the last one unfinished, and with
\* the last one unfinished.
Whole(s) == \A i \in DOMAIN s : s[i] # Partial
OneCut(s) == \A i \in 1..(Len(s) - 1) : s[i] # Partial
Cut(s) == s # <<>> /\ s[Len(s)] = Partial
AllWhole(c) == \A i \in DOMAIN c : Whole(c[i])

\* The writer holds whole lines; before the start record is on its way it holds
\* nothing, and while it is, nothing else is.
Kept(c, b, w, i) ==
    /\ AllWhole(c) /\ Whole(b) /\ AllWhole(w)
    /\ i = "none" => w = <<>> /\ c = <<>>
    /\ i # "done" => b = <<>>
    /\ i = "pending" => c = <<<<Start>>>>

\* close() does not get past its drain before the start record has settled, and
\* the handle is closed only by a rewind under way, at the end of close(), or when
\* a disk error kept a rewind from opening it again.
Guarded ==
    /\ init = "pending" => \/ closer.at \in {"idle", "flush"}
                           \/ closer.at = "drain" /\ closer.left > 0
    /\ handle = "closed" => cutter.at \in {"copy", "rename"} \/ closer.at = "closed" \/ erred
    /\ OneCut(file)
    /\ cutter.at = "rename" => OneCut(cutter.kept)

\* Without disk errors, only a crash leaves an unfinished line, and the start
\* record of the next writer ends it before an event is written; a rewind does
\* not bring it back.
Mended ==
    ~erred =>
        /\ Cut(file) /\ init = "done" => cutter.at \in {"copy", "rename"}
        /\ Cut(file) /\ cutter.at \in {"redrain", "copy"} => cutter.keep < Len(file)
        /\ cutter.at = "rename" => ~Cut(cutter.kept)
        /\ wiper.at = "record" => ~Cut(file)

XInv == Kept(chain, buffer, waiting, init) /\ Guarded /\ Mended

LEMMA KindsDiffer == Start # Partial /\ Torn # Partial /\ \A l : l.k # "partial" => l # Partial
BY DEF Start, Torn, Partial

\* What is appended to an unfinished line takes its place: x, then the rest.
LEMMA GlueCut ==
    ASSUME NEW f \in Lines, NEW s \in Lines, s # <<>>, Cut(f)
    PROVE  LET g == Glue(f, s)
               p == Len(f)
               q == Len(s)
               x == IF s[1] = Partial THEN Partial ELSE Torn
           IN  /\ Len(g) = p + q - 1 /\ DOMAIN g = 1..(p + q - 1)
               /\ \A i \in 1..(p + q - 1) :
                     g[i] = IF i < p THEN f[i] ELSE IF i = p THEN x ELSE s[i - p + 1]
<1> DEFINE p == Len(f)
           q == Len(s)
           x == IF s[1] = Partial THEN Partial ELSE Torn
           g == Glue(f, s)
<1>0. p \in Nat /\ q \in Nat /\ DOMAIN f = 1..p /\ DOMAIN s = 1..q
    BY DEF Lines
<1>1. g = (SubSeq(f, 1, p - 1) \o <<x>>) \o Tail(s)
    BY DEF Glue, Front, Cut
<1> HIDE DEF p, q
<1>2. p >= 1 /\ q >= 1
    BY <1>0 DEF Cut, Lines, p, q
<1>3. x \in Line /\ SubSeq(f, 1, p - 1) \in Lines /\ Tail(s) \in Lines
    BY <1>2, RecordLines DEF Lines, p, q
<1> HIDE DEF x
<1>4. /\ Len(g) = p + q - 1 /\ DOMAIN g = 1..(p + q - 1)
      /\ \A i \in 1..(p + q - 1) :
            g[i] = IF i < p THEN f[i] ELSE IF i = p THEN x ELSE s[i - p + 1]
    <2> DEFINE a == SubSeq(f, 1, p - 1) \o <<x>>
    <2>1. /\ a \in Lines /\ Len(a) = p
          /\ \A i \in 1..p : a[i] = IF i < p THEN f[i] ELSE x
        BY <1>0, <1>2, <1>3 DEF Lines, p, q
    <2>2. /\ Len(Tail(s)) = q - 1 /\ \A i \in 1..(q - 1) : Tail(s)[i] = s[i + 1]
        BY <1>0 DEF Lines, p, q
    <2> HIDE DEF a
    <2>3. g = a \o Tail(s)
        BY <1>1 DEF a
    <2> HIDE DEF g
    <2>4. /\ Len(g) = p + q - 1 /\ DOMAIN g = 1..(p + q - 1)
          /\ \A i \in 1..(p + q - 1) :
                g[i] = IF i <= p THEN a[i] ELSE Tail(s)[i - p]
        <3>1. \A c \in Lines, d \in Lines :
                  /\ Len(c \o d) = Len(c) + Len(d) /\ DOMAIN (c \o d) = 1..(Len(c) + Len(d))
                  /\ \A i \in 1..(Len(c) + Len(d)) :
                        (c \o d)[i] = IF i <= Len(c) THEN c[i] ELSE d[i - Len(c)]
            BY DEF Lines
        <3>2. p + (q - 1) = p + q - 1
            BY <1>0
        <3> DEFINE b == Tail(s)
        <3>3. a \in Lines /\ b \in Lines /\ Len(a) = p /\ Len(b) = q - 1
            BY <1>3, <2>1, <2>2
        <3> HIDE DEF b
        <3>4. /\ Len(a \o b) = p + (q - 1) /\ DOMAIN (a \o b) = 1..(p + (q - 1))
              /\ \A i \in 1..(p + (q - 1)) : (a \o b)[i] = IF i <= p THEN a[i] ELSE b[i - p]
            <4>1. /\ Len(a \o b) = Len(a) + Len(b) /\ DOMAIN (a \o b) = 1..(Len(a) + Len(b))
                  /\ \A i \in 1..(Len(a) + Len(b)) :
                        (a \o b)[i] = IF i <= Len(a) THEN a[i] ELSE b[i - Len(a)]
                BY <3>1, <3>3
            <4> QED
                BY <3>3, <4>1
        <3>5. g = a \o b
            BY <2>3 DEF b
        <3> QED
            BY <3>2, <3>4, <3>5 DEF b
    <2>5. \A i \in 1..(p + q - 1) : i > p => Tail(s)[i - p] = s[i - p + 1]
        BY <1>0, <2>2
    <2> QED
        BY <1>0, <2>1, <2>4, <2>5
<1> QED
    BY <1>4 DEF p, q, x

\* An append keeps the events of the file, and all of its own unless the file
\* ended in an unfinished line; it ends as what was appended ends.
LEMMA GlueKeeps ==
    ASSUME NEW f \in Lines, NEW s \in Lines
    PROVE  /\ Ids(f) \subseteq Ids(Glue(f, s))
           /\ ~Cut(f) => Ids(s) \subseteq Ids(Glue(f, s))
           /\ OneCut(f) /\ OneCut(s) => OneCut(Glue(f, s))
           /\ IF s = <<>> THEN Glue(f, s) = f ELSE Cut(Glue(f, s)) <=> Cut(s)
<1> DEFINE p == Len(f)
           q == Len(s)
<1>0. p \in Nat /\ q \in Nat /\ DOMAIN f = 1..p /\ DOMAIN s = 1..q
    BY DEF Lines
<1> HIDE DEF p, q
<1>1. CASE s # <<>> /\ Cut(f)
    <2> DEFINE x == IF s[1] = Partial THEN Partial ELSE Torn
               g == Glue(f, s)
    <2>1. p >= 1 /\ q >= 1
        BY <1>0, <1>1 DEF Cut, Lines, p, q
    <2>2. /\ Len(g) = p + q - 1 /\ DOMAIN g = 1..(p + q - 1)
          /\ \A i \in 1..(p + q - 1) :
                g[i] = IF i < p THEN f[i] ELSE IF i = p THEN x ELSE s[i - p + 1]
        BY <1>1, GlueCut DEF p, q, x
    <2> HIDE DEF g
    <2>3. Ids(f) \subseteq Ids(g)
        <3>1. ASSUME NEW i \in DOMAIN f, f[i].id # 0 PROVE f[i].id \in Ids(g)
            <4>1. i < p
                BY <1>0, <1>1, <3>1, RecordLines DEF Cut, p
            <4>2. i \in DOMAIN g /\ g[i] = f[i]
                BY <1>0, <2>1, <2>2, <4>1
            <4> QED
                BY <3>1, <4>2 DEF Ids
        <3> QED
            BY <3>1 DEF Ids
    <2>4. ASSUME OneCut(f), OneCut(s) PROVE OneCut(g)
        <3> SUFFICES ASSUME NEW i \in 1..(Len(g) - 1) PROVE g[i] # Partial
            BY DEF OneCut, p, q
        <3>1. i \in 1..(p + q - 1) /\ i < p + q - 1
            BY <1>0, <2>2
        <3>2. CASE i < p
            <4>1. i \in 1..(p - 1) /\ g[i] = f[i]
                BY <1>0, <2>2, <3>1, <3>2
            <4> QED
                BY <2>4, <4>1 DEF OneCut, p, q
        <3>3. CASE i = p
            <4>1. 1 \in 1..(q - 1) /\ g[i] = x
                BY <1>0, <2>2, <3>1, <3>3
            <4> QED
                BY <2>4, <4>1, KindsDiffer DEF OneCut, p, q, x
        <3>4. CASE i > p
            <4>1. g[i] = s[i - p + 1]
                BY <1>0, <2>2, <3>1, <3>4
            <4>2. i - p + 1 \in 1..(q - 1)
                BY <1>0, <3>1, <3>4
            <4> QED
                BY <2>4, <4>1, <4>2 DEF OneCut, p, q
        <3> QED
            BY <1>0, <3>1, <3>2, <3>3, <3>4
    <2>5. Cut(g) <=> Cut(s)
        <3>1. Len(g) \in Nat /\ Len(g) >= 1 /\ Len(g) \in 1..(p + q - 1)
            BY <1>0, <2>1, <2>2
        <3>2. g[Len(g)] = IF q = 1 THEN x ELSE s[q]
            <4>1. CASE q = 1
                BY <1>0, <2>1, <2>2, <3>1, <4>1
            <4>2. CASE q # 1
                <5>1. Len(g) > p /\ Len(g) - p + 1 = q
                    BY <1>0, <2>1, <2>2, <4>2
                <5> QED
                    BY <1>0, <2>2, <3>1, <4>2, <5>1
            <4> QED
                BY <4>1, <4>2
        <3>3. g # <<>>
            BY <3>1
        <3> QED
            BY <1>1, <3>2, <3>3, KindsDiffer DEF Cut, x, q
    <2> QED
        BY <1>1, <2>3, <2>4, <2>5 DEF g
<1>2. CASE s = <<>>
    BY <1>2, EmptyLog DEF Glue
<1>3. CASE s # <<>> /\ ~Cut(f)
    <2> DEFINE g == f \o s
    <2>1. Glue(f, s) = g
        BY <1>3 DEF Glue, Cut
    <2>2. Ids(g) = Ids(f) \cup Ids(s)
        BY ConcatLog
    <2>3. /\ Len(g) = p + q /\ q >= 1
          /\ \A i \in 1..(p + q) : g[i] = IF i <= p THEN f[i] ELSE s[i - p]
        BY <1>0, <1>3 DEF Lines, p, q
    <2> HIDE DEF g
    <2>4. ASSUME OneCut(f), OneCut(s) PROVE OneCut(g)
        <3> SUFFICES ASSUME NEW i \in 1..(Len(g) - 1) PROVE g[i] # Partial
            BY DEF OneCut, p, q
        <3>1. i \in 1..(p + q) /\ i < p + q
            BY <1>0, <2>3
        <3>2. CASE i < p
            <4>1. i \in 1..(p - 1) /\ g[i] = f[i]
                BY <1>0, <2>3, <3>1, <3>2
            <4> QED
                BY <2>4, <4>1 DEF OneCut, p, q
        <3>3. CASE i = p
            <4>1. g[i] = f[p] /\ f # <<>>
                BY <1>0, <2>3, <3>1, <3>3
            <4> QED
                BY <1>3, <4>1 DEF Cut, p
        <3>4. CASE i > p
            <4>1. i - p \in 1..(q - 1) /\ g[i] = s[i - p]
                BY <1>0, <2>3, <3>1, <3>4
            <4> QED
                BY <2>4, <4>1 DEF OneCut, p, q
        <3> QED
            BY <1>0, <3>1, <3>2, <3>3, <3>4
    <2>5. Cut(g) <=> Cut(s)
        <3>1. Len(g) \in 1..(p + q) /\ Len(g) > p /\ Len(g) - p = q
            BY <1>0, <2>3
        <3>2. g[Len(g)] = s[q] /\ g # <<>>
            BY <1>0, <2>3, <3>1
        <3> QED
            BY <1>3, <3>2 DEF Cut, q
    <2> QED
        BY <1>3, <2>1, <2>2, <2>4, <2>5
<1> QED
    BY <1>1, <1>2, <1>3

LEMMA WholeFacts ==
    ASSUME NEW s \in Lines, Whole(s)
    PROVE  OneCut(s) /\ ~Cut(s)
<1>1. DOMAIN s = 1..Len(s) /\ Len(s) \in Nat
    BY DEF Lines
<1>2. \A i \in 1..(Len(s) - 1) : i \in DOMAIN s
    BY <1>1
<1>3. s # <<>> => Len(s) \in DOMAIN s
    BY <1>1 DEF Lines
<1> QED
    BY <1>2, <1>3 DEF Whole, OneCut, Cut

LEMMA WholeConcat ==
    ASSUME NEW s \in Lines, NEW t \in Lines, Whole(s), Whole(t)
    PROVE  Whole(s \o t)
<1>1. \A i \in DOMAIN (s \o t) : \/ i \in DOMAIN s /\ (s \o t)[i] = s[i]
                                 \/ i - Len(s) \in DOMAIN t /\ (s \o t)[i] = t[i - Len(s)]
    BY DEF Lines
<1> QED
    BY <1>1 DEF Whole

LEMMA WholeBatches ==
    ASSUME NEW c \in Batches, AllWhole(c)
    PROVE  /\ \A s \in Lines : Whole(s) => AllWhole(Append(c, s))
           /\ c # <<>> => Whole(Head(c)) /\ AllWhole(Tail(c))
<1>1. ASSUME NEW s \in Lines, Whole(s) PROVE AllWhole(Append(c, s))
    <2>1. \A i \in DOMAIN Append(c, s) : Append(c, s)[i] = s
                                         \/ (i \in DOMAIN c /\ Append(c, s)[i] = c[i])
        BY DEF Batches
    <2> QED
        BY <1>1, <2>1 DEF AllWhole
<1>2. ASSUME c # <<>> PROVE Whole(Head(c)) /\ AllWhole(Tail(c))
    BY <1>2, TailBatches DEF AllWhole
<1> QED
    BY <1>1, <1>2

\* A write cut short leaves at most its last line unfinished.
LEMMA PartsCut ==
    ASSUME NEW s \in Lines, Whole(s), NEW t \in PartsOf(s)
    PROVE  OneCut(t)
<1>1. PICK n \in 0..(Len(s) - 1) : t \in {SubSeq(s, 1, n), SubSeq(s, 1, n) \o <<Partial>>}
    BY DEF PartsOf
<1> DEFINE u == SubSeq(s, 1, n)
<1>2. Len(s) \in Nat /\ n \in Nat /\ n <= Len(s)
    BY <1>1 DEF Lines
<1>3. u \in Lines /\ Len(u) = n /\ Whole(u)
    BY <1>2 DEF Lines, Whole
<1> HIDE DEF u
<1>4. CASE t = u
    BY <1>3, <1>4, WholeFacts
<1>5. CASE t = u \o <<Partial>>
    <2>1. Len(t) = n + 1 /\ \A i \in 1..n : t[i] = u[i] /\ i \in DOMAIN u
        BY <1>2, <1>3, <1>5, RecordLines DEF Lines
    <2>2. Len(t) - 1 = n
        BY <1>2, <2>1
    <2> QED
        BY <1>3, <2>1, <2>2 DEF OneCut, Whole
<1> QED
    BY <1>1, <1>4, <1>5 DEF u

\* What Copy keeps ends in an unfinished line only if it is all of the file.
LEMMA KeptCut ==
    ASSUME NEW f \in Lines, OneCut(f), NEW n \in 0..Len(f)
    PROVE  LET kept == SubSeq(f, 1, n) \o Malformed(SubSeq(f, n + 1, Len(f)))
           IN  OneCut(kept) /\ (Cut(kept) => n = Len(f) /\ Cut(f))
<1> DEFINE s == SubSeq(f, 1, n)
           t == SubSeq(f, n + 1, Len(f))
<1>1. Len(f) \in Nat
    BY DEF Lines
<1>2. 1 \in 1..(Len(f) + 1) /\ n + 1 \in 1..(Len(f) + 1) /\ Len(f) \in 0..Len(f)
    BY <1>1
<1>3. s \in Lines /\ t \in Lines
    BY <1>2, PartLog
<1>4. CASE n < Len(f)
    <2>1. \A i \in DOMAIN s : i \in 1..(Len(f) - 1) /\ s[i] = f[i]
        BY <1>1, <1>4 DEF Lines
    <2> HIDE DEF s, t
    <2>2. Whole(s)
        BY <2>1 DEF Whole, OneCut
    <2>3. Malformed(t) \in Lines /\ Whole(Malformed(t))
        BY <1>3, MalformedLog, KindsDiffer DEF Malformed, Whole
    <2>4. Whole(s \o Malformed(t)) /\ s \o Malformed(t) \in Lines
        BY <1>3, <2>2, <2>3, WholeConcat, ConcatLog
    <2> QED
        BY <2>4, WholeFacts DEF s, t
<1>5. CASE n = Len(f)
    <2>1. s = f
        BY <1>5 DEF Lines
    <2>2. t = <<>>
        BY <1>1, <1>5 DEF Lines
    <2> HIDE DEF s, t
    <2>3. {j \in DOMAIN t : t[j] \in {Torn, Partial}} = {}
        BY <2>2
    <2>4. Malformed(t) = <<>>
        <3>1. Cardinality({}) = 0
            BY FS_EmptySet
        <3>2. Malformed(t) = [i \in 1..0 |-> Torn]
            BY <2>3, <3>1 DEF Malformed
        <3>3. Malformed(t) \in Lines /\ DOMAIN Malformed(t) = 1..0
            BY <1>3, <3>2, MalformedLog
        <3> QED
            BY <3>3 DEF Lines
    <2>5. s \o Malformed(t) = f
        BY <2>1, <2>4 DEF Lines
    <2> QED
        BY <1>5, <2>5 DEF s, t
<1> QED
    BY <1>1, <1>4, <1>5

\* The start record takes its own place, or that of the first line and a new one.
LEMMA OverShape ==
    ASSUME NEW f \in Lines, f # <<>>
    PROVE  LET g == Over(f[1]) \o Tail(f)
               p == Len(f)
               x == IF f[1] = Partial THEN Partial ELSE Torn
           IN  IF f[1] = Start
               THEN Len(g) = p /\ \A i \in 1..p : g[i] = f[i]
               ELSE /\ Len(g) = p + 1
                    /\ \A i \in 1..(p + 1) :
                          g[i] = IF i = 1 THEN Start ELSE IF i = 2 THEN x ELSE f[i - 1]
<1> DEFINE g == Over(f[1]) \o Tail(f)
           p == Len(f)
<1>1. p \in Nat /\ p >= 1 /\ Tail(f) \in Lines /\ Len(Tail(f)) = p - 1
      /\ \A i \in 1..(p - 1) : Tail(f)[i] = f[i + 1]
    BY DEF Lines
<1> HIDE DEF p
<1>2. CASE f[1] = Start
    <2>1. g = <<Start>> \o Tail(f)
        BY <1>2 DEF Over
    <2>2. Len(g) = p /\ \A i \in 1..p : g[i] = IF i = 1 THEN Start ELSE f[i]
        <3>1. \A d \in Lines : /\ Len(<<Start>> \o d) = 1 + Len(d)
                               /\ \A i \in 1..(1 + Len(d)) :
                                     (<<Start>> \o d)[i] = IF i = 1 THEN Start ELSE d[i - 1]
            BY DEF Lines
        <3>2. Len(g) = 1 + (p - 1)
              /\ \A i \in 1..(1 + (p - 1)) : g[i] = IF i = 1 THEN Start ELSE Tail(f)[i - 1]
            BY <1>1, <2>1, <3>1
        <3>3. 1 + (p - 1) = p /\ \A i \in 1..p : i # 1 => i - 1 \in 1..(p - 1) /\ (i - 1) + 1 = i
            BY <1>1
        <3> QED
            BY <1>1, <3>2, <3>3
    <2> HIDE DEF g
    <2>3. Len(g) = p /\ \A i \in 1..p : g[i] = f[i]
        BY <1>2, <2>2
    <2> QED
        BY <1>2, <2>3 DEF g, p
<1>3. CASE f[1] # Start
    <2> DEFINE x == IF f[1] = Partial THEN Partial ELSE Torn
    <2>1. g = <<Start, x>> \o Tail(f) /\ x \in Line
        BY <1>3, RecordLines DEF Over
    <2>2. Len(g) = p + 1 /\ \A i \in 1..(p + 1) : g[i] = IF i = 1 THEN Start ELSE IF i = 2 THEN x ELSE f[i - 1]
        <3> HIDE DEF x
        <3>1. \A d \in Lines : /\ Len(<<Start, x>> \o d) = 2 + Len(d)
                               /\ \A i \in 1..(2 + Len(d)) :
                                     (<<Start, x>> \o d)[i] = IF i = 1 THEN Start ELSE IF i = 2 THEN x ELSE d[i - 2]
            BY DEF Lines
        <3>2. Len(g) = 2 + (p - 1)
              /\ \A i \in 1..(2 + (p - 1)) : g[i] = IF i = 1 THEN Start ELSE IF i = 2 THEN x ELSE Tail(f)[i - 2]
            BY <1>1, <2>1, <3>1
        <3>3. 2 + (p - 1) = p + 1
              /\ \A i \in 1..(p + 1) : i # 1 /\ i # 2 => i - 2 \in 1..(p - 1) /\ (i - 2) + 1 = i - 1
            BY <1>1
        <3> QED
            BY <1>1, <3>2, <3>3
    <2> QED
        BY <1>3, <2>2 DEF g, p
<1> QED
    BY <1>2, <1>3

\* The start record over a file that ends in a whole line leaves it so.
LEMMA OverCut ==
    ASSUME NEW f \in Lines, f # <<>>, OneCut(f)
    PROVE  LET g == Over(f[1]) \o Tail(f)
           IN  OneCut(g) /\ (Cut(g) => Cut(f))
<1> DEFINE g == Over(f[1]) \o Tail(f)
           p == Len(f)
<1>1. p \in Nat /\ p >= 1
    BY DEF Lines
<1> HIDE DEF p
<1>2. CASE f[1] = Start
    <2>1. Len(g) = p /\ \A i \in 1..p : g[i] = f[i]
        BY <1>2, OverShape DEF p
    <2> HIDE DEF g
    <2>2. g # <<>>
        BY <1>1, <2>1
    <2>3. p \in 1..p /\ \A i \in 1..(p - 1) : i \in 1..p
        BY <1>1
    <2>4. OneCut(g) /\ (Cut(g) => Cut(f))
        BY <2>1, <2>3 DEF OneCut, Cut, p
    <2> QED
        BY <2>4 DEF g
<1>3. CASE f[1] # Start
    <2> DEFINE x == IF f[1] = Partial THEN Partial ELSE Torn
    <2>1. Len(g) = p + 1 /\ \A i \in 1..(p + 1) : g[i] = IF i = 1 THEN Start ELSE IF i = 2 THEN x ELSE f[i - 1]
        BY <1>3, OverShape DEF p
    <2> HIDE DEF g
    <2>2. ASSUME f[1] = Partial PROVE p = 1
        <3>1. 1 \notin 1..(p - 1)
            BY <2>2 DEF OneCut, p
        <3> QED
            BY <1>1, <3>1
    <2>3. OneCut(g)
        <3> SUFFICES ASSUME NEW i \in 1..p PROVE g[i] # Partial
            <4>1. Len(g) - 1 = p
                BY <1>1, <2>1
            <4> QED
                BY <4>1 DEF OneCut
        <3>1. i \in 1..(p + 1)
            BY <1>1
        <3>2. CASE i = 1
            BY <2>1, <3>1, <3>2, KindsDiffer
        <3>3. CASE i = 2
            <4>1. f[1] # Partial
                BY <2>2, <3>3
            <4> QED
                BY <2>1, <3>1, <3>3, <4>1, KindsDiffer
        <3>4. CASE i # 1 /\ i # 2
            <4>1. i - 1 \in 1..(p - 1) /\ g[i] = f[i - 1]
                BY <1>1, <2>1, <3>1, <3>4
            <4> QED
                BY <4>1 DEF OneCut, p
        <3> QED
            BY <3>2, <3>3, <3>4
    <2>4. ASSUME Cut(g) PROVE Cut(f)
        <3>1. p + 1 \in 1..(p + 1) /\ p + 1 # 1 /\ g[p + 1] = Partial
            BY <1>1, <2>1, <2>4 DEF Cut
        <3>2. CASE p = 1
            BY <2>1, <3>1, <3>2, KindsDiffer DEF Cut, p
        <3>3. CASE p # 1
            <4>1. g[p + 1] = f[p]
                BY <1>1, <2>1, <3>1, <3>3
            <4> QED
                BY <3>1, <4>1 DEF Cut, p
        <3> QED
            BY <3>2, <3>3
    <2> QED
        BY <2>3, <2>4 DEF g
<1> QED
    BY <1>2, <1>3

-----------------------------------------------------------------------------
(* What each step makes of them *)

LEMMA KeptEnter ==
    ASSUME NEW c \in Batches, NEW b \in Lines, NEW w \in Batches, NEW i, Kept(c, b, w, i),
           NEW s \in Lines, Whole(s)
    PROVE  Kept(IF i = "none" THEN Append(c, <<Start>>) ELSE c, b, Append(w, s),
                IF i = "none" THEN "pending" ELSE i)
<1>1. AllWhole(Append(w, s))
    BY WholeBatches DEF Kept
<1>2. CASE i = "none"
    <2>1. c = <<>> /\ Append(c, <<Start>>) = <<<<Start>>>>
        BY <1>2 DEF Kept, Batches
    <2>2. AllWhole(<<<<Start>>>>)
        BY KindsDiffer DEF AllWhole, Whole
    <2> QED
        BY <1>1, <1>2, <2>1, <2>2 DEF Kept
<1>3. CASE i # "none"
    BY <1>1, <1>3 DEF Kept
<1> QED
    BY <1>2, <1>3

LEMMA KeptSend ==
    ASSUME NEW c \in Batches, NEW b \in Lines, NEW w, NEW i, Kept(c, b, w, i)
    PROVE  Kept(IF b = <<>> THEN c ELSE Append(c, b), <<>>, w, i)
<1>1. Whole(<<>>)
    BY DEF Whole
<1>2. b # <<>> => i = "done" /\ AllWhole(Append(c, b))
    BY WholeBatches DEF Kept
<1>3. \/ i # "done" /\ b = <<>>
      \/ i = "done"
    BY DEF Kept
<1> QED
    BY <1>1, <1>2, <1>3 DEF Kept

LEMMA KeptPush ==
    ASSUME NEW c \in Batches, NEW b \in Lines, NEW w \in Batches, Kept(c, b, w, "done"), w # <<>>
    PROVE  Kept(c, b \o Head(w), Tail(w), "done")
<1>1. Head(w) \in Lines /\ Whole(Head(w)) /\ AllWhole(Tail(w))
    BY TailBatches, WholeBatches DEF Kept
<1>2. Whole(b \o Head(w))
    BY <1>1, WholeConcat DEF Kept
<1> QED
    BY <1>1, <1>2 DEF Kept

LEMMA KeptSettle ==
    ASSUME NEW c \in Batches, NEW b \in Lines, NEW w \in Batches, NEW i, Kept(c, b, w, i),
           i \in {"none", "pending", "done"}, c # <<>>
    PROVE  /\ Kept(Tail(c), b, w, IF i = "pending" THEN "done" ELSE i)
           /\ i \in {"pending", "done"} /\ Whole(Head(c))
           /\ i = "pending" => Head(c) = <<Start>>
<1>1. i \in {"pending", "done"}
    BY DEF Kept
<1>2. Whole(Head(c)) /\ AllWhole(Tail(c))
    BY WholeBatches DEF Kept
<1>3. i = "pending" => Head(c) = <<Start>>
    BY DEF Kept
<1> QED
    BY <1>1, <1>2, <1>3 DEF Kept

\* Steps that leave the file, and the rewind and the clear under way, alone.
LEMMA SameFile ==
    ASSUME XInv, UNCHANGED <<file, cutter, wiper, erred>>, init' = "done" => init = "done"
    PROVE  Mended'
BY DEF XInv, Mended

LEMMA GuardsStay ==
    ASSUME XInv, UNCHANGED <<file, handle, cutter, closer>>, erred => erred',
           init' = "pending" => init = "pending" \/ closer.at = "idle"
    PROVE  Guarded'
BY DEF XInv, Guarded

LEMMA AppendCallX ==
    ASSUME SInv, XInv, NEW s \in Lines, Whole(s), AppendCall(s)
    PROVE  XInv'
<1>1. /\ Enter(s) /\ closer.at = "idle" /\ buffer' = buffer
      /\ UNCHANGED <<handle, file, flusher, closer, cutter, wiper, erred>>
    BY DEF AppendCall, calls
<1>2. Kept(chain', buffer', waiting', init')
    BY <1>1, KeptEnter DEF Enter, SInv, Shapes, XInv
<1>3. init' = "done" => init = "done"
    BY <1>1 DEF Enter
<1> QED
    BY <1>1, <1>2, <1>3, SameFile, GuardsStay DEF XInv

LEMMA AppendOneX == ASSUME SInv, XInv, AppendOne PROVE XInv'
<1>1. PICK k \in {"plain", "checkpoint"}, p \in Prompts \cup {0} :
          AppendCall(<<Event(called + 1, k, p)>>)
    BY DEF AppendOne
<1> DEFINE s == <<Event(called + 1, k, p)>>
<1>2. Len(s) = 1
    OBVIOUS
<1>3. called \in Nat /\ called < MaxId
    BY <1>1, <1>2, SessionAssumption DEF AppendCall, SInv, Shapes, MaxId
<1>4. s \in Lines
    BY <1>3, OneEvent
<1>5. Whole(s)
    BY DEF Whole, Event, Partial
<1> HIDE DEF s
<1> QED
    BY <1>1, <1>4, <1>5, AppendCallX DEF s

LEMMA AppendBatchX == ASSUME SInv, XInv, AppendBatch PROVE XInv'
<1>1. PICK m \in 2..MaxBatch : AppendCall([i \in 1..m |-> Event(called + i, "plain", 0)])
    BY DEF AppendBatch
<1> DEFINE s == [i \in 1..m |-> Event(called + i, "plain", 0)]
<1>2. Len(s) = m /\ m \in Nat /\ m > 0
    BY SessionAssumption
<1>3. called \in Nat /\ called + m <= MaxId
    BY <1>1, <1>2, SessionAssumption DEF AppendCall, SInv, Shapes, MaxId
<1>4. s \in Lines
    BY <1>2, <1>3, SomeEvents
<1>5. Whole(s)
    BY DEF Whole, Event, Partial
<1> HIDE DEF s
<1> QED
    BY <1>1, <1>4, <1>5, AppendCallX DEF s

LEMMA PushX == ASSUME SInv, XInv, Push PROVE XInv'
<1> DEFINE full == buffer \o Head(waiting)
<1>1. /\ init = "done" /\ init' = init /\ waiting # <<>> /\ waiting' = Tail(waiting)
      /\ UNCHANGED <<handle, file, flusher, closer, cutter, wiper, erred>>
      /\ \/ chain' = Append(chain, full) /\ buffer' = <<>>
         \/ chain' = chain /\ buffer' = full
    BY DEF Push, calls
<1>2. Kept(chain, full, Tail(waiting), init)
    BY <1>1, KeptPush DEF SInv, Shapes, XInv
<1>3. full \in Lines /\ full # <<>>
    <2>1. Head(waiting) \in Lines /\ Head(waiting) # <<>>
        BY <1>1, TailBatches DEF SInv, Shapes
    <2>2. Len(full) = Len(buffer) + Len(Head(waiting)) /\ Len(buffer) >= 0 /\ Len(Head(waiting)) > 0
        BY <2>1 DEF SInv, Shapes, Lines
    <2>3. Len(full) # 0
        BY <2>1, <2>2 DEF SInv, Shapes, Lines
    <2> QED
        BY <2>1, <2>3, ConcatLog DEF SInv, Shapes
<1> HIDE DEF full
<1>4. Kept(chain', buffer', waiting', init')
    BY <1>1, <1>2, <1>3, KeptSend DEF SInv, Shapes
<1> QED
    BY <1>1, <1>4, SameFile, GuardsStay DEF XInv

LEMMA SendKept ==
    ASSUME SInv, XInv, FlushBuffer, UNCHANGED <<waiting, init>>
    PROVE  Kept(chain', buffer', waiting', init')
BY KeptSend DEF FlushBuffer, SInv, Shapes, XInv

LEMMA TimerX == ASSUME SInv, XInv, TimerFires PROVE XInv'
<1>1. FlushBuffer /\ UNCHANGED <<waiting, init, handle, file, flusher, closer, cutter, wiper, erred>>
    BY DEF TimerFires, calls
<1> QED
    BY <1>1, SendKept, SameFile, GuardsStay DEF XInv

LEMMA FlushX == ASSUME SInv, XInv, Flush PROVE XInv'
<1>1. FlushBuffer /\ UNCHANGED <<waiting, init, handle, file, closer, cutter, wiper, erred>>
    BY DEF Flush
<1> QED
    BY <1>1, SendKept, SameFile, GuardsStay DEF XInv

LEMMA CloseX == ASSUME SInv, XInv, Close PROVE XInv'
<1>1. /\ FlushBuffer /\ closer.at = "idle" /\ closer'.at = "flush"
      /\ UNCHANGED <<waiting, init, handle, file, cutter, wiper, erred>>
    BY DEF Close, SInv, Callers
<1>2. Guarded'
    BY <1>1 DEF XInv, Guarded
<1> QED
    BY <1>1, <1>2, SendKept, SameFile DEF XInv

LEMMA TruncateX ==
    ASSUME SInv, XInv, NEW t \in Prompts \cup {0}, Truncate(t)
    PROVE  XInv'
<1>1. /\ FlushBuffer /\ cutter.at = "idle" /\ cutter'.at = "flush"
      /\ UNCHANGED <<waiting, init, handle, file, closer, wiper, erred>>
    BY DEF Truncate, SInv, Callers
<1>2. Guarded' /\ Mended'
    BY <1>1 DEF XInv, Guarded, Mended
<1> QED
    BY <1>1, <1>2, SendKept DEF XInv

LEMMA FlushReturnsX == ASSUME SInv, XInv, FlushReturns PROVE XInv'
<1>1. UNCHANGED <<waiting, init, buffer, chain, handle, file, closer, cutter, wiper, erred>>
    BY DEF FlushReturns, memory
<1> QED
    BY <1>1, SameFile, GuardsStay DEF XInv

LEMMA CloseGoesOnX == ASSUME SInv, XInv, CloseGoesOn PROVE XInv'
<1>1. UNCHANGED <<waiting, init, buffer, chain, file, cutter, wiper, erred>>
    BY DEF CloseGoesOn, memory
<1>2. \/ closer'.at = "drain" /\ closer'.left = Len(chain) /\ handle' = handle /\ closer.at = "flush"
      \/ closer.at = "drain" /\ closer.left = 0 /\ closer'.at = "sidecar" /\ handle' = handle
      \/ closer.at = "sidecar" /\ closer'.at = "index" /\ handle' = handle
      \/ closer.at = "index" /\ closer'.at = "closed" /\ handle' = "closed"
    BY DEF CloseGoesOn, At, SInv, Callers
<1>3. init = "pending" => Len(chain) = 1
    BY DEF XInv, Kept
<1>4. Guarded'
    BY <1>1, <1>2, <1>3 DEF XInv, Guarded
<1> QED
    BY <1>1, <1>4, SameFile DEF XInv

LEMMA CutDrainsX == ASSUME SInv, XInv, CutDrains PROVE XInv'
<1>1. /\ cutter.at = "flush" /\ cutter'.at = "drain"
      /\ UNCHANGED <<waiting, init, buffer, chain, handle, file, closer, wiper, erred>>
    BY DEF CutDrains, At, memory, SInv, Callers
<1> QED
    BY <1>1 DEF XInv, Guarded, Mended

\* The scan never stops at an unfinished line.
LEMMA ScanX == ASSUME SInv, XInv, Scan PROVE XInv'
<1>1. /\ cutter.at = "drain"
      /\ UNCHANGED <<waiting, init, buffer, chain, handle, file, closer, wiper, erred>>
    BY DEF Scan, At, memory
<1>2. \/ cutter'.at = "idle"
      \/ /\ cutter'.at = "redrain" /\ cutter'.keep \in DOMAIN file
         /\ file[cutter'.keep].k = "checkpoint"
    <2>1. PICK split \in Splits :
              \/ Stops(split) = {} /\ cutter' = NoCut
              \/ \E first \in Stops(split) :
                    cutter' = [cutter EXCEPT !.at = "redrain", !.left = Len(chain),
                                             !.keep = first, !.stop = file[first].id]
        BY DEF Scan
    <2>2. CASE cutter' = NoCut
        BY <2>2 DEF NoCut
    <2>3. CASE cutter' # NoCut
        <3>1. PICK first \in Stops(split) :
                  cutter' = [cutter EXCEPT !.at = "redrain", !.left = Len(chain),
                                           !.keep = first, !.stop = file[first].id]
            BY <2>1, <2>3
        <3>2. cutter'.at = "redrain" /\ cutter'.keep = first
            BY <3>1 DEF SInv, Callers
        <3> QED
            BY <3>2 DEF Stops
    <2> QED
        BY <2>2, <2>3
<1>3. cutter'.at = "redrain" /\ Cut(file) => cutter'.keep < Len(file)
    <2> SUFFICES ASSUME cutter'.at = "redrain", Cut(file) PROVE cutter'.keep < Len(file)
        OBVIOUS
    <2>1. cutter'.keep \in 1..Len(file) /\ Len(file) \in Nat
        BY <1>2 DEF SInv, Shapes, Lines
    <2>2. file[cutter'.keep] # Partial /\ file[Len(file)] = Partial
        BY <1>2, KindsDiffer DEF Cut
    <2>3. cutter'.keep # Len(file)
        BY <2>2
    <2> QED
        BY <2>1, <2>3
<1>4. Guarded'
    BY <1>1, <1>2 DEF XInv, Guarded
<1>5. Mended'
    BY <1>1, <1>2, <1>3 DEF XInv, Mended
<1> QED
    BY <1>1, <1>4, <1>5 DEF XInv

LEMMA CutClosesX == ASSUME SInv, XInv, CutCloses PROVE XInv'
<1>1. /\ cutter.at = "redrain" /\ cutter'.at = "copy" /\ cutter'.keep = cutter.keep
      /\ UNCHANGED <<waiting, init, buffer, chain, file, closer, wiper, erred>>
    BY DEF CutCloses, At, memory, SInv, Callers
<1> QED
    BY <1>1 DEF XInv, Guarded, Mended

\* The scan stopped before the unfinished line, so the copy does not end in it.
LEMMA CopyX == ASSUME SInv, XInv, Copy PROVE XInv'
<1> DEFINE n == Min({cutter.keep, Len(file)})
           kept == SubSeq(file, 1, n) \o Malformed(SubSeq(file, n + 1, Len(file)))
<1>1. /\ cutter.at = "copy" /\ cutter' = [cutter EXCEPT !.at = "rename", !.kept = kept]
      /\ UNCHANGED <<waiting, init, buffer, chain, handle, file, closer, wiper, erred>>
    BY DEF Copy, memory
<1>2. n \in 0..Len(file) /\ n <= cutter.keep /\ cutter.keep \in Nat /\ Len(file) \in Nat
    <2>1. cutter.keep \in Nat /\ Len(file) \in Nat
        BY DEF SInv, Shapes, Callers, Lines
    <2>2. \E x \in {cutter.keep, Len(file)} : \A y \in {cutter.keep, Len(file)} : x <= y
        BY <2>1
    <2>3. n \in {cutter.keep, Len(file)} /\ n <= Len(file) /\ n <= cutter.keep
        BY <2>2 DEF Min
    <2> QED
        BY <2>1, <2>3
<1>3. OneCut(kept) /\ (Cut(kept) => n = Len(file) /\ Cut(file))
    <2> HIDE DEF n
    <2> QED
        BY <1>2, KeptCut DEF SInv, Shapes, XInv, Guarded
<1> HIDE DEF n, kept
<1>4. ~erred => ~Cut(kept)
    BY <1>1, <1>2, <1>3 DEF XInv, Mended
<1>5. cutter'.at = "rename" /\ cutter'.kept = kept
    BY <1>1 DEF SInv, Callers
<1>6. Guarded'
    BY <1>1, <1>3, <1>5 DEF XInv, Guarded
<1>7. Mended'
    BY <1>1, <1>4, <1>5 DEF XInv, Mended
<1> QED
    BY <1>1, <1>6, <1>7 DEF XInv

LEMMA RenameX == ASSUME SInv, XInv, Rename PROVE XInv'
<1> DEFINE s == <<Event(called + 1, "rewound", 0)>>
<1>1. /\ cutter.at = "rename" /\ file' = cutter.kept /\ handle' = "open" /\ cutter'.at = "idle"
      /\ UNCHANGED <<buffer, closer, erred>>
    BY DEF Rename, NoCut
<1>2. /\ Kept(chain', buffer', waiting', init')
      /\ init' = "pending" => init = "pending" \/ closer.at = "idle"
    <2>1. CASE closer.at = "idle"
        <3>1. Enter(s)
            BY <2>1 DEF Rename
        <3>2. called \in Nat /\ called < MaxId
            BY <1>1, SessionAssumption DEF SInv, Shapes, MaxId
        <3>3. s \in Lines
            BY <3>2, OneEvent
        <3>4. Whole(s)
            BY DEF Whole, Event, Partial
        <3> HIDE DEF s
        <3> QED
            BY <1>1, <2>1, <3>1, <3>3, <3>4, KeptEnter DEF Enter, SInv, Shapes, XInv
    <2>2. CASE closer.at # "idle"
        BY <1>1, <2>2 DEF Rename, XInv
    <2> QED
        BY <2>1, <2>2
<1>3. Guarded'
    BY <1>1, <1>2 DEF XInv, Guarded
<1>4. Mended'
    BY <1>1 DEF XInv, Mended
<1> QED
    BY <1>2, <1>3, <1>4 DEF XInv

LEMMA CutFailsX == ASSUME SInv, XInv, CutFails PROVE XInv'
<1>1. /\ cutter'.at = "idle" /\ erred'
      /\ UNCHANGED <<waiting, init, buffer, chain, file, closer>>
    BY DEF CutFails, NoCut, memory
<1> QED
    BY <1>1 DEF XInv, Guarded, Mended

LEMMA ClearX == ASSUME SInv, XInv, Clear PROVE XInv'
<1>1. /\ buffer' = <<>> /\ wiper'.at = "drain"
      /\ UNCHANGED <<waiting, init, chain, handle, file, closer, cutter, erred>>
    BY DEF Clear
<1>2. Kept(chain', buffer', waiting', init')
    BY <1>1 DEF XInv, Kept, Whole
<1>3. Guarded' /\ Mended'
    BY <1>1 DEF XInv, Guarded, Mended
<1> QED
    BY <1>2, <1>3 DEF XInv

LEMMA WipeOpensX == ASSUME SInv, XInv, WipeOpens PROVE XInv'
<1>1. /\ file' = <<>>
      /\ UNCHANGED <<waiting, init, buffer, chain, handle, closer, cutter, erred>>
    BY DEF WipeOpens, memory
<1>2. OneCut(file') /\ ~Cut(file')
    <2>1. Whole(<<>>)
        BY DEF Whole
    <2> QED
        BY <1>1, <2>1, EmptyLog, WholeFacts
<1> QED
    BY <1>1, <1>2 DEF XInv, Guarded, Mended

LEMMA WipeWritesX == ASSUME SInv, XInv, WipeWrites PROVE XInv'
<1>1. /\ wiper.at = "record" /\ wiper'.at = "idle"
      /\ UNCHANGED <<waiting, init, buffer, chain, handle, closer, cutter, erred>>
    BY DEF WipeWrites, NoWipe, memory
<1>2. OneCut(file') /\ (Cut(file') => Cut(file))
    <2>1. CASE file = <<>> /\ file' = <<Start>>
        <3>1. Whole(file') /\ file' \in Lines
            BY <2>1, KindsDiffer, RecordLines, NoEvent DEF Whole
        <3> QED
            BY <3>1, WholeFacts
    <2>2. CASE file # <<>> /\ file' = Over(file[1]) \o Tail(file)
        BY <2>2, OverCut DEF SInv, Shapes, XInv, Guarded
    <2> QED
        BY <2>1, <2>2 DEF WipeWrites
<1>3. ~erred => ~Cut(file')
    BY <1>1, <1>2 DEF XInv, Mended
<1>4. Guarded'
    BY <1>1, <1>2 DEF XInv, Guarded
<1>5. Mended'
    BY <1>1, <1>3 DEF XInv, Mended
<1> QED
    BY <1>1, <1>4, <1>5 DEF XInv

LEMMA WipeFailsX == ASSUME SInv, XInv, WipeFails PROVE XInv'
<1>1. erred' /\ UNCHANGED <<waiting, init, buffer, chain, handle, file, closer, cutter>>
    BY DEF WipeFails, memory
<1> QED
    BY <1>1 DEF XInv, Guarded, Mended

\* A write settles: the calls under way stay where they are.
LEMMA SettleX ==
    ASSUME SInv, XInv, chain # <<>>, NEW s \in Lines, Settle(s), OneCut(s),
           erred => erred',
           \/ erred'
           \/ Whole(s) /\ (init = "pending" => s = <<Start>>)
           \/ s = <<>> /\ handle = "closed"
    PROVE  XInv'
<1>1. /\ file' = Glue(file, s) /\ chain' = Tail(chain)
      /\ init' = IF init = "pending" THEN "done" ELSE init
      /\ closer' = OneLess(closer) /\ cutter' = OneLess(cutter) /\ wiper' = OneLess(wiper)
      /\ UNCHANGED <<waiting, buffer, handle>>
    BY DEF Settle
<1>2. /\ closer'.at = closer.at /\ wiper'.at = wiper.at
      /\ cutter'.at = cutter.at /\ cutter'.kept = cutter.kept /\ cutter'.keep = cutter.keep
    BY <1>1 DEF SInv, Callers, OneLess
<1>3. /\ Kept(chain', buffer', waiting', init')
      /\ init \in {"pending", "done"} /\ init' = "done"
    BY <1>1, KeptSettle DEF SInv, Shapes, XInv
<1>4. /\ OneCut(file')
      /\ IF s = <<>> THEN file' = file ELSE Cut(file') <=> Cut(s)
    BY <1>1, GlueKeeps DEF SInv, Shapes, XInv, Guarded
<1>5. Guarded'
    BY <1>1, <1>2, <1>3, <1>4 DEF XInv, Guarded
<1>6. Mended'
    <2>1. CASE erred'
        BY <2>1 DEF Mended
    <2>2. CASE ~erred' /\ s # <<>>
        <3>1. ~Cut(file')
            BY <1>4, <2>2, WholeFacts
        <3> QED
            BY <1>2, <2>2, <3>1 DEF XInv, Mended
    <2>3. CASE ~erred' /\ s = <<>> /\ init = "done"
        BY <1>2, <1>3, <1>4, <2>3 DEF XInv, Mended
    <2>4. CASE ~erred' /\ s = <<>> /\ init = "pending"
        <3>1. handle = "closed"
            BY <2>4
        <3>2. cutter.at \in {"copy", "rename"}
            BY <2>4, <3>1 DEF XInv, Guarded
        <3> QED
            BY <1>2, <1>4, <2>4, <3>2 DEF XInv, Mended
    <2> QED
        BY <1>3, <2>1, <2>2, <2>3, <2>4
<1> QED
    BY <1>3, <1>5, <1>6 DEF XInv

LEMMA HeadFacts ==
    ASSUME SInv, XInv, chain # <<>>
    PROVE  /\ Head(chain) \in Lines /\ Whole(Head(chain))
           /\ init \in {"pending", "done"}
           /\ init = "pending" => Head(chain) = <<Start>>
<1>1. Head(chain) \in Lines
    BY TailBatches DEF SInv, Shapes
<1> QED
    BY <1>1, KeptSettle DEF SInv, Shapes, XInv

LEMMA WriteDoneX == ASSUME SInv, XInv, WriteDone PROVE XInv'
<1>1. chain # <<>> /\ Settle(Head(chain)) /\ erred' = erred
    BY DEF WriteDone
<1>2. /\ Head(chain) \in Lines /\ Whole(Head(chain))
      /\ init = "pending" => Head(chain) = <<Start>>
    BY <1>1, HeadFacts
<1>3. OneCut(Head(chain))
    BY <1>2, WholeFacts
<1> QED
    BY <1>1, <1>2, <1>3, SettleX

LEMMA WriteFailsX == ASSUME SInv, XInv, WriteFails PROVE XInv'
<1>1. chain # <<>>
    BY DEF WriteFails
<1>2. Head(chain) \in Lines /\ Whole(Head(chain))
    BY <1>1, HeadFacts
<1>3. CASE handle = "closed" /\ Settle(<<>>) /\ erred' = erred
    <2>1. Whole(<<>>)
        BY DEF Whole
    <2>2. <<>> \in Lines /\ OneCut(<<>>)
        BY <2>1, EmptyLog, WholeFacts
    <2> QED
        BY <1>1, <1>3, <2>2, SettleX
<1>4. CASE erred' /\ \E s \in PartsOf(Head(chain)) : Settle(s)
    <2>1. PICK s \in PartsOf(Head(chain)) : Settle(s)
        BY <1>4
    <2>2. s \in Lines /\ OneCut(s)
        BY <1>2, PartsLog, PartsCut
    <2> QED
        BY <1>1, <1>4, <2>1, <2>2, SettleX
<1> QED
    BY <1>3, <1>4 DEF WriteFails

LEMMA CrashX == ASSUME SInv, XInv, CrashAndResume PROVE XInv'
<1>1. /\ waiting' = <<>> /\ init' = "none" /\ buffer' = <<>> /\ chain' = <<>> /\ handle' = "open"
      /\ closer' = NoClose /\ cutter' = NoCut /\ wiper' = NoWipe
    BY DEF CrashAndResume
<1>2. PICK s \in (IF chain = <<>> \/ handle = "closed" THEN {<<>>}
                  ELSE PartsOf(Head(chain)) \cup {Head(chain)}) : file' = Glue(file, s)
    BY DEF CrashAndResume
<1>3. s \in Lines /\ OneCut(s)
    <2>1. CASE s = <<>>
        <3>1. Whole(<<>>)
            BY DEF Whole
        <3> QED
            BY <2>1, <3>1, EmptyLog, WholeFacts
    <2>2. CASE s # <<>>
        <3>1. chain # <<>> /\ s \in PartsOf(Head(chain)) \cup {Head(chain)}
            BY <1>2, <2>2
        <3>2. Head(chain) \in Lines /\ Whole(Head(chain))
            BY <3>1, HeadFacts
        <3> QED
            BY <3>1, <3>2, PartsLog, PartsCut, WholeFacts
    <2> QED
        BY <2>1, <2>2
<1>4. OneCut(file')
    BY <1>2, <1>3, GlueKeeps DEF SInv, Shapes, XInv, Guarded
<1>5. Kept(chain', buffer', waiting', init')
    BY <1>1 DEF Kept, Whole, AllWhole
<1> QED
    BY <1>1, <1>4, <1>5 DEF XInv, Guarded, Mended, NoClose, NoCut, NoWipe

LEMMA InitXInv == Init => XInv
<1> SUFFICES ASSUME Init PROVE XInv
    OBVIOUS
<1>1. Whole(<<>>)
    BY DEF Whole
<1>2. OneCut(file) /\ ~Cut(file)
    BY <1>1, EmptyLog, WholeFacts DEF Init
<1>3. Kept(chain, buffer, waiting, init)
    BY DEF Init, Kept, Whole, AllWhole
<1> QED
    BY <1>2, <1>3 DEF Init, XInv, Guarded, Mended, NoCut, NoWipe

LEMMA StepXInv == ASSUME SInv, XInv, [Next]_vars PROVE XInv'
<1>1. CASE UserCalls
    BY <1>1, AppendOneX, AppendBatchX, FlushX, CloseX, ClearX, TruncateX DEF UserCalls
<1>2. CASE Continues
    BY <1>2, PushX, FlushReturnsX, CloseGoesOnX, CutDrainsX, CutClosesX DEF Continues
<1>3. CASE Disk
    BY <1>3, WriteDoneX, WriteFailsX, ScanX, CopyX, RenameX, CutFailsX,
       WipeOpensX, WipeWritesX, WipeFailsX
       DEF Disk
<1>4. CASE TimerFires \/ CrashAndResume
    BY <1>4, TimerX, CrashX
<1>5. CASE UNCHANGED vars
    <2>1. UNCHANGED <<waiting, init, buffer, chain, handle, file, closer, cutter, wiper, erred>>
        BY <1>5 DEF vars, memory, calls
    <2> QED
        BY <2>1, SameFile, GuardsStay DEF XInv
<1> QED
    BY <1>1, <1>2, <1>3, <1>4, <1>5 DEF Next

LEMMA AlwaysXInv == Spec => []XInv
<1>1. SInv /\ XInv /\ [Next]_vars => XInv'
    BY StepXInv
<1> QED
    BY <1>1, InitXInv, AlwaysSInv, PTL DEF Spec

-----------------------------------------------------------------------------
(* Nothing is lost silently *)

\* Who answers for the loss of event n in this step, which records it.
Owned(n) ==
    \/ erred' /\ chain # <<>> /\ n \in Ids(Head(chain))
    \/ cutter.at \in {"copy", "rename"}
    \/ wiper.at \in {"drain", "record"} \/ wiper'.at = "drain"
    \/ init' = "none" /\ init # "none"
    \/ handle = "closed" /\ closer.at = "closed" /\ n \notin closer.early

Owed == \A n \in Gone' \ Gone : Owned(n) /\ n \in lost'

\* A step after which the writer and the file hold what they held.
LEMMA AllThere ==
    ASSUME called' = called, Ids(file) \cup Held \subseteq Ids(file') \cup Held'
    PROVE  Owed
BY DEF Owed, Gone

LEMMA SameData ==
    ASSUME UNCHANGED <<called, waiting, buffer, chain, file>>
    PROVE  Owed
BY AllThere DEF Held

LEMMA SendOwed ==
    ASSUME SInv, FlushBuffer, UNCHANGED <<called, waiting, file>>
    PROVE  Owed
<1>1. Ids(buffer) \cup IdsIn(chain) \subseteq Ids(buffer') \cup IdsIn(chain')
    BY AppendBatches, EmptyLog DEF FlushBuffer, SInv, Shapes
<1> QED
    BY <1>1, AllThere DEF Held

LEMMA PushOwed == ASSUME SInv, Push PROVE Owed
<1> DEFINE full == buffer \o Head(waiting)
<1>1. /\ waiting # <<>> /\ waiting' = Tail(waiting) /\ UNCHANGED <<called, file>>
      /\ \/ chain' = Append(chain, full) /\ buffer' = <<>>
         \/ chain' = chain /\ buffer' = full
    BY DEF Push
<1>2. Head(waiting) \in Lines /\ IdsIn(waiting) = Ids(Head(waiting)) \cup IdsIn(Tail(waiting))
    BY <1>1, TailBatches DEF SInv, Shapes
<1>3. full \in Lines /\ Ids(full) = Ids(buffer) \cup Ids(Head(waiting))
    BY <1>2, ConcatLog DEF SInv, Shapes
<1> HIDE DEF full
<1>4. Ids(buffer') \cup IdsIn(chain') = Ids(full) \cup IdsIn(chain)
    <2>1. IdsIn(Append(chain, full)) = IdsIn(chain) \cup Ids(full)
        BY <1>3, AppendBatches DEF SInv, Shapes
    <2>2. CASE chain' = Append(chain, full) /\ buffer' = <<>>
        BY <2>1, <2>2, EmptyLog
    <2>3. CASE chain' = chain /\ buffer' = full
        BY <2>3
    <2> QED
        BY <1>1, <2>2, <2>3
<1> QED
    BY <1>1, <1>2, <1>3, <1>4, AllThere DEF Held

\* The events a call hands over are held, and those that were stay so.
LEMMA EnterOwed ==
    ASSUME SInv, NEW s \in Lines, (called + 1)..(called + Len(s)) \subseteq Ids(s), Enter(s),
           buffer' = buffer
    PROVE  1..called' \ Held' \subseteq 1..called \ Held
<1>1. /\ called' = called + Len(s) /\ waiting' = Append(waiting, s)
      /\ chain' \in {chain, Append(chain, <<Start>>)}
    BY DEF Enter
<1>2. IdsIn(waiting') = IdsIn(waiting) \cup Ids(s)
    BY <1>1, AppendBatches DEF SInv, Shapes
<1>3. IdsIn(chain') = IdsIn(chain)
    <2>1. <<Start>> \in Lines /\ Ids(<<Start>>) = {}
        BY RecordLines, NoEvent
    <2>2. chain \in Batches
        BY DEF SInv, Shapes
    <2>3. IdsIn(Append(chain, <<Start>>)) = IdsIn(chain) \cup {}
        BY <2>1, <2>2, AppendBatches
    <2> QED
        BY <1>1, <2>3
<1>4. \A n \in 1..called' : n \in 1..called \/ n \in Ids(s)
    <2>1. called \in Nat /\ Len(s) \in Nat
        BY DEF SInv, Shapes, Lines
    <2>2. \A n \in 1..(called + Len(s)) : n \in 1..called \/ n \in (called + 1)..(called + Len(s))
        BY <2>1
    <2> QED
        BY <1>1, <2>2
<1> QED
    BY <1>1, <1>2, <1>3, <1>4 DEF Held

LEMMA AppendCallOwed ==
    ASSUME SInv, NEW s \in Lines, (called + 1)..(called + Len(s)) \subseteq Ids(s), AppendCall(s)
    PROVE  Owed
<1>1. Enter(s) /\ UNCHANGED <<buffer, file>>
    BY DEF AppendCall
<1>2. 1..called' \ Held' \subseteq 1..called \ Held
    BY <1>1, EnterOwed
<1>3. Gone' \subseteq Gone
    BY <1>1, <1>2 DEF Gone
<1> QED
    BY <1>3 DEF Owed

LEMMA AppendOwed == ASSUME SInv, AppendOne \/ AppendBatch PROVE Owed
<1>1. called \in Nat
    BY DEF SInv, Shapes
<1>2. CASE AppendOne
    <2>1. PICK k \in {"plain", "checkpoint"}, p \in Prompts \cup {0} :
              AppendCall(<<Event(called + 1, k, p)>>)
        BY <1>2 DEF AppendOne
    <2> DEFINE s == <<Event(called + 1, k, p)>>
    <2>2. Len(s) = 1 /\ s[1].id = called + 1
        BY DEF Event
    <2>3. called < MaxId
        BY <1>1, <2>1, <2>2, SessionAssumption DEF AppendCall, SInv, Shapes, MaxId
    <2>4. s \in Lines
        BY <1>1, <2>3, OneEvent
    <2>5. (called + 1)..(called + Len(s)) \subseteq Ids(s)
        <3>1. called + 1 \in Ids(s)
            BY <1>1, <2>2 DEF Ids
        <3>2. \A n \in (called + 1)..(called + 1) : n = called + 1
            BY <1>1
        <3> QED
            BY <2>2, <3>1, <3>2
    <2> HIDE DEF s
    <2> QED
        BY <2>1, <2>4, <2>5, AppendCallOwed DEF s
<1>3. CASE AppendBatch
    <2>1. PICK m \in 2..MaxBatch : AppendCall([i \in 1..m |-> Event(called + i, "plain", 0)])
        BY <1>3 DEF AppendBatch
    <2> DEFINE s == [i \in 1..m |-> Event(called + i, "plain", 0)]
    <2>2. Len(s) = m /\ m \in Nat /\ m > 0 /\ DOMAIN s = 1..m /\ \A i \in 1..m : s[i].id = called + i
        BY SessionAssumption DEF Event
    <2>3. called + m <= MaxId
        BY <1>1, <2>1, <2>2, SessionAssumption DEF AppendCall, SInv, Shapes, MaxId
    <2>4. s \in Lines
        BY <1>1, <2>2, <2>3, SomeEvents
    <2> HIDE DEF s
    <2>5. ASSUME NEW n \in (called + 1)..(called + m) PROVE n \in Ids(s)
        <3>1. n - called \in 1..m /\ called + (n - called) = n /\ n # 0
            BY <1>1, <2>2
        <3> QED
            BY <2>2, <3>1 DEF Ids
    <2> QED
        BY <2>1, <2>2, <2>4, <2>5, AppendCallOwed DEF s
<1> QED
    BY <1>2, <1>3

\* A write that settles takes what was in its batch and did not get to the file.
LEMMA SettleTakes ==
    ASSUME SInv, chain # <<>>, NEW s \in Lines, Settle(s)
    PROVE  \A n \in Gone' \ Gone : n \in Ids(Head(chain)) /\ n \notin Ids(file') /\ n \in lost'
<1>1. /\ file' = Glue(file, s) /\ chain' = Tail(chain)
      /\ lost' = lost \cup (Ids(Head(chain)) \ Ids(file'))
      /\ UNCHANGED <<called, waiting, buffer>>
    BY DEF Settle
<1>2. IdsIn(chain) = Ids(Head(chain)) \cup IdsIn(Tail(chain))
    BY TailBatches DEF SInv, Shapes
<1>3. Ids(file) \subseteq Ids(file')
    BY <1>1, GlueKeeps DEF SInv, Shapes
<1>4. \A n \in Gone' \ Gone : n \in Ids(Head(chain)) /\ n \notin Ids(file')
    BY <1>1, <1>2, <1>3 DEF Gone, Held
<1> QED
    BY <1>1, <1>4

LEMMA WriteDoneOwed == ASSUME SInv, XInv, WriteDone PROVE Owed
<1>1. chain # <<>> /\ Settle(Head(chain)) /\ file' = Glue(file, Head(chain)) /\ erred' = erred
    BY DEF WriteDone, Settle
<1>2. /\ Head(chain) \in Lines /\ init \in {"pending", "done"}
      /\ init = "pending" => Head(chain) = <<Start>>
    BY <1>1, HeadFacts
<1>3. \A n \in Gone' \ Gone : n \in Ids(Head(chain)) /\ n \notin Ids(file') /\ n \in lost'
    BY <1>1, <1>2, SettleTakes
<1>4. ~Cut(file) => Ids(Head(chain)) \subseteq Ids(file')
    BY <1>1, <1>2, GlueKeeps DEF SInv, Shapes
<1>5. init = "pending" => Ids(Head(chain)) = {}
    BY <1>2, RecordLines, NoEvent
<1>6. CASE ~Cut(file) \/ init = "pending"
    BY <1>3, <1>4, <1>5, <1>6 DEF Owed
<1>7. CASE Cut(file) /\ init = "done"
    <2>1. erred \/ cutter.at \in {"copy", "rename"}
        BY <1>7 DEF XInv, Mended
    <2> QED
        BY <1>1, <1>3, <2>1 DEF Owed, Owned
<1> QED
    BY <1>2, <1>6, <1>7

LEMMA WriteFailsOwed == ASSUME SInv, XInv, WriteFails PROVE Owed
<1>1. chain # <<>> /\ Head(chain) \in Lines
    BY HeadFacts DEF WriteFails
<1>2. CASE erred' /\ \E s \in PartsOf(Head(chain)) : Settle(s)
    <2>1. PICK s \in PartsOf(Head(chain)) : Settle(s)
        BY <1>2
    <2>2. s \in Lines
        BY <1>1, PartsLog
    <2>3. \A n \in Gone' \ Gone : n \in Ids(Head(chain)) /\ n \in lost'
        BY <1>1, <2>1, <2>2, SettleTakes
    <2> QED
        BY <1>1, <1>2, <2>3 DEF Owed, Owned
<1>3. CASE handle = "closed" /\ Settle(<<>>) /\ erred' = erred
    <2>1. \A n \in Gone' \ Gone : n \in Ids(Head(chain)) /\ n \in lost'
        BY <1>1, <1>3, EmptyLog, SettleTakes
    <2>2. cutter.at \in {"copy", "rename"} \/ closer.at = "closed" \/ erred
        BY <1>3 DEF XInv, Guarded
    <2>3. CASE cutter.at \in {"copy", "rename"} \/ erred
        BY <1>1, <1>3, <2>1, <2>3 DEF Owed, Owned
    <2>4. CASE closer.at = "closed"
        <3>1. closer.early \cap Held = {}
            <4>1. Sent(closer.early, 0, chain, buffer, waiting, called)
                BY <2>4 DEF SInv, WaitInv
            <4> QED
                BY <4>1, SentDone DEF SInv, Shapes, Held
        <3>2. Ids(Head(chain)) \subseteq Held
            BY <1>1, TailBatches DEF Held, SInv, Shapes
        <3> QED
            BY <1>3, <2>1, <2>4, <3>1, <3>2 DEF Owed, Owned
    <2> QED
        BY <2>2, <2>3, <2>4
<1> QED
    BY <1>2, <1>3 DEF WriteFails

\* Whatever replaces the file takes no more than it erases.
LEMMA EraseOwed ==
    ASSUME 1..called' \ Held' \subseteq 1..called \ Held, lost' = lost \cup Erased
    PROVE  Gone' \ Gone \subseteq lost'
BY DEF Gone, Erased

LEMMA RenameOwed == ASSUME SInv, Rename PROVE Owed
<1> DEFINE s == <<Event(called + 1, "rewound", 0)>>
<1>1. /\ cutter.at = "rename" /\ lost' = lost \cup Erased /\ buffer' = buffer
      /\ IF closer.at = "idle" THEN Enter(s) ELSE UNCHANGED <<called, waiting, init, chain>>
    BY DEF Rename
<1>2. 1..called' \ Held' \subseteq 1..called \ Held
    <2>1. CASE closer.at = "idle"
        <3>1. called \in Nat /\ called < MaxId
            BY <1>1, SessionAssumption DEF SInv, Shapes, MaxId
        <3>2. s \in Lines
            BY <3>1, OneEvent
        <3>3. (called + 1)..(called + Len(s)) \subseteq Ids(s)
            <4>1. Len(s) = 1 /\ s[1].id = called + 1 /\ DOMAIN s = {1}
                BY DEF Event
            <4>2. called + 1 \in Ids(s)
                BY <3>1, <4>1 DEF Ids
            <4>3. \A n \in (called + 1)..(called + 1) : n = called + 1
                BY <3>1
            <4> QED
                BY <4>1, <4>2, <4>3
        <3> HIDE DEF s
        <3> QED
            BY <1>1, <2>1, <3>2, <3>3, EnterOwed
    <2>2. CASE closer.at # "idle"
        BY <1>1, <2>2 DEF Held
    <2> QED
        BY <2>1, <2>2
<1> QED
    BY <1>1, <1>2, EraseOwed DEF Owed, Owned

LEMMA WipeOwed == ASSUME WipeOpens \/ WipeWrites PROVE Owed
<1>1. /\ wiper.at \in {"drain", "record"} /\ lost' = lost \cup Erased
      /\ UNCHANGED <<called, memory>>
    BY DEF WipeOpens, WipeWrites, At
<1>2. 1..called' \ Held' \subseteq 1..called \ Held
    BY <1>1 DEF Held, memory
<1> QED
    BY <1>1, <1>2, EraseOwed DEF Owed, Owned

\* clearSession() drops the buffer.
LEMMA ClearOwed == ASSUME Clear PROVE Owed
<1>1. /\ wiper'.at = "drain" /\ lost' = lost \cup Ids(buffer)
      /\ UNCHANGED <<called, waiting, chain, file>>
    BY DEF Clear
<1> QED
    BY <1>1 DEF Owed, Owned, Gone, Held

LEMMA CrashOwed == ASSUME SInv, XInv, CrashAndResume PROVE Owed
<1>1. called' = called /\ init' = "none" /\ lost' = lost \cup (Held \ Ids(file'))
    BY DEF CrashAndResume
<1>2. PICK s \in (IF chain = <<>> \/ handle = "closed" THEN {<<>>}
                  ELSE PartsOf(Head(chain)) \cup {Head(chain)}) : file' = Glue(file, s)
    BY DEF CrashAndResume
<1>3. s \in Lines
    <2>1. chain # <<>> => Head(chain) \in Lines
        BY HeadFacts
    <2> QED
        BY <1>2, <2>1, EmptyLog, PartsLog
<1>4. Ids(file) \subseteq Ids(file')
    BY <1>2, <1>3, GlueKeeps DEF SInv, Shapes
<1>5. Gone' \ Gone \subseteq Held \ Ids(file')
    BY <1>1, <1>4 DEF Gone
<1>6. CASE init # "none"
    BY <1>1, <1>5, <1>6 DEF Owed, Owned
<1>7. CASE init = "none"
    <2>1. chain = <<>> /\ waiting = <<>> /\ buffer = <<>>
        BY <1>7 DEF XInv, Kept
    <2>2. Held = {}
        BY <2>1, EmptyLog, EmptyBatches DEF Held
    <2> QED
        BY <1>5, <2>2 DEF Owed
<1> QED
    BY <1>6, <1>7

LEMMA StepOwed == ASSUME SInv, XInv, [Next]_vars PROVE Owed
<1>1. CASE UserCalls
    <2>1. CASE Flush \/ Close \/ \E t \in Prompts \cup {0} : Truncate(t)
        BY <2>1, SendOwed DEF Flush, Close, Truncate
    <2>2. CASE Clear
        BY <2>2, ClearOwed
    <2> QED
        BY <1>1, <2>1, <2>2, AppendOwed DEF UserCalls
<1>2. CASE Continues
    <2>1. CASE FlushReturns \/ CloseGoesOn \/ CutDrains \/ CutCloses
        BY <2>1, SameData DEF FlushReturns, CloseGoesOn, CutDrains, CutCloses, memory
    <2> QED
        BY <1>2, <2>1, PushOwed DEF Continues
<1>3. CASE Disk
    <2>1. CASE Scan \/ Copy \/ CutFails \/ WipeFails
        BY <2>1, SameData DEF Scan, Copy, CutFails, WipeFails, memory
    <2> QED
        BY <1>3, <2>1, RenameOwed, WipeOwed, WriteDoneOwed, WriteFailsOwed DEF Disk
<1>4. CASE TimerFires \/ CrashAndResume
    BY <1>4, SendOwed, CrashOwed DEF TimerFires
<1>5. CASE UNCHANGED vars
    BY <1>5, SameData DEF vars, memory
<1> QED
    BY <1>1, <1>2, <1>3, <1>4, <1>5 DEF Next

\* FileSessionWriter drops an event only in a batch whose write met a disk
\* error or its remains, while truncateToCheckpoint() or clearSession() replaces
\* the file, in a crash, or, after close(), when its append() still waited for
\* ensureInit() at the time of the call: no interleaving of timers, flushes,
\* failed writes and rewinds, and no unfinished line of an earlier crash, takes
\* another event.
THEOREM NothingLostSilently == Spec => NoSilentLoss
<1>1. SInv /\ XInv /\ [Next]_vars => [\A n \in Gone' \ Gone : Owned(n)]_vars
    BY StepOwed DEF Owed
<1> QED
    BY <1>1, AlwaysSInv, AlwaysXInv, PTL DEF Spec, NoSilentLoss, Owned

-----------------------------------------------------------------------------
(* What close() leaves in the log *)

LEMMA LostStays == ASSUME [Next]_vars PROVE lost \subseteq lost'
<1>1. CASE UserCalls
    BY <1>1 DEF UserCalls, AppendOne, AppendBatch, AppendCall, Flush, Close, Clear, Truncate
<1>2. CASE Continues
    BY <1>2 DEF Continues, Push, FlushReturns, CloseGoesOn, CutDrains, CutCloses
<1>3. CASE Disk
    BY <1>3 DEF Disk, WriteDone, WriteFails, Settle, Scan, Copy, Rename, CutFails,
                WipeOpens, WipeWrites, WipeFails
<1>4. CASE TimerFires \/ CrashAndResume
    BY <1>4 DEF TimerFires, CrashAndResume
<1>5. CASE UNCHANGED vars
    BY <1>5 DEF vars
<1> QED
    BY <1>1, <1>2, <1>3, <1>4, <1>5 DEF Next

\* What is neither in the log nor in memory was lost to one of the known causes.
LEMMA AlwaysRecorded == Spec => [](Gone \subseteq lost)
<1>1. Init => Gone \subseteq lost
    BY DEF Init, Gone
<1>2. SInv /\ XInv /\ Gone \subseteq lost /\ [Next]_vars => (Gone \subseteq lost)'
    BY StepOwed, LostStays DEF Owed
<1> QED
    BY <1>1, <1>2, AlwaysSInv, AlwaysXInv, PTL DEF Spec

\* When doClose() writes the sidecar, every event observed before close() was
\* called is in the log, or a failed write, a handle a rewind had closed, a
\* rewind, a clear or a crash has taken it.
THEOREM ClosedLogComplete == Spec => []CloseComplete
<1>1. SInv /\ Gone \subseteq lost => CloseComplete
    <2> SUFFICES ASSUME SInv, Gone \subseteq lost, closer.at \in {"sidecar", "index", "closed"}
                 PROVE  closer.early \subseteq Ids(file) \cup lost
        BY DEF CloseComplete
    <2>1. Sent(closer.early, 0, chain, buffer, waiting, called)
        BY DEF SInv, WaitInv
    <2>2. closer.early \cap Held = {}
        BY <2>1, SentDone DEF SInv, Shapes, Held
    <2>3. closer.early \subseteq 1..called
        BY <2>1 DEF Sent
    <2> QED
        BY <2>2, <2>3 DEF Gone
<1> QED
    BY <1>1, AlwaysSInv, AlwaysRecorded, PTL

-----------------------------------------------------------------------------
(* What a rewind cuts *)

\* Between the scan of a rewind and its rename.
Cutting == cutter.at \in {"redrain", "copy", "rename"}

\* A checkpoint of prompt t, or of a later one.
Reaches(l, t) == l.k = "checkpoint" /\ l.p >= t

\* Event n is on line k of the lines f.
On(f, n, k) == k \in DOMAIN f /\ f[k].id = n

\* Event n is on no line before k; on line k it is a checkpoint of prompt t or
\* of a later one, the first if no line can be missed.
Placed(f, n, k, t) ==
    /\ \A i \in DOMAIN f : f[i].id = n => i >= k
    /\ On(f, n, k) => /\ Reaches(f[k], t)
                      /\ ~LongLog => \A i \in 1..(k - 1) : ~Reaches(f[i], t)

\* The event a scan stopped at has left the memory of the writer, so it will not
\* be written anywhere else.  With the handle closed only a clear changes the
\* file, and it removes or displaces that event; so what was copied is still
\* what the file has up to it.
CutInv ==
    Cutting =>
        /\ cutter.stop # 0 /\ Sent({cutter.stop}, 0, chain, buffer, waiting, called)
        /\ Placed(file, cutter.stop, cutter.keep, cutter.target)
        /\ cutter.at \in {"copy", "rename"} => handle = "closed"
        /\ cutter.at = "rename" /\ On(file, cutter.stop, cutter.keep)
              => Ids(cutter.kept) = Ids(SubSeq(file, 1, cutter.keep))

\* Up to where event n stands, g is what f was.
Stands(f, g, n) == \A k \in DOMAIN g : g[k].id = n => k \in DOMAIN f /\ \A i \in 1..k : g[i] = f[i]

LEMMA StandsPlaced ==
    ASSUME NEW f \in Lines, NEW g \in Lines, NEW n \in Nat, NEW k \in Nat, NEW t \in Nat,
           Stands(f, g, n), Placed(f, n, k, t)
    PROVE  Placed(g, n, k, t)
<1>1. ASSUME NEW i \in DOMAIN g, g[i].id = n
      PROVE  i \in DOMAIN f /\ f[i].id = n /\ i >= k
    <2>1. i \in DOMAIN f /\ i \in 1..i
        BY <1>1 DEF Stands, Lines
    <2> QED
        BY <1>1, <2>1 DEF Stands, Placed
<1>2. ASSUME On(g, n, k)
      PROVE  On(f, n, k) /\ \A i \in 1..k : g[i] = f[i]
    BY <1>1, <1>2 DEF On, Stands
<1>3. ASSUME On(g, n, k)
      PROVE  /\ Reaches(g[k], t)
             /\ ~LongLog => \A i \in 1..(k - 1) : ~Reaches(g[i], t)
    <2>1. k \in 1..k /\ \A i \in 1..(k - 1) : i \in 1..k
        BY <1>3 DEF On, Lines
    <2> QED
        BY <1>2, <1>3, <2>1 DEF Placed
<1> QED
    BY <1>1, <1>3 DEF Placed

\* An append leaves the events of the file where they are.
LEMMA GlueStands ==
    ASSUME NEW f \in Lines, NEW s \in Lines, NEW n \in Nat, n # 0, n \notin Ids(s)
    PROVE  Stands(f, Glue(f, s), n)
<1> DEFINE g == Glue(f, s)
           p == Len(f)
           q == Len(s)
<1>1. p \in Nat /\ q \in Nat /\ DOMAIN f = 1..p /\ DOMAIN s = 1..q
    BY DEF Lines
<1>2. \A i \in DOMAIN s : s[i].id # n
    BY DEF Ids
<1> HIDE DEF p, q
<1>3. CASE s # <<>> /\ Cut(f)
    <2> DEFINE x == IF s[1] = Partial THEN Partial ELSE Torn
    <2>1. /\ DOMAIN g = 1..(p + q - 1)
          /\ \A i \in 1..(p + q - 1) :
                g[i] = IF i < p THEN f[i] ELSE IF i = p THEN x ELSE s[i - p + 1]
        BY <1>3, GlueCut DEF p, q, x
    <2>2. x.id = 0
        BY RecordLines
    <2> HIDE DEF x, g
    <2>3. ASSUME NEW k \in DOMAIN g, g[k].id = n
          PROVE  k < p
        <3>1. k # p
            BY <1>1, <2>1, <2>2, <2>3
        <3>2. k > p => k - p + 1 \in DOMAIN s /\ g[k] = s[k - p + 1]
            BY <1>1, <2>1, <2>3
        <3>3. ~(k > p)
            BY <1>2, <2>3, <3>2
        <3> QED
            BY <1>1, <2>1, <3>1, <3>3
    <2>4. ASSUME NEW k \in DOMAIN g, k < p
          PROVE  k \in DOMAIN f /\ \A i \in 1..k : g[i] = f[i]
        BY <1>1, <2>1, <2>4
    <2> QED
        BY <2>3, <2>4 DEF Stands, g
<1>4. CASE ~(s # <<>> /\ Cut(f))
    <2>1. /\ DOMAIN g = 1..(p + q)
          /\ \A i \in 1..(p + q) : g[i] = IF i <= p THEN f[i] ELSE s[i - p]
        <3>1. g = f \o s
            BY <1>4 DEF Glue, Cut
        <3> HIDE DEF g
        <3> QED
            BY <3>1 DEF Lines, p, q
    <2> HIDE DEF g
    <2>2. ASSUME NEW k \in DOMAIN g, g[k].id = n
          PROVE  k <= p
        <3>1. k > p => k - p \in DOMAIN s /\ g[k] = s[k - p]
            BY <1>1, <2>1, <2>2
        <3>2. ~(k > p)
            BY <1>2, <2>2, <3>1
        <3> QED
            BY <1>1, <2>1, <3>2
    <2>3. ASSUME NEW k \in DOMAIN g, k <= p
          PROVE  k \in DOMAIN f /\ \A i \in 1..k : g[i] = f[i]
        BY <1>1, <2>1, <2>3
    <2> QED
        BY <2>2, <2>3 DEF Stands, g
<1> QED
    BY <1>3, <1>4

\* The start record that is written over others leaves an event where it is, or
\* moves it to the next line.
LEMMA OverPlaced ==
    ASSUME NEW f \in Lines, f # <<>>, NEW n \in Nat, n # 0, NEW k \in Nat, NEW t \in Nat,
           Placed(f, n, k, t)
    PROVE  LET g == Over(f[1]) \o Tail(f)
           IN  Placed(g, n, k, t) /\ (f[1] # Start => ~On(g, n, k))
<1> DEFINE g == Over(f[1]) \o Tail(f)
           p == Len(f)
<1>1. p \in Nat /\ p >= 1 /\ DOMAIN f = 1..p
    BY DEF Lines
<1>2. g \in Lines /\ DOMAIN g = 1..Len(g)
    BY OverLog DEF Lines
<1>3. CASE f[1] = Start
    <2>1. Len(g) = p /\ \A i \in 1..p : g[i] = f[i]
        BY <1>3, OverShape
    <2> HIDE DEF g, p
    <2>2. Stands(f, g, n)
        BY <1>1, <1>2, <2>1 DEF Stands
    <2> QED
        BY <1>2, <1>3, <2>2, StandsPlaced DEF g
<1>4. CASE f[1] # Start
    <2> DEFINE x == IF f[1] = Partial THEN Partial ELSE Torn
    <2>1. /\ Len(g) = p + 1
          /\ \A i \in 1..(p + 1) : g[i] = IF i = 1 THEN Start ELSE IF i = 2 THEN x ELSE f[i - 1]
        BY <1>4, OverShape
    <2>2. x.id = 0 /\ Start.id = 0
        BY RecordLines
    <2> HIDE DEF g, p, x
    <2>3. ASSUME NEW i \in DOMAIN g, g[i].id = n
          PROVE  i > k
        <3>1. i \in 1..(p + 1) /\ i # 1 /\ i # 2
            BY <1>2, <2>1, <2>2, <2>3
        <3>2. i - 1 \in DOMAIN f /\ g[i] = f[i - 1]
            BY <1>1, <2>1, <3>1
        <3>3. i - 1 >= k
            BY <2>3, <3>2 DEF Placed
        <3> QED
            BY <3>1, <3>3
    <2>4. \A i \in DOMAIN g : g[i].id = n => i >= k
        BY <1>2, <2>3
    <2>5. ~On(g, n, k)
        BY <1>2, <2>3 DEF On
    <2> QED
        BY <2>4, <2>5 DEF Placed, g
<1> QED
    BY <1>3, <1>4

\* An event that has left the memory of the writer does not come back to it.
StaysGone ==
    \A S : Sent(S, 0, chain, buffer, waiting, called)
              => Sent(S, 0, chain', buffer', waiting', called')

LEMMA SameGone ==
    ASSUME UNCHANGED memory, called' = called
    PROVE  StaysGone
BY DEF StaysGone, memory

LEMMA FlushGone ==
    ASSUME SInv, FlushBuffer, called' = called, waiting' = waiting
    PROVE  StaysGone
<1>1. CASE buffer = <<>>
    BY <1>1 DEF FlushBuffer, StaysGone
<1>2. CASE buffer # <<>>
    BY <1>2, SentSend DEF FlushBuffer, StaysGone, SInv, Shapes
<1> QED
    BY <1>1, <1>2

LEMMA PushGone == ASSUME SInv, Push PROVE StaysGone
<1> DEFINE full == buffer \o Head(waiting)
           rest == Tail(waiting)
<1>1. waiting # <<>> /\ waiting' = rest /\ called' = called
    BY DEF Push
<1>2. full \in Lines /\ rest \in Batches
    BY <1>1, TailBatches, ConcatLog DEF SInv, Shapes
<1>3. \A S : Sent(S, 0, chain, buffer, waiting, called) => Sent(S, 0, chain, full, rest, called)
    BY <1>1, SentPush DEF SInv, Shapes
<1>4. \/ chain' = Append(chain, full) /\ buffer' = <<>>
      \/ chain' = chain /\ buffer' = full
    BY DEF Push
<1> HIDE DEF full, rest
<1>5. \A S : Sent(S, 0, chain, full, rest, called)
                => Sent(S, 0, Append(chain, full), <<>>, rest, called)
    BY <1>2, SentSend DEF SInv, Shapes
<1> QED
    BY <1>1, <1>3, <1>4, <1>5 DEF StaysGone

LEMMA AppendGone ==
    ASSUME SInv, NEW s \in Lines, Ids(s) \subseteq (called + 1)..(called + Len(s)), AppendCall(s)
    PROVE  StaysGone
<1> DEFINE all == Append(waiting, s)
<1>1. /\ waiting' = all /\ called' = called + Len(s) /\ buffer' = buffer
      /\ chain' = chain \/ chain' = Append(chain, <<Start>>)
    BY DEF AppendCall, Enter
<1>2. called' \in Nat /\ called <= called' /\ all \in Batches
    BY <1>1, AppendBatches DEF SInv, Shapes, Lines
<1>3. \A S : Sent(S, 0, chain, buffer, waiting, called) => Sent(S, 0, chain, buffer, all, called')
    BY <1>1, <1>2, SentEnter DEF SInv, Shapes
<1> HIDE DEF all
<1>4. \A S : Sent(S, 0, chain, buffer, all, called')
                => Sent(S, 0, Append(chain, <<Start>>), buffer, all, called')
    BY <1>2, SentRecord DEF SInv, Shapes
<1> QED
    BY <1>1, <1>3, <1>4 DEF StaysGone

LEMMA AppendsGone == ASSUME SInv, AppendOne \/ AppendBatch PROVE StaysGone
<1>1. CASE AppendOne
    <2>1. PICK k \in {"plain", "checkpoint"}, p \in Prompts \cup {0} :
              AppendCall(<<Event(called + 1, k, p)>>)
        BY <1>1 DEF AppendOne
    <2> DEFINE s == <<Event(called + 1, k, p)>>
    <2>2. Len(s) = 1
        OBVIOUS
    <2>3. called \in Nat /\ called < MaxId
        BY <2>1, <2>2, SessionAssumption DEF AppendCall, SInv, Shapes, MaxId
    <2>4. s \in Lines /\ Ids(s) \subseteq (called + 1)..(called + Len(s))
        BY <2>3, OneEvent
    <2> HIDE DEF s
    <2> QED
        BY <2>1, <2>4, AppendGone DEF s
<1>2. CASE AppendBatch
    <2>1. PICK m \in 2..MaxBatch : AppendCall([i \in 1..m |-> Event(called + i, "plain", 0)])
        BY <1>2 DEF AppendBatch
    <2> DEFINE s == [i \in 1..m |-> Event(called + i, "plain", 0)]
    <2>2. Len(s) = m /\ m \in Nat /\ m > 0
        BY SessionAssumption
    <2>3. called \in Nat /\ called + m <= MaxId
        BY <2>1, <2>2, SessionAssumption DEF AppendCall, SInv, Shapes, MaxId
    <2>4. s \in Lines /\ Ids(s) \subseteq (called + 1)..(called + Len(s))
        BY <2>2, <2>3, SomeEvents
    <2> HIDE DEF s
    <2> QED
        BY <2>1, <2>4, AppendGone DEF s
<1> QED
    BY <1>1, <1>2

LEMMA SettleGone ==
    ASSUME SInv, chain # <<>>, chain' = Tail(chain), UNCHANGED <<called, waiting, buffer>>
    PROVE  StaysGone
<1>1. \A S : Sent(S, 0, chain, buffer, waiting, called)
                => Sent(S, IF 0 > 0 THEN 0 - 1 ELSE 0, Tail(chain), buffer, waiting, called)
    BY SentSettle DEF SInv, Shapes
<1> QED
    BY <1>1 DEF StaysGone

\* A rewind that is where it was, on a file that has kept its place.
LEMMA CutStays ==
    ASSUME CutInv, StaysGone,
           cutter'.at = cutter.at, cutter'.stop = cutter.stop, cutter'.keep = cutter.keep,
           cutter'.target = cutter.target, cutter'.kept = cutter.kept,
           handle' \in {handle, "closed"},
           \/ file' = file
           \/ /\ Cutting => Placed(file', cutter.stop, cutter.keep, cutter.target)
              /\ Cutting /\ On(file', cutter.stop, cutter.keep) => cutter.at = "redrain"
    PROVE  CutInv'
<1>1. Cutting' => Cutting /\ Sent({cutter'.stop}, 0, chain', buffer', waiting', called')
    BY DEF CutInv, StaysGone, Cutting
<1>2. CASE file' = file
    BY <1>1, <1>2 DEF CutInv, Cutting
<1>3. CASE /\ Cutting => Placed(file', cutter.stop, cutter.keep, cutter.target)
           /\ Cutting /\ On(file', cutter.stop, cutter.keep) => cutter.at = "redrain"
    BY <1>1, <1>3 DEF CutInv, Cutting
<1> QED
    BY <1>2, <1>3

LEMMA SettleCut ==
    ASSUME SInv, CutInv, chain # <<>>, NEW s \in Lines, Ids(s) \subseteq Ids(Head(chain)),
           Settle(s), handle = "open" \/ s = <<>>
    PROVE  CutInv'
<1>1. /\ file' = Glue(file, s) /\ chain' = Tail(chain) /\ cutter' = OneLess(cutter)
      /\ UNCHANGED <<called, waiting, buffer, handle>>
    BY DEF Settle
<1>2. StaysGone
    BY <1>1, SettleGone
<1>3. /\ cutter'.at = cutter.at /\ cutter'.stop = cutter.stop /\ cutter'.keep = cutter.keep
      /\ cutter'.target = cutter.target /\ cutter'.kept = cutter.kept
    BY <1>1 DEF OneLess, SInv, Callers
<1>4. CASE s = <<>>
    <2>1. file' = file
        BY <1>1, <1>4 DEF Glue, SInv, Shapes, Lines
    <2> QED
        BY <1>1, <1>2, <1>3, <2>1, CutStays
<1>5. CASE handle = "open"
    <2>1. ASSUME Cutting
          PROVE  /\ Placed(file', cutter.stop, cutter.keep, cutter.target)
                 /\ cutter.at = "redrain"
        <3>1. cutter.stop # 0 /\ cutter.stop \notin Ids(s)
            <4>1. {cutter.stop} \cap (IdsIn(waiting) \cup Ids(buffer) \cup IdsIn(chain)) = {}
                BY <2>1, SentDone DEF CutInv, SInv, Shapes
            <4>2. Ids(Head(chain)) \subseteq IdsIn(chain)
                BY TailBatches DEF SInv, Shapes
            <4> QED
                BY <2>1, <4>1, <4>2 DEF CutInv
        <3>2. /\ file \in Lines /\ file' \in Lines
              /\ cutter.stop \in Nat /\ cutter.keep \in Nat /\ cutter.target \in Nat
            BY <1>1, GlueLog DEF SInv, Shapes, Callers
        <3>3. Stands(file, file', cutter.stop)
            BY <1>1, <3>1, <3>2, GlueStands
        <3>4. Placed(file', cutter.stop, cutter.keep, cutter.target)
            BY <2>1, <3>2, <3>3, StandsPlaced DEF CutInv
        <3> QED
            BY <1>5, <2>1, <3>4 DEF CutInv, Cutting
    <2> QED
        BY <1>1, <1>2, <1>3, <2>1, CutStays
<1> QED
    BY <1>4, <1>5

LEMMA WriteDoneCut == ASSUME SInv, CutInv, WriteDone PROVE CutInv'
<1>1. chain # <<>> /\ Settle(Head(chain)) /\ handle = "open"
    BY DEF WriteDone
<1>2. Head(chain) \in Lines
    BY <1>1, TailBatches DEF SInv, Shapes
<1> QED
    BY <1>1, <1>2, SettleCut

LEMMA WriteFailsCut == ASSUME SInv, CutInv, WriteFails PROVE CutInv'
<1>1. chain # <<>>
    BY DEF WriteFails
<1>2. Head(chain) \in Lines /\ Rising(Head(chain))
    BY <1>1, TailBatches DEF SInv, Shapes, LogInv, Ordered
<1>3. CASE Settle(<<>>)
    BY <1>1, <1>3, EmptyLog, SettleCut
<1>4. CASE handle = "open" /\ \E s \in PartsOf(Head(chain)) : Settle(s)
    <2>1. PICK s \in PartsOf(Head(chain)) : Settle(s)
        BY <1>4
    <2>2. s \in Lines /\ Ids(s) \subseteq Ids(Head(chain))
        BY <1>2, PartsLog
    <2> QED
        BY <1>1, <1>4, <2>1, <2>2, SettleCut
<1> QED
    BY <1>3, <1>4 DEF WriteFails

LEMMA WipeOpensCut == ASSUME SInv, CutInv, WipeOpens PROVE CutInv'
<1>1. file' = <<>> /\ cutter' = cutter /\ handle' = handle
    BY DEF WipeOpens
<1>2. StaysGone
    BY SameGone DEF WipeOpens
<1>3. /\ Placed(<<>>, cutter.stop, cutter.keep, cutter.target)
      /\ ~On(<<>>, cutter.stop, cutter.keep)
    BY DEF Placed, On
<1> QED
    BY <1>1, <1>2, <1>3, CutStays

LEMMA WipeWritesCut == ASSUME SInv, CutInv, WipeWrites PROVE CutInv'
<1>1. cutter' = cutter /\ handle' = handle
    BY DEF WipeWrites
<1>2. StaysGone
    BY SameGone DEF WipeWrites
<1>3. CASE file = <<>> /\ file' = <<Start>>
    <2>1. ASSUME Cutting
          PROVE  /\ Placed(file', cutter.stop, cutter.keep, cutter.target)
                 /\ ~On(file', cutter.stop, cutter.keep)
        <3>1. \A i \in DOMAIN file' : file'[i].id # cutter.stop
            BY <1>3, <2>1, RecordLines DEF CutInv
        <3> QED
            BY <3>1 DEF Placed, On
    <2> QED
        BY <1>1, <1>2, <2>1, CutStays
<1>4. CASE file # <<>> /\ file' = Over(file[1]) \o Tail(file)
    <2>1. CASE file[1] = Start
        <3>1. file' = file
            BY <1>4, <2>1 DEF Over, SInv, Shapes, Lines
        <3> QED
            BY <1>1, <1>2, <3>1, CutStays
    <2>2. CASE file[1] # Start
        <3>1. ASSUME Cutting
              PROVE  /\ Placed(file', cutter.stop, cutter.keep, cutter.target)
                     /\ ~On(file', cutter.stop, cutter.keep)
            <4>1. /\ file \in Lines /\ cutter.stop \in Nat /\ cutter.stop # 0
                  /\ cutter.keep \in Nat /\ cutter.target \in Nat
                  /\ Placed(file, cutter.stop, cutter.keep, cutter.target)
                BY <3>1 DEF SInv, Shapes, Callers, CutInv
            <4> QED
                BY <1>4, <2>2, <4>1, OverPlaced
        <3> QED
            BY <1>1, <1>2, <3>1, CutStays
    <2> QED
        BY <2>1, <2>2
<1> QED
    BY <1>3, <1>4 DEF WipeWrites

\* What the scan finds is in the file, and no longer in memory.
LEMMA ScanCut == ASSUME SInv, Scan PROVE CutInv'
<1>1. cutter.at = "drain" /\ UNCHANGED <<called, memory, handle, file>>
    BY DEF Scan, At
<1>2. PICK split \in Splits :
          \/ Stops(split) = {} /\ cutter' = NoCut
          \/ \E first \in Stops(split) :
                /\ \A i \in Stops(split) : first <= i
                /\ cutter' = [cutter EXCEPT !.at = "redrain", !.left = Len(chain),
                                            !.keep = first, !.stop = file[first].id]
    BY DEF Scan
<1>3. CASE cutter' = NoCut
    BY <1>3 DEF CutInv, Cutting, NoCut
<1>4. CASE cutter' # NoCut
    <2>1. PICK k \in Stops(split) :
              /\ \A i \in Stops(split) : k <= i
              /\ cutter' = [cutter EXCEPT !.at = "redrain", !.left = Len(chain),
                                          !.keep = k, !.stop = file[k].id]
        BY <1>2, <1>4
    <2> DEFINE n == file[k].id
               t == cutter.target
    <2>2. cutter'.at = "redrain" /\ cutter'.keep = k /\ cutter'.stop = n /\ cutter'.target = t
        BY <2>1 DEF SInv, Callers
    <2>3. k \in DOMAIN file /\ Reaches(file[k], t)
        BY DEF Stops, Reaches
    <2>4. file \in Lines /\ DOMAIN file = 1..Len(file) /\ Len(file) \in Nat
        BY DEF SInv, Shapes, Lines
    <2>5. \A i \in DOMAIN file : file[i] \in Line
        BY <2>4 DEF Lines
    <2>6. n \in Nat /\ n # 0 /\ n \in Ids(file)
        BY <2>3, <2>5, LineFacts DEF Reaches, Ids
    <2>7. Sent({n}, 0, chain, buffer, waiting, called)
        <3>1. /\ n \in 1..called
              /\ Before(Ids(file), IdsIn(chain) \cup Ids(buffer) \cup IdsIn(waiting))
            BY <2>6 DEF SInv, LogInv, Ordered
        <3>2. n \notin IdsIn(chain) \cup Ids(buffer) \cup IdsIn(waiting)
            BY <2>6, <3>1 DEF Before
        <3>3. \A i \in DOMAIN chain : Ids(chain[i]) \subseteq IdsIn(chain)
            BY DEF IdsIn
        <3> QED
            BY <3>1, <3>2, <3>3 DEF Sent
    <2>8. Placed(file, n, k, t)
        <3>1. ASSUME NEW i \in DOMAIN file, file[i].id = n
              PROVE  i >= k
            <4>1. ~(i < k)
                BY <2>3, <2>6, <3>1 DEF SInv, LogInv, Ordered, Rising
            <4> QED
                BY <2>3, <2>4, <4>1
        <3>2. ASSUME ~LongLog, NEW i \in 1..(k - 1)
              PROVE  ~Reaches(file[i], t)
            <4>1. split = {}
                BY <3>2 DEF Splits
            <4>2. i \in DOMAIN file /\ ~(k <= i)
                BY <2>3, <2>4
            <4>3. i \notin Stops(split)
                BY <2>1, <4>2
            <4> QED
                BY <4>1, <4>2, <4>3 DEF Stops, Reaches
        <3> QED
            BY <2>3, <3>1, <3>2 DEF Placed
    <2> HIDE DEF n, t
    <2> QED
        BY <1>1, <2>2, <2>6, <2>7, <2>8 DEF CutInv, memory
<1> QED
    BY <1>3, <1>4

\* The copy has the events of the file up to the line the scan stopped at, if
\* that is still there.
LEMMA CopyCut == ASSUME SInv, CutInv, Copy PROVE CutInv'
<1> DEFINE n == Min({cutter.keep, Len(file)})
           s == SubSeq(file, 1, n)
           t == SubSeq(file, n + 1, Len(file))
<1>1. /\ cutter.at = "copy" /\ cutter' = [cutter EXCEPT !.at = "rename", !.kept = s \o Malformed(t)]
      /\ UNCHANGED <<called, memory, handle, file>>
    BY DEF Copy
<1>2. /\ cutter'.at = "rename" /\ cutter'.stop = cutter.stop /\ cutter'.keep = cutter.keep
      /\ cutter'.target = cutter.target /\ cutter'.kept = s \o Malformed(t)
    BY <1>1 DEF SInv, Callers
<1>3. file \in Lines /\ Len(file) \in Nat /\ DOMAIN file = 1..Len(file) /\ cutter.keep \in Nat
    BY DEF SInv, Shapes, Callers, Lines
<1>4. n \in 0..Len(file) /\ (cutter.keep \in DOMAIN file => n = cutter.keep)
    <2>1. \E x \in {cutter.keep, Len(file)} : \A y \in {cutter.keep, Len(file)} : x <= y
        BY <1>3
    <2>2. n \in {cutter.keep, Len(file)} /\ n <= Len(file) /\ n <= cutter.keep
        BY <2>1 DEF Min
    <2> QED
        BY <1>3, <2>2
<1>5. Ids(s \o Malformed(t)) = Ids(s)
    <2> HIDE DEF n
    <2>1. s \in Lines /\ t \in Lines
        BY <1>3, <1>4, PartLog
    <2> HIDE DEF s, t
    <2> QED
        BY <2>1, MalformedLog, ConcatLog
<1> HIDE DEF n, t
<1>6. On(file, cutter.stop, cutter.keep) => Ids(cutter'.kept) = Ids(SubSeq(file, 1, cutter.keep))
    BY <1>2, <1>4, <1>5 DEF On
<1> QED
    BY <1>1, <1>2, <1>6 DEF CutInv, Cutting, memory

\* Each step keeps the mark of a rewind.
LEMMA StepCut == ASSUME SInv, CutInv, [Next]_vars PROVE CutInv'
<1>1. CASE AppendOne \/ AppendBatch
    <2>1. StaysGone
        BY <1>1, AppendsGone
    <2>2. UNCHANGED <<file, handle, cutter>>
        BY <1>1 DEF AppendOne, AppendBatch, AppendCall, calls
    <2> QED
        BY <2>1, <2>2, CutStays
<1>2. CASE Flush \/ Close \/ TimerFires
    <2>1. /\ FlushBuffer /\ called' = called /\ waiting' = waiting
          /\ UNCHANGED <<file, handle, cutter>>
        BY <1>2 DEF Flush, Close, TimerFires, calls
    <2> QED
        BY <2>1, FlushGone, CutStays
<1>3. CASE Clear
    <2>1. StaysGone
        BY <1>3, SentDrop DEF Clear, StaysGone, SInv, Shapes
    <2> QED
        BY <1>3, <2>1, CutStays DEF Clear
<1>4. CASE Push
    BY <1>4, PushGone, CutStays DEF Push, calls
<1>5. CASE FlushReturns \/ CloseGoesOn \/ WipeFails \/ UNCHANGED vars
    <2>1. UNCHANGED <<called, memory, file, cutter>> /\ handle' \in {handle, "closed"}
        BY <1>5 DEF FlushReturns, CloseGoesOn, WipeFails, vars, calls
    <2> QED
        BY <2>1, SameGone, CutStays
<1>6. CASE CutCloses
    <2>1. cutter.at = "redrain" /\ cutter' = [cutter EXCEPT !.at = "copy"] /\ handle' = "closed"
        BY <1>6 DEF CutCloses, At
    <2>2. /\ cutter'.at = "copy" /\ cutter'.stop = cutter.stop /\ cutter'.keep = cutter.keep
          /\ cutter'.target = cutter.target /\ UNCHANGED <<called, memory, file>>
        BY <1>6, <2>1 DEF CutCloses, SInv, Callers
    <2> QED
        BY <2>1, <2>2 DEF CutInv, Cutting, memory
<1>7. CASE \/ \E t \in Prompts \cup {0} : Truncate(t)
           \/ CutDrains \/ Rename \/ CutFails \/ CrashAndResume
    <2>1. CASE \E t \in Prompts \cup {0} : Truncate(t)
        <3>1. cutter'.at = "flush"
            BY <2>1 DEF Truncate, SInv, Callers
        <3> QED
            BY <3>1 DEF CutInv, Cutting
    <2>2. CASE CutDrains
        <3>1. cutter'.at = "drain"
            BY <2>2 DEF CutDrains, SInv, Callers
        <3> QED
            BY <3>1 DEF CutInv, Cutting
    <2>3. CASE Rename \/ CutFails \/ CrashAndResume
        <3>1. cutter'.at = "idle"
            BY <2>3 DEF Rename, CutFails, CrashAndResume, NoCut
        <3> QED
            BY <3>1 DEF CutInv, Cutting
    <2> QED
        BY <1>7, <2>1, <2>2, <2>3
<1>8. CASE Scan \/ Copy \/ WipeOpens \/ WipeWrites \/ WriteDone \/ WriteFails
    BY <1>8, ScanCut, CopyCut, WipeOpensCut, WipeWritesCut, WriteDoneCut, WriteFailsCut
<1> QED
    BY <1>1, <1>2, <1>3, <1>4, <1>5, <1>6, <1>7, <1>8 DEF Next, UserCalls, Continues, Disk

LEMMA AlwaysCutInv == Spec => []CutInv
<1>1. Init => CutInv
    BY DEF Init, NoCut, CutInv, Cutting
<1>2. SInv /\ CutInv /\ [Next]_vars => CutInv'
    BY StepCut
<1> QED
    BY <1>1, <1>2, AlwaysSInv, PTL DEF Spec

\* The events up to the one on line k are those with its number or a lower one.
LEMMA EventsUpTo ==
    ASSUME NEW f \in Lines, Rising(f), NEW k \in DOMAIN f, f[k].id # 0
    PROVE  Ids(SubSeq(f, 1, k)) = {n \in Ids(f) : n <= f[k].id}
<1> DEFINE s == SubSeq(f, 1, k)
           p == Len(f)
<1>1. p \in Nat /\ DOMAIN f = 1..p /\ k \in 1..p /\ \A i \in 1..p : f[i] \in Line
    BY DEF Lines
<1>2. DOMAIN s = 1..k /\ \A i \in 1..k : s[i] = f[i]
    BY <1>1 DEF Lines
<1> HIDE DEF s, p
<1>3. \A i \in 1..p : f[i].id \in Nat
    BY <1>1, LineFacts
<1>4. ASSUME NEW i \in 1..k
      PROVE  i \in DOMAIN f /\ f[i].id <= f[k].id
    <2>1. i \in 1..p /\ (i = k \/ i < k)
        BY <1>1
    <2>2. f[i].id \in Nat /\ f[k].id \in Nat
        BY <1>1, <1>3, <2>1
    <2>3. i < k /\ f[i].id # 0 => f[i].id < f[k].id
        BY <1>1, <2>1 DEF Rising
    <2> QED
        BY <1>1, <2>1, <2>2, <2>3
<1>5. ASSUME NEW i \in 1..p, f[i].id # 0, f[i].id <= f[k].id
      PROVE  i \in 1..k
    <2>1. k < i => f[k].id < f[i].id
        BY <1>1, <1>5 DEF Rising
    <2>2. ~(k < i)
        BY <1>1, <1>3, <1>5, <2>1
    <2> QED
        BY <1>1, <2>2
<1>6. Ids(s) = {f[i].id : i \in 1..k} \ {0}
    BY <1>2 DEF Ids
<1>7. Ids(f) = {f[i].id : i \in 1..p} \ {0}
    BY <1>1 DEF Ids
<1> QED
    BY <1>1, <1>4, <1>5, <1>6, <1>7 DEF s

\* The prompts of the checkpoints in the log never decrease.
PromptsRise ==
    \A i, j \in DOMAIN file :
        i < j /\ file[i].k = "checkpoint" /\ file[j].k = "checkpoint" => file[i].p <= file[j].p

\* A rewind keeps the events up to the one its scan stopped at and removes the
\* later ones, unless a clear has replaced that line.
CutsAtStop ==
    [][cutter.at = "rename" /\ file' = cutter.kept /\ On(file, cutter.stop, cutter.keep)
       => Ids(file') = {n \in Ids(file) : n <= cutter.stop}]_vars

\* The rename of truncateToCheckpoint() removes exactly the events behind the
\* line at which its scan stopped, whatever prompts the checkpoints have,
\* whether or not the scan overlooked a line, and whatever is appended, settles
\* or fails in between.
THEOREM RewindStops == Spec => CutsAtStop
<1>1. SInv /\ CutInv => (cutter.at = "rename" /\ On(file, cutter.stop, cutter.keep)
                           => Ids(cutter.kept) = {n \in Ids(file) : n <= cutter.stop})
    <2> SUFFICES ASSUME SInv, CutInv, cutter.at = "rename", On(file, cutter.stop, cutter.keep)
                 PROVE  Ids(cutter.kept) = {n \in Ids(file) : n <= cutter.stop}
        OBVIOUS
    <2>1. /\ Ids(cutter.kept) = Ids(SubSeq(file, 1, cutter.keep)) /\ cutter.stop # 0
          /\ cutter.keep \in DOMAIN file /\ file[cutter.keep].id = cutter.stop
        BY DEF CutInv, Cutting, On
    <2>2. file \in Lines /\ Rising(file)
        BY DEF SInv, Shapes, LogInv, Ordered
    <2> QED
        BY <2>1, <2>2, EventsUpTo
<1>2. SInv /\ CutInv /\ [Next]_vars
         => [cutter.at = "rename" /\ file' = cutter.kept /\ On(file, cutter.stop, cutter.keep)
               => Ids(file') = {n \in Ids(file) : n <= cutter.stop}]_vars
    BY <1>1 DEF Ids
<1> QED
    BY <1>2, AlwaysSInv, AlwaysCutInv, PTL DEF Spec, CutsAtStop

\* Where the scan overlooks no line and the prompts of the log's checkpoints
\* rise, truncateToCheckpoint() removes exactly what follows the target.
THEOREM RewindsExact ==
    ASSUME ~LongLog
    PROVE  Spec /\ []PromptsRise => RewindCuts
<1> DEFINE marks == {file[i].id : i \in {j \in DOMAIN file :
                        file[j].k = "checkpoint" /\ file[j].p = cutter.target}}
           Found == /\ cutter.at = "rename" /\ cutter.keep \in DOMAIN file
                    /\ file[cutter.keep].id = cutter.stop /\ marks # {}
<1>1. ASSUME SInv, CutInv, PromptsRise, Found
      PROVE  Min(marks) = cutter.stop /\ Ids(cutter.kept) = {n \in Ids(file) : n <= cutter.stop}
    <2> DEFINE k == cutter.keep
               t == cutter.target
    <2>1. /\ Placed(file, cutter.stop, k, t) /\ On(file, cutter.stop, k) /\ cutter.stop # 0
          /\ Ids(cutter.kept) = Ids(SubSeq(file, 1, k))
        BY <1>1 DEF CutInv, Cutting, On
    <2>2. file \in Lines /\ Rising(file) /\ DOMAIN file = 1..Len(file) /\ Len(file) \in Nat
        BY <1>1 DEF SInv, Shapes, LogInv, Ordered, Lines
    <2>3. \A i \in DOMAIN file : /\ file[i].id \in Nat
                                 /\ file[i].k = "checkpoint" => file[i].p \in Nat /\ file[i].id # 0
        BY <2>2, LineFacts DEF Lines
    <2>4. k \in DOMAIN file /\ t \in Nat /\ Reaches(file[k], t) /\ file[k].id = cutter.stop
        BY <1>1, <2>1 DEF Placed, On, SInv, Callers
    <2>5. \A i \in 1..(k - 1) : ~Reaches(file[i], t)
        BY <2>1 DEF Placed
    <2> HIDE DEF k, t
    <2>6. ASSUME NEW j \in DOMAIN file, file[j].k = "checkpoint", file[j].p = t
          PROVE  j = k \/ k < j
        <3>1. Reaches(file[j], t)
            BY <2>4, <2>6 DEF Reaches
        <3>2. j \notin 1..(k - 1)
            BY <2>5, <3>1
        <3> QED
            BY <2>2, <2>4, <3>2
    <2>7. \A j \in DOMAIN file : file[j].k = "checkpoint" /\ file[j].p = t
                                    => cutter.stop <= file[j].id
        <3> TAKE j \in DOMAIN file
        <3> HAVE file[j].k = "checkpoint" /\ file[j].p = t
        <3>1. CASE j = k
            BY <2>3, <2>4, <3>1
        <3>2. CASE k < j
            <4>1. file[k].id < file[j].id
                BY <2>1, <2>2, <2>3, <2>4, <3>2 DEF Rising
            <4> QED
                BY <2>3, <2>4, <4>1
        <3> QED
            BY <2>6, <3>1, <3>2
    <2>8. file[k].k = "checkpoint" /\ file[k].p = t
        <3>1. PICK j \in DOMAIN file : file[j].k = "checkpoint" /\ file[j].p = t
            BY <1>1 DEF t
        <3>2. j = k \/ k < j
            BY <2>6, <3>1
        <3>3. file[k].p \in Nat /\ file[k].p >= t /\ file[k].k = "checkpoint"
            BY <2>3, <2>4 DEF Reaches
        <3>4. file[k].p <= file[j].p
            BY <1>1, <2>4, <3>1, <3>2, <3>3 DEF PromptsRise
        <3> QED
            BY <2>4, <3>1, <3>3, <3>4
    <2>9. Min(marks) = cutter.stop
        <3>1. cutter.stop \in marks
            BY <2>4, <2>8 DEF t
        <3>2. \A m \in marks : cutter.stop <= m
            BY <2>7 DEF t
        <3>3. marks \subseteq Nat
            BY <2>3
        <3> HIDE DEF marks
        <3>4. \E x \in marks : \A y \in marks : x <= y
            BY <3>1, <3>2
        <3>5. Min(marks) \in marks /\ \A y \in marks : Min(marks) <= y
            BY <3>4 DEF Min
        <3>6. Min(marks) <= cutter.stop /\ cutter.stop <= Min(marks)
            BY <3>1, <3>2, <3>5
        <3>7. Min(marks) \in Nat /\ cutter.stop \in Nat
            BY <3>1, <3>3, <3>5
        <3>8. \A a, b \in Nat : a <= b /\ b <= a => a = b
            OBVIOUS
        <3> QED
            BY <3>6, <3>7, <3>8
    <2> QED
        BY <2>1, <2>2, <2>4, <2>9, EventsUpTo DEF k
<1>2. SInv /\ CutInv /\ PromptsRise /\ Found /\ file' = cutter.kept
         => Ids(file') = {n \in Ids(file) : n <= Min(marks)}
    BY <1>1 DEF Ids
<1> HIDE DEF marks
<1>3. SInv /\ CutInv /\ PromptsRise /\ [Next]_vars
         => [/\ cutter.at = "rename" /\ cutter'.at = "idle" /\ file' = cutter.kept
             /\ cutter.keep \in DOMAIN file /\ file[cutter.keep].id = cutter.stop
             /\ marks # {}
             => Ids(file') = {n \in Ids(file) : n <= Min(marks)}]_vars
    BY <1>2
<1> QED
    BY <1>3, AlwaysSInv, AlwaysCutInv, PTL DEF Spec, RewindCuts, marks

-----------------------------------------------------------------------------
(* Nobody waits for nothing *)

\* A call waits for batches that are in the chain.
Patient ==
    /\ flusher.left <= Len(chain) /\ closer.left <= Len(chain)
    /\ cutter.left <= Len(chain) /\ wiper.left <= Len(chain)

\* The writer holds an event, or a call has not returned.
Unsettled ==
    \/ Held # {} \/ flusher.at # "idle" \/ closer.at \notin {"idle", "closed"}
    \/ cutter.at # "idle" \/ wiper.at # "idle"

\* A write is under way or the flush timer is set; or an append, a flush, a
\* close, a rewind or a clear has nothing more to wait for.
UnderWay ==
    \/ chain # <<>> \/ timer
    \/ init = "done" /\ waiting # <<>>
    \/ At(flusher, {"write"})
    \/ At(closer, {"flush", "drain"}) \/ closer.at \in {"sidecar", "index"}
    \/ At(cutter, {"flush", "drain", "redrain"}) \/ cutter.at \in {"copy", "rename"}
    \/ At(wiper, {"drain"}) \/ wiper.at = "record"

\* The calls wait as before, or for what is in the chain now, which is longer.
LEMMA PatientStays ==
    ASSUME SInv, Patient, chain' = chain \/ \E s : chain' = Append(chain, s),
           flusher'.left \in {0, flusher.left, Len(chain')},
           closer'.left \in {0, closer.left, Len(chain')},
           cutter'.left \in {0, cutter.left, Len(chain')},
           wiper'.left \in {0, wiper.left, Len(chain')}
    PROVE  Patient'
<1>1. /\ Len(chain) \in Nat /\ flusher.left \in Nat /\ closer.left \in Nat
      /\ cutter.left \in Nat /\ wiper.left \in Nat
    BY CallTypes DEF SInv, Callers
<1>2. Len(chain') \in Nat /\ Len(chain) <= Len(chain')
    <2>1. \A s : Len(Append(chain, s)) = Len(chain) + 1
        BY DEF SInv, Shapes, Batches
    <2> QED
        BY <1>1, <2>1
<1>3. \A n \in Nat : n <= Len(chain) => n <= Len(chain')
    BY <1>1, <1>2
<1>4. \A n : \/ n \in {0, flusher.left, Len(chain')} \/ n \in {0, closer.left, Len(chain')}
             \/ n \in {0, cutter.left, Len(chain')} \/ n \in {0, wiper.left, Len(chain')}
             => n <= Len(chain')
    BY <1>1, <1>2, <1>3 DEF Patient
<1> QED
    BY <1>4 DEF Patient

LEMMA FlushPatient ==
    ASSUME SInv, FlushBuffer
    PROVE  /\ chain' = chain \/ \E s : chain' = Append(chain, s)
           /\ AfterFlush \in {0, Len(chain')}
<1>1. CASE buffer = <<>>
    BY <1>1 DEF FlushBuffer, AfterFlush
<1>2. CASE buffer # <<>>
    <2>1. Len(Append(chain, buffer)) = Len(chain) + 1
        BY DEF SInv, Shapes, Batches
    <2> QED
        BY <1>2, <2>1 DEF FlushBuffer, AfterFlush
<1> QED
    BY <1>1, <1>2

LEMMA SettlePatient ==
    ASSUME SInv, Patient, chain # <<>>, NEW s, Settle(s)
    PROVE  Patient'
<1>1. /\ Len(chain) \in Nat /\ flusher.left \in Nat /\ closer.left \in Nat
      /\ cutter.left \in Nat /\ wiper.left \in Nat
    BY CallTypes DEF SInv, Callers
<1>2. Len(chain') = Len(chain) - 1 /\ Len(chain) >= 1
    BY <1>1 DEF Settle, SInv, Shapes, Batches
<1>3. /\ flusher'.left = IF flusher.left > 0 THEN flusher.left - 1 ELSE 0
      /\ closer'.left = IF closer.left > 0 THEN closer.left - 1 ELSE 0
      /\ cutter'.left = IF cutter.left > 0 THEN cutter.left - 1 ELSE 0
      /\ wiper'.left = IF wiper.left > 0 THEN wiper.left - 1 ELSE 0
    BY DEF Settle, OneLess, SInv, Callers
<1>4. \A n, m \in Nat : n <= m /\ m >= 1 => (IF n > 0 THEN n - 1 ELSE 0) <= m - 1
    OBVIOUS
<1> QED
    BY <1>1, <1>2, <1>3, <1>4 DEF Patient

LEMMA StepPatient == ASSUME SInv, Patient, [Next]_vars PROVE Patient'
<1>1. CASE AppendOne \/ AppendBatch \/ Push \/ Rename
    <2>1. chain' = chain \/ \E s : chain' = Append(chain, s)
        BY <1>1 DEF AppendOne, AppendBatch, AppendCall, Enter, Push, Rename
    <2>2. /\ UNCHANGED <<flusher, closer>> /\ cutter' \in {cutter, NoCut}
          /\ wiper' \in {wiper, NoWipe}
        BY <1>1 DEF AppendOne, AppendBatch, AppendCall, Push, Rename, calls
    <2>3. cutter'.left \in {0, cutter.left} /\ wiper'.left \in {0, wiper.left}
        BY <2>2 DEF NoCut, NoWipe
    <2> QED
        BY <2>1, <2>2, <2>3, PatientStays
<1>2. CASE Flush \/ Close \/ TimerFires \/ \E t \in Prompts \cup {0} : Truncate(t)
    <2>1. FlushBuffer
        BY <1>2 DEF Flush, Close, TimerFires, Truncate
    <2>2. CASE Flush
        <3>1. flusher'.left = AfterFlush /\ UNCHANGED <<closer, cutter, wiper>>
            BY <2>2 DEF Flush
        <3> QED
            BY <2>1, <3>1, FlushPatient, PatientStays
    <2>3. CASE Close
        <3>1. closer'.left = AfterFlush /\ UNCHANGED <<flusher, cutter, wiper>>
            BY <2>3 DEF Close, SInv, Callers
        <3> QED
            BY <2>1, <3>1, FlushPatient, PatientStays
    <2>4. CASE TimerFires
        <3>1. UNCHANGED <<flusher, closer, cutter, wiper>>
            BY <2>4 DEF TimerFires, calls
        <3> QED
            BY <2>1, <3>1, FlushPatient, PatientStays
    <2>5. CASE \E t \in Prompts \cup {0} : Truncate(t)
        <3>1. cutter'.left = AfterFlush /\ UNCHANGED <<flusher, closer, wiper>>
            BY <2>5 DEF Truncate, SInv, Callers
        <3> QED
            BY <2>1, <3>1, FlushPatient, PatientStays
    <2> QED
        BY <1>2, <2>2, <2>3, <2>4, <2>5
<1>3. CASE Clear
    <2>1. wiper'.left = Len(chain) /\ UNCHANGED <<chain, flusher, closer, cutter>>
        BY <1>3 DEF Clear
    <2> QED
        BY <2>1, PatientStays
<1>4. CASE CloseGoesOn
    <2>1. UNCHANGED <<chain, flusher, cutter, wiper>>
        BY <1>4 DEF CloseGoesOn, memory
    <2>2. closer'.left \in {closer.left, Len(chain)}
        BY <1>4 DEF CloseGoesOn, SInv, Callers
    <2> QED
        BY <2>1, <2>2, PatientStays
<1>5. CASE CutDrains \/ Scan \/ CutCloses \/ Copy \/ CutFails
    <2>1. UNCHANGED <<chain, flusher, closer, wiper>>
        BY <1>5 DEF CutDrains, Scan, CutCloses, Copy, CutFails, memory
    <2>2. CASE CutDrains
        BY <2>1, <2>2, PatientStays DEF CutDrains, SInv, Callers
    <2>3. CASE Scan
        <3>1. \/ cutter' = NoCut
              \/ \E k, n : cutter' = [cutter EXCEPT !.at = "redrain", !.left = Len(chain),
                                                    !.keep = k, !.stop = n]
            BY <2>3 DEF Scan
        <3>2. CASE cutter' = NoCut
            BY <2>1, <3>2, PatientStays DEF NoCut
        <3>3. CASE cutter' # NoCut
            <4>1. PICK k, n : cutter' = [cutter EXCEPT !.at = "redrain", !.left = Len(chain),
                                                       !.keep = k, !.stop = n]
                BY <3>1, <3>3
            <4>2. cutter'.left = Len(chain)
                BY <4>1 DEF SInv, Callers
            <4> QED
                BY <2>1, <4>2, PatientStays
        <3> QED
            BY <3>2, <3>3
    <2>4. CASE CutCloses
        BY <2>1, <2>4, PatientStays DEF CutCloses, SInv, Callers
    <2>5. CASE Copy
        <3>1. \E s : cutter' = [cutter EXCEPT !.at = "rename", !.kept = s]
            BY <2>5 DEF Copy
        <3>2. cutter'.left = cutter.left
            BY <3>1 DEF SInv, Callers
        <3> QED
            BY <2>1, <3>2, PatientStays
    <2>6. CASE CutFails
        BY <2>1, <2>6, PatientStays DEF CutFails, NoCut
    <2> QED
        BY <1>5, <2>2, <2>3, <2>4, <2>5, <2>6
<1>6. CASE FlushReturns
    <2>1. flusher'.left = 0 /\ UNCHANGED <<chain, closer, cutter, wiper>>
        BY <1>6 DEF FlushReturns, NoFlush, memory
    <2> QED
        BY <2>1, PatientStays
<1>7. CASE WipeOpens \/ WipeWrites \/ WipeFails \/ UNCHANGED vars
    <2>1. UNCHANGED <<chain, flusher, closer, cutter>>
        BY <1>7 DEF WipeOpens, WipeWrites, WipeFails, vars, memory, calls
    <2>2. wiper' \in {NoWipe, wiper, [wiper EXCEPT !.at = "record"]}
        BY <1>7 DEF WipeOpens, WipeWrites, WipeFails, vars, calls
    <2>3. wiper'.left \in {0, wiper.left}
        BY <2>2 DEF NoWipe, SInv, Callers
    <2> QED
        BY <2>1, <2>3, PatientStays
<1>8. CASE WriteDone \/ WriteFails
    <2>1. chain # <<>> /\ \E s : Settle(s)
        BY <1>8 DEF WriteDone, WriteFails
    <2> QED
        BY <2>1, SettlePatient
<1>9. CASE CrashAndResume
    <2>1. /\ chain' = <<>> /\ flusher'.left = 0 /\ closer'.left = 0
          /\ cutter'.left = 0 /\ wiper'.left = 0
        BY <1>9 DEF CrashAndResume, NoFlush, NoClose, NoCut, NoWipe
    <2> QED
        BY <2>1 DEF Patient
<1> QED
    BY <1>1, <1>2, <1>3, <1>4, <1>5, <1>6, <1>7, <1>8, <1>9
    DEF Next, UserCalls, Continues, Disk

\* As long as the session writer holds an event or one of its calls has not
\* returned, a write is under way, the timer is set, or somebody has nothing left
\* to wait for: no close, flush, rewind, clear, crash or failed write leaves an
\* event or a call behind with nothing that would take it further.
THEOREM NeverStalls == Spec => [](Unsettled => UnderWay)
<1>1. Init => Patient
    BY DEF Init, NoFlush, NoClose, NoCut, NoWipe, Patient
<1>2. SInv /\ Patient /\ [Next]_vars => Patient'
    BY StepPatient
<1>3. SInv /\ XInv /\ Patient => (Unsettled => UnderWay)
    <2> SUFFICES ASSUME SInv, XInv, Patient, Unsettled, ~UnderWay PROVE FALSE
        OBVIOUS
    <2>1. chain = <<>> /\ buffer = <<>>
        BY DEF UnderWay, SInv, Shapes
    <2>2. waiting = <<>>
        BY <2>1 DEF UnderWay, XInv, Kept, SInv, Shapes
    <2>3. Held = {}
        BY <2>1, <2>2, EmptyLog, EmptyBatches DEF Held
    <2>4. flusher.left = 0 /\ closer.left = 0 /\ cutter.left = 0 /\ wiper.left = 0
        BY <2>1 DEF Patient, SInv, Callers
    <2>5. /\ flusher.at = "idle" /\ closer.at \in {"idle", "closed"}
          /\ cutter.at = "idle" /\ wiper.at = "idle"
        BY <2>4 DEF UnderWay, At, SInv, Callers
    <2> QED
        BY <2>3, <2>5 DEF Unsettled
<1> QED
    BY <1>1, <1>2, <1>3, AlwaysSInv, AlwaysXInv, PTL DEF Spec
=============================================================================
