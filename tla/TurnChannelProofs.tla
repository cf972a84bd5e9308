------------------------- MODULE TurnChannelProofs -------------------------
(***************************************************************************)
(* Proofs of the safety properties of TurnChannel, for any number of tools, *)
(* any subset of browser tasks, any events, batch size and bound on rows,   *)
(* and all mishaps.                                                         *)
(***************************************************************************)
EXTENDS TurnChannel, SequenceTheorems, TLAPS

\* The first n rows of a source, in the order they were emitted.
RowsTo(s, n) == [i \in 1..n |-> Row(s, i)]

\* The rows that are to be stored.
Due == {row \in Rows : row.of \in marked \cup {Askai} /\ row.no <= emitted[row.of]}

\* The rows before this one, from the same source.
Before(row) == {Row(row.of, n) : n \in 1 .. row.no - 1}

\* Each row of the sequence comes after those before it, in the base or in the
\* sequence.
Follows(seq, base) ==
    \A i \in 1..Len(seq) : seq[i] \in Rows =>
        \A row \in Before(seq[i]) : row \in base \/ \E j \in 1 .. i - 1 : seq[j] = row

-----------------------------------------------------------------------------
\* A row waits at the first gate until its parent has started, at the second until
\* its parent is durable; behind both, all rows of an action are held or due.
Gates ==
    /\ known = {a \in Actions : Start[a] <= read}
    /\ marked \subseteq known
    /\ runner = "parent" => marked \cap Started(read) = {}
    /\ \A a \in Actions :
          /\ pending[a] = IF ~closed /\ a \notin known THEN RowsTo(a, emitted[a]) ELSE <<>>
          /\ held[a] = IF ~closed /\ a \in known \ marked THEN RowsTo(a, emitted[a]) ELSE <<>>
    /\ \A row \in Rows : row.of \in known \cup {Askai} /\ row.no <= emitted[row.of] => row \in history

\* An action is marked when its start event is acknowledged.
Parents ==
    /\ confirmed <= reached
    /\ 1..reached \subseteq persisted
    /\ \A a \in marked : Start[a] <= confirmed

\* While the writer is alive, what is due is stored, in the batch or in the queue.
Pipeline ==
    /\ stored \subseteq written
    /\ ToSet(batch) \subseteq written
    /\ ToSet(queue) \cap Rows \subseteq written
    /\ written \subseteq Due
    /\ Alive => /\ Due \subseteq written
                /\ written \subseteq stored \cup ToSet(batch) \cup ToSet(queue)
    /\ ~Alive => queue = <<>>

Order ==
    /\ ReplayHasNoHoles
    /\ Follows(batch, stored)
    /\ Follows(queue, stored \cup ToSet(batch))

\* Where the barrier of close and the stop mark may be.
Early == {"reading", "parent", "flush", "sideFlush", "evidence", "finish"}
CloseWaits ==
    /\ future["close"] = "pending"
    /\ scribe \in {"waiting", "persisting"} /\ serves # "close"
    /\ queue # <<>> /\ queue[Len(queue)] = Mark("close")
    /\ \A i \in 1 .. Len(queue) - 1 : queue[i] # Mark("close")
CloseServed ==
    /\ future["close"] = "pending"
    /\ scribe = "persisting" /\ serves = "close"
    /\ queue = <<>>
CloseDone ==
    /\ future["close"] = "done"
    /\ scribe = "waiting"
    /\ queue = <<>> /\ batch = <<>>

Closing ==
    /\ runner \in Early => /\ ~closed
                           /\ Mark("close") \notin ToSet(queue)
                           /\ serves # "close"
                           /\ future["close"] = "none"
    /\ runner \in Early \cup {"closing"} => /\ Mark("stop") \notin ToSet(queue)
                                            /\ serves # "stop"
                                            /\ scribe \notin {"done", "cancelled"}
    /\ runner \in {"closing", "stopping", "returned"} => closed
    /\ scribe = "waiting" => serves = "none"
    /\ runner = "closing" /\ Alive => CloseWaits \/ CloseServed \/ CloseDone
    /\ runner = "stopping" =>
          /\ batch = <<>>
          /\ \/ queue = <<Mark("stop")>> /\ scribe = "waiting"
             \/ queue = <<>> /\ scribe = "done"
    /\ runner = "returned" => scribe = "done" /\ queue = <<>> /\ batch = <<>>

\* When the rows' writer dies, only the caller of the barrier that is being served is
\* left waiting: the others are failed with the queue (projection_writer.py:127-131).
OnlyServedSideCallHangs ==
    \A b \in Barriers : future[b] = "pending" =>
        \/ Alive /\ (Mark(b) \in ToSet(queue) \/ (scribe = "persisting" /\ serves = b))
        \/ ~Alive /\ serves = b

ChannelInv ==
    /\ ChannelTypeOK /\ Gates /\ Parents /\ Pipeline /\ Order /\ Closing
    /\ OnlyServedSideCallHangs /\ HistoryIsComplete

-----------------------------------------------------------------------------
(* Sequences and what follows what in them.                                  *)

LEMMA ToSetEmpty == ToSet(<<>>) = {}
  BY DEF ToSet

LEMMA ToSetElements ==
  ASSUME NEW S, NEW s \in Seq(S)
  PROVE  ToSet(s) = {s[i] : i \in 1 .. Len(s)}
  BY LenProperties DEF ToSet

\* Concatenation.
LEMMA ToSetConcat ==
  ASSUME NEW S, NEW s \in Seq(S), NEW t \in Seq(S)
  PROVE  ToSet(s \o t) = ToSet(s) \cup ToSet(t)
<1> DEFINE u == s \o t
<1>1. /\ u \in Seq(S)
      /\ Len(s) \in Nat /\ Len(t) \in Nat /\ Len(u) = Len(s) + Len(t)
      /\ \A i \in 1 .. Len(s) + Len(t) : u[i] = IF i <= Len(s) THEN s[i] ELSE t[i - Len(s)]
  BY ConcatProperties, LenProperties
<1>2. /\ ToSet(s) = {s[i] : i \in 1 .. Len(s)}
      /\ ToSet(t) = {t[i] : i \in 1 .. Len(t)}
      /\ ToSet(u) = {u[i] : i \in 1 .. Len(u)}
  BY <1>1, ToSetElements
<1> HIDE DEF u
<1>3. ASSUME NEW i \in 1 .. Len(t) PROVE t[i] \in ToSet(u)
  <2>1. Len(s) + i \in 1 .. Len(u) /\ u[Len(s) + i] = t[i]
    BY <1>1
  <2> QED
    BY <2>1, <1>2
<1>4. ASSUME NEW i \in 1 .. Len(s) PROVE s[i] \in ToSet(u)
  <2>1. i \in 1 .. Len(u) /\ u[i] = s[i]
    BY <1>1
  <2> QED
    BY <2>1, <1>2
<1>5. ASSUME NEW i \in 1 .. Len(u) PROVE u[i] \in ToSet(s) \cup ToSet(t)
  <2>1. CASE i <= Len(s)
    BY <2>1, <1>1, <1>2
  <2>2. CASE ~(i <= Len(s))
    <3>1. i - Len(s) \in 1 .. Len(t) /\ u[i] = t[i - Len(s)]
      BY <2>2, <1>1
    <3> QED
      BY <3>1, <1>2
  <2> QED
    BY <2>1, <2>2
<1>6. ToSet(u) = ToSet(s) \cup ToSet(t)
  BY <1>2, <1>3, <1>4, <1>5
<1> QED
  BY <1>6 DEF u

LEMMA ToSetSingle == ASSUME NEW x PROVE ToSet(<<x>>) = {x}
  BY DEF ToSet

LEMMA ToSetAppend ==
  ASSUME NEW S, NEW s \in Seq(S), NEW x \in S
  PROVE  ToSet(Append(s, x)) = ToSet(s) \cup {x}
<1>1. Append(s, x) = s \o <<x>> /\ <<x>> \in Seq(S)
  BY AppendIsConcat
<1>2. ToSet(s \o <<x>>) = ToSet(s) \cup ToSet(<<x>>)
  BY <1>1, ToSetConcat
<1>3. ToSet(<<x>>) = {x}
  BY ToSetSingle
<1> QED
  BY <1>1, <1>2, <1>3

\* The head and the rest.
LEMMA HeadAndTail ==
  ASSUME NEW S, NEW s \in Seq(S), s # <<>>
  PROVE  /\ Head(s) \in S /\ Tail(s) \in Seq(S) /\ <<Head(s)>> \in Seq(S)
         /\ s = <<Head(s)>> \o Tail(s)
  BY HeadTailProperties, EmptySeq

LEMMA ToSetTail ==
  ASSUME NEW S, NEW s \in Seq(S), s # <<>>
  PROVE  ToSet(s) = {Head(s)} \cup ToSet(Tail(s))
<1>1. /\ Head(s) \in S /\ Tail(s) \in Seq(S) /\ <<Head(s)>> \in Seq(S)
      /\ s = <<Head(s)>> \o Tail(s)
  BY HeadAndTail
<1>2. ToSet(<<Head(s)>> \o Tail(s)) = ToSet(<<Head(s)>>) \cup ToSet(Tail(s))
  BY <1>1, ToSetConcat
<1>3. ToSet(<<Head(s)>>) = {Head(s)}
  BY ToSetSingle
<1> QED
  BY <1>1, <1>2, <1>3

LEMMA RowsToIsSeq ==
  ASSUME NEW s \in Sources, NEW n \in 0..MaxRows
  PROVE  /\ RowsTo(s, n) \in Seq(Rows)
         /\ Len(RowsTo(s, n)) = n
         /\ ToSet(RowsTo(s, n)) = {Row(s, m) : m \in 1..n}
  BY BoundsAreNumbers DEF RowsTo, Rows, ToSet

\* One more row.
LEMMA RowsToAppend ==
  ASSUME NEW s \in Sources, NEW n \in 0 .. MaxRows - 1
  PROVE  Append(RowsTo(s, n), Row(s, n + 1)) = RowsTo(s, n + 1)
<1>1. n \in Nat /\ RowsTo(s, n) \in Seq(Rows) /\ Len(RowsTo(s, n)) = n
  BY RowsToIsSeq, BoundsAreNumbers
<1> QED
  BY <1>1 DEF RowsTo

LEMMA RowFields ==
  /\ \A row \in Rows : row.of \in Sources /\ row.no \in 1..MaxRows /\ row = Row(row.of, row.no)
  /\ \A s \in Sources, n \in 1..MaxRows :
        Row(s, n) \in Rows /\ Row(s, n).of = s /\ Row(s, n).no = n
  /\ \A m \in Marks : m \notin Rows
  BY DEF Rows, Row, Marks, Mark

LEMMA BeforeAreRows == ASSUME NEW row \in Rows PROVE Before(row) \subseteq Rows
<1>1. \A n \in 1 .. row.no - 1 : n \in 1..MaxRows
  BY RowFields, BoundsAreNumbers
<1> QED
  BY <1>1, RowFields DEF Before

LEMMA FollowsEmpty == ASSUME NEW base PROVE Follows(<<>>, base)
  BY DEF Follows

LEMMA FollowsGrow ==
  ASSUME NEW S, NEW s \in Seq(S), NEW base, NEW wide, base \cap Rows \subseteq wide,
         Follows(s, base)
  PROVE  Follows(s, wide)
  BY BeforeAreRows DEF Follows

LEMMA FollowsSingle ==
  ASSUME NEW x, NEW base, x \in Rows => Before(x) \subseteq base
  PROVE  Follows(<<x>>, base)
  BY DEF Follows

LEMMA FollowsConcat ==
  ASSUME NEW S, NEW s \in Seq(S), NEW t \in Seq(S), NEW base,
         Follows(s, base), Follows(t, base \cup ToSet(s))
  PROVE  Follows(s \o t, base)
<1> DEFINE u == s \o t
<1>1. /\ Len(s) \in Nat /\ Len(t) \in Nat /\ Len(u) = Len(s) + Len(t)
      /\ \A i \in 1 .. Len(s) + Len(t) : u[i] = IF i <= Len(s) THEN s[i] ELSE t[i - Len(s)]
  BY ConcatProperties, LenProperties
<1>2. ToSet(s) = {s[i] : i \in 1 .. Len(s)}
  BY ToSetElements
<1> HIDE DEF u
<1>3. SUFFICES ASSUME NEW i \in 1 .. Len(u), u[i] \in Rows, NEW row \in Before(u[i])
               PROVE  row \in base \/ \E j \in 1 .. i - 1 : u[j] = row
  BY DEF Follows, u
<1>4. CASE i <= Len(s)
  <2>1. i \in 1 .. Len(s) /\ u[i] = s[i] /\ \A j \in 1 .. i - 1 : u[j] = s[j]
    BY <1>4, <1>1
  <2>2. row \in base \/ \E j \in 1 .. i - 1 : s[j] = row
    BY <2>1, <1>3 DEF Follows
  <2> QED
    BY <2>1, <2>2
<1>5. CASE ~(i <= Len(s))
  <2> DEFINE k == i - Len(s)
  <2>1. k \in 1 .. Len(t) /\ u[i] = t[k]
    BY <1>5, <1>1
  <2>2. row \in base \cup ToSet(s) \/ \E j \in 1 .. k - 1 : t[j] = row
    BY <2>1, <1>3 DEF Follows
  <2>3. ASSUME row \in ToSet(s) PROVE \E j \in 1 .. i - 1 : u[j] = row
    <3>1. PICK j \in 1 .. Len(s) : s[j] = row
      BY <2>3, <1>2
    <3>2. j \in 1 .. i - 1 /\ u[j] = row
      BY <3>1, <1>1, <1>5
    <3> QED
      BY <3>2
  <2>4. ASSUME NEW j \in 1 .. k - 1, t[j] = row PROVE \E l \in 1 .. i - 1 : u[l] = row
    <3>1. Len(s) + j \in 1 .. i - 1 /\ u[Len(s) + j] = row
      BY <2>4, <2>1, <1>1, <1>5
    <3> QED
      BY <3>1
  <2> QED
    BY <2>2, <2>3, <2>4
<1> QED
  BY <1>4, <1>5

LEMMA FollowsTail ==
  ASSUME NEW S, NEW s \in Seq(S), s # <<>>, NEW base, Follows(s, base)
  PROVE  /\ Follows(Tail(s), base \cup {Head(s)})
         /\ Head(s) \in Rows => Before(Head(s)) \subseteq base
<1> DEFINE u == Tail(s)
<1>1. /\ Len(s) \in Nat \ {0} /\ Head(s) = s[1]
      /\ Len(u) = Len(s) - 1
      /\ \A i \in 1 .. Len(u) : u[i] = s[i + 1]
  BY HeadTailProperties, EmptySeq
<1> HIDE DEF u
<1>2. Head(s) \in Rows => Before(Head(s)) \subseteq base
  BY <1>1 DEF Follows
<1>3. ASSUME NEW i \in 1 .. Len(u), u[i] \in Rows, NEW row \in Before(u[i])
      PROVE  row \in base \cup {Head(s)} \/ \E j \in 1 .. i - 1 : u[j] = row
  <2>1. i + 1 \in 1 .. Len(s) /\ s[i + 1] = u[i]
    BY <1>1
  <2>2. row \in base \/ \E j \in 1 .. (i + 1) - 1 : s[j] = row
    BY <2>1, <1>3 DEF Follows
  <2>3. ASSUME NEW j \in 1 .. (i + 1) - 1, s[j] = row, j # 1
        PROVE  \E l \in 1 .. i - 1 : u[l] = row
    <3>1. j - 1 \in 1 .. i - 1 /\ u[j - 1] = row
      BY <2>3, <1>1
    <3> QED
      BY <3>1
  <2> QED
    BY <1>1, <2>2, <2>3
<1> QED
  BY <1>2, <1>3 DEF Follows, u

LEMMA FollowsRowsTo ==
  ASSUME NEW s \in Sources, NEW n \in 0..MaxRows, NEW base
  PROVE  Follows(RowsTo(s, n), base)
<1>1. /\ n \in Nat /\ Len(RowsTo(s, n)) = n
      /\ \A i \in 1..n : RowsTo(s, n)[i] = Row(s, i)
  BY RowsToIsSeq, BoundsAreNumbers DEF RowsTo
<1>2. \A i \in 1..n : Before(Row(s, i)) = {Row(s, m) : m \in 1 .. i - 1}
  BY DEF Before, Row
<1> QED
  BY <1>1, <1>2 DEF Follows

-----------------------------------------------------------------------------
(* Types.                                                                    *)

LEMMA InitTypes == ChannelInit => ChannelTypeOK
<1> SUFFICES ASSUME ChannelInit PROVE ChannelTypeOK
  OBVIOUS
<1>1. /\ <<>> \in Seq(Rows) /\ <<>> \in Seq(Rows \cup Marks)
      /\ 0 \in 0..MaxRows /\ 0 \in 0..Terminal
  BY EmptySeq, BoundsAreNumbers, ActionsStartInTurn
<1> QED
  BY <1>1 DEF ChannelInit, ChannelTypeOK

\* What the parts of the writer's queue are.
LEMMA QueueTypes ==
  ASSUME ChannelTypeOK
  PROVE  /\ queue # <<>> => /\ Head(queue) \in Rows \cup Marks
                            /\ Tail(queue) \in Seq(Rows \cup Marks)
         /\ \A s \in Seq(Rows) : s \in Seq(Rows \cup Marks) /\ queue \o s \in Seq(Rows \cup Marks)
         /\ \A m \in Marks : Append(queue, m) \in Seq(Rows \cup Marks)
         /\ \A s \in Seq(Rows) : ToSet(s) \subseteq Rows
         /\ \A row \in Rows : <<row>> \in Seq(Rows)
<1>1. queue \in Seq(Rows \cup Marks)
  BY DEF ChannelTypeOK
<1>2. \A s \in Seq(Rows) : s \in Seq(Rows \cup Marks)
  BY SeqMonotonic
<1>3. \A s \in Seq(Rows) : queue \o s \in Seq(Rows \cup Marks)
  BY <1>1, <1>2, ConcatProperties
<1>4. queue # <<>> => Head(queue) \in Rows \cup Marks /\ Tail(queue) \in Seq(Rows \cup Marks)
  BY <1>1, HeadTailProperties
<1>5. \A m \in Marks : Append(queue, m) \in Seq(Rows \cup Marks)
  BY <1>1, AppendProperties
<1>6. \A s \in Seq(Rows) : ToSet(s) \subseteq Rows
  BY ToSetElements, ElementOfSeq
<1> QED
  BY <1>2, <1>3, <1>4, <1>5, <1>6

LEMMA MarkFacts ==
  /\ \A b \in Barriers : Mark(b) \in Marks /\ Mark(b).kind = b
  /\ Mark("stop") \in Marks
  /\ \A m \in Marks : m.kind \in Barriers \cup {"stop"} /\ m = Mark(m.kind)
  BY DEF Marks, Mark, Barriers

LEMMA TypeStep == ChannelTypeOK /\ [ChannelNext]_sideVars => ChannelTypeOK'
<1> SUFFICES ASSUME ChannelTypeOK, [ChannelNext]_sideVars PROVE ChannelTypeOK'
  OBVIOUS
<1> USE DEF ChannelTypeOK, channelVars, scribeVars, journalVars
<1>1. ASSUME NEW a \in Actions, PublishSide(a) PROVE ChannelTypeOK'
  <2> DEFINE row == Row(a, emitted'[a])
  <2>1. emitted' \in [Sources -> 0..MaxRows] /\ emitted'[a] \in 1..MaxRows
    BY <1>1, BoundsAreNumbers DEF PublishSide, Sources
  <2>2. row \in Rows /\ <<row>> \in Seq(Rows) /\ ToSet(<<row>>) \subseteq Rows
    <3>1. row \in Rows
      BY <2>1, RowFields DEF Sources
    <3> HIDE DEF row
    <3>2. <<row>> \in Seq(Rows)
      BY <3>1
    <3> QED
      BY <3>1, <3>2, QueueTypes
  <2>3. /\ Append(pending[a], row) \in Seq(Rows) /\ Append(held[a], row) \in Seq(Rows)
        /\ queue \o <<row>> \in Seq(Rows \cup Marks)
    BY <2>2, QueueTypes, AppendProperties
  <2> HIDE DEF row
  <2>4. /\ pending' \in [Actions -> Seq(Rows)] /\ held' \in [Actions -> Seq(Rows)]
        /\ history' \subseteq Rows /\ written' \subseteq Rows /\ queue' \in Seq(Rows \cup Marks)
    BY <1>1, <2>2, <2>3 DEF PublishSide, Enter, row
  <2> QED
    BY <1>1, <2>1, <2>4 DEF PublishSide
<1>2. ASSUME Standalone
      PROVE  /\ emitted' \in [Sources -> 0..MaxRows] /\ history' \subseteq Rows
             /\ written' \subseteq Rows /\ queue' \in Seq(Rows \cup Marks)
  <2> DEFINE row == Row(Askai, emitted'[Askai])
  <2>1. emitted' \in [Sources -> 0..MaxRows] /\ emitted'[Askai] \in 1..MaxRows
    BY <1>2, BoundsAreNumbers DEF Standalone, Sources
  <2>2. row \in Rows /\ <<row>> \in Seq(Rows) /\ ToSet(<<row>>) \subseteq Rows
    <3>1. row \in Rows
      BY <2>1, RowFields DEF Sources
    <3> HIDE DEF row
    <3>2. <<row>> \in Seq(Rows)
      BY <3>1
    <3> QED
      BY <3>1, <3>2, QueueTypes
  <2>3. queue \o <<row>> \in Seq(Rows \cup Marks)
    BY <2>2, QueueTypes
  <2> HIDE DEF row
  <2> QED
    BY <1>2, <2>1, <2>2, <2>3 DEF Standalone, Enter, row
<1>3. CASE PublishStandalone
  BY <1>2, <1>3 DEF PublishStandalone
<1>4. CASE ReadEvent
  <2>1. read' \in 0..Terminal
    BY <1>4, ActionsStartInTurn DEF ReadEvent
  <2>2. known' \subseteq Actions
    BY <1>4 DEF ReadEvent, Started
  <2>3. \A a \in Actions : <<>> \in Seq(Rows) /\ held[a] \o pending[a] \in Seq(Rows)
                           /\ held[a] \o <<>> \in Seq(Rows)
    BY EmptySeq, ConcatProperties
  <2>4. held' \in [Actions -> Seq(Rows)]
    <3>1. held' = [a \in Actions |-> held[a] \o (IF a \in Started(read') THEN pending[a] ELSE <<>>)]
      BY <1>4 DEF ReadEvent
    <3> QED
      BY <2>3, <3>1
  <2>5. pending' \in [Actions -> Seq(Rows)]
    BY <1>4, <2>3 DEF ReadEvent
  <2>6. history' \subseteq Rows
    BY <1>4, QueueTypes DEF ReadEvent, Started
  <2>7. runner' \in {"flush", "parent", "reading"}
    BY <1>4 DEF ReadEvent
  <2> QED
    BY <1>4, <2>1, <2>2, <2>4, <2>5, <2>6, <2>7 DEF ReadEvent
<1>5. CASE ParentFlushed
  <2>1. PICK a \in Started(read) :
             /\ Enter(held[a])
             /\ runner' = IF Alive \/ held[a] = <<>> THEN "reading" ELSE "evidence"
             /\ held' = [held EXCEPT ![a] = <<>>]
    BY <1>5 DEF ParentFlushed
  <2>2. a \in Actions /\ held[a] \in Seq(Rows)
    BY DEF Started
  <2>3. queue' \in Seq(Rows \cup Marks) /\ written' \subseteq Rows
    BY <2>1, <2>2, QueueTypes DEF Enter
  <2>4. held' \in [Actions -> Seq(Rows)] /\ marked' \subseteq Actions
    BY <1>5, <2>1, EmptySeq DEF ParentFlushed, Started
  <2>5. persisted' \subseteq 1..Terminal /\ reached' \in 0..Terminal /\ confirmed' \in 0..Terminal
    BY <1>5 DEF ParentFlushed, Acknowledged, Kernel!Acknowledge
  <2> QED
    BY <1>5, <2>1, <2>3, <2>4, <2>5 DEF ParentFlushed
<1>6. CASE TerminalFlushed
  <2>1. Append(queue, Mark("flush")) \in Seq(Rows \cup Marks)
    BY QueueTypes, MarkFacts DEF Barriers
  <2> QED
    BY <1>6, <2>1 DEF TerminalFlushed, Acknowledged, Kernel!Acknowledge, Barriers
<1>7. CASE SideFlushed
  BY <1>7 DEF SideFlushed
<1>8. CASE PublishEvidence
  BY <1>2, <1>8 DEF PublishEvidence
<1>9. CASE Finish
  <2>1. Append(queue, Mark("close")) \in Seq(Rows \cup Marks) /\ <<>> \in Seq(Rows)
    BY QueueTypes, MarkFacts, EmptySeq DEF Barriers
  <2> QED
    BY <1>9, <2>1 DEF Finish, Close, Barriers
<1>10. CASE CloseFlushed
  <2>1. Append(queue, Mark("stop")) \in Seq(Rows \cup Marks)
    BY QueueTypes, MarkFacts
  <2> QED
    BY <1>10, <2>1 DEF CloseFlushed
<1>11. CASE Finished
  BY <1>11 DEF Finished
<1>12. CASE EventsFail
  BY <1>12 DEF EventsFail
<1>13. CASE Cancel
  BY <1>13 DEF Cancel
<1>14. CASE TakeRow
  <2>1. Append(batch, Head(queue)) \in Seq(Rows)
    BY <1>14, AppendProperties DEF TakeRow
  <2>2. Tail(queue) \in Seq(Rows \cup Marks)
    BY <1>14, QueueTypes DEF TakeRow
  <2> QED
    BY <1>14, <2>1, <2>2 DEF TakeRow, Took
<1>15. CASE SideDelayPasses
  BY <1>15 DEF SideDelayPasses
<1>16. CASE TakeMark
  <2>1. Tail(queue) \in Seq(Rows \cup Marks) /\ Head(queue).kind \in Barriers \cup {"stop"}
    BY <1>16, QueueTypes, MarkFacts DEF TakeMark
  <2>2. queue' \in Seq(Rows \cup Marks) /\ scribe' \in {"waiting", "persisting", "done"}
    BY <1>16, <2>1 DEF TakeMark, Took
  <2>3. serves' \in Barriers \cup {"none", "stop"}
    BY <1>16, <2>1 DEF TakeMark
  <2>4. future' \in [Barriers -> {"none", "pending", "done", "failed", "gone"}]
    BY <1>16, <2>1 DEF TakeMark, Resolved
  <2> QED
    BY <1>16, <2>2, <2>3, <2>4 DEF TakeMark
<1>17. CASE BatchStored
  BY <1>17, EmptySeq DEF BatchStored, Resolved
<1>18. CASE RowsFail
  BY <1>18, EmptySeq DEF RowsFail
<1>19. CASE LandRow
  <2>1. \A i \in DOMAIN batch : batch[i] \in Rows
    BY LenProperties, ElementOfSeq
  <2> QED
    BY <1>19, <2>1 DEF LandRow
<1>20. CASE JournalStep
  <2>1. CASE Kernel!Persist
    BY <1>20, <2>1 DEF JournalStep, Kernel!Persist
  <2>2. CASE Kernel!Advance
    <3>1. persisted' = persisted /\ confirmed' = confirmed /\ reached' \in 1..Terminal
      BY <2>2 DEF Kernel!Advance
    <3>2. reached' \in 0..Terminal
      BY <3>1, ActionsStartInTurn
    <3> QED
      BY <1>20, <3>1, <3>2 DEF JournalStep
  <2> QED
    BY <1>20, <2>1, <2>2 DEF JournalStep
<1>21. CASE UNCHANGED sideVars
  BY <1>21 DEF sideVars
<1> QED
  BY <1>1, <1>3, <1>4, <1>5, <1>6, <1>7, <1>8, <1>9, <1>10, <1>11, <1>12, <1>13, <1>14, <1>15,
     <1>16, <1>17, <1>18, <1>19, <1>20, <1>21
  DEF ChannelNext, Emitter, TurnRunner, Return, Scribe

-----------------------------------------------------------------------------
(* The gates and the parents.                                                *)

\* One action starts with an event at most.
LEMMA StartedIsOne ==
  ASSUME NEW e, NEW a \in Started(e) PROVE a \in Actions /\ Started(e) = {a} /\ Start[a] = e
  BY ActionsStartInTurn DEF Started

LEMMA SameGates ==
  ASSUME Gates, UNCHANGED <<read, emitted, channelVars>>, runner' = "parent" => runner = "parent"
  PROVE  Gates'
  BY DEF Gates, channelVars, Started

\* A standalone row passes no gate.
LEMMA StandaloneGates ==
  ASSUME ChannelTypeOK, Gates, Standalone, UNCHANGED <<read, known, marked, pending, held, closed>>,
         runner' = "parent" => runner = "parent"
  PROVE  Gates'
<1>1. /\ emitted' = [emitted EXCEPT ![Askai] = @ + 1]
      /\ history' = history \cup {Row(Askai, emitted'[Askai])}
      /\ emitted[Askai] \in Nat /\ Askai \notin Actions
  BY SourcesAreDistinct, BoundsAreNumbers DEF Standalone, ChannelTypeOK, Sources
<1>2. \A a \in Actions : emitted'[a] = emitted[a]
  BY <1>1 DEF ChannelTypeOK, Sources
<1>3. emitted'[Askai] = emitted[Askai] + 1
  BY <1>1 DEF ChannelTypeOK, Sources
<1>4. ASSUME NEW row \in Rows, row.of \in known \cup {Askai}, row.no <= emitted'[row.of]
      PROVE  row \in history'
  <2>1. row.no \in 1..MaxRows /\ row = Row(row.of, row.no)
    BY RowFields
  <2>2. CASE row.of \in known
    BY <1>1, <1>2, <1>4, <2>2 DEF Gates
  <2>3. CASE row.of = Askai /\ row.no <= emitted[Askai]
    BY <1>1, <1>4, <2>3 DEF Gates
  <2>4. CASE row.of = Askai /\ row.no = emitted[Askai] + 1
    BY <1>1, <1>3, <2>1, <2>4
  <2> QED
    BY <1>1, <1>3, <1>4, <2>1, <2>2, <2>3, <2>4, BoundsAreNumbers
<1> QED
  BY <1>2, <1>4 DEF Gates, Started

LEMMA GatesStep ==
  ChannelTypeOK /\ Gates /\ Closing /\ [ChannelNext]_sideVars => Gates'
<1> SUFFICES ASSUME ChannelTypeOK, Gates, Closing, [ChannelNext]_sideVars PROVE Gates'
  OBVIOUS
<1>1. ASSUME NEW a \in Actions, PublishSide(a) PROVE Gates'
  <2> DEFINE n == emitted[a]
             row == Row(a, n + 1)
  <2>1. /\ n \in 0 .. MaxRows - 1 /\ ~closed /\ ~closed'
        /\ emitted' = [emitted EXCEPT ![a] = n + 1] /\ emitted'[a] = n + 1
        /\ \A s \in Sources : s # a => emitted'[s] = emitted[s]
        /\ UNCHANGED <<runner, read, known, marked>>
    BY <1>1, BoundsAreNumbers DEF PublishSide, ChannelTypeOK, Sources
  <2>2. a \in Sources /\ Actions \subseteq Sources /\ n + 1 \in 1..MaxRows
    BY <2>1, BoundsAreNumbers DEF Sources
  <2>3. Append(RowsTo(a, n), row) = RowsTo(a, n + 1)
    BY <2>1, <2>2, RowsToAppend
  <2> HIDE DEF n, row
  <2>4. CASE a \notin known
    <3>1. pending' = [pending EXCEPT ![a] = Append(@, row)] /\ UNCHANGED <<held, history>>
      BY <1>1, <2>1, <2>4 DEF PublishSide, row
    <3>2. pending[a] = RowsTo(a, n)
      BY <2>1, <2>4 DEF Gates, n
    <3>3. pending'[a] = RowsTo(a, emitted'[a]) /\ \A b \in Actions : b # a => pending'[b] = pending[b]
      BY <2>1, <2>3, <3>1, <3>2 DEF ChannelTypeOK
    <3>4. \A b \in Actions :
             /\ pending'[b] = IF ~closed' /\ b \notin known' THEN RowsTo(b, emitted'[b]) ELSE <<>>
             /\ held'[b] = IF ~closed' /\ b \in known' \ marked' THEN RowsTo(b, emitted'[b]) ELSE <<>>
      BY <2>1, <2>2, <2>4, <3>1, <3>3 DEF Gates
    <3>5. a # Askai
      BY SourcesAreDistinct
    <3> QED
      BY <2>1, <2>2, <2>4, <3>1, <3>4, <3>5 DEF Gates, Started, Sources
  <2>5. CASE a \in known
    <3>1. history' = history \cup {row} /\ UNCHANGED pending
      BY <1>1, <2>1, <2>5 DEF PublishSide, row
    <3>2. \A b \in Actions : b # a => held'[b] = held[b]
      BY <1>1, <2>5 DEF PublishSide, Replayable, ChannelTypeOK
    <3>3. a \in marked => held' = held
      BY <1>1, <2>5 DEF PublishSide, Replayable
    <3>4. ASSUME a \notin marked PROVE held'[a] = RowsTo(a, emitted'[a])
      <4>1. held[a] = RowsTo(a, n)
        BY <2>1, <2>5, <3>4 DEF Gates, n
      <4>2. held'[a] = Append(held[a], row)
        BY <1>1, <2>1, <2>5, <3>4 DEF PublishSide, Replayable, ChannelTypeOK, row
      <4> QED
        BY <2>1, <2>3, <4>1, <4>2
    <3>5. \A b \in Actions :
             /\ pending'[b] = IF ~closed' /\ b \notin known' THEN RowsTo(b, emitted'[b]) ELSE <<>>
             /\ held'[b] = IF ~closed' /\ b \in known' \ marked' THEN RowsTo(b, emitted'[b]) ELSE <<>>
      BY <2>1, <2>2, <2>5, <3>1, <3>2, <3>3, <3>4 DEF Gates
    <3>6. ASSUME NEW x \in Rows, x.of \in known \cup {Askai}, x.no <= emitted'[x.of]
          PROVE  x \in history'
      <4>1. x.of \in Sources /\ x.no \in 1..MaxRows /\ x = Row(x.of, x.no)
        BY RowFields
      <4>2. CASE x.of # a
        BY <2>1, <3>1, <3>6, <4>1, <4>2 DEF Gates
      <4>3. CASE x.of = a /\ x.no <= n
        BY <3>1, <3>6, <4>3 DEF Gates, n
      <4>4. CASE x.of = a /\ x.no = n + 1
        BY <3>1, <4>1, <4>4 DEF row
      <4> QED
        BY <2>1, <3>6, <4>1, <4>2, <4>3, <4>4, BoundsAreNumbers
    <3> QED
      BY <2>1, <3>5, <3>6 DEF Gates, Started
  <2> QED
    BY <2>4, <2>5
<1>2. CASE PublishStandalone
  BY <1>2, StandaloneGates DEF PublishStandalone
<1>3. CASE PublishEvidence
  <2>1. CASE Standalone
    BY <1>3, <2>1, StandaloneGates DEF PublishEvidence
  <2>2. CASE UNCHANGED <<emitted, history, written>>
    BY <1>3, <2>2, SameGates DEF PublishEvidence, channelVars
  <2> QED
    BY <1>3, <2>1, <2>2 DEF PublishEvidence
<1>4. CASE ReadEvent
  <2> DEFINE new == Started(read')
  <2>1. /\ read \in Nat /\ read' = read + 1 /\ ~closed /\ ~closed'
        /\ known' = known \cup new /\ UNCHANGED <<emitted, marked>>
        /\ held' = [a \in Actions |-> held[a] \o (IF a \in new THEN pending[a] ELSE <<>>)]
        /\ pending' = [a \in Actions |-> IF a \in new THEN <<>> ELSE pending[a]]
        /\ history' = history \cup UNION {ToSet(pending[a]) : a \in new}
    BY <1>4, ActionsStartInTurn DEF ReadEvent, ChannelTypeOK, Closing, Early
  <2>2. new = {a \in Actions : Start[a] = read + 1}
    BY <2>1 DEF Started
  <2>3. \A a \in Actions : Start[a] \in Nat
    BY ActionsStartInTurn
  <2> HIDE DEF new
  <2>4. known' = {a \in Actions : Start[a] <= read'} /\ new \cap known = {}
    BY <2>1, <2>2, <2>3 DEF Gates
  <2>5. marked' \subseteq known' /\ marked' \cap new = {}
    BY <2>1, <2>4 DEF Gates
  <2>6. \A a \in new : a \in Actions /\ held[a] = <<>> /\ pending[a] = RowsTo(a, emitted[a])
    BY <2>1, <2>2, <2>4 DEF Gates
  <2>7. \A a \in Actions : held[a] \o <<>> = held[a] /\ <<>> \o pending[a] = pending[a]
    BY ConcatEmptySeq DEF ChannelTypeOK
  <2>8. \A a \in new : held'[a] = RowsTo(a, emitted[a]) /\ pending'[a] = <<>>
    BY <2>1, <2>6, <2>7
  <2>9. \A a \in Actions \ new : held'[a] = held[a] /\ pending'[a] = pending[a]
    BY <2>1, <2>7
  <2>10. \A b \in Actions :
             /\ pending'[b] = IF ~closed' /\ b \notin known' THEN RowsTo(b, emitted'[b]) ELSE <<>>
             /\ held'[b] = IF ~closed' /\ b \in known' \ marked' THEN RowsTo(b, emitted'[b]) ELSE <<>>
    BY <2>1, <2>4, <2>5, <2>8, <2>9 DEF Gates
  <2>11. ASSUME NEW x \in Rows, x.of \in known' \cup {Askai}, x.no <= emitted[x.of]
         PROVE  x \in history'
    <3>1. CASE x.of \in new
      <4>1. x.of \in Sources /\ emitted[x.of] \in 0..MaxRows
        BY <3>1, <2>6 DEF Sources, ChannelTypeOK
      <4>2. ToSet(pending[x.of]) = {Row(x.of, m) : m \in 1 .. emitted[x.of]}
        BY <2>6, <3>1, <4>1, RowsToIsSeq
      <4>3. x = Row(x.of, x.no) /\ x.no \in 1 .. emitted[x.of]
        BY <2>11, <4>1, RowFields, BoundsAreNumbers
      <4> QED
        BY <2>1, <3>1, <4>2, <4>3
    <3>2. CASE x.of \notin new
      BY <2>1, <2>11, <3>2 DEF Gates
    <3> QED
      BY <3>1, <3>2
  <2> QED
    BY <2>1, <2>4, <2>5, <2>10, <2>11 DEF Gates, new
<1>5. CASE ParentFlushed
  <2>1. PICK a \in Started(read) :
             /\ runner' \in {"reading", "evidence"}
             /\ held' = [held EXCEPT ![a] = <<>>]
    BY <1>5 DEF ParentFlushed
  <2>2. a \in Actions /\ Started(read) = {a} /\ Start[a] = read
    BY <2>1, StartedIsOne
  <2>3. a \in known /\ marked' = marked \cup {a}
    BY <1>5, <2>2 DEF ParentFlushed, Gates, ChannelTypeOK
  <2>4. UNCHANGED <<read, emitted, known, pending, history, closed>>
    BY <1>5 DEF ParentFlushed
  <2>5. \A b \in Actions : held'[b] = IF b = a THEN <<>> ELSE held[b]
    BY <2>1 DEF ChannelTypeOK
  <2>6. \A b \in Actions :
           held'[b] = IF ~closed' /\ b \in known' \ marked' THEN RowsTo(b, emitted'[b]) ELSE <<>>
    BY <2>3, <2>4, <2>5 DEF Gates
  <2> QED
    BY <2>1, <2>3, <2>4, <2>6 DEF Gates
<1>6. CASE Finish
  BY <1>6 DEF Finish, Close, Gates
<1>7. CASE UNCHANGED <<read, emitted, channelVars>> /\ (runner' = "parent" => runner = "parent")
  BY <1>7, SameGates
<1>8. CASE \/ TerminalFlushed \/ SideFlushed \/ CloseFlushed \/ Finished \/ EventsFail \/ Cancel
           \/ TakeRow \/ SideDelayPasses \/ TakeMark \/ BatchStored \/ RowsFail \/ LandRow
           \/ JournalStep \/ UNCHANGED sideVars
  BY <1>7, <1>8 DEF TerminalFlushed, SideFlushed, CloseFlushed, Finished, EventsFail, Cancel,
     TakeRow, SideDelayPasses, TakeMark, BatchStored, RowsFail, LandRow, JournalStep, sideVars
<1> QED
  BY <1>1, <1>2, <1>3, <1>4, <1>5, <1>6, <1>8
  DEF ChannelNext, Emitter, TurnRunner, Return, Scribe

LEMMA ParentsStep ==
  ChannelTypeOK /\ Parents /\ [ChannelNext]_sideVars => Parents'
<1> SUFFICES ASSUME ChannelTypeOK, Parents, [ChannelNext]_sideVars PROVE Parents'
  OBVIOUS
<1> reached \in Nat /\ confirmed \in Nat /\ read \in Nat
  BY ActionsStartInTurn DEF ChannelTypeOK
<1>1. ASSUME Acknowledged PROVE /\ UNCHANGED <<persisted, reached>>
                                /\ confirmed <= confirmed' /\ confirmed' <= reached'
                                /\ confirmed' = read
  BY <1>1 DEF Acknowledged, Kernel!Acknowledge
<1>2. CASE ParentFlushed
  <2>1. \A a \in marked' : a \in marked \/ Start[a] = read
    BY <1>2, StartedIsOne DEF ParentFlushed
  <2>2. \A a \in marked' : Start[a] \in Nat
    <3>1. marked' \subseteq Actions
      BY <1>2 DEF ParentFlushed, Started, ChannelTypeOK
    <3> QED
      BY <3>1, ActionsStartInTurn
  <2>3. /\ UNCHANGED <<persisted, reached>>
        /\ confirmed <= confirmed' /\ confirmed' <= reached' /\ confirmed' = read
    BY <1>1, <1>2 DEF ParentFlushed
  <2>4. \A a \in marked' : Start[a] <= confirmed'
    BY <2>1, <2>2, <2>3 DEF Parents
  <2> QED
    BY <2>3, <2>4 DEF Parents
<1>3. CASE TerminalFlushed
  <2>1. /\ UNCHANGED <<persisted, reached, marked>>
        /\ confirmed <= confirmed' /\ confirmed' <= reached' /\ confirmed' \in Nat
    BY <1>1, <1>3 DEF TerminalFlushed, channelVars
  <2>2. \A a \in marked : Start[a] \in Nat
    BY ActionsStartInTurn DEF ChannelTypeOK
  <2> QED
    BY <2>1, <2>2 DEF Parents
<1>4. CASE JournalStep
  <2>1. CASE Kernel!Persist
    BY <1>4, <2>1 DEF JournalStep, Kernel!Persist, Parents, channelVars
  <2>2. CASE Kernel!Advance
    <3>1. PICK c \in 1..Terminal : reached < c /\ 1..c \subseteq persisted /\ reached' = c
      BY <2>2 DEF Kernel!Advance
    <3>2. UNCHANGED <<persisted, confirmed, marked>>
      BY <1>4, <2>2 DEF JournalStep, Kernel!Advance, channelVars
    <3> QED
      BY <3>1, <3>2 DEF Parents
  <2> QED
    BY <1>4, <2>1, <2>2 DEF JournalStep
<1>5. CASE UNCHANGED <<marked, journalVars>>
  BY <1>5 DEF Parents, journalVars
<1>6. CASE Emitter
  BY <1>5, <1>6 DEF Emitter, PublishSide, PublishStandalone
<1>7. CASE ReadEvent \/ PublishEvidence \/ Finish \/ Return \/ EventsFail \/ Cancel
  BY <1>5, <1>7 DEF ReadEvent, PublishEvidence, Finish, Return, SideFlushed, CloseFlushed, Finished,
     EventsFail, Cancel, channelVars
<1>8. CASE Scribe \/ RowsFail
  BY <1>5, <1>8 DEF Scribe, TakeRow, SideDelayPasses, TakeMark, BatchStored, LandRow, RowsFail, channelVars
<1>9. CASE UNCHANGED sideVars
  BY <1>5, <1>9 DEF sideVars, channelVars
<1> QED
  BY <1>2, <1>3, <1>4, <1>6, <1>7, <1>8, <1>9 DEF ChannelNext, TurnRunner

-----------------------------------------------------------------------------
(* Closing.                                                                  *)

\* What enters the queue are rows.
LEMMA EnterQueue ==
  ASSUME ChannelTypeOK, NEW rows \in Seq(Rows), Enter(rows)
  PROVE  /\ Alive => queue' = queue \o rows /\ ToSet(queue') = ToSet(queue) \cup ToSet(rows)
         /\ Alive => written' = written \cup ToSet(rows)
         /\ ~Alive => UNCHANGED <<queue, written>>
         /\ ToSet(rows) \subseteq Rows
<1>1. rows \in Seq(Rows \cup Marks) /\ ToSet(rows) \subseteq Rows /\ queue \in Seq(Rows \cup Marks)
  BY QueueTypes DEF ChannelTypeOK
<1>2. ToSet(queue \o rows) = ToSet(queue) \cup ToSet(rows)
  BY <1>1, ToSetConcat
<1> QED
  BY <1>1, <1>2 DEF Enter

\* The steps that put at most rows into the queue, and those that put none.
LEMMA OpenStep ==
  ASSUME Closing, ~closed, UNCHANGED <<closed, batch, scribe, serves, future>>,
         ToSet(queue') \subseteq ToSet(queue) \cup Rows,
         runner' = runner \/ (runner \in Early /\ runner' \in Early \cup {"raised"})
  PROVE  Closing'
  BY MarkFacts, RowFields DEF Closing, Early, Barriers

LEMMA SameClosing ==
  ASSUME Closing, UNCHANGED <<runner, closed, queue, batch, scribe, serves, future>>
  PROVE  Closing'
  BY DEF Closing, CloseWaits, CloseServed, CloseDone, Alive

\* Whoever emits gives the writer rows at most.
LEMMA PublishEnters ==
  ASSUME ChannelTypeOK
  PROVE  /\ \A a \in Actions : PublishSide(a) => ToSet(queue') \subseteq ToSet(queue) \cup Rows
         /\ Standalone => ToSet(queue') \subseteq ToSet(queue) \cup Rows
<1>1. \A s \in Sources : emitted[s] < MaxRows =>
         Row(s, emitted[s] + 1) \in Rows /\ <<Row(s, emitted[s] + 1)>> \in Seq(Rows)
  BY RowFields, BoundsAreNumbers DEF ChannelTypeOK
<1>2. ASSUME NEW a \in Actions, PublishSide(a) PROVE ToSet(queue') \subseteq ToSet(queue) \cup Rows
  <2>1. a \in Sources /\ emitted[a] < MaxRows /\ emitted'[a] = emitted[a] + 1
    BY <1>2 DEF PublishSide, ChannelTypeOK, Sources
  <2>2. UNCHANGED queue \/ Enter(<<Row(a, emitted[a] + 1)>>)
    BY <1>2, <2>1 DEF PublishSide
  <2> QED
    BY <1>1, <2>1, <2>2, EnterQueue
<1>3. ASSUME Standalone PROVE ToSet(queue') \subseteq ToSet(queue) \cup Rows
  <2>1. Askai \in Sources /\ emitted[Askai] < MaxRows /\ emitted'[Askai] = emitted[Askai] + 1
    BY <1>3 DEF Standalone, ChannelTypeOK, Sources
  <2>2. Enter(<<Row(Askai, emitted[Askai] + 1)>>)
    BY <1>3, <2>1 DEF Standalone
  <2> QED
    BY <1>1, <2>1, <2>2, EnterQueue
<1> QED
  BY <1>2, <1>3

\* The barrier stays the last when what is before it is taken.
LEMMA WaitsBehindTail ==
  ASSUME NEW S, NEW s \in Seq(S), s # <<>>, NEW m, s[Len(s)] = m,
         \A i \in 1 .. Len(s) - 1 : s[i] # m
  PROVE  /\ Head(s) = m => Tail(s) = <<>>
         /\ Head(s) # m => /\ Tail(s) # <<>> /\ Tail(s)[Len(Tail(s))] = m
                           /\ \A i \in 1 .. Len(Tail(s)) - 1 : Tail(s)[i] # m
<1>1. /\ Len(s) \in Nat \ {0} /\ Head(s) = s[1] /\ Tail(s) \in Seq(S)
      /\ Len(Tail(s)) = Len(s) - 1
      /\ \A i \in 1 .. Len(Tail(s)) : Tail(s)[i] = s[i + 1]
  BY HeadTailProperties, EmptySeq
<1>2. CASE Len(s) = 1
  <2>1. Head(s) = m /\ Len(Tail(s)) = 0
    BY <1>1, <1>2
  <2>2. Tail(s) = <<>>
    BY <1>1, <2>1, EmptySeq
  <2> QED
    BY <2>1, <2>2
<1>3. CASE Len(s) > 1
  <2>1. Head(s) # m
    BY <1>1, <1>3
  <2>2. Len(Tail(s)) \in Nat \ {0} /\ Tail(s) # <<>>
    <3>1. Len(Tail(s)) \in Nat \ {0}
      BY <1>1, <1>3
    <3>2. Len(<<>>) = 0
      OBVIOUS
    <3> QED
      BY <3>1, <3>2
  <2>3. Tail(s)[Len(Tail(s))] = m
    BY <1>1, <2>2
  <2>4. \A i \in 1 .. Len(Tail(s)) - 1 : Tail(s)[i] # m
    BY <1>1, <2>2
  <2> QED
    BY <2>1, <2>2, <2>3, <2>4
<1> QED
  BY <1>1, <1>2, <1>3

LEMMA ClosingStep ==
  ChannelTypeOK /\ Closing /\ [ChannelNext]_sideVars => Closing'
<1> SUFFICES ASSUME ChannelTypeOK, Closing, [ChannelNext]_sideVars PROVE Closing'
  OBVIOUS
<1> USE DEF channelVars, scribeVars, journalVars
<1> queue \in Seq(Rows \cup Marks) /\ batch \in Seq(Rows)
  BY DEF ChannelTypeOK
<1> Mark("close") \in Marks /\ Mark("stop") \in Marks /\ Mark("flush") \in Marks
  BY MarkFacts DEF Barriers
<1> Mark("close").kind = "close" /\ Mark("stop").kind = "stop" /\ Mark("flush").kind = "flush"
  BY DEF Mark
<1>1. CASE Emitter
  <2>1. ~closed /\ UNCHANGED <<runner, closed, batch, scribe, serves, future>>
    BY <1>1 DEF Emitter, PublishSide, PublishStandalone
  <2>2. ToSet(queue') \subseteq ToSet(queue) \cup Rows
    BY <1>1, PublishEnters DEF Emitter, PublishStandalone
  <2> QED
    BY <2>1, <2>2, OpenStep
<1>2. CASE PublishEvidence
  <2>1. /\ runner = "evidence" /\ runner' \in {"finish", "raised"} /\ ~closed
        /\ UNCHANGED <<closed, batch, scribe, serves, future>>
    BY <1>2 DEF PublishEvidence, Closing, Early
  <2>2. ToSet(queue') \subseteq ToSet(queue) \cup Rows
    BY <1>2, PublishEnters DEF PublishEvidence
  <2> QED
    BY <2>1, <2>2, OpenStep DEF Early
<1>3. CASE ParentFlushed
  <2>1. PICK a \in Started(read) :
             /\ Enter(held[a])
             /\ runner' = IF Alive \/ held[a] = <<>> THEN "reading" ELSE "evidence"
    BY <1>3 DEF ParentFlushed
  <2>2. held[a] \in Seq(Rows)
    BY DEF Started, ChannelTypeOK
  <2>3. ToSet(queue') \subseteq ToSet(queue) \cup Rows
    BY <2>1, <2>2, EnterQueue
  <2>4. /\ runner = "parent" /\ runner' \in {"reading", "evidence"} /\ ~closed
        /\ UNCHANGED <<closed, batch, scribe, serves, future>>
    BY <1>3, <2>1 DEF ParentFlushed, Closing, Early
  <2> QED
    BY <2>3, <2>4, OpenStep DEF Early
<1>4. CASE ReadEvent \/ SideFlushed \/ EventsFail
  <2>1. /\ runner \in Early /\ runner' \in Early \cup {"raised"}
        /\ UNCHANGED <<closed, queue, batch, scribe, serves, future>>
    BY <1>4 DEF ReadEvent, SideFlushed, EventsFail, Early
  <2> QED
    BY <2>1, OpenStep DEF Closing
<1>5. CASE TerminalFlushed
  <2>1. /\ runner = "flush" /\ runner' \in {"sideFlush", "evidence"} /\ ~closed
        /\ UNCHANGED <<closed, batch, scribe, serves>> /\ future'["close"] = "none"
    BY <1>5 DEF TerminalFlushed, Closing, Early, ChannelTypeOK, Barriers
  <2>2. ToSet(queue') \subseteq ToSet(queue) \cup {Mark("flush")}
    <3>1. ToSet(Append(queue, Mark("flush"))) = ToSet(queue) \cup {Mark("flush")}
      BY ToSetAppend
    <3> QED
      BY <1>5, <3>1 DEF TerminalFlushed
  <2> QED
    BY <2>1, <2>2, MarkFacts DEF Closing, Early
<1>6. CASE Finish
  <2>1. CASE ~Alive
    BY <1>6, <2>1 DEF Finish, Close, Closing, Early
  <2>2. CASE Alive
    <3>1. /\ runner = "finish" /\ runner' = "closing" /\ closed'
          /\ queue' = Append(queue, Mark("close"))
          /\ future' = [future EXCEPT !["close"] = "pending"]
          /\ UNCHANGED <<batch, scribe, serves>>
      BY <1>6, <2>2 DEF Finish, Close
    <3>2. future'["close"] = "pending"
      BY <3>1 DEF ChannelTypeOK, Barriers
    <3>3. /\ Mark("close") \notin ToSet(queue) /\ Mark("stop") \notin ToSet(queue)
          /\ serves # "close" /\ serves # "stop" /\ scribe \in {"waiting", "persisting"}
      BY <2>2, <3>1 DEF Closing, Early, Alive, ChannelTypeOK
    <3>4. /\ Len(queue) \in Nat /\ Len(queue') = Len(queue) + 1
          /\ queue'[Len(queue')] = Mark("close")
          /\ \A i \in 1 .. Len(queue') - 1 : i \in 1 .. Len(queue) /\ queue'[i] = queue[i]
      BY <3>1, AppendProperties, LenProperties
    <3>5. \A i \in 1 .. Len(queue) : queue[i] # Mark("close")
      BY <3>3, ToSetElements
    <3>6. queue' # <<>>
      BY <3>4, EmptySeq
    <3>7. CloseWaits'
      BY <3>1, <3>2, <3>3, <3>4, <3>5, <3>6 DEF CloseWaits
    <3>8. Mark("stop") \notin ToSet(queue')
      <4>1. ToSet(queue') = ToSet(queue) \cup {Mark("close")}
        BY <3>1, ToSetAppend
      <4> QED
        BY <3>3, <4>1, MarkFacts
    <3> QED
      BY <3>1, <3>3, <3>7, <3>8 DEF Closing, Early
  <2> QED
    BY <2>1, <2>2
<1>7. CASE CloseFlushed
  <2>1. CASE runner' = "raised"
    BY <1>7, <2>1 DEF CloseFlushed, Closing, Early
  <2>2. CASE runner' # "raised"
    <3>1. /\ runner = "closing" /\ runner' = "stopping" /\ Alive /\ future["close"] = "done"
          /\ queue' = Append(queue, Mark("stop"))
          /\ UNCHANGED <<closed, batch, scribe, serves>>
      BY <1>7, <2>2 DEF CloseFlushed
    <3>2. CloseDone
      BY <3>1 DEF Closing, CloseWaits, CloseServed
    <3>3. queue' = <<Mark("stop")>> /\ scribe' = "waiting" /\ batch' = <<>>
      BY <3>1, <3>2 DEF CloseDone
    <3> QED
      BY <3>1, <3>3 DEF Closing, Early
  <2> QED
    BY <2>1, <2>2
<1>8. CASE Finished
  BY <1>8 DEF Finished, Closing, Early
<1>9. CASE Cancel
  BY <1>9 DEF Cancel, Closing, Early, ChannelTypeOK, Barriers
<1>10. CASE TakeRow
  <2>1. /\ scribe = "waiting" /\ serves = "none" /\ UNCHANGED <<runner, closed, serves, future>>
        /\ queue # <<>> /\ Head(queue) \in Rows /\ queue' = Tail(queue)
        /\ scribe' \in {"waiting", "persisting"}
    BY <1>10 DEF TakeRow, Took, Closing
  <2>2. ToSet(queue) = {Head(queue)} \cup ToSet(queue')
    BY <2>1, ToSetTail
  <2>3. runner # "stopping" /\ runner # "returned"
    BY <2>1, RowFields DEF Closing
  <2>4. ASSUME runner = "closing" PROVE CloseWaits'
    <3>1. CloseWaits
      BY <2>1, <2>4 DEF Closing, CloseServed, CloseDone, Alive
    <3>2. Head(queue) # Mark("close")
      BY <2>1, RowFields
    <3> QED
      BY <2>1, <3>1, <3>2, WaitsBehindTail DEF CloseWaits
  <2> QED
    BY <2>1, <2>2, <2>3, <2>4 DEF Closing, Early
<1>11. CASE SideDelayPasses
  <2>1. /\ scribe = "waiting" /\ serves = "none" /\ batch # <<>> /\ scribe' = "persisting"
        /\ UNCHANGED <<runner, closed, queue, serves, future, batch>>
    BY <1>11 DEF SideDelayPasses, Closing
  <2>2. ASSUME runner = "closing" PROVE CloseWaits'
    BY <2>1, <2>2 DEF Closing, CloseWaits, CloseServed, CloseDone, Alive
  <2> QED
    BY <2>1, <2>2 DEF Closing, Early
<1>12. CASE TakeMark
  <2> DEFINE k == Head(queue).kind
  <2>1. /\ scribe = "waiting" /\ serves = "none" /\ UNCHANGED <<runner, closed, batch>>
        /\ queue # <<>> /\ Head(queue) \in Marks /\ queue' = Tail(queue)
        /\ \/ batch # <<>> /\ scribe' = "persisting" /\ serves' = k /\ UNCHANGED future
           \/ batch = <<>> /\ k = "stop" /\ scribe' = "done" /\ UNCHANGED <<serves, future>>
           \/ batch = <<>> /\ k # "stop" /\ scribe' = "waiting" /\ future' = Resolved(k) /\ UNCHANGED serves
    BY <1>12 DEF TakeMark, Took, Closing
  <2>2. ToSet(queue) = {Head(queue)} \cup ToSet(queue')
    BY <2>1, ToSetTail
  <2>3. Head(queue) = Mark(k) /\ k \in Barriers \cup {"stop"}
    BY <2>1, MarkFacts
  <2> HIDE DEF k
  <2>4. runner # "returned"
    BY <2>1 DEF Closing
  <2>5. ASSUME runner = "stopping" PROVE batch' = <<>> /\ queue' = <<>> /\ scribe' = "done"
    <3>1. queue = <<Mark("stop")>> /\ batch = <<>>
      BY <2>1, <2>5 DEF Closing
    <3>2. k = "stop" /\ Tail(queue) = <<>>
      BY <3>1 DEF k
    <3> QED
      BY <2>1, <3>1, <3>2
  <2>6. ASSUME runner \in Early \cup {"closing"}
        PROVE  k # "stop" /\ scribe' \notin {"done", "cancelled"} /\ serves' # "stop"
    BY <2>1, <2>2, <2>3, <2>6 DEF Closing
  <2>7. ASSUME runner \in Early PROVE k = "flush" /\ future'["close"] = "none" /\ serves' # "close"
    BY <2>1, <2>2, <2>3, <2>6, <2>7 DEF Closing, Resolved, ChannelTypeOK, Barriers
  <2>8. ASSUME runner = "closing" PROVE CloseWaits' \/ CloseServed' \/ CloseDone'
    <3>1. CloseWaits
      BY <2>1, <2>8 DEF Closing, CloseServed, CloseDone, Alive
    <3>2. CASE Head(queue) = Mark("close")
      <4>1. k = "close" /\ queue' = <<>> /\ future["close"] = "pending"
        BY <2>1, <3>1, <3>2, WaitsBehindTail DEF CloseWaits, k
      <4>2. CASE batch # <<>>
        BY <2>1, <4>1, <4>2 DEF CloseServed
      <4>3. CASE batch = <<>>
        <5>1. future' = Resolved("close") /\ scribe' = "waiting"
          BY <2>1, <4>1, <4>3
        <5>2. future'["close"] = "done"
          BY <4>1, <5>1 DEF Resolved, ChannelTypeOK, Barriers
        <5> QED
          BY <2>1, <4>1, <4>3, <5>1, <5>2 DEF CloseDone
      <4> QED
        BY <4>2, <4>3
    <3>3. CASE Head(queue) # Mark("close")
      <4>1. k = "flush"
        BY <2>3, <2>6, <2>8, <3>3 DEF Barriers
      <4>2. /\ queue' # <<>> /\ queue'[Len(queue')] = Mark("close")
            /\ \A i \in 1 .. Len(queue') - 1 : queue'[i] # Mark("close")
        BY <2>1, <3>1, <3>3, WaitsBehindTail DEF CloseWaits
      <4>3. future'["close"] = "pending"
        BY <2>1, <3>1, <4>1 DEF CloseWaits, Resolved, ChannelTypeOK, Barriers
      <4>4. scribe' \in {"waiting", "persisting"} /\ serves' # "close"
        BY <2>1, <4>1
      <4> QED
        BY <4>2, <4>3, <4>4 DEF CloseWaits
    <3> QED
      BY <3>2, <3>3
  <2> QED
    BY <2>1, <2>2, <2>4, <2>5, <2>6, <2>7, <2>8 DEF Closing, Early
<1>13. CASE BatchStored
  <2>1. /\ scribe = "persisting" /\ batch' = <<>> /\ serves' = "none"
        /\ scribe' = IF serves = "stop" THEN "done" ELSE "waiting"
        /\ future' = IF serves \in Barriers THEN Resolved(serves) ELSE future
        /\ UNCHANGED <<runner, closed, queue>>
    BY <1>13 DEF BatchStored
  <2>2. serves # "close" => future'["close"] = future["close"]
    BY <2>1 DEF Resolved, ChannelTypeOK, Barriers
  <2>3. serves = "close" /\ future["close"] = "pending" => future'["close"] = "done"
    BY <2>1 DEF Resolved, ChannelTypeOK, Barriers
  <2>4. ASSUME runner = "closing" PROVE CloseWaits' \/ CloseDone'
    <3>1. CloseWaits \/ CloseServed
      BY <2>1, <2>4 DEF Closing, CloseDone, Alive
    <3>2. scribe' = "waiting"
      BY <2>1, <2>4 DEF Closing
    <3>3. CASE CloseWaits
      BY <2>1, <2>2, <3>2, <3>3 DEF CloseWaits
    <3>4. CASE CloseServed
      BY <2>1, <2>3, <3>2, <3>4 DEF CloseServed, CloseDone
    <3> QED
      BY <3>1, <3>3, <3>4
  <2> QED
    BY <2>1, <2>2, <2>4 DEF Closing, Early
<1>14. CASE RowsFail
  <2>1. /\ scribe = "persisting" /\ scribe' = "failed" /\ queue' = <<>> /\ ~Alive'
        /\ future' = [b \in Barriers |-> IF Mark(b) \in ToSet(queue) /\ future[b] = "pending"
                                         THEN "failed" ELSE future[b]]
        /\ UNCHANGED <<runner, closed, batch, serves>>
    BY <1>14 DEF RowsFail, Alive
  <2>2. runner \in Early => future'["close"] = "none"
    BY <2>1 DEF Closing, Barriers
  <2>3. ToSet(queue') = {}
    BY <2>1, ToSetEmpty
  <2> QED
    BY <2>1, <2>2, <2>3 DEF Closing, Early
<1>15. CASE LandRow \/ JournalStep \/ UNCHANGED sideVars
  BY <1>15, SameClosing DEF LandRow, JournalStep, sideVars
<1> QED
  BY <1>1, <1>2, <1>3, <1>4, <1>5, <1>6, <1>7, <1>8, <1>9, <1>10, <1>11, <1>12, <1>13, <1>14, <1>15
  DEF ChannelNext, TurnRunner, Return, Scribe

-----------------------------------------------------------------------------
(* The rows on their way, and their order.                                   *)

LEMMA SamePipeline ==
  ASSUME Pipeline, UNCHANGED <<marked, emitted, written, stored, batch, queue>>, Alive' = Alive
  PROVE  Pipeline'
  BY DEF Pipeline, Due

LEMMA SameOrder ==
  ASSUME Order, UNCHANGED <<stored, batch, queue>>
  PROVE  Order'
  BY DEF Order, ReplayHasNoHoles

\* A mark is no row.
LEMMA MarkPipeline ==
  ASSUME ChannelTypeOK, Pipeline, NEW m \in Marks, queue' = Append(queue, m), Alive,
         UNCHANGED <<marked, emitted, written, stored, batch, scribe>>
  PROVE  Pipeline'
<1> queue \in Seq(Rows \cup Marks) /\ m \in Rows \cup Marks
  BY DEF ChannelTypeOK
<1>1. ToSet(queue') = ToSet(queue) \cup {m} /\ m \notin Rows
  BY ToSetAppend, RowFields
<1> QED
  BY <1>1 DEF Pipeline, Due, Alive

LEMMA MarkOrder ==
  ASSUME ChannelTypeOK, Order, NEW m \in Marks, queue' = Append(queue, m), UNCHANGED <<stored, batch>>
  PROVE  Order'
<1> DEFINE base == stored \cup ToSet(batch)
<1> queue \in Seq(Rows \cup Marks) /\ m \in Rows \cup Marks
  BY DEF ChannelTypeOK
<1>1. /\ <<m>> \in Seq(Rows \cup Marks)
      /\ queue' = queue \o <<m>> /\ m \notin Rows
  BY AppendIsConcat, RowFields
<1>2. Follows(<<m>>, base \cup ToSet(queue))
  BY <1>1, FollowsSingle
<1>3. Follows(queue, base)
  BY DEF Order
<1>4. Follows(queue \o <<m>>, base)
  BY <1>1, <1>2, <1>3, FollowsConcat
<1> QED
  BY <1>1, <1>4 DEF Order, ReplayHasNoHoles

\* Rows that enter become due in the same step, and have all before them on their way.
LEMMA EnterPipeline ==
  ASSUME ChannelTypeOK, Pipeline, NEW rows \in Seq(Rows), Enter(rows),
         Due' = Due \cup ToSet(rows), UNCHANGED <<stored, batch, scribe>>
  PROVE  Pipeline'
  BY EnterQueue DEF Pipeline, Alive, ChannelTypeOK

LEMMA EnterOrder ==
  ASSUME ChannelTypeOK, Order, NEW rows \in Seq(Rows), Enter(rows), UNCHANGED <<stored, batch>>,
         Alive => Follows(rows, stored \cup ToSet(batch) \cup ToSet(queue))
  PROVE  Order'
<1> DEFINE base == stored \cup ToSet(batch)
<1>1. CASE ~Alive
  BY <1>1, SameOrder DEF Enter
<1>2. CASE Alive
  <2>1. queue' = queue \o rows
    BY <1>2 DEF Enter
  <2>2. queue \in Seq(Rows \cup Marks) /\ rows \in Seq(Rows \cup Marks)
    BY QueueTypes DEF ChannelTypeOK
  <2>3. Follows(queue, base) /\ Follows(rows, base \cup ToSet(queue))
    BY <1>2 DEF Order
  <2>4. Follows(queue \o rows, base)
    BY <2>2, <2>3, FollowsConcat
  <2> QED
    BY <2>1, <2>4 DEF Order, ReplayHasNoHoles
<1> QED
  BY <1>1, <1>2

\* A source whose rows are stored emits the next one.
LEMMA EmitDue ==
  ASSUME ChannelTypeOK, Pipeline, Order, NEW s \in marked \cup {Askai}, emitted[s] < MaxRows,
         emitted' = [emitted EXCEPT ![s] = @ + 1], Enter(<<Row(s, emitted'[s])>>),
         UNCHANGED <<marked, stored, batch, scribe>>
  PROVE  Pipeline' /\ Order'
<1> DEFINE n == emitted[s]
           row == Row(s, n + 1)
<1>1. /\ s \in Sources /\ n \in Nat /\ n + 1 \in 1..MaxRows /\ emitted'[s] = n + 1
      /\ \A x \in Sources : x # s => emitted'[x] = emitted[x]
  BY BoundsAreNumbers DEF ChannelTypeOK, Sources
<1>2. row \in Rows /\ <<row>> \in Seq(Rows) /\ ToSet(<<row>>) = {row}
  BY <1>1, RowFields, ToSetSingle
<1>3. Enter(<<row>>)
  BY <1>1
<1>4. Due' = Due \cup {row}
  <2>1. ASSUME NEW x \in Rows PROVE x \in Due' <=> x \in Due \cup {row}
    <3>1. x.of \in Sources /\ x.no \in 1..MaxRows /\ x = Row(x.of, x.no)
      BY RowFields
    <3>2. x = row <=> x.of = s /\ x.no = n + 1
      BY <1>1, <3>1 DEF Row
    <3>3. CASE x.of # s
      BY <1>1, <3>1, <3>2, <3>3 DEF Due
    <3>4. CASE x.of = s
      BY <1>1, <3>1, <3>2, <3>4, BoundsAreNumbers DEF Due
    <3> QED
      BY <3>3, <3>4
  <2> QED
    BY <1>2, <2>1 DEF Due
<1>5. Before(row) \subseteq Due
  <2>1. Before(row) = {Row(s, m) : m \in 1..n}
    BY <1>1 DEF Before, Row
  <2>2. \A m \in 1..n : m \in 1..MaxRows /\ m <= emitted[s]
    BY <1>1, BoundsAreNumbers
  <2>3. \A m \in 1..n : Row(s, m) \in Rows /\ Row(s, m).of = s /\ Row(s, m).no = m
    BY <1>1, <2>2, RowFields
  <2> QED
    BY <2>1, <2>2, <2>3 DEF Due
<1> HIDE DEF row, n
<1>6. Alive => Follows(<<row>>, stored \cup ToSet(batch) \cup ToSet(queue))
  BY <1>5, FollowsSingle DEF Pipeline
<1>7. Pipeline'
  BY <1>2, <1>3, <1>4, EnterPipeline
<1> QED
  BY <1>2, <1>3, <1>6, <1>7, EnterOrder

LEMMA PipelineStep ==
  /\ ChannelTypeOK /\ Gates /\ Pipeline /\ Order /\ Closing /\ [ChannelNext]_sideVars
  => Pipeline' /\ Order'
<1> SUFFICES ASSUME ChannelTypeOK, Gates, Pipeline, Order, Closing, [ChannelNext]_sideVars
             PROVE  Pipeline' /\ Order'
  OBVIOUS
<1> USE DEF channelVars, scribeVars, journalVars
<1> queue \in Seq(Rows \cup Marks) /\ batch \in Seq(Rows)
  BY DEF ChannelTypeOK
<1>1. ASSUME NEW a \in Actions, PublishSide(a) PROVE Pipeline' /\ Order'
  <2>1. /\ emitted[a] < MaxRows /\ emitted' = [emitted EXCEPT ![a] = @ + 1]
        /\ UNCHANGED <<marked, stored, batch, scribe>>
    BY <1>1 DEF PublishSide
  <2>2. CASE a \in marked
    <3>1. Enter(<<Row(a, emitted'[a])>>)
      BY <1>1, <2>2 DEF PublishSide, Replayable, Gates
    <3> QED
      BY <2>1, <2>2, <3>1, EmitDue
  <2>3. CASE a \notin marked
    <3>1. UNCHANGED <<written, queue>>
      BY <1>1, <2>3 DEF PublishSide, Replayable
    <3>2. \A s \in marked \cup {Askai} : emitted'[s] = emitted[s]
      BY <2>1, <2>3, SourcesAreDistinct DEF ChannelTypeOK, Sources
    <3>3. Due' = Due
      BY <2>1, <3>2 DEF Due
    <3> QED
      BY <2>1, <3>1, <3>3, SameOrder DEF Pipeline, Alive
  <2> QED
    BY <2>2, <2>3
<1>2. ASSUME Standalone, UNCHANGED <<marked, stored, batch, scribe>> PROVE Pipeline' /\ Order'
  BY <1>2, EmitDue DEF Standalone
<1>3. CASE PublishStandalone
  BY <1>2, <1>3 DEF PublishStandalone
<1>4. CASE PublishEvidence
  <2>1. CASE Standalone
    BY <1>2, <1>4, <2>1 DEF PublishEvidence
  <2>2. CASE UNCHANGED <<emitted, history, written, queue>>
    BY <1>4, <2>2, SamePipeline, SameOrder DEF PublishEvidence, Alive
  <2> QED
    BY <1>4, <2>1, <2>2 DEF PublishEvidence
<1>5. CASE ParentFlushed
  <2>1. PICK a \in Started(read) : Enter(held[a])
    BY <1>5 DEF ParentFlushed
  <2>2. /\ a \in Actions /\ Started(read) = {a} /\ Start[a] = read
        /\ a \in Sources /\ emitted[a] \in 0..MaxRows
    BY <2>1, StartedIsOne DEF ChannelTypeOK, Sources
  <2>3. /\ marked' = marked \cup {a} /\ UNCHANGED <<emitted, stored, batch, scribe>>
        /\ runner = "parent" /\ ~closed
    BY <1>5, <2>2 DEF ParentFlushed, Closing, Early
  <2>4. a \in known \ marked /\ held[a] = RowsTo(a, emitted[a])
    BY <2>2, <2>3 DEF Gates, ChannelTypeOK
  <2>5. held[a] \in Seq(Rows) /\ ToSet(held[a]) = {Row(a, m) : m \in 1 .. emitted[a]}
    BY <2>2, <2>4, RowsToIsSeq
  <2>6. Due' = Due \cup ToSet(held[a])
    <3>1. ASSUME NEW x \in Rows, x.of = a PROVE x.no <= emitted[a] <=> x \in ToSet(held[a])
      <4>1. x.no \in 1..MaxRows /\ x = Row(a, x.no)
        BY <3>1, RowFields
      <4>2. \A m \in 1 .. emitted[a] : x = Row(a, m) => m = x.no
        BY DEF Row
      <4> QED
        BY <2>2, <2>5, <4>1, <4>2, BoundsAreNumbers
    <3>2. \A x \in ToSet(held[a]) : x \in Rows /\ x.of = a
      BY <2>5, QueueTypes DEF Row
    <3> QED
      BY <2>3, <3>1, <3>2 DEF Due
  <2>7. Pipeline'
    BY <2>1, <2>3, <2>5, <2>6, EnterPipeline
  <2>8. Follows(held[a], stored \cup ToSet(batch) \cup ToSet(queue))
    BY <2>2, <2>4, FollowsRowsTo
  <2> QED
    BY <2>1, <2>3, <2>5, <2>7, <2>8, EnterOrder
<1>6. CASE TerminalFlushed
  <2>1. CASE Alive
    BY <1>6, <2>1, MarkFacts, MarkPipeline, MarkOrder DEF TerminalFlushed, Barriers
  <2>2. CASE ~Alive
    BY <1>6, <2>2, SamePipeline, SameOrder DEF TerminalFlushed, Alive
  <2> QED
    BY <2>1, <2>2
<1>7. CASE Finish
  <2>1. CASE Alive
    BY <1>7, <2>1, MarkFacts, MarkPipeline, MarkOrder DEF Finish, Barriers
  <2>2. CASE ~Alive
    BY <1>7, <2>2, SamePipeline, SameOrder DEF Finish, Alive
  <2> QED
    BY <2>1, <2>2
<1>8. CASE CloseFlushed
  <2>1. CASE Alive /\ queue' = Append(queue, Mark("stop"))
    BY <1>8, <2>1, MarkFacts, MarkPipeline, MarkOrder DEF CloseFlushed
  <2>2. CASE UNCHANGED queue
    BY <1>8, <2>2, SamePipeline, SameOrder DEF CloseFlushed, Alive
  <2> QED
    BY <1>8, <2>1, <2>2 DEF CloseFlushed
<1>9. CASE ReadEvent \/ SideFlushed \/ Finished \/ EventsFail \/ Cancel \/ JournalStep
            \/ SideDelayPasses \/ UNCHANGED sideVars
  <2>1. UNCHANGED <<marked, emitted, written, stored, batch, queue>> /\ Alive' = Alive
    BY <1>9 DEF ReadEvent, SideFlushed, Finished, EventsFail, Cancel, JournalStep, SideDelayPasses,
       sideVars, Alive
  <2> QED
    BY <2>1, SamePipeline, SameOrder
<1>10. CASE TakeRow
  <2> DEFINE row == Head(queue)
  <2>1. /\ queue # <<>> /\ row \in Rows /\ queue' = Tail(queue) /\ batch' = Append(batch, row)
        /\ Alive /\ Alive' /\ UNCHANGED <<marked, emitted, written, stored>>
    BY <1>10 DEF TakeRow, Took, Alive
  <2>2. ToSet(queue) = {row} \cup ToSet(queue')
    BY <2>1, ToSetTail
  <2>3. ToSet(batch') = ToSet(batch) \cup {row}
    BY <2>1, ToSetAppend
  <2> HIDE DEF row
  <2>4. Pipeline'
    BY <2>1, <2>2, <2>3 DEF Pipeline, Due
  <2>5. /\ Follows(queue', stored \cup ToSet(batch) \cup {row})
        /\ Before(row) \subseteq stored \cup ToSet(batch)
    BY <2>1, FollowsTail DEF Order, row
  <2>6. <<row>> \in Seq(Rows) /\ batch' = batch \o <<row>> /\ Follows(<<row>>, stored \cup ToSet(batch))
    BY <2>1, <2>5, AppendIsConcat, FollowsSingle
  <2>7. Follows(batch', stored)
    BY <2>6, FollowsConcat DEF Order
  <2>8. stored' \cup ToSet(batch') = stored \cup ToSet(batch) \cup {row}
    BY <2>1, <2>3
  <2>9. Order'
    BY <2>1, <2>5, <2>7, <2>8 DEF Order, ReplayHasNoHoles
  <2> QED
    BY <2>4, <2>9
<1>11. CASE TakeMark
  <2> DEFINE m == Head(queue)
  <2>1. /\ queue # <<>> /\ m \in Marks /\ m \notin Rows /\ queue' = Tail(queue)
        /\ Alive /\ Alive' /\ UNCHANGED <<marked, emitted, written, stored, batch>>
    BY <1>11, RowFields DEF TakeMark, Took, Alive
  <2>2. ToSet(queue) = {m} \cup ToSet(queue')
    BY <2>1, ToSetTail
  <2> HIDE DEF m
  <2>3. Pipeline'
    BY <2>1, <2>2 DEF Pipeline, Due, ChannelTypeOK
  <2>4. Follows(queue', stored \cup ToSet(batch) \cup {m}) /\ queue' \in Seq(Rows \cup Marks)
    BY <2>1, FollowsTail, QueueTypes DEF Order, m
  <2>5. Follows(queue', stored \cup ToSet(batch))
    BY <2>1, <2>4, FollowsGrow
  <2>6. Order'
    BY <2>1, <2>5 DEF Order, ReplayHasNoHoles
  <2> QED
    BY <2>3, <2>6
<1>12. CASE BatchStored
  <2>1. /\ ToSet(batch) \subseteq stored /\ batch' = <<>> /\ ToSet(batch') = {}
        /\ Alive /\ Alive' /\ UNCHANGED <<marked, emitted, written, stored, queue>>
    BY <1>12, ToSetEmpty DEF BatchStored, Alive
  <2>2. Pipeline'
    BY <2>1 DEF Pipeline, Due
  <2>3. stored' \cup ToSet(batch') = stored \cup ToSet(batch)
    BY <2>1
  <2>4. Follows(batch', stored')
    BY <2>1, FollowsEmpty
  <2>5. Order'
    BY <2>1, <2>3, <2>4 DEF Order, ReplayHasNoHoles
  <2> QED
    BY <2>2, <2>5
<1>13. CASE RowsFail
  <2>1. /\ queue' = <<>> /\ ToSet(queue') = {} /\ ~Alive'
        /\ UNCHANGED <<marked, emitted, written, stored, batch>>
    BY <1>13, ToSetEmpty DEF RowsFail, Alive
  <2>2. Pipeline'
    BY <2>1 DEF Pipeline, Due
  <2>3. Order'
    BY <2>1, FollowsEmpty DEF Order, ReplayHasNoHoles
  <2> QED
    BY <2>2, <2>3
<1>14. CASE LandRow
  <2>1. PICK i \in DOMAIN batch : NextInOrder(i) /\ stored' = stored \cup {batch[i]}
    BY <1>14 DEF LandRow
  <2>2. i \in 1 .. Len(batch) /\ batch[i] \in Rows /\ batch[i] \in ToSet(batch)
    BY <2>1, LenProperties, ElementOfSeq DEF ToSet
  <2>3. UNCHANGED <<marked, emitted, written, queue, batch, scribe>>
    BY <1>14 DEF LandRow
  <2>4. Pipeline'
    BY <2>1, <2>2, <2>3 DEF Pipeline, Due, Alive
  <2>5. Before(batch[i]) \subseteq stored
    BY <2>1, <2>2 DEF Order, Follows, NextInOrder
  <2>6. ReplayHasNoHoles'
    <3>1. SUFFICES ASSUME NEW row \in stored', NEW n \in 1..row.no
                   PROVE  Row(row.of, n) \in stored'
      BY DEF ReplayHasNoHoles
    <3>2. CASE row \in stored
      BY <2>1, <3>2 DEF Order, ReplayHasNoHoles
    <3>3. CASE row = batch[i]
      <4>1. row.no \in 1..MaxRows /\ row = Row(row.of, row.no)
        BY <2>2, <3>3, RowFields
      <4>2. n = row.no \/ n \in 1 .. row.no - 1
        BY <4>1, BoundsAreNumbers
      <4> QED
        BY <2>1, <2>5, <3>3, <4>1, <4>2 DEF Before
    <3> QED
      BY <2>1, <3>2, <3>3
  <2>7. Follows(batch, stored')
    BY <2>1, FollowsGrow DEF Order
  <2>8. stored' \cup ToSet(batch) = stored \cup ToSet(batch)
    BY <2>1, <2>2
  <2>9. Order'
    BY <2>3, <2>6, <2>7, <2>8 DEF Order
  <2> QED
    BY <2>4, <2>9
<1> QED
  BY <1>1, <1>3, <1>4, <1>5, <1>6, <1>7, <1>8, <1>9, <1>10, <1>11, <1>12, <1>13, <1>14
  DEF ChannelNext, Emitter, TurnRunner, Return, Scribe

-----------------------------------------------------------------------------
(* Whose call hangs, and what finish returns.                                *)

LEMMA HangStep ==
  /\ ChannelTypeOK /\ Closing /\ OnlyServedSideCallHangs /\ [ChannelNext]_sideVars
  => OnlyServedSideCallHangs'
<1> SUFFICES ASSUME ChannelTypeOK, Closing, OnlyServedSideCallHangs, [ChannelNext]_sideVars
             PROVE  OnlyServedSideCallHangs'
  OBVIOUS
<1> USE DEF channelVars, scribeVars, journalVars
<1> queue \in Seq(Rows \cup Marks)
  BY DEF ChannelTypeOK
\* The queue only grows, and no other future is made.
<1>1. ASSUME ToSet(queue) \subseteq ToSet(queue'), UNCHANGED <<scribe, serves>>,
             NEW b \in Barriers, future'[b] = "pending",
             future[b] = "pending" \/ (Alive /\ Mark(b) \in ToSet(queue'))
      PROVE  \/ Alive' /\ (Mark(b) \in ToSet(queue') \/ (scribe' = "persisting" /\ serves' = b))
             \/ ~Alive' /\ serves' = b
  BY <1>1 DEF OnlyServedSideCallHangs, Alive
<1>2. ASSUME NEW rows \in Seq(Rows), Enter(rows) PROVE ToSet(queue) \subseteq ToSet(queue')
  BY <1>2, EnterQueue
<1>3. ASSUME NEW m \in Marks, queue' = Append(queue, m)
      PROVE  ToSet(queue') = ToSet(queue) \cup {m}
  BY <1>3, ToSetAppend
<1>4. ASSUME ToSet(queue) \subseteq ToSet(queue'), UNCHANGED <<scribe, serves, future>>
      PROVE  OnlyServedSideCallHangs'
  BY <1>1, <1>4 DEF OnlyServedSideCallHangs
<1>5. \A s \in Sources : emitted[s] < MaxRows => <<Row(s, emitted[s] + 1)>> \in Seq(Rows)
  BY RowFields, BoundsAreNumbers DEF ChannelTypeOK
<1>6. ASSUME NEW a \in Actions, PublishSide(a) PROVE OnlyServedSideCallHangs'
  <2>1. a \in Sources /\ emitted[a] < MaxRows /\ emitted'[a] = emitted[a] + 1
    BY <1>6 DEF PublishSide, ChannelTypeOK, Sources
  <2>2. UNCHANGED queue \/ Enter(<<Row(a, emitted[a] + 1)>>)
    BY <1>6, <2>1 DEF PublishSide
  <2> QED
    BY <1>2, <1>4, <1>5, <1>6, <2>1, <2>2 DEF PublishSide
<1>7. ASSUME Standalone PROVE ToSet(queue) \subseteq ToSet(queue')
  <2>1. Askai \in Sources /\ emitted[Askai] < MaxRows /\ emitted'[Askai] = emitted[Askai] + 1
    BY <1>7 DEF Standalone, ChannelTypeOK, Sources
  <2>2. Enter(<<Row(Askai, emitted[Askai] + 1)>>)
    BY <1>7, <2>1 DEF Standalone
  <2> QED
    BY <1>2, <1>5, <2>1, <2>2
<1>8. CASE PublishStandalone \/ PublishEvidence
  BY <1>4, <1>7, <1>8 DEF PublishStandalone, PublishEvidence
<1>9. CASE ParentFlushed
  <2>1. PICK a \in Started(read) : Enter(held[a])
    BY <1>9 DEF ParentFlushed
  <2>2. held[a] \in Seq(Rows)
    BY DEF Started, ChannelTypeOK
  <2> QED
    BY <1>2, <1>4, <1>9, <2>1, <2>2 DEF ParentFlushed
<1>10. CASE TerminalFlushed
  <2>1. CASE ~Alive
    BY <1>4, <1>10, <2>1 DEF TerminalFlushed
  <2>2. CASE Alive
    <3>1. queue' = Append(queue, Mark("flush")) /\ Mark("flush") \in Marks
      BY <1>10, <2>2, MarkFacts DEF TerminalFlushed, Barriers
    <3>2. ToSet(queue') = ToSet(queue) \cup {Mark("flush")}
      BY <1>3, <3>1
    <3>3. \A b \in Barriers : future'[b] = "pending" => future[b] = "pending" \/ b = "flush"
      BY <1>10, <2>2 DEF TerminalFlushed, ChannelTypeOK
    <3> QED
      BY <1>1, <1>10, <2>2, <3>2, <3>3 DEF TerminalFlushed, OnlyServedSideCallHangs
  <2> QED
    BY <2>1, <2>2
<1>11. CASE Finish
  <2>1. CASE ~Alive
    BY <1>4, <1>11, <2>1 DEF Finish
  <2>2. CASE Alive
    <3>1. queue' = Append(queue, Mark("close")) /\ Mark("close") \in Marks
      BY <1>11, <2>2, MarkFacts DEF Finish, Barriers
    <3>2. ToSet(queue') = ToSet(queue) \cup {Mark("close")}
      BY <1>3, <3>1
    <3>3. \A b \in Barriers : future'[b] = "pending" => future[b] = "pending" \/ b = "close"
      BY <1>11, <2>2 DEF Finish, ChannelTypeOK
    <3> QED
      BY <1>1, <1>11, <2>2, <3>2, <3>3 DEF Finish, OnlyServedSideCallHangs
  <2> QED
    BY <2>1, <2>2
<1>12. CASE CloseFlushed
  BY <1>3, <1>4, <1>12, MarkFacts DEF CloseFlushed
<1>13. CASE Cancel
  BY <1>13 DEF Cancel, OnlyServedSideCallHangs
<1>14. CASE ReadEvent \/ SideFlushed \/ Finished \/ EventsFail \/ LandRow \/ JournalStep
             \/ UNCHANGED sideVars
  BY <1>4, <1>14 DEF ReadEvent, SideFlushed, Finished, EventsFail, LandRow, JournalStep, sideVars
<1>15. CASE TakeRow
  <2>1. /\ queue # <<>> /\ Head(queue) \in Rows /\ queue' = Tail(queue)
        /\ scribe = "waiting" /\ Alive' /\ UNCHANGED <<serves, future>>
    BY <1>15 DEF TakeRow, Took, Alive
  <2>2. ToSet(queue) = {Head(queue)} \cup ToSet(queue')
    BY <2>1, ToSetTail
  <2>3. \A b \in Barriers : Mark(b) # Head(queue)
    BY <2>1, MarkFacts, RowFields
  <2> QED
    BY <2>1, <2>2, <2>3 DEF OnlyServedSideCallHangs, Alive
<1>16. CASE SideDelayPasses
  BY <1>16 DEF SideDelayPasses, OnlyServedSideCallHangs, Alive
<1>17. CASE TakeMark
  <2> DEFINE k == Head(queue).kind
  <2>1. /\ queue # <<>> /\ Head(queue) \in Marks /\ queue' = Tail(queue)
        /\ scribe = "waiting" /\ Alive'
        /\ \/ scribe' = "persisting" /\ serves' = k /\ UNCHANGED future
           \/ k = "stop" /\ UNCHANGED future
           \/ future' = Resolved(k)
    BY <1>17 DEF TakeMark, Took, Alive
  <2>2. ToSet(queue) = {Head(queue)} \cup ToSet(queue') /\ Head(queue) = Mark(k)
    BY <2>1, ToSetTail, MarkFacts
  <2>3. \A b \in Barriers : future'[b] = "pending" => future[b] = "pending"
    BY <2>1 DEF Resolved, ChannelTypeOK
  <2>4. \A b \in Barriers : future' = Resolved(b) => future'[b] # "pending"
    BY DEF Resolved, ChannelTypeOK
  <2>5. \A b \in Barriers : Mark(b) = Head(queue) => b = k /\ b # "stop"
    BY <2>2, MarkFacts DEF Barriers
  <2> HIDE DEF k
  <2> QED
    BY <2>1, <2>2, <2>3, <2>4, <2>5 DEF OnlyServedSideCallHangs, Alive
<1>18. CASE BatchStored
  <2>1. /\ scribe = "persisting" /\ Alive' /\ UNCHANGED queue
        /\ future' = IF serves \in Barriers THEN Resolved(serves) ELSE future
    BY <1>18 DEF BatchStored, Alive
  <2>2. \A b \in Barriers : future'[b] = "pending" => future[b] = "pending" /\ b # serves
    BY <2>1 DEF Resolved, ChannelTypeOK
  <2> QED
    BY <2>1, <2>2 DEF OnlyServedSideCallHangs, Alive
<1>19. CASE RowsFail
  BY <1>19 DEF RowsFail, OnlyServedSideCallHangs, Alive
<1> QED
  BY <1>6, <1>8, <1>9, <1>10, <1>11, <1>12, <1>13, <1>14, <1>15, <1>16, <1>17, <1>18, <1>19
  DEF ChannelNext, Emitter, TurnRunner, Return, Scribe

LEMMA HistoryStep ==
  /\ ChannelTypeOK /\ Gates /\ Pipeline /\ Closing /\ HistoryIsComplete /\ [ChannelNext]_sideVars
  => HistoryIsComplete'
<1> SUFFICES ASSUME ChannelTypeOK, Gates, Pipeline, Closing, HistoryIsComplete,
                    [ChannelNext]_sideVars, runner' = "returned"
             PROVE  HistoryIsComplete'
  BY DEF HistoryIsComplete
<1> USE DEF channelVars, scribeVars, journalVars
<1>1. CASE Finished
  <2>1. /\ runner = "stopping" /\ scribe = "done" /\ returned' = history \cap written
        /\ UNCHANGED <<marked, emitted, stored>>
    BY <1>1 DEF Finished
  <2>2. queue = <<>> /\ batch = <<>> /\ Alive
    BY <2>1 DEF Closing, Alive
  <2>3. stored = written /\ written = Due
    BY <2>2, ToSetEmpty DEF Pipeline
  <2>4. Due \subseteq history
    BY DEF Due, Gates
  <2> QED
    BY <2>1, <2>3, <2>4 DEF HistoryIsComplete, Due
<1>2. CASE runner = "returned"
  <2>1. scribe = "done" /\ queue = <<>> /\ batch = <<>> /\ closed /\ DOMAIN batch = {}
    BY <1>2 DEF Closing
  <2>2. ~(Emitter \/ Scribe \/ RowsFail \/ TurnRunner \/ Cancel \/ EventsFail)
    BY <1>2, <2>1 DEF Emitter, PublishSide, PublishStandalone, Scribe, TakeRow, SideDelayPasses,
       TakeMark, BatchStored, LandRow, RowsFail, TurnRunner, ReadEvent, ParentFlushed,
       TerminalFlushed, PublishEvidence, Finish, Return, SideFlushed, CloseFlushed, Finished,
       Cancel, EventsFail
  <2>3. UNCHANGED <<returned, stored, marked, emitted>>
    BY <2>2 DEF ChannelNext, JournalStep, sideVars
  <2> QED
    BY <1>2, <2>3 DEF HistoryIsComplete
<1>3. CASE runner # "returned" /\ ~Finished
  BY <1>3 DEF ChannelNext, Emitter, PublishSide, PublishStandalone, Scribe, TakeRow, SideDelayPasses,
     TakeMark, BatchStored, LandRow, RowsFail, TurnRunner, ReadEvent, ParentFlushed, TerminalFlushed,
     PublishEvidence, Finish, Return, SideFlushed, CloseFlushed, Cancel, EventsFail, JournalStep,
     sideVars
<1> QED
  BY <1>1, <1>2, <1>3

-----------------------------------------------------------------------------
(* The theorems.                                                             *)

LEMMA InitHolds == ChannelInit => ChannelInv
<1> SUFFICES ASSUME ChannelInit PROVE ChannelInv
  OBVIOUS
<1> USE DEF ChannelInit
<1>1. ChannelTypeOK
  BY InitTypes
<1>2. Gates
  <2>1. \A a \in Actions : Start[a] \in 1 .. Terminal - 1 /\ a \in Sources
    BY ActionsStartInTurn DEF Sources
  <2>2. known = {a \in Actions : Start[a] <= read}
    BY <2>1, ActionsStartInTurn
  <2>3. \A a \in Actions : RowsTo(a, emitted[a]) = <<>>
    BY <2>1 DEF RowsTo
  <2>4. \A row \in Rows : row.of \in Sources /\ row.no \in 1..MaxRows
    BY RowFields
  <2>5. \A row \in Rows : ~(row.no <= emitted[row.of])
    BY <2>4, BoundsAreNumbers
  <2> QED
    BY <2>2, <2>3, <2>5 DEF Gates
<1>3. Parents
  BY DEF Parents
<1>4. Pipeline
  <2>1. Due = {}
    BY RowFields, BoundsAreNumbers DEF Due
  <2> QED
    BY <2>1, ToSetEmpty DEF Pipeline, Alive
<1>5. Order
  BY FollowsEmpty DEF Order, ReplayHasNoHoles
<1>6. Closing
  BY ToSetEmpty DEF Closing, Early, Barriers
<1>7. OnlyServedSideCallHangs /\ HistoryIsComplete
  BY DEF OnlyServedSideCallHangs, HistoryIsComplete
<1> QED
  BY <1>1, <1>2, <1>3, <1>4, <1>5, <1>6, <1>7 DEF ChannelInv

\* The invariant of the channel is inductive: types, the two gates, the parents behind
\* the cursor, the rows on their way and their order, the close, and who waits.
THEOREM ChannelInvariant == ChannelSpec => []ChannelInv
<1>1. ChannelInv /\ [ChannelNext]_sideVars => ChannelInv'
  BY TypeStep, GatesStep, ParentsStep, PipelineStep, ClosingStep, HangStep, HistoryStep
  DEF ChannelInv
<1> QED
  BY InitHolds, <1>1, PTL DEF ChannelSpec

\* Type correctness, for any tools, events, batch size and mishaps.
THEOREM ChannelTypes == ChannelSpec => []ChannelTypeOK
<1>1. ChannelInv => ChannelTypeOK
  BY DEF ChannelInv
<1> QED
  BY ChannelInvariant, <1>1, PTL

\* No child row is stored before its tool call's start event is persisted and behind
\* the cursor, however far the tools run ahead of the runner (turn_runner.py:162-167).
THEOREM ParentsAreDurableFirst == ChannelSpec => []ParentIsDurableFirst
<1>1. ChannelInv => ParentIsDurableFirst
  <2> SUFFICES ASSUME ChannelInv, NEW row \in stored, row.of \in Actions
               PROVE  Start[row.of] <= reached /\ 1 .. Start[row.of] \subseteq persisted
    BY DEF ParentIsDurableFirst
  <2>1. row.of \in marked
    BY SourcesAreDistinct DEF ChannelInv, Pipeline, Due
  <2>2. Start[row.of] <= confirmed /\ confirmed <= reached /\ 1..reached \subseteq persisted
    BY <2>1 DEF ChannelInv, Parents
  <2>3. Start[row.of] \in Nat /\ confirmed \in Nat /\ reached \in Nat
    BY ActionsStartInTurn DEF ChannelInv, ChannelTypeOK
  <2> QED
    BY <2>2, <2>3
<1> QED
  BY ChannelInvariant, <1>1, PTL

\* What finish returns is what is stored, and all that was due (turn_channel.py:91-102).
THEOREM FinishReturnsWhatIsStored == ChannelSpec => []HistoryIsComplete
<1>1. ChannelInv => HistoryIsComplete
  BY DEF ChannelInv
<1> QED
  BY ChannelInvariant, <1>1, PTL

\* The stored rows of a source are its first rows, whatever failed or was cancelled.
THEOREM StoredRowsAreAPrefix == ChannelSpec => []ReplayHasNoHoles
<1>1. ChannelInv => ReplayHasNoHoles
  BY DEF ChannelInv, Order
<1> QED
  BY ChannelInvariant, <1>1, PTL

\* When the rows' writer dies, no flush or close but the one it served is left waiting.
THEOREM QueuedSideCallsFail == ChannelSpec => []OnlyServedSideCallHangs
<1>1. ChannelInv => OnlyServedSideCallHangs
  BY DEF ChannelInv
<1> QED
  BY ChannelInvariant, <1>1, PTL

\* The channel and its runner use the events' writer only as the abstract journal allows.
THEOREM ChannelKeepsJournal == ChannelSpec => Kernel!Spec
<1>1. ChannelInit => Kernel!Init
  BY DEF ChannelInit, Kernel!Init
<1>2. [ChannelNext]_sideVars => [Kernel!Next]_(Kernel!vars)
  <2> SUFFICES ASSUME [ChannelNext]_sideVars PROVE Kernel!Next \/ UNCHANGED journalVars
    BY DEF Kernel!vars, journalVars
  <2> USE DEF Kernel!Next, journalVars
  <2>1. CASE ParentFlushed \/ TerminalFlushed
    BY <2>1 DEF ParentFlushed, TerminalFlushed, Acknowledged
  <2>2. CASE JournalStep
    BY <2>2 DEF JournalStep
  <2>3. CASE Emitter \/ ReadEvent \/ PublishEvidence \/ Finish \/ Return \/ EventsFail \/ Cancel
    BY <2>3 DEF Emitter, PublishSide, PublishStandalone, ReadEvent, PublishEvidence, Finish, Return,
       SideFlushed, CloseFlushed, Finished, EventsFail, Cancel
  <2>4. CASE Scribe \/ RowsFail \/ UNCHANGED sideVars
    BY <2>4 DEF Scribe, TakeRow, SideDelayPasses, TakeMark, BatchStored, LandRow, RowsFail, sideVars
  <2> QED
    BY <2>1, <2>2, <2>3, <2>4 DEF ChannelNext, TurnRunner
<1> QED
  BY <1>1, <1>2, PTL DEF ChannelSpec, Kernel!Spec
=============================================================================
