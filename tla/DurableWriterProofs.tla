------------------------ MODULE DurableWriterProofs ------------------------
(***************************************************************************)
(* Proofs of the safety properties of DurableWriter, for any number of      *)
(* events, any batch size, any choice of projected events and all faults,   *)
(* and of the refinement of EventJournal.                                   *)
(***************************************************************************)
EXTENDS DurableWriter, TLAPS

Alive == {"waiting", "persisting", "advancing"}
Busy == {"persisting", "advancing"}

\* Events pass through the writer in order, and what it has saved is covered by
\* the cursor.
Order ==
    /\ saved <= sent /\ sent <= taken /\ taken <= received
    /\ acked <= saved /\ saved <= cursor
    /\ from <= cursor

\* Whoever is about to advance the cursor has made the rows durable.
Covered ==
    /\ 1..cursor \subseteq Durable
    /\ task = "advancing" => 1..sent \subseteq Durable
    /\ reader = "advancing" => 1..upto \subseteq Durable

\* A barrier is in the queue, or being served with everything that was enqueued
\* before it, or its future is set.
Barrier ==
    /\ task \in Alive => caller \notin {"closed", "raised", "aborted"}
    /\ mark = "flush" /\ task \in Alive => caller \in Waiting /\ flush = "pending"
    /\ serving = "flush" /\ task \in Busy =>
          caller \in Waiting /\ flush = "pending" /\ sent = received /\ mark = "none"
    /\ flush = "pending" /\ task \in Alive =>
          /\ caller \in Waiting
          /\ mark = "flush" \/ (serving = "flush" /\ task \in Busy)
    /\ flush = "done" /\ caller \in Waiting => saved = received
    /\ flush = "failed" => task = "failed"

IInv == TypeOK /\ Order /\ Covered /\ InboxHasNoGap /\ Barrier /\ OnlyServedFlushHangs

-----------------------------------------------------------------------------
USE EventsAreNumbered, BatchesAreBounded, FaultsAreKnown

LEMMA InitHolds == Init => IInv
  BY DEF Init, IInv, TypeOK, Order, Covered, InboxHasNoGap, Barrier, OnlyServedFlushHangs,
         Durable, Waiting, Events, Alive, Busy

LEMMA TypeStep == TypeOK /\ Order /\ [Next]_vars => TypeOK'
<1> SUFFICES ASSUME TypeOK, Order, [Next]_vars PROVE TypeOK'
  OBVIOUS
<1> USE DEF TypeOK, Order, Events, Waiting, queueVars, storeVars, readerVars
<1>1. CASE Enqueue
  BY <1>1 DEF Enqueue
<1>2. CASE PutBarrier("flush")
  BY <1>2 DEF PutBarrier
<1>3. CASE PutBarrier("closing")
  BY <1>3 DEF PutBarrier
<1>4. CASE FlushReturns
  BY <1>4 DEF FlushReturns
<1>5. CASE CloseReturns
  BY <1>5 DEF CloseReturns
<1>6. CASE CallRaises
  BY <1>6 DEF CallRaises
<1>7. CASE Abort
  BY <1>7 DEF Abort, Advance
<1>8. CASE TakeWrite
  BY <1>8 DEF TakeWrite, Persist
<1>9. CASE DelayPasses
  BY <1>9 DEF DelayPasses, Persist
<1>10. CASE TakeBarrier
  BY <1>10 DEF TakeBarrier, Persist, Resolve
<1>11. CASE TakeStop
  BY <1>11 DEF TakeStop, Persist
<1>12. CASE BatchPersisted
  BY <1>12 DEF BatchPersisted
<1>13. CASE CursorAdvanced
  BY <1>13 DEF CursorAdvanced, Resolve, Advance
<1>14. CASE WriterFails
  BY <1>14 DEF WriterFails, Advance
<1>15. CASE ReadBinding
  BY <1>15 DEF ReadBinding
<1>16. CASE Fetch
  BY <1>16 DEF Fetch
<1>17. CASE ReaderPersisted
  BY <1>17 DEF ReaderPersisted
<1>18. CASE ReaderAdvanced
  BY <1>18 DEF ReaderAdvanced, Advance
<1>19. CASE ReaderFails
  BY <1>19 DEF ReaderFails
<1>20. CASE LandInbox
  BY <1>20 DEF LandInbox, FirstMissing
<1>21. CASE LandProjection
  BY <1>21 DEF LandProjection, FirstMissing
<1>22. CASE UNCHANGED vars
  BY <1>22 DEF vars
<1> QED
  BY <1>1, <1>2, <1>3, <1>4, <1>5, <1>6, <1>7, <1>8, <1>9, <1>10, <1>11, <1>12, <1>13, <1>14, <1>15, <1>16, <1>17, <1>18, <1>19, <1>20, <1>21, <1>22
  DEF Next, Caller, Writer, Reader, Store

LEMMA OrderStep == TypeOK /\ Order /\ Barrier /\ [Next]_vars => Order'
<1> SUFFICES ASSUME TypeOK, Order, Barrier, [Next]_vars PROVE Order'
  OBVIOUS
<1> USE DEF TypeOK, Order, queueVars, storeVars, readerVars
<1>1. CASE Caller
  BY <1>1 DEF Caller, Enqueue, PutBarrier, FlushReturns, CloseReturns, CallRaises, Abort, Advance,
     Barrier
<1>2. CASE Writer
  BY <1>2 DEF Writer, TakeWrite, DelayPasses, TakeBarrier, TakeStop, BatchPersisted,
     CursorAdvanced, Persist, Resolve, Advance
<1>3. CASE WriterFails
  BY <1>3 DEF WriterFails, Advance
<1>4. CASE Reader
  BY <1>4 DEF Reader, ReadBinding, Fetch, ReaderPersisted, ReaderAdvanced, ReaderFails, Advance
<1>5. CASE Store
  BY <1>5 DEF Store, LandInbox, LandProjection
<1>6. CASE UNCHANGED vars
  BY <1>6 DEF vars
<1> QED
  BY <1>1, <1>2, <1>3, <1>4, <1>5, <1>6 DEF Next

\* Rows are never removed.
LEMMA RowsStay == ASSUME [Next]_vars PROVE inbox \subseteq inbox' /\ Durable \subseteq Durable'
<1>1. inbox \subseteq inbox' /\ projections \subseteq projections'
  <2> USE DEF storeVars
  <2>1. CASE Caller
    BY <2>1 DEF Caller, Enqueue, PutBarrier, FlushReturns, CloseReturns, CallRaises, Abort
  <2>2. CASE Writer
    BY <2>2 DEF Writer, TakeWrite, DelayPasses, TakeBarrier, TakeStop, BatchPersisted, CursorAdvanced
  <2>3. CASE WriterFails
    BY <2>3 DEF WriterFails
  <2>4. CASE Reader
    BY <2>4 DEF Reader, ReadBinding, Fetch, ReaderPersisted, ReaderAdvanced, ReaderFails
  <2>5. CASE Store
    BY <2>5 DEF Store, LandInbox, LandProjection
  <2>6. CASE UNCHANGED vars
    BY <2>6 DEF vars
  <2> QED
    BY <2>1, <2>2, <2>3, <2>4, <2>5, <2>6 DEF Next
<1> QED
  BY <1>1 DEF Durable

\* The cursor only moves to a point up to which everything is durable.
LEMMA CursorMoves ==
    ASSUME TypeOK, Order, Covered, [Next]_vars
    PROVE  cursor' = cursor \/ (cursor' \in Events /\ cursor < cursor' /\ 1..cursor' \subseteq Durable)
<1> USE DEF TypeOK, Order, Covered, storeVars, Events, Advance
<1>1. CASE Caller
  BY <1>1 DEF Caller, Enqueue, PutBarrier, FlushReturns, CloseReturns, CallRaises, Abort
<1>2. CASE Writer
  BY <1>2 DEF Writer, TakeWrite, DelayPasses, TakeBarrier, TakeStop, BatchPersisted, CursorAdvanced
<1>3. CASE WriterFails
  BY <1>3 DEF WriterFails
<1>4. CASE Reader
  BY <1>4 DEF Reader, ReadBinding, Fetch, ReaderPersisted, ReaderAdvanced, ReaderFails
<1>5. CASE Store
  BY <1>5 DEF Store, LandInbox, LandProjection
<1>6. CASE UNCHANGED vars
  BY <1>6 DEF vars
<1> QED
  BY <1>1, <1>2, <1>3, <1>4, <1>5, <1>6 DEF Next

LEMMA CoveredStep == TypeOK /\ Order /\ Covered /\ [Next]_vars => Covered'
<1> SUFFICES ASSUME TypeOK, Order, Covered, [Next]_vars PROVE Covered'
  OBVIOUS
<1>1. 1..cursor' \subseteq Durable'
  BY CursorMoves, RowsStay DEF Covered
<1>2. task' = "advancing" => 1..sent' \subseteq Durable'
  <2> SUFFICES ASSUME task' = "advancing" PROVE 1..sent' \subseteq Durable'
    OBVIOUS
  <2>1. CASE BatchPersisted
    <3>1. 1..saved \subseteq Durable
      BY DEF TypeOK, Order, Covered
    <3>2. 1..sent \subseteq (1..saved) \cup (saved + 1 .. sent)
      BY DEF TypeOK
    <3> QED
      BY <2>1, <3>1, <3>2, RowsStay DEF BatchPersisted
  <2>2. CASE ~BatchPersisted
    <3>1. task = "advancing" /\ sent' = sent
      <4>1. CASE Caller
        BY <4>1 DEF Caller, Enqueue, PutBarrier, FlushReturns, CloseReturns, CallRaises, Abort
      <4>2. CASE Writer
        BY <4>2, <2>2 DEF Writer, TakeWrite, DelayPasses, TakeBarrier, TakeStop, CursorAdvanced, Persist
      <4>3. CASE WriterFails \/ Reader \/ Store \/ UNCHANGED vars
        BY <4>3 DEF WriterFails, Reader, ReadBinding, Fetch, ReaderPersisted, ReaderAdvanced,
           ReaderFails, Store, LandInbox, LandProjection, vars
      <4> QED
        BY <4>1, <4>2, <4>3 DEF Next
    <3> QED
      BY <3>1, RowsStay DEF Covered
  <2> QED
    BY <2>1, <2>2
<1>3. reader' = "advancing" => 1..upto' \subseteq Durable'
  <2> SUFFICES ASSUME reader' = "advancing" PROVE 1..upto' \subseteq Durable'
    OBVIOUS
  <2>1. CASE ReaderPersisted
    <3>1. 1..from \subseteq Durable
      BY DEF TypeOK, Order, Covered
    <3>2. 1..upto \subseteq (1..from) \cup (from + 1 .. upto)
      BY DEF TypeOK
    <3> QED
      BY <2>1, <3>1, <3>2, RowsStay DEF ReaderPersisted
  <2>2. CASE ~ReaderPersisted
    <3>1. reader = "advancing" /\ upto' = upto
      <4> USE DEF readerVars
      <4>1. CASE Caller
        BY <4>1 DEF Caller, Enqueue, PutBarrier, FlushReturns, CloseReturns, CallRaises, Abort
      <4>2. CASE Writer \/ WriterFails
        BY <4>2 DEF Writer, TakeWrite, DelayPasses, TakeBarrier, TakeStop, BatchPersisted,
           CursorAdvanced, WriterFails
      <4>3. CASE Reader
        BY <4>3, <2>2 DEF Reader, ReadBinding, Fetch, ReaderAdvanced, ReaderFails
      <4>4. CASE Store \/ UNCHANGED vars
        BY <4>4 DEF Store, LandInbox, LandProjection, vars
      <4> QED
        BY <4>1, <4>2, <4>3, <4>4 DEF Next
    <3> QED
      BY <3>1, RowsStay DEF Covered
  <2> QED
    BY <2>1, <2>2
<1> QED
  BY <1>1, <1>2, <1>3 DEF Covered

\* A row is only inserted when its batch, which starts behind durable rows, has
\* no earlier event without one.
LEMMA GapStep == TypeOK /\ Order /\ Covered /\ InboxHasNoGap /\ [Next]_vars => InboxHasNoGap'
<1> SUFFICES ASSUME TypeOK, Order, Covered, InboxHasNoGap, [Next]_vars PROVE InboxHasNoGap'
  OBVIOUS
<1>1. CASE LandInbox
  <2>1. PICK batch \in Batches, e \in Events :
           FirstMissing(e, batch, inbox) /\ inbox' = inbox \cup {e}
    BY <1>1 DEF LandInbox
  <2>2. PICK a \in {saved, from} : \E b \in {sent, upto} : batch = a + 1 .. b
    BY <2>1 DEF Batches
  <2>3. PICK b \in {sent, upto} : batch = a + 1 .. b
    BY <2>2
  <2>4. a \in Nat /\ b \in Nat /\ e \in Nat
    BY <2>2, <2>3 DEF TypeOK, Events
  <2>5. 1..a \subseteq inbox
    BY <2>2 DEF TypeOK, Order, Covered, Durable
  <2>6. 1..e \subseteq inbox'
    <3> SUFFICES ASSUME NEW f \in 1..e PROVE f \in inbox'
      OBVIOUS
    <3>1. CASE f = e
      BY <3>1, <2>1
    <3>2. CASE f < e /\ f <= a
      BY <3>2, <2>1, <2>4, <2>5
    <3>3. CASE f < e /\ a < f
      BY <3>3, <2>1, <2>3, <2>4 DEF FirstMissing
    <3> QED
      BY <3>1, <3>2, <3>3, <2>4
  <2> QED
    BY <2>1, <2>6 DEF InboxHasNoGap
<1>2. CASE ~LandInbox
  <2>1. inbox' = inbox
    <3> USE DEF storeVars
    <3>1. CASE Caller
      BY <3>1 DEF Caller, Enqueue, PutBarrier, FlushReturns, CloseReturns, CallRaises, Abort
    <3>2. CASE Writer \/ WriterFails
      BY <3>2 DEF Writer, TakeWrite, DelayPasses, TakeBarrier, TakeStop, BatchPersisted,
         CursorAdvanced, WriterFails
    <3>3. CASE Reader
      BY <3>3 DEF Reader, ReadBinding, Fetch, ReaderPersisted, ReaderAdvanced, ReaderFails
    <3>4. CASE Store \/ UNCHANGED vars
      BY <3>4, <1>2 DEF Store, LandProjection, vars
    <3> QED
      BY <3>1, <3>2, <3>3, <3>4 DEF Next
  <2> QED
    BY <2>1 DEF InboxHasNoGap
<1> QED
  BY <1>1, <1>2

LEMMA BarrierStep == TypeOK /\ Order /\ Barrier /\ [Next]_vars => Barrier'
<1> SUFFICES ASSUME TypeOK, Order, Barrier, [Next]_vars PROVE Barrier'
  OBVIOUS
<1> USE DEF TypeOK, Order, Barrier, Waiting, Alive, Busy, Healthy, queueVars, storeVars, readerVars
<1>1. CASE Enqueue
  BY <1>1 DEF Enqueue
<1>2. CASE PutBarrier("flush")
  BY <1>2 DEF PutBarrier
<1>3. CASE PutBarrier("closing")
  BY <1>3 DEF PutBarrier
<1>4. CASE FlushReturns
  BY <1>4 DEF FlushReturns
<1>5. CASE CloseReturns
  BY <1>5 DEF CloseReturns
<1>6. CASE CallRaises
  BY <1>6 DEF CallRaises
<1>7. CASE Abort
  BY <1>7 DEF Abort
<1>8. CASE TakeWrite
  BY <1>8 DEF TakeWrite, Persist
<1>9. CASE DelayPasses
  BY <1>9 DEF DelayPasses, Persist
<1>10. CASE TakeBarrier
  BY <1>10 DEF TakeBarrier, Persist, Resolve
<1>11. CASE TakeStop
  BY <1>11 DEF TakeStop, Persist
<1>12. CASE BatchPersisted
  BY <1>12 DEF BatchPersisted
<1>13. CASE CursorAdvanced
  <2>1. /\ task = "advancing" /\ task' \in {"done", "waiting"} /\ serving' = "none"
        /\ caller' = caller /\ mark' = mark /\ received' = received
        /\ saved' = sent
    BY <1>13 DEF CursorAdvanced
  <2>2. CASE serving = "flush"
    <3>1. flush' = IF flush = "pending" THEN "done" ELSE flush
      BY <1>13, <2>2 DEF CursorAdvanced, Resolve
    <3> QED
      BY <2>1, <2>2, <3>1
  <2>3. CASE serving # "flush"
    <3>1. flush' = flush
      BY <1>13, <2>3 DEF CursorAdvanced
    <3> QED
      BY <2>1, <2>3, <3>1
  <2> QED
    BY <2>2, <2>3
<1>14. CASE WriterFails
  <2>1. task' = "failed" /\ mark' = "none" /\ caller' = caller /\ saved' = saved /\ received' = received
    BY <1>14 DEF WriterFails
  <2>2. flush' \in {flush, "failed"}
    BY <1>14 DEF WriterFails
  <2> QED
    BY <2>1, <2>2
<1>15. CASE ReadBinding
  BY <1>15 DEF ReadBinding
<1>16. CASE Fetch
  BY <1>16 DEF Fetch
<1>17. CASE ReaderPersisted
  BY <1>17 DEF ReaderPersisted
<1>18. CASE ReaderAdvanced
  BY <1>18 DEF ReaderAdvanced
<1>19. CASE ReaderFails
  BY <1>19 DEF ReaderFails
<1>20. CASE LandInbox
  BY <1>20 DEF LandInbox, FirstMissing
<1>21. CASE LandProjection
  BY <1>21 DEF LandProjection, FirstMissing
<1>22. CASE UNCHANGED vars
  BY <1>22 DEF vars
<1> QED
  BY <1>1, <1>2, <1>3, <1>4, <1>5, <1>6, <1>7, <1>8, <1>9, <1>10, <1>11, <1>12, <1>13, <1>14, <1>15, <1>16, <1>17, <1>18, <1>19, <1>20, <1>21, <1>22
  DEF Next, Caller, Writer, Reader, Store


LEMMA HangStep ==
    TypeOK /\ Barrier /\ OnlyServedFlushHangs /\ [Next]_vars => OnlyServedFlushHangs'
<1> SUFFICES ASSUME TypeOK, Barrier, OnlyServedFlushHangs, [Next]_vars
             PROVE  OnlyServedFlushHangs'
  OBVIOUS
<1> USE DEF TypeOK, Barrier, OnlyServedFlushHangs, Waiting, Alive, Busy, Healthy,
            queueVars, storeVars, readerVars
<1>1. CASE Enqueue
  BY <1>1 DEF Enqueue
<1>2. CASE PutBarrier("flush")
  BY <1>2 DEF PutBarrier
<1>3. CASE PutBarrier("closing")
  BY <1>3 DEF PutBarrier
<1>4. CASE FlushReturns
  BY <1>4 DEF FlushReturns
<1>5. CASE CloseReturns
  BY <1>5 DEF CloseReturns
<1>6. CASE CallRaises
  BY <1>6 DEF CallRaises
<1>7. CASE Abort
  BY <1>7 DEF Abort
<1>8. CASE TakeWrite
  BY <1>8 DEF TakeWrite, Persist
<1>9. CASE DelayPasses
  BY <1>9 DEF DelayPasses, Persist
<1>10. CASE TakeBarrier
  BY <1>10 DEF TakeBarrier, Persist, Resolve
<1>11. CASE TakeStop
  BY <1>11 DEF TakeStop, Persist
<1>12. CASE BatchPersisted
  BY <1>12 DEF BatchPersisted
<1>13. CASE CursorAdvanced
  BY <1>13 DEF CursorAdvanced, Resolve
<1>14. CASE WriterFails
  BY <1>14 DEF WriterFails
<1>15. CASE ReadBinding
  BY <1>15 DEF ReadBinding
<1>16. CASE Fetch
  BY <1>16 DEF Fetch
<1>17. CASE ReaderPersisted
  BY <1>17 DEF ReaderPersisted
<1>18. CASE ReaderAdvanced
  BY <1>18 DEF ReaderAdvanced
<1>19. CASE ReaderFails
  BY <1>19 DEF ReaderFails
<1>20. CASE LandInbox
  BY <1>20 DEF LandInbox, FirstMissing
<1>21. CASE LandProjection
  BY <1>21 DEF LandProjection, FirstMissing
<1>22. CASE UNCHANGED vars
  BY <1>22 DEF vars
<1> QED
  BY <1>1, <1>2, <1>3, <1>4, <1>5, <1>6, <1>7, <1>8, <1>9, <1>10, <1>11, <1>12, <1>13, <1>14, <1>15, <1>16, <1>17, <1>18, <1>19, <1>20, <1>21, <1>22
  DEF Next, Caller, Writer, Reader, Store


LEMMA IInvStep == IInv /\ [Next]_vars => IInv'
  BY TypeStep, OrderStep, CoveredStep, GapStep, BarrierStep, HangStep DEF IInv

-----------------------------------------------------------------------------
\* Order, Covered and Barrier strengthen the properties to an inductive invariant:
\* the cursor may only move under Covered, which needs the order of the batches,
\* and an acknowledgement is right because of what Barrier says of its future.
THEOREM InductiveInvariant == Spec => []IInv
<1>1. Init => IInv
  BY InitHolds
<1>2. IInv /\ [Next]_vars => IInv'
  BY IInvStep
<1> QED
  BY <1>1, <1>2, PTL DEF Spec

\* Type correctness.
THEOREM TypeCorrect == Spec => []TypeOK
  BY InductiveInvariant, PTL DEF IInv

\* The cursor of a binding never passes an event that is not durable in both
\* collections (persist_batch before advance_cursor, and a reader's $max).
THEOREM CursorNeverAhead == Spec => []CursorBehindRows
<1>1. IInv => CursorBehindRows
  BY DEF IInv, Covered, CursorBehindRows
<1> QED
  BY <1>1, InductiveInvariant, PTL

\* A flush that returned has made everything enqueued before it durable.
THEOREM FlushesAcknowledgeDurableEvents == Spec => []AckedIsDurable
<1>1. IInv => AckedIsDurable
  BY DEF IInv, TypeOK, Order, Covered, AckedIsDurable
<1> QED
  BY <1>1, InductiveInvariant, PTL

\* The inbox has no gap, with a writer and a reader persisting side by side.
THEOREM InboxIsGapless == Spec => []InboxHasNoGap
<1>1. IInv => InboxHasNoGap
  BY DEF IInv
<1> QED
  BY <1>1, InductiveInvariant, PTL

\* A dead writer leaves no other flush waiting than the one it was serving.
THEOREM QueuedFlushesFail == Spec => []OnlyServedFlushHangs
<1>1. IInv => OnlyServedFlushHangs
  BY DEF IInv
<1> QED
  BY <1>1, InductiveInvariant, PTL

-----------------------------------------------------------------------------
\* A landing makes at most its event durable.
LEMMA DurableMoves ==
    ASSUME [Next]_vars
    PROVE  \/ Durable' = Durable
           \/ /\ Store
              /\ \E e \in Events \ Durable : Durable' = Durable \cup {e}
<1>1. CASE LandInbox
  BY <1>1 DEF LandInbox, Store, Durable
<1>2. CASE LandProjection
  BY <1>2 DEF LandProjection, Store, Durable
<1>3. CASE ~Store
  <2> USE DEF storeVars, Durable
  <2>1. CASE Caller
    BY <2>1 DEF Caller, Enqueue, PutBarrier, FlushReturns, CloseReturns, CallRaises, Abort
  <2>2. CASE Writer \/ WriterFails
    BY <2>2 DEF Writer, TakeWrite, DelayPasses, TakeBarrier, TakeStop, BatchPersisted,
       CursorAdvanced, WriterFails
  <2>3. CASE Reader
    BY <2>3 DEF Reader, ReadBinding, Fetch, ReaderPersisted, ReaderAdvanced, ReaderFails
  <2>4. CASE UNCHANGED vars
    BY <2>4 DEF vars
  <2> QED
    BY <1>3, <2>1, <2>2, <2>3, <2>4 DEF Next
<1> QED
  BY <1>1, <1>2, <1>3 DEF Store

\* Only a flush that returns acknowledges anything.
LEMMA AckedMoves ==
    ASSUME IInv, [Next]_vars
    PROVE  acked' = acked \/ (FlushReturns /\ acked' \in acked..cursor)
<1>1. CASE FlushReturns
  BY <1>1 DEF FlushReturns, IInv, TypeOK, Order, Barrier
<1>2. CASE ~FlushReturns
  <2>1. CASE Caller
    BY <1>2, <2>1 DEF Caller, Enqueue, PutBarrier, CloseReturns, CallRaises, Abort
  <2>2. CASE Writer \/ WriterFails
    BY <2>2 DEF Writer, TakeWrite, DelayPasses, TakeBarrier, TakeStop, BatchPersisted,
       CursorAdvanced, WriterFails
  <2>3. CASE Reader
    BY <2>3 DEF Reader, ReadBinding, Fetch, ReaderPersisted, ReaderAdvanced, ReaderFails
  <2>4. CASE Store \/ UNCHANGED vars
    BY <2>4 DEF Store, LandInbox, LandProjection, vars
  <2> QED
    BY <1>2, <2>1, <2>2, <2>3, <2>4 DEF Next
<1> QED
  BY <1>1, <1>2

\* Every step of the writer, its caller, the reader and the store is a step of
\* the journal or changes nothing it shows.
THEOREM WriterImplementsJournal == Spec => ImplementsJournal
<1>1. Init => Journal!Init
  BY DEF Init, Journal!Init, Durable
<1>2. IInv /\ [Next]_vars => [Journal!Next]_(Journal!vars)
  <2> SUFFICES ASSUME IInv, [Next]_vars PROVE [Journal!Next]_(Journal!vars)
    OBVIOUS
  <2> USE DEF Journal!Next, Journal!vars
  <2>1. CASE Store
    <3>1. cursor' = cursor /\ acked' = acked
      BY <2>1 DEF Store, LandInbox, LandProjection
    <3> QED
      BY <3>1, DurableMoves DEF Journal!Persist
  <2>2. CASE FlushReturns
    <3>1. Durable' = Durable /\ cursor' = cursor
      BY <2>2 DEF FlushReturns, storeVars, Durable
    <3> QED
      BY <3>1, AckedMoves DEF Journal!Acknowledge
  <2>3. CASE ~Store /\ ~FlushReturns
    <3>1. Durable' = Durable /\ acked' = acked
      BY <2>3, DurableMoves, AckedMoves
    <3> QED
      BY <3>1, CursorMoves DEF IInv, Journal!Advance
  <2> QED
    BY <2>1, <2>2, <2>3
<1> QED
  BY <1>1, <1>2, InductiveInvariant, PTL DEF Spec, ImplementsJournal, Journal!Spec
=============================================================================
