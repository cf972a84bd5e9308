--------------------------- MODULE DurableWriter ---------------------------
(***************************************************************************)
(* DurableKernelEventWriter (dsh_runtime/events/durable_writer.py): a task  *)
(* that takes the events of a turn from a queue and persists them in        *)
(* batches, each batch in two collections and then in the binding's cursor. *)
(* Its one caller is the turn runner, which enqueues events, waits for      *)
(* flushes, and closes or aborts the writer.  Beside it, a reader (a snapshot *)
(* or a cancellation, turn_recovery.ingest_once) may persist events of the   *)
(* same session and advance the same cursor.                                 *)
(*                                                                          *)
(* Events are numbered in the order they are enqueued.  The queue is first  *)
(* in, first out and its caller waits for every barrier it puts, so the     *)
(* queue is always the events after the last one taken, then at most one    *)
(* barrier or stop mark; the batch is the events taken and not yet saved.   *)
(***************************************************************************)
EXTENDS Naturals

CONSTANTS
    LastEvent,      \* events of the turn
    Projected,      \* the events that have a projection row
    MaxBatch,       \* max_batch_size
    Faults          \* which of the faults below may happen

\* "store": a store operation fails for good, retries included; "abort": the
\* runner is cancelled or its stream breaks.
FaultKinds == {"store", "abort"}

ASSUME EventsAreNumbered == LastEvent \in Nat /\ Projected \subseteq 1..LastEvent
ASSUME BatchesAreBounded == MaxBatch \in Nat \ {0}
ASSUME FaultsAreKnown == Faults \subseteq FaultKinds

VARIABLES
    received,       \* events 1..received were enqueued
    taken,          \* events 1..taken were taken from the queue
    sent,           \* events 1..sent were handed to the store
    saved,          \* events 1..saved were persisted and the cursor advanced
    mark,           \* the item behind the events in the queue
    task,           \* where the writer's task is
    serving,        \* what made the task persist its batch
    flush,          \* the future of the caller's barrier
    caller,         \* where the caller is
    acked,          \* events 1..acked were durable when a flush returned
    reader,         \* where the reader is
    from, upto,     \* the reader persists events from+1..upto
    inbox,          \* events in kernel_event_inbox
    projections,    \* events in the projection collection
    cursor          \* the binding's event_cursor

queueVars == <<received, taken, mark>>
storeVars == <<inbox, projections, cursor>>
readerVars == <<reader, from, upto>>
vars == <<received, taken, sent, saved, mark, task, serving, flush, caller, acked,
          reader, from, upto, inbox, projections, cursor>>

Events == 1..LastEvent
Waiting == {"flush", "closing"}

TypeOK ==
    /\ received \in 0..LastEvent /\ taken \in 0..LastEvent
    /\ sent \in 0..LastEvent /\ saved \in 0..LastEvent
    /\ mark \in {"none", "flush", "stop"}
    /\ task \in {"waiting", "persisting", "advancing", "done", "failed", "cancelled"}
    /\ serving \in {"none", "size", "delay", "flush", "stop"}
    /\ flush \in {"none", "pending", "done", "failed"}
    /\ caller \in {"running", "stopping", "closed", "raised", "aborted"} \cup Waiting
    /\ acked \in 0..LastEvent
    /\ reader \in {"idle", "read", "persisting", "advancing"}
    /\ from \in 0..LastEvent /\ upto \in 0..LastEvent
    /\ inbox \subseteq Events /\ projections \subseteq Events
    /\ cursor \in 0..LastEvent

Init ==
    /\ received = 0 /\ taken = 0 /\ sent = 0 /\ saved = 0
    /\ mark = "none"
    /\ task = "waiting" /\ serving = "none"
    /\ flush = "none"
    /\ caller = "running" /\ acked = 0
    /\ reader = "idle" /\ from = 0 /\ upto = 0
    /\ inbox = {} /\ projections = {} /\ cursor = 0

\* _raise_if_failed lets the call through.
Healthy == task # "failed"

\* An event is durable when both collections have what they should have of it.
Durable == {e \in inbox : e \in Projected => e \in projections}

\* Mutants ("Mut"): each is the definition it precedes with one plausible bug.
MutAdvanceInc(to) == cursor' = cursor + to
MutAdvanceSet(to) == cursor' = to

\* advance_cursor: $max.
Advance(to) == cursor' = IF cursor < to THEN to ELSE cursor

-----------------------------------------------------------------------------
(* The caller. *)

Enqueue ==
    /\ caller = "running" /\ Healthy
    /\ received < LastEvent
    /\ received' = received + 1
    /\ UNCHANGED <<taken, mark, sent, saved, task, serving, flush, caller, acked, readerVars, storeVars>>

\* flush, also as the first half of close, which follows the flush of the last
\* event.
PutBarrier(next) ==
    /\ caller = "running" /\ Healthy
    /\ next = "closing" => acked = LastEvent
    /\ mark' = "flush"
    /\ flush' = "pending"
    /\ caller' = next
    /\ UNCHANGED <<received, taken, sent, saved, task, serving, acked, readerVars, storeVars>>

\* The future has a result, and the writer has not failed meanwhile.
FlushReturns ==
    /\ caller \in Waiting
    /\ flush = "done" /\ Healthy
    /\ acked' = received
    /\ IF caller = "closing"
       THEN caller' = "stopping" /\ mark' = "stop"
       ELSE caller' = "running" /\ UNCHANGED mark
    /\ UNCHANGED <<received, taken, sent, saved, task, serving, flush, readerVars, storeVars>>

CloseReturns ==
    /\ caller = "stopping"
    /\ task = "done"
    /\ caller' = "closed"
    /\ UNCHANGED <<queueVars, sent, saved, task, serving, flush, acked, readerVars, storeVars>>

\* The writer's failure reaches the caller at its next call, at the end of a
\* flush, or when it waits for the task.
CallRaises ==
    /\ \/ caller \in {"running", "stopping"} /\ ~Healthy
       \/ caller \in Waiting /\ flush = "failed"
       \/ caller \in Waiting /\ flush = "done" /\ ~Healthy
    /\ caller' = "raised"
    /\ UNCHANGED <<queueVars, sent, saved, task, serving, flush, acked, readerVars, storeVars>>

\* abort, after an exception or because the runner was cancelled.  What the
\* store was given it may still carry out, the cursor's update included.
Abort ==
    /\ \/ caller = "raised"
       \/ "abort" \in Faults /\ caller \in {"running", "stopping"} \cup Waiting
    /\ caller' = "aborted"
    /\ task' = IF task \in {"done", "failed"} THEN task ELSE "cancelled"
    /\ \/ task = "advancing" /\ Advance(sent)
       \/ UNCHANGED cursor
    /\ UNCHANGED <<queueVars, sent, saved, serving, flush, acked, readerVars, inbox, projections>>

-----------------------------------------------------------------------------
(* The writer's task. *)

\* persist_batch is called with the events taken so far, or returns at once when
\* there are none.
Persist(what) ==
    /\ task' = "persisting"
    /\ serving' = what
    /\ sent' = taken'

\* The barrier of a caller that no longer waits is left alone.
Resolve == flush' = IF flush = "pending" THEN "done" ELSE flush

TakeWrite ==
    /\ task = "waiting"
    /\ taken < received
    /\ taken' = taken + 1
    /\ IF taken' - saved >= MaxBatch THEN Persist("size") ELSE UNCHANGED <<task, serving, sent>>
    /\ UNCHANGED <<received, mark, saved, flush, caller, acked, readerVars, storeVars>>

\* The deadline of the first event of the batch passes.
DelayPasses ==
    /\ task = "waiting"
    /\ taken > saved
    /\ UNCHANGED queueVars
    /\ Persist("delay")
    /\ UNCHANGED <<saved, flush, caller, acked, readerVars, storeVars>>

TakeBarrier ==
    /\ task = "waiting"
    /\ taken = received /\ mark = "flush"
    /\ mark' = "none"
    /\ UNCHANGED taken
    /\ IF taken > saved THEN Persist("flush") /\ UNCHANGED flush
       ELSE Resolve /\ UNCHANGED <<task, serving, sent>>
    /\ UNCHANGED <<received, saved, caller, acked, readerVars, storeVars>>

TakeStop ==
    /\ task = "waiting"
    /\ taken = received /\ mark = "stop"
    /\ mark' = "none"
    /\ UNCHANGED taken
    /\ IF taken > saved THEN Persist("stop")
       ELSE task' = "done" /\ UNCHANGED <<serving, sent>>
    /\ UNCHANGED <<received, saved, flush, caller, acked, readerVars, storeVars>>

\* Both bulk writes, possibly after retries, report success.
BatchPersisted ==
    /\ task = "persisting"
    /\ saved + 1 .. sent \subseteq Durable
    /\ task' = "advancing"
    /\ UNCHANGED <<queueVars, sent, saved, serving, flush, caller, acked, readerVars, storeVars>>

\* advance_cursor ($max) reports success; then the barrier is resolved, the stop
\* is carried out, or the next item is taken.
CursorAdvanced ==
    /\ task = "advancing"
    /\ Advance(sent)
    /\ saved' = sent
    /\ IF serving = "flush" THEN Resolve ELSE UNCHANGED flush
    /\ task' = IF serving = "stop" THEN "done" ELSE "waiting"
    /\ serving' = "none"
    /\ UNCHANGED <<queueVars, sent, caller, acked, readerVars, inbox, projections>>

MutWriterFails ==
    /\ "store" \in Faults
    /\ task \in {"persisting", "advancing"}
    /\ task' = "failed"
    /\ \/ task = "advancing" /\ Advance(sent)
       \/ UNCHANGED cursor
    /\ UNCHANGED <<queueVars, sent, saved, serving, flush, caller, acked, readerVars, inbox, projections>>

\* The batch or the cursor fails for good.  _fail_waiting_barriers empties the
\* queue, where it finds a barrier that was not taken yet.
WriterFails ==
    /\ "store" \in Faults
    /\ task \in {"persisting", "advancing"}
    /\ task' = "failed"
    /\ flush' = IF mark = "flush" /\ flush = "pending" THEN "failed" ELSE flush
    /\ mark' = "none"
    /\ \/ task = "advancing" /\ Advance(sent)
       \/ UNCHANGED cursor
    /\ UNCHANGED <<received, taken, sent, saved, serving, caller, acked, readerVars, inbox, projections>>

-----------------------------------------------------------------------------
(* A reader: ingest_once, with the cursor of a binding its caller read.      *)

ReadBinding ==
    /\ reader = "idle"
    /\ reader' = "read"
    /\ from' = cursor
    /\ UNCHANGED <<queueVars, sent, saved, task, serving, flush, caller, acked, upto, storeVars>>

\* events_once: all events after the cursor that the host has, which may be ahead
\* of the runner.
Fetch ==
    /\ reader = "read"
    /\ \/ \E u \in Events : from < u /\ upto' = u /\ reader' = "persisting"
       \/ upto' = from /\ reader' = "idle"
    /\ UNCHANGED <<queueVars, sent, saved, task, serving, flush, caller, acked, from, storeVars>>

ReaderPersisted ==
    /\ reader = "persisting"
    /\ from + 1 .. upto \subseteq Durable
    /\ reader' = "advancing"
    /\ UNCHANGED <<queueVars, sent, saved, task, serving, flush, caller, acked, from, upto, storeVars>>

ReaderAdvanced ==
    /\ reader = "advancing"
    /\ Advance(upto)
    /\ reader' = "idle"
    /\ UNCHANGED <<queueVars, sent, saved, task, serving, flush, caller, acked, from, upto,
                   inbox, projections>>

ReaderFails ==
    /\ "store" \in Faults
    /\ reader \in {"persisting", "advancing"}
    /\ reader' = "idle"
    /\ UNCHANGED <<queueVars, sent, saved, task, serving, flush, caller, acked, from, upto, storeVars>>

-----------------------------------------------------------------------------
(* The store: the two bulk writes of a batch run side by side, each in the   *)
(* order of its operations (ordered=True; an event that has a row already is *)
(* left alone), and go on when their task has given up on them.              *)

Batches == {saved + 1 .. sent, from + 1 .. upto}

FirstMissing(e, batch, present) ==
    e \in batch \ present /\ \A f \in batch : f < e => f \in present

LandInbox ==
    /\ \E batch \in Batches, e \in Events :
          FirstMissing(e, batch, inbox) /\ inbox' = inbox \cup {e}
    /\ UNCHANGED <<queueVars, sent, saved, task, serving, flush, caller, acked, readerVars,
                   projections, cursor>>

LandProjection ==
    /\ \E batch \in Batches, e \in Events :
          /\ FirstMissing(e, batch \cap Projected, projections)
          /\ projections' = projections \cup {e}
    /\ UNCHANGED <<queueVars, sent, saved, task, serving, flush, caller, acked, readerVars,
                   inbox, cursor>>

-----------------------------------------------------------------------------
Caller == \/ Enqueue \/ PutBarrier("flush") \/ PutBarrier("closing") \/ FlushReturns
          \/ CloseReturns \/ CallRaises \/ Abort

Writer == \/ TakeWrite \/ DelayPasses \/ TakeBarrier \/ TakeStop
          \/ BatchPersisted \/ CursorAdvanced

Reader == ReadBinding \/ Fetch \/ ReaderPersisted \/ ReaderAdvanced \/ ReaderFails

Store == LandInbox \/ LandProjection

Next == Caller \/ Writer \/ WriterFails \/ Reader \/ Store

\* The event loop runs the task, the store carries out what it is given, and a
\* caller whose future is resolved goes on.  Nothing makes events come.
Fairness == WF_vars(Writer) /\ WF_vars(Store) /\ WF_vars(FlushReturns \/ CloseReturns \/ CallRaises)

Spec == Init /\ [][Next]_vars
FairSpec == Spec /\ Fairness

-----------------------------------------------------------------------------
\* The cursor a later turn or a recovery resumes from never passes an event that
\* is missing from either collection, at whatever moment the process dies
\* (persist_batch before advance_cursor, durable_writer.py:129-156).
CursorBehindRows == 1..cursor \subseteq Durable

\* When a flush has returned, every event enqueued before it is in both
\* collections and behind the cursor: what the runner does next (publish the
\* terminal event, mark an action durable, release the lock) may rely on it.
AckedIsDurable == 1..acked \subseteq Durable /\ acked <= cursor

\* The inbox has no gap, whatever failed or was aborted: a reader that resumes
\* after its last row misses nothing.
InboxHasNoGap == \A e \in inbox : 1..e \subseteq inbox

\* When the writer dies, every flush that waits in the queue is failed; only the
\* caller of the flush being served is left waiting (for ever: the barrier was
\* taken from the queue before _persist raised, durable_writer.py:111-127).
OnlyServedFlushHangs ==
    task = "failed" /\ flush = "pending" => serving = "flush" /\ caller \in Waiting \cup {"aborted"}

\* Every flush ends, with a result or an error, unless the writer's task failed
\* while it served the flush (OnlyServedFlushHangs).
FlushEnds == caller \in Waiting ~> caller \notin Waiting \/ (~Healthy /\ serving = "flush")

\* Once the last flush of a close has returned, the close ends: the task takes the
\* stop mark and finishes, as nothing is left to be persisted.
CloseEnds == caller = "stopping" ~> caller \in {"closed", "aborted"}

-----------------------------------------------------------------------------
\* The writer is a journal whose cursor and acknowledgements cover durable
\* events only, in every order of landings, failures and aborts.
Journal == INSTANCE EventJournal WITH durable <- Durable
ImplementsJournal == Journal!Spec
=============================================================================
