---------------------------- MODULE TurnChannel ----------------------------
(***************************************************************************)
(* TurnEventChannel (dsh_runtime/events/turn_channel.py) with its           *)
(* DurableProjectionWriter (events/projection_writer.py) and the turn       *)
(* runner that uses both.  While a turn runs, the tools it has called emit  *)
(* rows of their own beside the events of the kernel: children of a tool    *)
(* call, which wait for the call's start event, and standalone rows (an     *)
(* approval, the evidence of the turn).  A child becomes replayable only    *)
(* behind its parent, so the runner flushes the events' writer before it    *)
(* lets the children of a browser task through; those of other tools are    *)
(* shown live and never stored.                                             *)
(*                                                                         *)
(* One turn.  The events' writer is the journal it implements (EventJournal *)
(* and DurableWriter): it persists and advances as it likes, and a flush    *)
(* that returned has acknowledged every event read so far.  The channel's   *)
(* lock is never held over an await, so each of its calls is one step.      *)
(***************************************************************************)
EXTENDS Naturals, Sequences, SequencesExt

CONSTANTS
    Actions,    \* tool calls that emit rows
    Browser,    \* those that are a browser task
    Askai,      \* the source of standalone rows
    Terminal,   \* the turn's events are 1..Terminal, the last one ends it
    Start,      \* the start event of each action
    MaxRows,    \* bound: rows of each source
    MaxSide,    \* max_batch_size of the rows' writer
    Mishaps     \* which of those below may happen

\* "rows": the rows' writer fails for good; "events": the stream breaks, the events'
\* writer fails or the evidence cannot be loaded; "cancel": the runner is cancelled.
MishapKinds == {"rows", "events", "cancel"}

ASSUME ActionsStartInTurn ==
    /\ Terminal \in Nat \ {0}
    /\ Start \in [Actions -> 1 .. Terminal - 1]
    /\ \A a, b \in Actions : Start[a] = Start[b] => a = b
ASSUME SourcesAreDistinct == Browser \subseteq Actions /\ Askai \notin Actions
ASSUME BoundsAreNumbers == MaxRows \in Nat /\ MaxSide \in Nat \ {0}
ASSUME MishapsAreKnown == Mishaps \subseteq MishapKinds

VARIABLES
    runner,     \* where the runner is
    read,       \* events 1..read were taken from the stream
    emitted,    \* how many rows of each source the channel was given
    known,      \* _known_actions
    marked,     \* _durable_actions
    pending,    \* _pending: rows whose parent has not started
    held,       \* _pending_durable: rows whose parent is not durable
    history,    \* _side_history
    written,    \* _durable_side_event_ids
    closed,     \* _closed
    returned,   \* the rows that finish returned
    queue,      \* the rows' writer's queue
    batch,      \* the rows it has taken and not saved
    scribe,     \* where its task is
    serves,     \* the mark for which it persists its batch
    future,     \* the futures of the barriers of flush and of close
    stored,     \* rows in the projection collection
    persisted, reached, confirmed   \* the journal of the turn's events

channelVars == <<known, marked, pending, held, history, written, closed>>
scribeVars == <<queue, batch, scribe, serves, future>>
journalVars == <<persisted, reached, confirmed>>
sideVars == <<runner, read, emitted, channelVars, returned, scribeVars, stored, journalVars>>

Sources == Actions \cup {Askai}
Barriers == {"flush", "close"}
Row(s, n) == [kind |-> "row", of |-> s, no |-> n]
Mark(k) == [kind |-> k, of |-> Askai, no |-> 0]
Rows == {Row(s, n) : s \in Sources, n \in 1..MaxRows}
Marks == {Mark(k) : k \in Barriers \cup {"stop"}}

ChannelTypeOK ==
    /\ runner \in {"reading", "parent", "flush", "sideFlush", "evidence", "finish", "closing",
                   "stopping", "returned", "raised"}
    /\ read \in 0..Terminal
    /\ emitted \in [Sources -> 0..MaxRows]
    /\ known \subseteq Actions /\ marked \subseteq Actions
    /\ pending \in [Actions -> Seq(Rows)] /\ held \in [Actions -> Seq(Rows)]
    /\ history \subseteq Rows /\ written \subseteq Rows /\ returned \subseteq Rows
    /\ closed \in BOOLEAN
    /\ queue \in Seq(Rows \cup Marks) /\ batch \in Seq(Rows)
    /\ scribe \in {"waiting", "persisting", "done", "failed", "cancelled"}
    /\ serves \in Barriers \cup {"none", "stop"}
    /\ future \in [Barriers -> {"none", "pending", "done", "failed", "gone"}]
    /\ stored \subseteq Rows
    /\ persisted \subseteq 1..Terminal /\ reached \in 0..Terminal /\ confirmed \in 0..Terminal

ChannelInit ==
    /\ runner = "reading" /\ read = 0
    /\ emitted = [s \in Sources |-> 0]
    /\ known = {} /\ marked = {}
    /\ pending = [a \in Actions |-> <<>>] /\ held = [a \in Actions |-> <<>>]
    /\ history = {} /\ written = {} /\ returned = {} /\ closed = FALSE
    /\ queue = <<>> /\ batch = <<>>
    /\ scribe = "waiting" /\ serves = "none"
    /\ future = [b \in Barriers |-> "none"]
    /\ stored = {}
    /\ persisted = {} /\ reached = 0 /\ confirmed = 0

Kernel == INSTANCE EventJournal
          WITH Events <- 1..Terminal, durable <- persisted, cursor <- reached, acked <- confirmed

\* _raise_if_failed lets the call through.
Alive == scribe # "failed"

\* The rows' writer is given rows, or raises before it takes any.
Enter(rows) ==
    IF Alive THEN queue' = queue \o rows /\ written' = written \cup ToSet(rows)
    ELSE UNCHANGED <<queue, written>>

\* Mutants ("Mut"): each is the definition it precedes with one plausible bug.
MutReplayable(a) == a \in known

\* Children of the action may be written.
Replayable(a) == a \in marked

-----------------------------------------------------------------------------
(* Those who emit rows: the tools, which do not wait for the runner and may  *)
(* be ahead of it, and the approval service.  A call on a closed channel is  *)
(* dropped and changes nothing.                                              *)

\* publish_side: hold the row until its parent has started, then (live) until it is
\* durable, then write it.
PublishSide(a) ==
    /\ ~closed
    /\ emitted[a] < MaxRows
    /\ emitted' = [emitted EXCEPT ![a] = @ + 1]
    /\ LET row == Row(a, emitted'[a]) IN
       IF a \notin known
       THEN /\ pending' = [pending EXCEPT ![a] = Append(@, row)]
            /\ UNCHANGED <<held, history, written, queue>>
       ELSE /\ history' = history \cup {row}
            /\ UNCHANGED pending
            /\ IF Replayable(a)
               THEN Enter(<<row>>) /\ UNCHANGED held
               ELSE /\ held' = [held EXCEPT ![a] = Append(@, row)]
                    /\ UNCHANGED <<written, queue>>
    /\ UNCHANGED <<runner, read, known, marked, closed, returned, batch, scribe, serves, future,
                   stored, journalVars>>

Standalone ==
    /\ emitted[Askai] < MaxRows
    /\ emitted' = [emitted EXCEPT ![Askai] = @ + 1]
    /\ history' = history \cup {Row(Askai, emitted'[Askai])}
    /\ Enter(<<Row(Askai, emitted'[Askai])>>)

\* publish_standalone by the approval service.
PublishStandalone ==
    /\ ~closed
    /\ Standalone
    /\ UNCHANGED <<runner, read, known, marked, pending, held, closed, returned, batch, scribe,
                   serves, future, stored, journalVars>>

-----------------------------------------------------------------------------
(* The runner, and what it calls in the channel.                             *)

Started(e) == {a \in Actions : Start[a] = e}

\* publish_kernel and the enqueueing of the event; children of an action that starts
\* are released.
ReadEvent ==
    /\ runner = "reading"
    /\ read < Terminal
    /\ read' = read + 1
    /\ known' = known \cup Started(read')
    /\ held' = [a \in Actions |-> held[a] \o (IF a \in Started(read') THEN pending[a] ELSE <<>>)]
    /\ history' = history \cup UNION {ToSet(pending[a]) : a \in Started(read')}
    /\ pending' = [a \in Actions |-> IF a \in Started(read') THEN <<>> ELSE pending[a]]
    /\ runner' = IF read' = Terminal THEN "flush"
                 ELSE IF Started(read') \cap Browser # {} THEN "parent" ELSE "reading"
    /\ UNCHANGED <<emitted, marked, written, closed, returned, scribeVars, stored, journalVars>>

\* A flush of the events' writer has returned.
Acknowledged == Kernel!Acknowledge /\ confirmed' = read

\* mark_action_durable, when the start event is: the held children are written, or
\* the failure of the rows' writer raises.
ParentFlushed ==
    /\ runner = "parent"
    /\ Acknowledged
    /\ marked' = marked \cup Started(read)
    /\ \E a \in Started(read) :
          /\ Enter(held[a])
          /\ runner' = IF Alive \/ held[a] = <<>> THEN "reading" ELSE "evidence"
          /\ held' = [held EXCEPT ![a] = <<>>]
    /\ UNCHANGED <<read, emitted, known, pending, history, closed, returned, batch, scribe, serves,
                   future, stored>>

\* The terminal event is durable; the rows' writer's flush puts its barrier or raises.
TerminalFlushed ==
    /\ runner = "flush"
    /\ Acknowledged
    /\ IF Alive
       THEN /\ queue' = Append(queue, Mark("flush"))
            /\ future' = [future EXCEPT !["flush"] = "pending"]
            /\ runner' = "sideFlush"
       ELSE runner' = "evidence" /\ UNCHANGED <<queue, future>>
    /\ UNCHANGED <<read, emitted, channelVars, returned, batch, scribe, serves, stored>>

\* The flush returns or raises; either way the runner goes on with the evidence.
SideFlushed ==
    /\ runner = "sideFlush"
    /\ future["flush"] \in {"done", "failed"}
    /\ runner' = "evidence"
    /\ UNCHANGED <<read, emitted, channelVars, returned, scribeVars, stored, journalVars>>

\* The evidence of the turn, if there is any, is one more standalone row.
PublishEvidence ==
    /\ runner = "evidence"
    /\ \/ /\ Standalone
          /\ runner' = IF Alive THEN "finish" ELSE "raised"
       \/ runner' = "finish" /\ UNCHANGED <<emitted, history, written, queue>>
    /\ UNCHANGED <<read, known, marked, pending, held, closed, returned, batch, scribe, serves,
                   future, stored, journalVars>>

MutClose == UNCHANGED closed

Close == closed' = TRUE

\* finish: the channel is closed before its writer is; that puts a barrier, or raises.
Finish ==
    /\ runner = "finish"
    /\ Close
    /\ pending' = [a \in Actions |-> <<>>] /\ held' = [a \in Actions |-> <<>>]
    /\ IF Alive
       THEN /\ queue' = Append(queue, Mark("close"))
            /\ future' = [future EXCEPT !["close"] = "pending"]
            /\ runner' = "closing"
       ELSE runner' = "raised" /\ UNCHANGED <<queue, future>>
    /\ UNCHANGED <<read, emitted, known, marked, history, written, returned, batch, scribe, serves,
                   stored, journalVars>>

\* The flush within close has returned, or raises.
CloseFlushed ==
    /\ runner = "closing"
    /\ \/ /\ future["close"] = "done" /\ Alive
          /\ queue' = Append(queue, Mark("stop"))
          /\ runner' = "stopping"
       \/ /\ \/ future["close"] = "failed"
             \/ future["close"] = "done" /\ ~Alive
          /\ runner' = "raised"
          /\ UNCHANGED queue
    /\ UNCHANGED <<read, emitted, channelVars, returned, batch, scribe, serves, future, stored,
                   journalVars>>

\* The task has ended (it cannot have failed, as nothing was left to be saved), and
\* finish returns what was written of the history.
Finished ==
    /\ runner = "stopping"
    /\ scribe = "done"
    /\ runner' = "returned"
    /\ returned' = history \cap written
    /\ UNCHANGED <<read, emitted, channelVars, scribeVars, stored, journalVars>>

\* An exception in the first try is followed by the second; one in the second, before
\* finish, leaves the channel open for ever.
EventsFail ==
    /\ "events" \in Mishaps
    /\ \/ runner \in {"reading", "parent", "flush"} /\ runner' = "evidence"
       \/ runner = "evidence" /\ runner' = "raised"
    /\ UNCHANGED <<read, emitted, channelVars, returned, scribeVars, stored, journalVars>>

\* CancelledError: its handler finishes the channel, and only the first try has one.
\* The barrier that is waited for is given up; a task that is waited for is cancelled.
Cancel ==
    /\ "cancel" \in Mishaps
    /\ runner \notin {"returned", "raised"}
    /\ runner' = IF runner \in {"reading", "parent", "flush", "sideFlush"} THEN "finish" ELSE "raised"
    /\ future' = [b \in Barriers |-> IF future[b] = "pending" THEN "gone" ELSE future[b]]
    /\ scribe' = IF runner = "stopping" /\ scribe \in {"waiting", "persisting"}
                 THEN "cancelled" ELSE scribe
    /\ UNCHANGED <<read, emitted, channelVars, returned, queue, batch, serves, stored, journalVars>>

-----------------------------------------------------------------------------
(* The rows' writer.                                                         *)

MutResolved(b) == [future EXCEPT ![b] = IF @ = "pending" /\ batch # <<>> THEN "done" ELSE @]

\* A barrier whose caller was cancelled is left alone.
Resolved(b) == [future EXCEPT ![b] = IF @ = "pending" THEN "done" ELSE @]

Took(next) == queue' = Tail(queue) /\ scribe' = next

MutTakeRow ==
    /\ scribe = "waiting"
    /\ queue # <<>>
    /\ batch' = Append(batch, Head(queue))
    /\ Took(IF Len(batch') >= MaxSide THEN "persisting" ELSE "waiting")
    /\ UNCHANGED <<runner, read, emitted, channelVars, returned, serves, future, stored, journalVars>>

TakeRow ==
    /\ scribe = "waiting"
    /\ queue # <<>> /\ Head(queue) \in Rows
    /\ batch' = Append(batch, Head(queue))
    /\ Took(IF Len(batch') >= MaxSide THEN "persisting" ELSE "waiting")
    /\ UNCHANGED <<runner, read, emitted, channelVars, returned, serves, future, stored, journalVars>>

\* The deadline of the first row of the batch passes.
SideDelayPasses ==
    /\ scribe = "waiting"
    /\ batch # <<>>
    /\ scribe' = "persisting"
    /\ UNCHANGED <<runner, read, emitted, channelVars, returned, queue, batch, serves, future, stored,
                   journalVars>>

\* A barrier or the stop: the batch first, if there is one.
TakeMark ==
    /\ scribe = "waiting"
    /\ queue # <<>> /\ Head(queue) \in Marks
    /\ LET k == Head(queue).kind IN
       IF batch # <<>> THEN Took("persisting") /\ serves' = k /\ UNCHANGED future
       ELSE IF k = "stop" THEN Took("done") /\ UNCHANGED <<serves, future>>
       ELSE Took("waiting") /\ future' = Resolved(k) /\ UNCHANGED serves
    /\ UNCHANGED <<runner, read, emitted, channelVars, returned, batch, stored, journalVars>>

\* persist_projections reports success; then the mark is carried out.
BatchStored ==
    /\ scribe = "persisting"
    /\ ToSet(batch) \subseteq stored
    /\ batch' = <<>>
    /\ serves' = "none"
    /\ scribe' = IF serves = "stop" THEN "done" ELSE "waiting"
    /\ future' = IF serves \in Barriers THEN Resolved(serves) ELSE future
    /\ UNCHANGED <<runner, read, emitted, channelVars, returned, queue, stored, journalVars>>

\* The batch fails for good; barriers still in the queue fail with it.
RowsFail ==
    /\ "rows" \in Mishaps
    /\ scribe = "persisting"
    /\ scribe' = "failed"
    /\ queue' = <<>>
    /\ future' = [b \in Barriers |-> IF Mark(b) \in ToSet(queue) /\ future[b] = "pending"
                                     THEN "failed" ELSE future[b]]
    /\ UNCHANGED <<runner, read, emitted, channelVars, returned, batch, serves, stored, journalVars>>

MutNextInOrder(i) == TRUE

\* ordered=True: the rows before this one are there.
NextInOrder(i) == \A j \in 1 .. i - 1 : batch[j] \in stored

\* The store works through a batch in order, also when its task has given up on it.
LandRow ==
    /\ scribe # "waiting"
    /\ \E i \in DOMAIN batch :
          /\ batch[i] \notin stored
          /\ NextInOrder(i)
          /\ stored' = stored \cup {batch[i]}
    /\ UNCHANGED <<runner, read, emitted, channelVars, returned, scribeVars, journalVars>>

\* The events' writer and the readers of the session.
JournalStep ==
    /\ Kernel!Persist \/ Kernel!Advance
    /\ UNCHANGED <<runner, read, emitted, channelVars, returned, scribeVars, stored>>

-----------------------------------------------------------------------------
Emitter == (\E a \in Actions : PublishSide(a)) \/ PublishStandalone
Return == SideFlushed \/ CloseFlushed \/ Finished
TurnRunner == \/ ReadEvent \/ ParentFlushed \/ TerminalFlushed
              \/ PublishEvidence \/ Finish \/ Return
Scribe == TakeRow \/ SideDelayPasses \/ TakeMark \/ BatchStored \/ LandRow

ChannelNext == Emitter \/ TurnRunner \/ EventsFail \/ Cancel \/ Scribe \/ RowsFail \/ JournalStep

\* The event loop runs the writer's task and the calls whose futures have results,
\* and the store carries out what it is given.
ChannelFairness == WF_sideVars(Scribe) /\ WF_sideVars(Return)

ChannelSpec == ChannelInit /\ [][ChannelNext]_sideVars
FairChannel == ChannelSpec /\ ChannelFairness

-----------------------------------------------------------------------------
\* "The parent tool row must be durable before any child Browser Agent rows become
\* replayable after reconnect" (turn_runner.py:162-163): a stored child has its start
\* event behind the cursor from which every later reader starts.
ParentIsDurableFirst ==
    \A row \in stored : row.of \in Actions =>
        /\ Start[row.of] <= reached
        /\ 1 .. Start[row.of] \subseteq persisted

\* What finish returns, for the conversation's own record of the turn, is what a
\* replay shows: exactly the rows in the collection, and those are all that the
\* channel was given of standalone rows and of marked actions (turn_channel.py:91-102).
HistoryIsComplete ==
    runner = "returned" =>
        /\ returned = stored
        /\ stored = {row \in Rows : /\ row.of \in marked \cup {Askai}
                                    /\ row.no <= emitted[row.of]}

\* Whatever failed or was cancelled, the stored rows of a source are the first that
\* it emitted: a replay stops early and never skips.
ReplayHasNoHoles ==
    \A row \in stored : \A n \in 1..row.no : Row(row.of, n) \in stored

\* The flush and the close of the channel return or raise, unless the writer has
\* failed while it served their barrier, which it had taken from the queue before
\* (projection_writer.py:105-109, 127-131).
SideCallsEnd ==
    runner \in {"sideFlush", "closing", "stopping"} ~>
        (runner \notin {"sideFlush", "closing", "stopping"} \/ (~Alive /\ serves \in Barriers))
=============================================================================
