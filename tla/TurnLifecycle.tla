--------------------------- MODULE TurnLifecycle ---------------------------
(***************************************************************************)
(* The life of a conversation's turns in chat-api: admission               *)
(* (chat_service.prepare_turn), the runner task (turn_runner), user         *)
(* cancellation, snapshot readers, recovery, and the finalizer they all     *)
(* share.  Two documents must move together: the binding's admission lock   *)
(* and the conversation's sidebar run; they are updated by separate awaited *)
(* store calls, between which any other actor may run.  The runtime host    *)
(* keeps one event journal per session, from which every runner and every   *)
(* reader takes what comes after the binding's event cursor: an event does  *)
(* not say which turn it belongs to.                                        *)
(*                                                                          *)
(* One conversation on one binding (KernelBinding is about its succession   *)
(* of bindings), one chat-api process, whose crash loses every task.        *)
(***************************************************************************)
EXTENDS Naturals, FiniteSets, Sequences, SequencesExt

CONSTANTS
    Messages,       \* assistant messages, one per turn
    Cancellers,     \* concurrent users of cancel
    Viewers,        \* concurrent users of snapshot
    Askers,         \* turns that may ask for a browser intervention
    MaxSlots,       \* DSH_RUNTIME_TURN_MAX_CONCURRENT, as left to this conversation
    MaxCrashes,     \* bound on the number of crashes explored
    Faults,         \* which of the faults below may happen
    NaiveClock,     \* the store returns started_at without a time zone
    None

\* "store": a store call raises; "writer": the durable writer's batch fails for
\* good while it serves a flush; "transport": the gateway's calls and streams
\* break; "shutdown": the service is shut down; "aged": a turn found running has
\* run for more than ten minutes.
FaultKinds == {"store", "writer", "transport", "shutdown", "aged"}

ASSUME DistinctActors == /\ None \notin Messages
                         /\ Askers \subseteq Messages
                         /\ Messages \cap (Cancellers \cup Viewers) = {}
                         /\ Cancellers \cap Viewers = {}
ASSUME SlotsExist == MaxSlots \in Nat \ {0}
ASSUME FaultsAndClock == Faults \subseteq FaultKinds /\ NaiveClock \in BOOLEAN /\ MaxCrashes \in Nat

Clients == Cancellers \cup Viewers
Actors == Messages \cup Clients

VARIABLES
    lock,       \* the binding's active_turn
    sidebar,    \* the conversation's active_run
    rows,       \* rows[m]: what the rows persisted for m report
    stored,     \* event ids of all persisted rows
    eventCursor,\* the binding's event_cursor
    hostq,      \* messages the host works on (the first) or has queued
    log,        \* the host's journal of the session
    pc,         \* where an actor is
    job,        \* the finalization an actor is carrying out
    target,     \* what an actor read and acts on later
    run,        \* run[m]: what the runner of m has read and is going to record
    inFlight,   \* taken backpressure slots
    crashes,    \* how many crashes so far
    cancelled   \* history: messages whose cancel returned True

events == <<rows, stored, eventCursor>>
stores == <<lock, sidebar, events>>
host == <<hostq, log>>
local == <<pc, job, target, run>>
vars == <<stores, host, local, inFlight, crashes, cancelled>>

TerminalStatus == {"completed", "failed", "cancelled"}
Free(l) == l.status # "running"
Running(m) == [msg |-> m, status |-> "running"]
NoLock == [msg |-> None, status |-> "none"]
NoTarget == [msg |-> None, status |-> "none", cursor |-> 0, upto |-> 0, task |-> FALSE]
NoRun == [base |-> 0, pos |-> 0, broken |-> FALSE, status |-> "none"]

\* What an event is about: an open intervention, or the end of a turn.
EventKinds == {"ask"} \cup TerminalStatus

PreparePcs == {"new", "tidy", "recover", "repair", "sync", "append", "mark", "undo"}
SlotPcs == {"send", "stream", "flush", "stuck", "fail", "ended", "settle", "finalize", "refinalize", "aborting"}
RunnerPcs == SlotPcs \cup {"queued", "suspend"}
EndPcs == {"done", "dead", "rejected"}
ClientPcs == {"idle", "tidy", "gateway", "lookup", "wait", "ingest", "persist", "advance",
              "prove", "proved", "gather", "last", "release"}

NoJob == [phase |-> "ok", msg |-> None, status |-> "none", clear |-> FALSE, suspend |-> FALSE]
JobPhases == {"finish", "clear", "suspend", "ok", "raised"}

TypeOK ==
    /\ lock \in [msg : Messages \cup {None}, status : {"none", "running"} \cup TerminalStatus]
    /\ sidebar \in [msg : Messages \cup {None}, status : {"none", "running", "suspended"}]
    /\ rows \in [Messages -> SUBSET EventKinds]
    /\ stored \subseteq {"log", "gateway", "fail", "ended"} \X Nat
    /\ eventCursor \in Nat
    /\ hostq \in Seq(Messages)
    /\ log \in Seq([msg : Messages, what : EventKinds])
    /\ pc \in [Actors -> PreparePcs \cup RunnerPcs \cup EndPcs \cup ClientPcs]
    /\ job \in [Actors -> [phase : JobPhases, msg : Messages \cup {None},
                           status : {"none"} \cup TerminalStatus,
                           clear : BOOLEAN, suspend : BOOLEAN]]
    /\ target \in [Actors -> [msg : Messages \cup {None},
                              status : {"none", "running"} \cup TerminalStatus,
                              cursor : Nat, upto : Nat, task : BOOLEAN]]
    /\ run \in [Messages -> [base : Nat, pos : Nat, broken : BOOLEAN,
                             status : {"none"} \cup TerminalStatus]]
    /\ inFlight \in 0..MaxSlots
    /\ crashes \in 0..MaxCrashes
    /\ cancelled \subseteq Messages

Init ==
    /\ lock = NoLock
    /\ sidebar = NoLock
    /\ rows = [m \in Messages |-> {}]
    /\ stored = {}
    /\ eventCursor = 0
    /\ hostq = <<>>
    /\ log = <<>>
    /\ pc = [a \in Actors |-> IF a \in Messages THEN "new" ELSE "idle"]
    /\ job = [a \in Actors |-> NoJob]
    /\ target = [a \in Actors |-> NoTarget]
    /\ run = [m \in Messages |-> NoRun]
    /\ inFlight = 0
    /\ crashes = 0
    /\ cancelled = {}

At(a, p) == pc[a] = p
Goto(a, p) == pc' = [pc EXCEPT ![a] = p]
Return(k) == Goto(k, "idle") /\ target' = [target EXCEPT ![k] = NoTarget]
Alive(m) == pc[m] \in RunnerPcs
StoreFails == "store" \in Faults
TransportFails == "transport" \in Faults

\* The terminal statuses that the rows persisted for m report.
terminal == [m \in Messages |-> rows[m] \cap TerminalStatus]

\* A row is inserted once per event id, for the message of whoever comes first
\* ($setOnInsert); "gateway", "fail" and "ended" rows are failures made up here.
Reports(id) == IF id[1] = "log" THEN log[id[2]].what ELSE "failed"
Store(m, ids) ==
    /\ rows' = [rows EXCEPT ![m] = @ \cup {Reports(id) : id \in ids \ stored}]
    /\ stored' = stored \cup ids

\* The inbox takes one event for a session and a number, so an event of the journal
\* and a failure that the gateway numbered like it exclude each other: a batch with
\* the later one raises, however often it is repeated, though its rows are there.
\* (Which of the two came first is not kept.)
Twins(ids, persisted) ==
    \E id \in ids : {<<"log", id[2]>>, <<"gateway", id[2]>>} \subseteq persisted

ReadCopy(withCursor) ==
    [msg |-> lock.msg, status |-> lock.status,
     cursor |-> IF withCursor THEN eventCursor ELSE 0, upto |-> 0, task |-> FALSE]

-----------------------------------------------------------------------------
(* TurnStateFinalizer.finalize and the suspension that may follow it, run by *)
(* an actor as a job of up to three store calls.                             *)

Finalization(m, s, clear, suspend) ==
    [phase |-> "finish", msg |-> m, status |-> s, clear |-> clear, suspend |-> suspend]

Suspension(m) == [NoJob EXCEPT !.phase = "suspend", !.msg = m, !.suspend = TRUE]

StartJob(a, j) == job' = [job EXCEPT ![a] = j]
SetPhase(a, p) ==
    job' = IF p \in {"ok", "raised"} THEN [job EXCEPT ![a] = [NoJob EXCEPT !.phase = p]]
           ELSE [job EXCEPT ![a].phase = p]
AfterClear(a) == IF job[a].suspend THEN "suspend" ELSE "ok"

\* Mutants ("Mut"): each is the definition it precedes with one plausible bug.
MutFinishTurn(a) ==
    /\ job[a].phase = "finish"
    /\ lock' = IF lock.msg = job[a].msg THEN [lock EXCEPT !.status = job[a].status] ELSE lock
    /\ SetPhase(a, IF job[a].clear THEN "clear" ELSE AfterClear(a))
    /\ UNCHANGED <<sidebar, events, host, pc, target, run, inFlight, crashes, cancelled>>

\* finish_turn: compare-and-set on the message and on "running".
FinishTurn(a) ==
    /\ job[a].phase = "finish"
    /\ lock' = IF lock = Running(job[a].msg)
               THEN [lock EXCEPT !.status = job[a].status] ELSE lock
    /\ SetPhase(a, IF job[a].clear THEN "clear" ELSE AfterClear(a))
    /\ UNCHANGED <<sidebar, events, host, pc, target, run, inFlight, crashes, cancelled>>

MutClearActiveRun(a) ==
    /\ job[a].phase = "clear"
    /\ sidebar' = NoLock
    /\ SetPhase(a, AfterClear(a))
    /\ UNCHANGED <<lock, events, host, pc, target, run, inFlight, crashes, cancelled>>

\* clear_active_run: only the run of that message is removed.
ClearActiveRun(a) ==
    /\ job[a].phase = "clear"
    /\ sidebar' = IF sidebar.msg = job[a].msg THEN NoLock ELSE sidebar
    /\ SetPhase(a, AfterClear(a))
    /\ UNCHANGED <<lock, events, host, pc, target, run, inFlight, crashes, cancelled>>

\* suspend_active_run: likewise.
SuspendActiveRun(a) ==
    /\ job[a].phase = "suspend"
    /\ sidebar' = IF sidebar.msg = job[a].msg
                  THEN [sidebar EXCEPT !.status = "suspended"] ELSE sidebar
    /\ SetPhase(a, "ok")
    /\ UNCHANGED <<lock, events, host, pc, target, run, inFlight, crashes, cancelled>>

JobRaises(a) ==
    /\ StoreFails
    /\ job[a].phase \in {"finish", "clear", "suspend"}
    /\ SetPhase(a, "raised")
    /\ UNCHANGED <<stores, host, pc, target, run, inFlight, crashes, cancelled>>

JobStep(a) == FinishTurn(a) \/ ClearActiveRun(a) \/ SuspendActiveRun(a) \/ JobRaises(a)

JobDone(a) == job[a].phase \in {"ok", "raised"}

\* finalize_persisted_terminal: the job that some persisted terminal row of m
\* calls for.  Which row is last depends on the stream_seq of rows written by
\* the runner and by an ingesting reader, so any of them may be.
ProvenFinalization(m, s) ==
    LET suspended == s = "completed" /\ "ask" \in rows[m]
    IN Finalization(m, s, ~suspended, suspended)

-----------------------------------------------------------------------------
(* prepare_turn *)

PrepareRead(m) ==
    /\ At(m, "new")
    /\ target' = [target EXCEPT ![m] = ReadCopy(FALSE)]
    /\ \/ lock = NoLock /\ Goto(m, "sync") /\ UNCHANGED job
       \/ lock.status = "running" /\ Goto(m, "recover") /\ UNCHANGED job
       \/ /\ lock.status \in TerminalStatus
          /\ StartJob(m, Finalization(lock.msg, lock.status, TRUE, FALSE))
          /\ Goto(m, "tidy")
    /\ UNCHANGED <<stores, host, run, inFlight, crashes, cancelled>>

PrepareTidied(m) ==
    /\ At(m, "tidy")
    /\ JobDone(m)
    /\ Goto(m, IF job[m].phase = "ok" THEN "sync" ELSE "rejected")
    /\ UNCHANGED <<stores, host, job, target, run, inFlight, crashes, cancelled>>

\* The ten minutes of a turn found running have passed, and the subtraction that
\* finds it out does not raise.
Expired == "aged" \in Faults /\ ~NaiveClock

\* recover: a persisted terminal row settles the old turn; without one, a turn
\* that started more than ten minutes ago (fault "aged": every turn that is found
\* running) is recorded as failed - unless the subtraction of a naive started_at
\* raises, which recover suppresses.  A suppressed exception and a turn that is
\* not that old leave the binding as it was, which is ConversationBusyError.
PrepareRecover(m) ==
    /\ At(m, "recover")
    /\ LET old == target[m].msg
       IN \/ \E s \in terminal[old] : /\ StartJob(m, ProvenFinalization(old, s))
                                      /\ Goto(m, "repair")
          \/ /\ terminal[old] = {}
             /\ Expired
             /\ StartJob(m, Finalization(old, "failed", TRUE, FALSE))
             /\ Goto(m, "repair")
          \/ /\ StoreFails \/ (terminal[old] = {} /\ ~Expired)
             /\ Goto(m, "rejected")
             /\ UNCHANGED job
    /\ UNCHANGED <<stores, host, target, run, inFlight, crashes, cancelled>>

\* The binding is read again; a turn still running means ConversationBusyError.
PrepareRepaired(m) ==
    /\ At(m, "repair")
    /\ JobDone(m)
    /\ Goto(m, IF job[m].phase = "ok" /\ Free(lock) THEN "sync" ELSE "rejected")
    /\ UNCHANGED <<stores, host, job, target, run, inFlight, crashes, cancelled>>

MutPrepareClaim(m) ==
    /\ At(m, "sync")
    /\ \/ /\ lock' = Running(m)
          /\ run' = [run EXCEPT ![m] = [NoRun EXCEPT !.base = eventCursor, !.pos = eventCursor]]
          /\ Goto(m, "append")
       \/ StoreFails /\ Goto(m, "rejected") /\ UNCHANGED <<lock, run>>
    /\ UNCHANGED <<sidebar, events, host, job, target, inFlight, crashes, cancelled>>

\* Profile synchronisation may fail; then, or when claim_turn finds the lock
\* taken by another request, the request is refused.  The claimed row says where
\* the runner's subscription starts.
PrepareClaim(m) ==
    /\ At(m, "sync")
    /\ \/ /\ Free(lock)
          /\ lock' = Running(m)
          /\ run' = [run EXCEPT ![m] = [NoRun EXCEPT !.base = eventCursor, !.pos = eventCursor]]
          /\ Goto(m, "append")
       \/ ~Free(lock) /\ Goto(m, "rejected") /\ UNCHANGED <<lock, run>>
       \/ StoreFails /\ Goto(m, "rejected") /\ UNCHANGED <<lock, run>>
    /\ UNCHANGED <<sidebar, events, host, job, target, inFlight, crashes, cancelled>>

PrepareAppend(m) ==
    /\ At(m, "append")
    /\ \/ Goto(m, "mark")
       \/ StoreFails /\ Goto(m, "undo")
    /\ UNCHANGED <<stores, host, job, target, run, inFlight, crashes, cancelled>>

\* mark_active_run names no previous run: it replaces whatever is there.  Then
\* the runner task is created, with no await in between.
PrepareMark(m) ==
    /\ At(m, "mark")
    /\ \/ sidebar' = Running(m) /\ Goto(m, "queued")
       \/ StoreFails /\ Goto(m, "undo") /\ UNCHANGED sidebar
    /\ UNCHANGED <<lock, events, host, job, target, run, inFlight, crashes, cancelled>>

\* A failed append or mark releases the lock, if the store does not fail again, and
\* nothing else.
PrepareUndo(m) ==
    /\ At(m, "undo")
    /\ \/ lock' = IF lock = Running(m) THEN [lock EXCEPT !.status = "failed"] ELSE lock
       \/ StoreFails /\ UNCHANGED lock
    /\ run' = [run EXCEPT ![m] = NoRun]
    /\ Goto(m, "rejected")
    /\ UNCHANGED <<sidebar, events, host, job, target, inFlight, crashes, cancelled>>

Prepare(m) ==
    \/ PrepareRead(m) \/ PrepareTidied(m) \/ PrepareRecover(m) \/ PrepareRepaired(m)
    \/ PrepareClaim(m) \/ PrepareAppend(m) \/ PrepareMark(m) \/ PrepareUndo(m)

-----------------------------------------------------------------------------
(* turn_runner.run *)

\* TurnBackpressure.acquire and release.
MutAcquireSlot == inFlight' = inFlight + 1
AcquireSlot == inFlight < MaxSlots /\ inFlight' = inFlight + 1

MutReleaseSlot == UNCHANGED inFlight
ReleaseSlot == inFlight' = inFlight - 1

RunnerAcquire(m) ==
    /\ At(m, "queued")
    /\ AcquireSlot
    /\ Goto(m, "send")
    /\ UNCHANGED <<stores, host, job, target, run, crashes, cancelled>>

\* gateway.send; a failed call may have reached the host.
RunnerSend(m) ==
    /\ At(m, "send")
    /\ \/ hostq' = Append(hostq, m) /\ Goto(m, "stream")
       \/ TransportFails /\ hostq' = Append(hostq, m) /\ Goto(m, "fail")
       \/ TransportFails /\ Goto(m, "fail") /\ UNCHANGED hostq
    /\ UNCHANGED <<stores, log, job, target, run, inFlight, crashes, cancelled>>

\* The next event after the subscription's cursor, whichever turn it is of; the
\* first one that ends a turn ends the loop.
RunnerReads(m) ==
    /\ At(m, "stream")
    /\ run[m].pos < Len(log)
    /\ LET what == log[run[m].pos + 1].what IN
       IF what \in TerminalStatus
       THEN /\ run' = [run EXCEPT ![m].pos = @ + 1, ![m].status = what]
            /\ Goto(m, "flush")
       ELSE run' = [run EXCEPT ![m].pos = @ + 1] /\ UNCHANGED pc
    /\ UNCHANGED <<stores, host, job, target, inFlight, crashes, cancelled>>

\* The gateway turns a broken stream into a failure event of its own, numbered
\* as the next event of the journal.
RunnerStreamBreaks(m) ==
    /\ TransportFails
    /\ At(m, "stream")
    /\ run' = [run EXCEPT ![m].pos = @ + 1, ![m].broken = TRUE, ![m].status = "failed"]
    /\ Goto(m, "flush")
    /\ UNCHANGED <<stores, host, job, target, inFlight, crashes, cancelled>>

\* Events the runner of m has read, as rows to be persisted.
ReadByRunner(m) ==
    LET r == run[m]
    IN IF r.broken THEN {<<"log", p>> : p \in r.base + 1 .. r.pos - 1} \cup {<<"gateway", r.pos>>}
       ELSE {<<"log", p>> : p \in r.base + 1 .. r.pos}

Saw(m) == \E id \in ReadByRunner(m) : Reports(id) = "ask"

\* The durable writer runs beside the runner (DurableWriter is about how): it
\* persists what was read, then advances the binding's cursor.
WriterPersists(m) ==
    /\ pc[m] \in {"stream", "flush"}
    /\ ~(ReadByRunner(m) \subseteq stored)
    /\ Store(m, ReadByRunner(m))
    /\ UNCHANGED <<lock, sidebar, eventCursor, host, local, inFlight, crashes, cancelled>>

WriterAdvances(m) ==
    /\ pc[m] \in {"stream", "flush"}
    /\ ReadByRunner(m) \subseteq stored
    /\ eventCursor < run[m].pos
    /\ eventCursor' = run[m].pos
    /\ UNCHANGED <<lock, sidebar, rows, stored, host, local, inFlight, crashes, cancelled>>

MutRunnerFlushed(m) ==
    /\ At(m, "flush")
    /\ Goto(m, "settle")
    /\ UNCHANGED <<stores, host, job, target, run, inFlight, crashes, cancelled>>

\* The flush that follows the terminal event returns.
RunnerFlushed(m) ==
    /\ At(m, "flush")
    /\ ReadByRunner(m) \subseteq stored
    /\ eventCursor >= run[m].pos
    /\ Goto(m, "settle")
    /\ UNCHANGED <<stores, host, job, target, run, inFlight, crashes, cancelled>>

\* An exception leaves the loop (also of a writer that failed earlier); the stream
\* ends without a terminal event; or the batch a flush waits for fails for good, and
\* the flush never returns (DurableWriter, FlushReturns).
RunnerBreaks(m) ==
    /\ \/ TransportFails /\ At(m, "stream") /\ (Goto(m, "fail") \/ Goto(m, "ended"))
       \/ /\ StoreFails \/ Twins(ReadByRunner(m), stored)
          /\ pc[m] \in {"stream", "flush"}
          /\ Goto(m, "fail")
       \/ /\ "writer" \in Faults \/ Twins(ReadByRunner(m), stored)
          /\ pc[m] \in {"stream", "flush"}
          /\ Goto(m, "stuck")
    /\ UNCHANGED <<stores, host, job, target, run, inFlight, crashes, cancelled>>

MutRunnerFail(m) ==
    /\ pc[m] \in {"fail", "ended"}
    /\ \/ Store(m, {<<pc[m], run[m].pos>>})
       \/ StoreFails /\ UNCHANGED <<rows, stored>>
    /\ run' = [run EXCEPT ![m] = NoRun]
    /\ Goto(m, "dead")
    /\ UNCHANGED <<lock, sidebar, eventCursor, host, job, target, inFlight, crashes, cancelled>>

\* _best_effort_failure: a failure row, if the store takes it.  Its event id is
\* made of the last cursor read, so it is not always new.
RunnerFail(m) ==
    /\ pc[m] \in {"fail", "ended"}
    /\ \/ Store(m, {<<pc[m], run[m].pos>>})
       \/ StoreFails /\ UNCHANGED <<rows, stored>>
    /\ run' = [run EXCEPT ![m].status = "failed"]
    /\ Goto(m, "settle")
    /\ UNCHANGED <<lock, sidebar, eventCursor, host, job, target, inFlight, crashes, cancelled>>

\* close, evidence and the assistant projection, then finalize; the sidebar is
\* left alone when an intervention was seen, whatever the status.
RunnerSettle(m) ==
    /\ At(m, "settle")
    /\ \/ /\ StartJob(m, Finalization(m, run[m].status, ~Saw(m), FALSE))
          /\ Goto(m, "finalize")
          /\ UNCHANGED run
       \/ /\ StoreFails
          /\ StartJob(m, Finalization(m, "failed", TRUE, FALSE))
          /\ run' = [run EXCEPT ![m].status = "failed"]
          /\ Goto(m, "refinalize")
    /\ UNCHANGED <<stores, host, target, inFlight, crashes, cancelled>>

MutFinallySuspends(m) ==
    /\ ReleaseSlot
    /\ run' = [run EXCEPT ![m] = NoRun]
    /\ IF Saw(m) THEN StartJob(m, Suspension(m)) /\ Goto(m, "suspend")
       ELSE StartJob(m, NoJob) /\ Goto(m, "done")

\* The finally clause: the slot is released, then a completed turn that asked
\* for an intervention suspends its sidebar run.
Finally(m) ==
    /\ ReleaseSlot
    /\ run' = [run EXCEPT ![m] = NoRun]
    /\ IF Saw(m) /\ run[m].status = "completed"
       THEN StartJob(m, Suspension(m)) /\ Goto(m, "suspend")
       ELSE StartJob(m, NoJob) /\ Goto(m, "done")

RunnerFinalized(m) ==
    /\ At(m, "finalize")
    /\ \/ job[m].phase = "ok" /\ Finally(m)
       \/ /\ job[m].phase = "raised"
          /\ StartJob(m, Finalization(m, "failed", TRUE, FALSE))
          /\ run' = [run EXCEPT ![m].status = "failed"]
          /\ Goto(m, "refinalize")
          /\ UNCHANGED inFlight
    /\ UNCHANGED <<stores, host, target, crashes, cancelled>>

RunnerRefinalized(m) ==
    /\ At(m, "refinalize")
    /\ JobDone(m)
    /\ Finally(m)
    /\ UNCHANGED <<stores, host, target, crashes, cancelled>>

\* The task ends after its suspension, or after the handler of a cancellation,
\* which returns without coming to the finally clause.
RunnerEnds(m) ==
    /\ pc[m] \in {"suspend", "aborting"}
    /\ JobDone(m)
    /\ Goto(m, "done")
    /\ UNCHANGED <<stores, host, job, target, run, inFlight, crashes, cancelled>>

RunnerWorks(m) ==
    \/ RunnerAcquire(m) \/ RunnerSend(m) \/ RunnerReads(m) \/ WriterPersists(m)
    \/ WriterAdvances(m) \/ RunnerFlushed(m) \/ RunnerFail(m) \/ RunnerSettle(m)
    \/ RunnerFinalized(m) \/ RunnerRefinalized(m) \/ RunnerEnds(m)

Runner(m) == RunnerWorks(m) \/ RunnerStreamBreaks(m) \/ RunnerBreaks(m)

\* task.cancel: CancelledError is raised at the await the task is suspended in.
\* Waiting for a slot and persisting a failure row are outside every handler, and the
\* handler closes the channel (TurnChannel) before its own try.
CancelTask(m) ==
    \/ /\ pc[m] \in {"queued", "fail", "ended", "aborting", "suspend"}
       /\ Goto(m, IF At(m, "suspend") THEN "done" ELSE "dead")
       /\ StartJob(m, NoJob)
       /\ run' = [run EXCEPT ![m] = NoRun]
       /\ UNCHANGED inFlight
    \/ /\ pc[m] \in {"send", "stream", "flush", "stuck"}
       /\ \/ Goto(m, "aborting") /\ StartJob(m, Finalization(m, "cancelled", TRUE, FALSE))
          \/ StoreFails /\ Goto(m, "dead") /\ StartJob(m, NoJob)
       /\ run' = [run EXCEPT ![m] = NoRun]
       /\ UNCHANGED inFlight
    \/ /\ pc[m] \in {"settle", "finalize", "refinalize"}
       /\ Finally(m)

\* shutdown cancels the runner tasks.
Shutdown(m) ==
    /\ "shutdown" \in Faults
    /\ CancelTask(m)
    /\ UNCHANGED <<stores, host, target, crashes, cancelled>>

-----------------------------------------------------------------------------
(* The runtime host: it works on the turns of a session one after the other, *)
(* and a turn may ask for an intervention before it ends.                    *)

HostAsks(m) ==
    /\ m \in Askers
    /\ hostq # <<>> /\ Head(hostq) = m
    /\ log' = Append(log, [msg |-> m, what |-> "ask"])
    /\ [msg |-> m, what |-> "ask"] \notin ToSet(log)
    /\ UNCHANGED <<stores, hostq, local, inFlight, crashes, cancelled>>

HostEnds(m) ==
    /\ hostq # <<>> /\ Head(hostq) = m
    /\ \E s \in TerminalStatus : log' = Append(log, [msg |-> m, what |-> s])
    /\ hostq' = Tail(hostq)
    /\ UNCHANGED <<stores, local, inFlight, crashes, cancelled>>

-----------------------------------------------------------------------------
(* turn_cancellation.cancel and chat_service.snapshot *)

CancelRead(k) ==
    /\ k \in Cancellers
    /\ At(k, "idle")
    /\ lock # NoLock
    /\ target' = [target EXCEPT ![k] = ReadCopy(lock.status = "running")]
    /\ IF lock.status = "running"
       THEN Goto(k, "gateway") /\ UNCHANGED job
       ELSE StartJob(k, Finalization(lock.msg, lock.status, TRUE, FALSE)) /\ Goto(k, "tidy")
    /\ UNCHANGED <<stores, host, run, inFlight, crashes, cancelled>>

ClientTidied(k) ==
    /\ At(k, "tidy")
    /\ JobDone(k)
    /\ Return(k)
    /\ UNCHANGED <<stores, host, job, run, inFlight, crashes, cancelled>>

\* The host stops everything the session works on and says so; or the call
\* fails or reports pending work, and cancel raises.
CancelGateway(k) ==
    /\ At(k, "gateway")
    /\ \/ /\ log' = log \o [i \in DOMAIN hostq |-> [msg |-> hostq[i], what |-> "cancelled"]]
          /\ hostq' = <<>>
          /\ Goto(k, "lookup")
          /\ UNCHANGED target
       \/ Return(k) /\ UNCHANGED host
    /\ UNCHANGED <<stores, job, run, inFlight, crashes, cancelled>>

CancelLookup(k) ==
    /\ At(k, "lookup")
    /\ LET task == Alive(target[k].msg) IN
       /\ target' = [target EXCEPT ![k].task = task]
       /\ Goto(k, IF task THEN "wait" ELSE "ingest")
    /\ UNCHANGED <<stores, host, job, run, inFlight, crashes, cancelled>>

\* The runner ends within ten seconds, or the wait times out.  The exception of a
\* task that was cancelled, or that failed in its finally clause, passes through.
CancelWait(k) ==
    /\ At(k, "wait")
    /\ \/ /\ Goto(k, IF Alive(target[k].msg) THEN "ingest" ELSE "last")
          /\ UNCHANGED target
       \/ ~Alive(target[k].msg) /\ Return(k)
    /\ UNCHANGED <<stores, host, job, run, inFlight, crashes, cancelled>>

SnapshotRead(k) ==
    /\ k \in Viewers
    /\ At(k, "idle")
    /\ lock.status = "running"
    /\ target' = [target EXCEPT ![k] = ReadCopy(TRUE)]
    /\ Goto(k, "ingest")
    /\ UNCHANGED <<stores, host, job, run, inFlight, crashes, cancelled>>

\* ingest_once: the events after the cursor that the reader read some time ago
\* are fetched, ...
IngestFetch(k) ==
    /\ At(k, "ingest")
    /\ \/ /\ target' = [target EXCEPT ![k].upto = Len(log)]
          /\ Goto(k, IF target[k].cursor < Len(log) THEN "persist" ELSE "prove")
       \/ (StoreFails \/ TransportFails) /\ Return(k)
    /\ UNCHANGED <<stores, host, job, run, inFlight, crashes, cancelled>>

Fetched(k) == {<<"log", p>> : p \in target[k].cursor + 1 .. target[k].upto}

\* ... persisted for the message that the reader read then, ...
IngestPersist(k) ==
    /\ At(k, "persist")
    /\ \/ /\ Store(target[k].msg, Fetched(k))
          /\ \/ Goto(k, "advance") /\ UNCHANGED target
             \/ (StoreFails \/ Twins(Fetched(k), stored')) /\ Return(k)
       \/ StoreFails /\ Return(k) /\ UNCHANGED <<rows, stored>>
    /\ UNCHANGED <<lock, sidebar, eventCursor, host, job, run, inFlight, crashes, cancelled>>

\* ... the binding's cursor is advanced past them ...
IngestAdvance(k) ==
    /\ At(k, "advance")
    /\ \/ /\ eventCursor' = IF eventCursor < target[k].upto THEN target[k].upto ELSE eventCursor
          /\ Goto(k, "prove")
          /\ UNCHANGED target
       \/ StoreFails /\ Return(k) /\ UNCHANGED eventCursor
    /\ UNCHANGED <<lock, sidebar, rows, stored, host, job, run, inFlight, crashes, cancelled>>

\* ... and a persisted terminal row finalizes the turn.
Prove(k) ==
    /\ At(k, "prove")
    /\ LET m == target[k].msg IN
       \/ terminal[m] = {} /\ UNCHANGED job
       \/ \E s \in terminal[m] : StartJob(k, ProvenFinalization(m, s))
    /\ Goto(k, "proved")
    /\ UNCHANGED <<stores, host, target, run, inFlight, crashes, cancelled>>

\* Then a snapshot is done, a cancellation that found no task looks at the lock
\* once more, and one that timed out cancels the task.
Proved(k) ==
    /\ At(k, "proved")
    /\ JobDone(k)
    /\ IF k \in Viewers \/ job[k].phase = "raised" THEN Return(k)
       ELSE Goto(k, IF target[k].task THEN "gather" ELSE "last") /\ UNCHANGED target
    /\ UNCHANGED <<stores, host, job, run, inFlight, crashes, cancelled>>

CancelInterrupt(k) ==
    /\ At(k, "gather")
    /\ target[k].task
    /\ CancelTask(target[k].msg)
    /\ target' = [target EXCEPT ![k].task = FALSE]
    /\ UNCHANGED <<stores, host, crashes, cancelled>>

CancelGathered(k) ==
    /\ At(k, "gather")
    /\ ~Alive(target[k].msg)
    /\ Goto(k, "last")
    /\ UNCHANGED <<stores, host, job, target, run, inFlight, crashes, cancelled>>

\* _finalize_if_still_running.
CancelLast(k) ==
    /\ At(k, "last")
    /\ IF lock = Running(target[k].msg)
       THEN StartJob(k, Finalization(target[k].msg, "cancelled", TRUE, FALSE))
       ELSE StartJob(k, NoJob)
    /\ Goto(k, "release")
    /\ UNCHANGED <<stores, host, target, run, inFlight, crashes, cancelled>>

\* cancel returns True, or lets the finalizer's exception through.
CancelReturns(k) ==
    /\ At(k, "release")
    /\ JobDone(k)
    /\ cancelled' = IF job[k].phase = "ok" THEN cancelled \cup {target[k].msg} ELSE cancelled
    /\ Return(k)
    /\ UNCHANGED <<stores, host, job, run, inFlight, crashes>>

Client(k) ==
    \/ CancelRead(k) \/ ClientTidied(k) \/ CancelGateway(k) \/ CancelLookup(k) \/ CancelWait(k)
    \/ SnapshotRead(k) \/ IngestFetch(k) \/ IngestPersist(k) \/ IngestAdvance(k) \/ Prove(k) \/ Proved(k) \/ CancelInterrupt(k)
    \/ CancelGathered(k) \/ CancelLast(k) \/ CancelReturns(k)

-----------------------------------------------------------------------------
\* The process dies: tasks, requests and taken slots are gone, the documents
\* and the host stay.
Crash ==
    /\ crashes < MaxCrashes
    /\ crashes' = crashes + 1
    /\ pc' = [a \in Actors |-> IF a \in Clients THEN "idle"
                               ELSE IF pc[a] \in EndPcs \cup {"new"} THEN pc[a] ELSE "dead"]
    /\ job' = [a \in Actors |-> NoJob]
    /\ target' = [a \in Actors |-> NoTarget]
    /\ run' = [m \in Messages |-> NoRun]
    /\ inFlight' = 0
    /\ UNCHANGED <<stores, host, cancelled>>

Next ==
    \/ \E a \in Actors : JobStep(a)
    \/ \E m \in Messages : Prepare(m) \/ Runner(m) \/ Shutdown(m) \/ HostAsks(m) \/ HostEnds(m)
    \/ \E k \in Clients : Client(k)
    \/ Crash

\* Every task that can run is run by the event loop, and the host ends the turns
\* it works on (turns have a tool and model timeout).  Nothing makes a request
\* come, a user cancel or a reader look.
Fairness ==
    /\ \A a \in Actors : WF_vars(JobStep(a))
    /\ \A m \in Messages : /\ WF_vars(~At(m, "new") /\ Prepare(m))
                           /\ WF_vars(RunnerWorks(m))
                           /\ WF_vars(HostEnds(m))

Spec == Init /\ [][Next]_vars
FairSpec == Spec /\ Fairness

-----------------------------------------------------------------------------
HostKnows(m) == m \in ToSet(hostq) \/ \E e \in ToSet(log) : e.msg = m

\* Nobody but the requests and their runners acts on a turn.
Unattended == Clients = {} /\ "aged" \notin Faults

\* A turn is handed to the runtime host only under its own admission lock, so
\* the host is never given a turn while another one is admitted.  (A user of
\* cancel, a reader that takes an earlier turn's event for this one's, or the
\* ten-minute fallback may release the lock of a turn that is still prepared.)
SentUnderLock ==
    [][Unattended =>
         \A m \in Messages : ~HostKnows(m) /\ HostKnows(m)' => lock = Running(m)]_vars

\* runtime-http-server.mjs:482-486 "The runner probes the CURRENT head before send
\* and subscribes after it, so only the new turn's events flow live": the journal
\* entries a runner reads are of its own turn.
OnlyOwnEvents ==
    [][\A m \in Messages :
          At(m, "stream") /\ RunnerReads(m) => log[run[m].pos + 1].msg = m]_vars

\* While a turn is admitted and its runner is at work the sidebar shows it: no late
\* clear, suspension or mark of an earlier turn hides it.  (A request whose lock
\* was released under it, as above, still marks its run over that of the next.)
RunningTurnShown ==
    Unattended =>
        \A m \in Messages : lock = Running(m) /\ pc[m] \in {"queued", "send", "stream"}
                                => sidebar = Running(m)

\* The first terminal status of a turn stays: the lock of m goes from running to
\* one terminal status and from there only to another turn (a late finalize by the
\* runner, a reader, a cancellation or a recovery changes nothing).
FirstTerminalWins ==
    [][Free(lock) => \/ lock' = lock
                     \/ \E m \in Messages \ {lock.msg} : lock' = Running(m)]_vars

\* A turn is recorded as completed only when the rows of the session hold a
\* completion: what the lock says never runs ahead of the event store.  (The row may
\* be another turn's: a runner may read an earlier turn's event, see OnlyOwnEvents.)
CompletedIsDurable ==
    lock.status = "completed" => \E id \in stored : Reports(id) = "completed"

\* As many slots are taken as there are turns running in the process, unless tasks
\* are cancelled (then see NoSlotLeaks).
SlotsBalanced ==
    Cancellers = {} /\ "shutdown" \notin Faults =>
        inFlight = Cardinality({m \in Messages : pc[m] \in SlotPcs})

\* The sidebar invites the user to resume only when the session's rows hold both an
\* intervention and a completion, whoever suspends: the runner, a reader or a
\* recovery.  (Both rows may be other turns': a runner may take an earlier turn's
\* completion for its own, see OnlyOwnEvents.)
SuspendedIsProven ==
    sidebar.status = "suspended" =>
        {"ask", "completed"} \subseteq {Reports(id) : id \in stored}

\* docs/WORK_LOG.md:8915: run() acquires at its entry and releases in its finally,
\* the slot being held for the cycle of the turn - and no longer.
NoSlotLeaks == (\A m \in Messages : ~Alive(m)) => inFlight = 0

\* turn_finalization.py:12 "Keep the admission lock and Conversation sidebar
\* projection in sync.": when nobody is at work, the sidebar does not show as running
\* a turn whose lock was released.
SidebarInSync ==
    (/\ \A a \in Actors : pc[a] \in EndPcs \cup {"idle", "new"}
     /\ sidebar.status = "running")
        => lock = Running(sidebar.msg)

\* Every admitted turn gives its lock back, however the transport breaks, unless
\* two rows share a number (then a flush may never return, see Twins).
TurnsEnd == \A m \in Messages : (lock = Running(m)) ~> (lock # Running(m) \/ Twins(stored, stored))

\* Every request is answered, by a refusal or by a turn that ran to its end: in
\* particular a turn queued for a slot gets one.  With the same exception.
RequestsEnd == \A m \in Messages : ~At(m, "new") ~> (pc[m] \in EndPcs \/ Twins(stored, stored))

\* turn_recovery.py:140-142: a turn without a terminal event that has run for more
\* than ten minutes is set to failed, which releases its lock; the request that
\* finds it is not refused because of it.
ExpiredLockReleased ==
    [][\A m \in Messages :
          "aged" \in Faults /\ At(m, "recover") /\ pc'[m] = "rejected"
              => terminal[target[m].msg] # {}]_vars
=============================================================================
