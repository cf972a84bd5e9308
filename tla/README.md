# TLA+ models of the MOGO turn runtime

MOGO is a multi-tenant agent platform: a chat service (`services/chat-api`) runs the turns of
conversations on an agent kernel hosted by a Node process (`services/chat-api/dsh/runtime-host`), keeps
conversations, kernel bindings and events in MongoDB, and streams a turn's events to web and desktop
clients. Around it are an admin service, a document parser, a container manager for scripts and plugins, and
Vue applications.

This directory holds TLA+ models of the parts of it whose correctness depends on interleavings and failures:
the admission lock of a conversation, the kernel sessions it goes through, the life of a turn, the persistence of
a turn's events, the rows its tools emit beside them, scheduled tasks, and script containers; and the theorems about them that are proved for every
value of the constants. `PROJECT.json` maps every definition to
the source lines it stands for. All paths below are relative to `src/`; those without a directory are under
`services/chat-api/app/dsh_runtime/`.

## 1. The system: components, state, operations, interactions

A user message becomes a *turn*. `chat_service.prepare_turn` reads the conversation's kernel binding, repairs
what an earlier turn left behind, takes the binding's admission lock, appends the messages, marks the
conversation's sidebar run and creates an asyncio task, `turn_runner.run`. The runner waits for a slot, sends
the turn to the runtime host, subscribes to the session's journal, passes every event to the durable writer and to
the live channel, and at the end finalizes the lock and the sidebar. Meanwhile a user may cancel, any number of
clients may look at the conversation (a *snapshot*, which ingests events and may finalize the turn), another
request may arrive, the binding may be rotated or rebuilt, the process may be shut down or die.

| component | state | operations | interacts with |
| --- | --- | --- | --- |
| Kernel bindings (`bindings/repository.py`) | one row per kernel session: `status`, `current`, `active_turn` (the admission lock), `replaces_binding_id`, `event_cursor` | `create` (with replacement protocol), `current`, `claim_turn`, `finish_turn`, `mark_disposed`, `advance_cursor` | every component below, by single-document updates and one partial unique index |
| Turn lifecycle (`chat_service.py`, `turn_runner.py`, `turn_cancellation.py`, `turn_recovery.py`, `turn_finalization.py`) | the runner tasks of this process; everything else is in the store | `prepare_turn`, `run`, `cancel`, `snapshot`, `recover`, `finalize`, `shutdown` | bindings, sidebar, writer, gateway, backpressure |
| Turn backpressure (`turn_backpressure.py`) | a semaphore, `in_flight`, `waiting` | `acquire`, `release` | the runner |
| Sidebar run (`conversation/repository.py`) | `active_run` of the conversation document | `mark_active_run`, `clear_active_run`, `suspend_active_run` | the finalizer, `prepare_turn`, the runner's finally clause |
| Durable event writer (`events/durable_writer.py`, `events/repository.py`, `events/persistence_retry.py`) | a queue, a batch, a task, a failure; two collections; the cursor | `enqueue`, `flush`, `close`, `abort`, the task's loop | the runner; `turn_recovery.ingest_once` writes the same collections and cursor |
| Kernel gateway (`gateway.py`, `event_mapper.py`) | HTTP streams to the host | `send`, `subscribe`, `events_once`, `cancel` | the runner, readers, cancellation |
| Runtime host (`services/chat-api/dsh/runtime-host`) | per session: a queue of turns and an event journal, in memory and in files | append, subscribe, cancel, create, seed, export, resume, dispose | the gateway, the coordinator |
| Projection writer, turn channel, live stream (`events/projection_writer.py`, `events/turn_channel.py`, `events/live_stream.py`) | per turn: rows that wait for their parent tool call to start (`_pending`) or to be durable (`_pending_durable`), the started and durable calls, the history; a queue, a batch and a task like the writer's; subscribers | `publish_kernel`, `publish_side`, `publish_standalone`, `mark_action_durable`, `flush`, `finish`; the task's loop | tools, approvals, the runner, clients |
| Runtime coordinator (`runtime_coordinator.py`, `profile/synchronizer.py`) | none of its own: what a request holds between its host and store calls | `create_binding`, `restore`, `_rebuild_binding`, `synchronize`, `dispose_session` | bindings, host |
| Runtime lock, session affinity (`runtime_lock.py`, `session_affinity.py`) | a lock with a time limit per isolation key; routes | acquire, release, remember | the coordinator |
| Credential leases (`credential_lease.py`) | a refresh task per turn | acquire, refresh, release | the runner |
| Desktop bindings and live sessions (`desktop_binding.py`, `session_live.py`) | bindings of desktop runtimes | claim, push, finish | desktop clients |
| Governance hooks (`../governance/*`) | action receipts, approvals, suspensions | record, approve, resume | the host's hooks, the runner |
| Scheduled tasks (`../scheduled_tasks/*`) | a row per job and per run, each with a lease | claim, create, start, observe, release, recover, dispatch by hand, edit, delete | turn lifecycle |
| Orchestration (`../orchestration/*`, `../services/dag/*`) | run graph, node states | dispatch, retry, skip | sub-agents |
| Session versioning and sharing (`../services/session_versioning/*`) | copies of conversations | snapshot, share | conversations |
| Script containers (`services/sandbox-manager/app/task_containers.py`) | leases, slots, a lease file | execute, freeze, dispose, restore | the container engine |
| Script jobs (`services/sandbox-manager/app/jobs.py`) | a semaphore, a container per job | run | the container engine |
| Shared resilience (`services/common`) | circuit breakers, single-flight caches | call, trip, probe | all services |
| Admin governance, document parser (`services/admin-api`, `services/document-parser`) | rules, jobs | decide; parse | web applications |

Hard behaviours, the reason for the models:

- *Concurrency.* Every `await` of the chat service is a point where any other request, runner, reader or
  cancellation may run, and every update is a separate store call. The lock and the sidebar run are two documents.
- *Several finalizers.* A turn can be finalized by its runner, by the runner's error path, by a reader, by a
  cancellation, by the next request's recovery; all with their own idea of the status.
- *Failure.* Store calls, batches, streams and acknowledgements may fail or be lost at each step; the process may
  die and only documents survive.
- *Unattributed events.* A session's journal does not say which turn an event belongs to: whoever reads after the
  binding's cursor attributes what it reads to the turn it works on.
- *Queues and barriers.* The writer's caller waits on futures that travel through the writer's queue.
- *Timeouts.* Ten seconds for a cancelled runner, ten minutes for a turn that never ended, two minutes for the leases
  of a scheduled job and its run.
- *Two stores of one truth.* A session lives at the host, its row in the store; a container in the engine, its lease in a
  table and in a file. Each is changed by a call of its own, and any of the calls may fail or lose its answer.

What makes the components correct, in a sentence each: one turn at a time per conversation, over all its bindings;
a retired binding stays retired; the first terminal status of a turn stays; the sidebar follows the lock; slots and
locks come back; the cursor, the acknowledgements and the status "completed" never run ahead of the event store; a tool's rows are
stored behind the event that started it, and a replay shows what the finished turn recorded;
every flush, close, request and turn ends; the session in use is never closed, none is left without a row, and a successor knows what its
predecessor knew; a due run is dispatched once for every lease, no due time is skipped, and a run shown as running has somebody who will end it; the workspace of a
frozen task stays as it is archived, and no container outlives its lease.

## 2. The modules

| module | stands for | kind |
| --- | --- | --- |
| `ConversationTurns` | what the admission lock of a conversation promises | abstract specification |
| `KernelBinding` | the binding rows of a conversation and the calls that change them | refines `ConversationTurns` |
| `KernelBindingProofs` | theorems about `KernelBinding` | proofs |
| `SessionRecovery` | the coordinator's requests: rows together with the sessions of the host | composes with, and refines, `KernelBinding` |
| `SessionRecoveryProofs` | theorems about `SessionRecovery` | proofs |
| `TurnLifecycle` | the life of a conversation's turns over one binding | detailed model |
| `TurnLifecycleTypes`, `TurnLifecycleProofs` | theorems about `TurnLifecycle`: the inductive base; what follows from it | proofs |
| `EventJournal` | what the persistence of a turn's events promises | abstract specification |
| `DurableWriter` | the writer's task, its caller, the two collections, a concurrent reader | refines `EventJournal` |
| `DurableWriterProofs` | theorems about `DurableWriter` | proofs |
| `TurnChannel` | the rows of tools, approvals and evidence: their channel and their writer | detailed model over `EventJournal` |
| `TurnChannelProofs` | theorems about `TurnChannel` | proofs |
| `ScheduledTasks` | one scheduled job, its runs, their dispatchers, observers and users | detailed model |
| `ScheduledTasksProofs` | theorems about `ScheduledTasks` | proofs |
| `TaskContainers` | script containers: the lease table, its file, the engine, slots | detailed model |
| `TaskContainersProofs` | theorems about `TaskContainers` | proofs |
| `MCKernelBinding`, `MCTurnLifecycle`, `MCTurnClients`, `MCDurableWriter`, `MCServices` | instances for TLC; `MCKernelBinding` has `SessionRecovery` too, `MCDurableWriter` `TurnChannel`, `MCServices` the last two models | model checking |

Definitions whose name starts with `Mut` are the definition they precede with one plausible bug; no specification
uses them. They are kept as a test of the properties: with the bug put in, the property named in
`PROJECT.json` must fail.

### KernelBinding

State: the fields `status`, `current`, `active` (`active_turn`) and `replaces` of every row, the progress of each
call of `create` (`step`, `seen`), the row each turn was claimed on (`owner`: the copy its callers hold), and two
history variables: `outcome`, how each turn ended, and `happened`, which faults did. An action is one store call, since a single-document update is
the only atomic step there is. `create` begins with `BeginFirst` or with `ClaimReplacement` or `ReplacementConflict` on a row its
caller has read at any earlier time, and goes on with `Insert` or `InsertRaises`, `CheckCurrent` and `RestoreReplaced`, or
`SupersedeReplaced`; in each place its caller may die or a store call raise (`Abandon`). The
partial unique index is the guard `NoCurrent` of every write that sets `current`. `InsertRaises` has the three
meanings an exception of `insert_one` has: refused, failed, or committed with its answer lost.
`ClaimTurn`, `FinishTurn` and `MarkDisposed` are one call each; their callers' older reads are the free choice of
the binding. A row's identifiers, tenant, profile and Git state are not modelled; `update_runtime` and `update_git_state` change
nothing that is.

The refinement mapping takes the running turn of any row for the lock of the conversation, so the theorem
says that the rows *together* are one lock.

### SessionRecovery

Extends `KernelBinding` and reuses its actions: a request's `bindings.create` takes exactly the steps above (`BindBegins` … `BindSupersedes`),
so that the module adds only what lies before, between and after them. State: per row its session; per session where the host has it
(`place`: unused, live in memory, stored in its files, lost) and the completed turns its event log holds (`knows`); per caller the
place it is at and its local variables (`call`).

A caller begins a first binding (`StartFirst`, when it finds no current row) or restores the current one (`StartRestore`, for a turn or
for a deletion). A resume is answered, raises, or fails in another way (`ResumeAnswered`, `ResumeRaises`, `ResumeGarbled`): which exception
class comes out of which answer of the host is translated from `transport.py` and decides between giving up and a rebuild, which exports a
sealed copy of the log from a host that has the session in memory, makes a new session and replaces the row. A rotation makes a
session that refers to the old one by its id, replaces the row and disposes of the predecessor's session; a create that fails at any of its store calls disposes of
the session it made, also when a row is bound to it by then (`CallerFails`, in its third alternative); a deletion disposes of the session and marks the row, as pending if the host did not answer. Whichever turn ends on a row adds
itself to the log of its session. Faults of the host: a request is refused, its answer lost or garbled, the process restarts (memory lost), the
files of a session are lost.

History variables: `fate` (how a session was given up), `late` (turns that completed on a row after its log was copied and before it was claimed).
Left out: the discovery of a runtime under its lock, replicas, the cache of routes, and `update_runtime`; the kernel of a row is
"the host".

### TurnLifecycle

State: the documents (`lock`, `sidebar`, the persisted rows as `rows` and `stored`, `eventCursor`), the host
(`hostq`, `log`), and per actor a program counter `pc`, what it has read (`target`, `run`) and the finalization it is
carrying out (`job`); the slots `inFlight`, a bound `crashes`, a history variable `cancelled`. Actors are the requests
(one per message, which first prepare and then become the runner), users of cancel and users of snapshot.

Each action is the code between two awaits. `TurnStateFinalizer.finalize` and the suspension after it are the same three
store calls for whoever calls them, so they are one `job` with the phases finish, clear, suspend, and each
of these may raise. `Prepare…` are the steps of `prepare_turn` (with `TurnTerminalRecovery.recover` inside it),
`Runner…` and `Writer…` those of `run` with the writer reduced to "persists in order, then advances the cursor"
(`DurableWriter` is the detail), `Cancel…` those of `TurnCancellationCoordinator.cancel`, `SnapshotRead`, `IngestFetch`, `IngestPersist`, `IngestAdvance`, `Prove` those of a
reader, shared with cancel as in the code: what it has fetched it persists, and moves the cursor over, awaits later. `CancelTask` is what `task.cancel()` does at each await the runner may be
suspended in: it depends on which `try` is open there. `Crash` drops every task and slot and keeps the documents and
the host.

A row of a message is what it reports: an intervention (`ask`) or a terminal status. Event identity matters
where the code depends on it: rows are inserted once per event id, and the ids of made-up failure rows are
made of the last cursor, as in `event_mapper.py` and `turn_runner._best_effort_failure`. The unique index on session and
number makes an event of the journal and a failure that the gateway numbered like it exclude each other; `Twins` says that both are
among the rows, and then a batch with either may be refused for good (the model does not keep which of the two the inbox has).

Left out, besides what section 5 lists: the restore of a session inside `prepare_turn`, `cancel` and `snapshot` (here it only may
raise; its steps are those of `SessionRecovery`), and the clearing of a sidebar run whose binding has no turn (`turn_cancellation.py:118`).

### DurableWriter

State: events are numbered as enqueued, and the runner waits for every barrier it puts, so the queue is always an interval of events
followed by at most one barrier or stop mark; the batch is an interval too. `received`, `taken`, `sent`, `saved` are the ends of
these intervals, `mark` the item behind the events, `flush` the future of the barrier, `task`, `serving`, `caller` program
counters. The two bulk writes of a batch land event by event, side by side (`LandInbox`, `LandProjection`), and
go on when their task failed or was aborted, since the driver's executor does. A reader (`turn_recovery.ingest_once`) reads the binding, fetches
what the host has (it may be ahead of the runner), persists and advances the same cursor by `$max`. Retries of
`persistence_retry.py` end in success (`BatchPersisted`, possibly long after) or in failure (`WriterFails`).

### TurnChannel

State: how many rows each source was made to emit (`emitted`), the channel's fields (`known`, `marked`, `pending`, `held`, `history`, `written`,
`closed`), the queue and the batch of its writer, where the writer's task is (`scribe`) and which mark it persists its batch for (`serves`), the
futures of the two barriers, the stored rows, and what `finish` returned. Sources are the tool calls (`Actions`; those in `Browser` are a browser task, for which the runner
flushes and marks) and everything that publishes standalone rows (`Askai`). The channel's lock is never held over an await, so `PublishSide`, `PublishStandalone`, `ReadEvent` (`publish_kernel`, which
releases the children of a call that starts) and `Finish` are a step each. `ParentFlushed` and `TerminalFlushed` are the returns of the runner's flushes; each
goes on at once to what follows without an await. `SideFlushed`, `CloseFlushed` and `Finished` are the returns of the channel's own calls.
A row enters the writer, or the exception of a failed writer comes out where the code lets it (`Enter`).

The turn's events are no second writer here but the journal that `DurableWriter` implements: `Kernel == INSTANCE EventJournal`, whose `Persist` and `Advance` may happen at
any time and whose `Acknowledge` is what a flush that returns has done. So the module depends on the promise alone, and holds of every implementation of it.

Mishaps: the rows' writer fails for good, an exception from the stream, the events' writer or the evidence, a cancellation of the runner. Left out: the numbers of the live stream, its subscribers, and the
kernel rows of the projection, which `DurableWriter` has.

A behaviour of `MCDurableWriter` is one of either model, chosen by `kind` at the start: they share nothing but the abstract journal.

### ScheduledTasks

State: the row of one job (its schedule as a set of due times, next due time, switch, lease), per run its status, dispatch lease and creation
time, and per actor its place and the copies it works with. Actors are the dispatcher loops of the processes (`Workers`) and the tasks of runs asked for by hand
(`Manuals`). A loop first recovers runs (`RecoverClaim`, `RecoverJob`, `RecoverNone`), then claims the job when it is due (`ClaimDue`), creates its run or reads the
one the unique index refused (`CreateRun`, `ReadRun`); both, and the tasks, then take the run by its lease (`ClaimOwn`), prepare a turn or are refused
(`Prepare`, `Refuse`), mark the run, and advance the schedule from their copy of the job (`Release`, `Unlease`). An observer
writes the outcome of a turn (`Observe`); when one of its updates raises, before or after the run's own row was written, its except branch writes "failed" over it (`ObserverRaises`, `ObserverFails`,
or `ObserverGivesUp`); when the runner's task was cancelled on a user's request it ends with it (`ObserverCancelled`). Users edit (a read, then a write computed from it), pause, delete and dispatch by hand. A lease may expire at any time; while its
holder is still at work that is the mishap "slow", otherwise it just does. A process may die (`Crash`, which is a shutdown too), a store call raise
(`StoreRaises`, `MarkRaises`) where nothing but the loop catches it.

History: `orphaned`, the runs whose observer, or whose dispatcher on its way to mark a failure, is gone. Left out: the job row's copy of its last run, the marks on the messages, the turn itself (`TurnLifecycle`), more than one editor at a time, and
the calendar: `next_run_at` is the first due time after a moment.

### TaskContainers

State: the table of leases with the marks of frozen ones (`lease`, `frozen`), the file it was saved to, the engine's containers and networks with the task
name they carry, the table's lock (`guard`), a lock per lease (`lockedBy`), free slots, and per call its place and what it has read. A call of
execute, dispose or freeze runs in a thread of its own. Each engine call, each lock and each save is a step; `execute` without a lease keeps the table locked
from `ExecuteNew` to `RegisterSave`, as in the code. The engine's answer to each call may be lost after the call had its effect; where that is the creation, the manager does not know the
container's id, and the cleanup (`CleanupBox`, `CleanupNetwork`) cannot remove it (`CreateBoxRaises`). A freeze kills (`Kill`, or `KillRaises`, whose container may be dead), marks the lease object (`Freeze`) and saves the table (`FreezeSave`) in three steps; the wait for a slot and the run of a script hold no table lock. A script that fails or times out disposes of its container from inside execute (`DisposeRead` … `DisposeSave`
are shared by both). `Restart` is the death of the manager and `_restore` of its successor, which keeps the saved leases whose container the engine knows.
A container id is also that of its network and of the lease object, as one is made for each.

History: `excused`, the tasks for which `NothingLeftBehind` names a cause; `sealed`, the tasks whose freeze was answered with their lease still in the table and nobody about to take it from there, and `early`, the calls that were admitted
before. Left out: images, input files and the output of scripts, a script that goes on after the engine's answer to it was lost, and a save of the table that raises.

### MCServices

The two share nothing with each other or with the turns, so a behaviour is one of either, chosen by `service` at the start, and both are checked
in one run.

## 3. The runs

`Faults` says which faults an instance explores; each is a constant so that a property can be stated for the
faults under which the code keeps it.

| run | instance | properties |
| --- | --- | --- |
| `binding_faults` | two kinds of behaviours. Rows: 3 bindings, 2 messages, 2 concurrent creates; crashes, lost acknowledgements, deletions. Sessions: 2 rows, 3 sessions, 1 turn, 2 callers, one fault of the host, a caller or the store. Symmetry | `RecoveryTypeOK`, `RunningIsCurrent`, `PredecessorRetired`, `ConversationKeepsBinding`, `DisposedIsRetired`, `SessionsHaveRows`, `SuccessorRemembers`, `RetiredForever`, `ImplementsConversationTurns` |
| `turn_faults` | 2 messages that may ask for interventions, 1 slot, 1 crash; store, writer and transport faults; symmetry | `TypeOK`, `RunningTurnShown`, `SlotsBalanced`, `SentUnderLock` |
| `turn_clients` | 2 messages of which one asks for an intervention, 1 slot, a user of cancel and a snapshot reader, of whom one is active at a time, a shutdown in which nobody cancels; symmetry | `SuspendedIsProven`, `CompletedIsDurable`, `FirstTerminalWins` |
| `turn_liveness` | 2 messages, 1 slot, transport faults, turns older than ten minutes, a store that returns aware dates; fair scheduling | `TurnsEnd`, `RequestsEnd` |
| `writer_faults` | events: 4, every second with a projection row, batches of 2; store faults and aborts. Rows: 3 events, a browser task and another tool that start with the first two, 2 rows of each source and 4 in all, batches of 2; every mishap. Fair scheduling | `TypeOK`, `OnlyServedFlushHangs`, `ImplementsJournal`; `ChannelTypeOK`, `ParentIsDurableFirst`, `HistoryIsComplete`, `ReplayHasNoHoles`; `CallsReturn` of both |
| `services_faults` | a job that recurs and one that runs once, 2 dispatchers and due runs, or a run by hand; 1 mishap, edit or deletion, 3 moments. Or: 3 calls for 2 tasks, 2 containers, room for one lease, one slot; engine faults, time limits, restarts. Fair scheduling | `TasksTypeOK`, `OneTurnPerLease`, `CatchesUpOnce`, `EnabledIsScheduled`, `RunningIsWatched`, `AdvancesAfterStart`, `SettledRunsStay`, `RunsAreTakenUp`; `BoxesTypeOK`, `SealedStaysQuiet`, `FileIsCurrent`, `NothingLeftBehind`, `SlotsAreKept`, `CallsEnd` |

Why the bounds are enough. *Rows:* three are a predecessor, its successor and a third that replaces either; two
creates race each other at every pair of steps, and two messages are a turn and the one that follows or races it. *Sessions:* two callers are a rotation, rebuild,
first create or deletion beside another; two rows and three sessions are a predecessor, its successor, and a session whose create lost;
ids are fresh, so they are taken in order; when they are used up the behaviour ends by stuttering (`Ended`). A turn that is cancelled leaves a row as a failed one does, so none is cancelled here. Faults happen of one kind in a behaviour; the theorems hold for every
mixture and number. *Turns:* two messages are
the shortest history in which one turn can disturb another, from either side; a single slot makes the second turn queue; the journal and the cursor are
bounded by the turns (at most one intervention and one terminal event each, and the failures made up by a broken stream). One reader or
canceller, who may come back any number of times, is stale in every way a second one could be: it acts on a copy read arbitrarily long ago.
*Writer:* four events with batches of two give a full batch, a partial one and events behind a barrier, with and without a projection row on each side.
*Channel:* two rows of a tool are the shortest sequence with an order and a hole; a browser task and another tool are the two ways through the gates; four rows fill two batches, or one with rows behind a barrier. The events'
journal is in order there and not ahead of the runner, as `DurableWriter` has all orders; the theorems have them too.
*Jobs:* two dispatchers race for the job and for its run; two due times within the clock and one beyond it give a time that is missed, caught up and followed by the next; the recovery of either loop may take the run of the other or of a
manual task. *Containers:* a capacity of one and a slot of one are limits that every second call meets; three calls are two disposals, or two users of a slot, with an execute between them; the second
container is the one made after a disposal. Containers are fresh as well, calls come in order, and a restart may come as often as it does.

`CHECK_DEADLOCK FALSE` stands in the configurations of `TurnLifecycle`, `MCDurableWriter` and `MCServices`, and in `binding_lost`, because their
inputs are finite: when every message was answered, every event and row written, every due time passed, every call over or every session id used, nothing more happens.
`binding_faults` is checked for deadlock. That no task waits for ever is the subject of the liveness properties.

Fairness. The event loop runs every task that can run, so each step of a runner, a request under way, a finalization or a writer's task is
weakly fair, as are the steps of a dispatcher loop, a manual task and a thread of the sandbox manager, in which calls return or raise; the store carries out what it was given; leases expire; the host ends the turns it works on (turns
have model and tool timeouts). Nothing makes a message arrive, a user cancel, edit or call, a reader look, an event or a row come, the clock tick, a scheduled turn end or a fault happen, and
none of these is fair. In `binding_lost` requests keep coming, since the statement is about what they do to a lost session. `CallsReturn` is the conjunction of `FlushEnds`, `CloseEnds` (`DurableWriter`) and
`SideCallsEnd` (`TurnChannel`), all about the calls of a writer that has not failed while it served them: see observation 5. `TurnsEnd` and `RequestsEnd` hold while the transport breaks
at any point but no two rows share a number (observation 7); with store faults a lock may stay, by design, until another
request recovers it; without them `LocksAreAttended` (section 4) says who has it. `RunsAreTakenUp` holds with a mishap because whoever restarts its loop recovers.

Conditions inside properties. `SentUnderLock` and `RunningTurnShown` say nothing when somebody else acts on a turn (users of cancel, readers, the ten-minute
fallback: `Unattended`), as these may release the lock of a turn that is still being prepared: observations 2 and 8. `SlotsBalanced` says nothing when tasks are cancelled, which
is what `turn_slots` shows. `PredecessorRetired`, `ConversationKeepsBinding`, `DisposedIsRetired`, `SessionsHaveRows` and `SuccessorRemembers` name the faults they exclude: what these do is in
observations 4 and 9. `EnabledIsScheduled` excludes an edit in the very moment its job is due (observation 14), `RunningIsWatched` the runs whose observer is gone and `SettledRunsStay` the
writes of an except branch and of a dispatcher whose lease expired (13), `SealedStaysQuiet` a task that a client disposes of or on which an execute admitted before the freeze fails (16), `NothingLeftBehind` four
causes (17).

### Runs that show a disagreement

Six runs check what a comment, a docstring or the work log says, and find that the code does something else.

| run | statement | what happens |
| --- | --- | --- |
| `binding_history` | the current session knows every completed turn (`profile/synchronizer.py:27`) | no fault is needed: a request that reads while a rotation has its row in `replacing` finds no current row, takes the conversation for a new one (`chat_service.py:163`) and creates a fresh session, to which the rotation yields |
| `binding_lost` | a session that the host has lost gets a successor (`runtime_coordinator.py:242`) | the host's refusal has the code that the transport raises as an unreachable host, so `restore` gives up and never rebuilds; were it to, the unseeded successor would name the lost session as its seed |
| `turn_naive` | a turn that died is set to failed after ten minutes (`turn_recovery.py:140`) | MongoDB dates come back naive (`services/chat-api/app/core/db.py:57` sets no `tz_aware`), subtracting one from an aware `now` raises, and the exception is suppressed: the conversation stays busy |
| `turn_own` | only the new turn's events flow to its runner (`runtime-http-server.mjs:482`) | `run` subscribes after the cursor its claim returned; when a reader or recovery finalized the turn before from its persisted rows while the cursor was still behind, the new runner reads the old turn's terminal event and ends |
| `turn_slots` | the slot is released in `finally` (`docs/WORK_LOG.md:8915`) | the handler of `CancelledError` returns before the `try` that has the `finally` |
| `turn_sidebar` | finalization keeps the lock and the sidebar in sync (`turn_finalization.py:12`) | with an intervention seen, the sidebar is left to a suspension that only completed turns reach |

### Observations that are not stated as violated properties

1. *Completed by another turn's row.* Because of `turn_own`, a turn may be recorded as completed although the
   persisted completion is of the turn before. `CompletedIsDurable` and `SuspendedIsProven` therefore
   speak of the session's rows, which is what the code guarantees.
2. *Sent without the lock.* `SentUnderLock` holds without cancellation. A cancellation between `claim_turn` and the creation of the task
   finds no runner and nothing to stop at the host, releases the lock and returns `True`; the request then marks its run
   and starts a runner that sends the turn. The ten-minute fallback has the same effect on a turn that waits for its slot.
3. *A row left in `replacing`.* A crash between the replacement claim and the insert has the effect of `binding_history` for good: no row is current, and the next
request begins an unseeded session.
4. *A predecessor may come back* after a lost acknowledgement followed by another rotation or deletion: hence the
   condition of `PredecessorRetired`.
5. *A flush that hangs.* The barrier is taken from the queue before its batch is persisted; if that raises,
   `_fail_waiting_barriers` does not find it and the caller's future is never resolved. `OnlyServedFlushHangs` says that this is
   the only flush that hangs; in `TurnLifecycle` it is the state `stuck`, in which a runner keeps its lock and its slot until it is
   cancelled.
6. *A runner cancelled while it is finalizing* runs its finally clause at once: the store call it was waiting for may be lost, and the sidebar run stays
   until a later request or cancellation tidies up (`chat_service.py:189`, `turn_cancellation.py:59`).
7. *Two events with one number.* A broken stream yields a failure numbered as the next event of the journal (`gateway.py:435`). When a
   reader, or the runner of the next turn, persists that next event too, the second of the two is refused by the
   index on session and number (`events/repository.py:34`) at each of the retries. If a flush waits for the batch it never returns (observation 5), and the
   conversation keeps its lock although the store works.
8. *A late mark.* A request whose lock was released under it (observation 2) still calls `mark_active_run`, which replaces whatever run is
   shown. With three turns the one it replaces may belong to the turn that holds the lock by then.
9. *Sessions and failing stores.* When the insert's acknowledgement is lost, or the last update of a replacement raises (`bindings/repository.py:128`, inside the `try` of `runtime_coordinator.py:81`), `create_binding` disposes of the session
   of a row that is current. Both are steps of the model; they are why `DisposedIsRetired` is stated until a crash or a failing store. A deletion that races a rotation marks the old row, and the new one stays current. `disposal_pending` is a mark nobody acts on. A rebuild leaves its predecessor's session to the host.
10. *Too eager a rebuild.* A page of a proxy in place of JSON makes `restore` rebuild a session that lives (`ResumeGarbled`). The replicas asked for a copy of the log are asked with the id of the runtime
    at hand, which is random per replica, so one that has the session never recognizes it; and a rotation's reference to the old session is resolved by the replica of the new profile, which may not have it.
11. *Turns missing from a successor.* A turn that completes between the copy of the log and the claim of the row is not in the successor's log (`late`).
12. *Two resumes at once.* Both find the session not in memory, and the second resets the journal from the events it brought, without what was appended since the first
    (`kernel-runtime.mjs`). In `prepare_turn` a second restore suppresses its exceptions.
13. *Scheduled turns twice, or for ever.* After its lease expired a run may get a second turn while the first is at work: `OneTurnPerLease` counts exactly this. A run whose observer is gone stays "running" for
    ever, as recovery looks at queued and dispatching ones: its process died or shut down, both calls of `_mark_finished` raised, or a user cancelled the turn, which raises `CancelledError` out of `wait_turn` and of the observer.
    When the store fails inside `_mark_started` the run is recorded as failed though its turn goes on. When the update of the job raises after that of the run (`dsh_execution.py:252`), the except branch of `_observe` overwrites a completed run with "failed".
14. *Stale releases.* An edit in the very moment its job is due is taken by a late release for its own time and overwritten (`EditedWhenDue`). A release by
    recovery gives up whatever lease of the job its copy names, another worker's too. Two users who edit one job at once may leave it enabled without a due time; the model has one.
15. *Leases of containers pile up.* Nothing in the repository calls `finalize_task_audit` (`services/chat-api/app/execution_isolation/task_audit.py:65`), so containers leave the table only by failure, expiry or
    an explicit disposal, until the capacity is reached.
16. *A frozen task may run again* in another container: an execute that waits for its slot during a freeze fails in the killed container and disposes of it, mark and all, and the next execute makes a fresh one on the same workspace, which is
    archived as if it were quiet (`task_audit.py:72-77`). `SealedStaysQuiet` ends for the task when this happens. A freeze whose kill was answered by nobody leaves a dead container without a mark.
17. *Orphans.* Of two overlapping disposals of a task the later pops the lease of a container made in between; a manager that dies between making a container and saving it leaves it; when the answer to the engine's create is lost, `container_id`
    is still `None` and the cleanup removes the network only (`task_containers.py:181`). The name of a container left like this makes every later creation for the task fail.
18. *Not journaled.* A stream failure that the gateway makes up (`gateway.py:435`) is a row but never an event of the host's journal; the next reader of the session sees another event under its number (7).
19. *The same hang in the rows' writer.* It is a copy of the events' writer and shares observation 5. The runner then waits in the channel's `flush` or `close`, with its lock and its slot, until it is cancelled.
20. *A cancelled turn that is not finalized.* The handler of a cancellation closes the channel outside its `try` (`turn_runner.py:197`): when the rows' writer has failed, the exception leaves `run` before `finalize`, and the lock
    stays until somebody recovers the turn (the second alternative of `CancelTask` there).
21. *Channels that stay.* An exception of the events' writer's `close` or of the evidence (`turn_runner.py:236-256`) ends the turn without `finish`: the channel stays in the registry with its task, which waits for rows for ever, and a tool that
    is still at work goes on to publish rows of a turn that is over. `TurnEventRegistry.abort` would end both; nothing calls it.
22. *Live only.* Rows of a tool that is not a browser task are shown while the turn runs, and neither stored nor in the history that `finish` returns, as nothing marks their call (`HistoryIsComplete` says exactly what is).
23. *Cancelled with its caller.* A runner that is cancelled while it awaits the rows' writer's task cancels that task (`projection_writer.py:65`). By then everything is stored, which is what `Closing` says of the state "stopping".
24. *One row for two failures.* The id of a failure row that the runner makes up contains the last cursor (`turn_runner.py:217`): of two turns that fail at the same cursor the second adds none. `CompletedIsDurable` asks for the row of a completion only.

## 4. What is proved

The theorems are in the `…Proofs` modules and in `TurnLifecycleTypes`, and hold for every value of the constants that satisfies the assumptions of the component's module
(distinct `None` and actors, known faults, positive batch size, capacity and number of slots): any number of bindings, sessions, messages and creates; of requests, users of cancel, readers and
slots; of events, any subset of projected ones, any batch size; of tools that emit rows, any of them browser tasks, any number of rows; of dispatchers and runs by hand, any schedules; of tasks, containers and calls; every set of faults, and any bound on how many happen. Where a
number is counted (slots, leases that expired), actors are finite.

*KernelBinding.* `LockInv` is the inductive core: types, at most one current row, a running lock only on a current row, a running lock only for a turn
with a pending outcome that was claimed on that very row. Each part needs the others: that a claim gives the only lock needs
that its row is the only current one, which needs that no write retires a row under a running lock, or makes a second
one current. From it follow `RunningIsCurrent` and `ExclusiveTurn`, and, with the definition of the running message,
`BindingsImplementTurns`: initial states map to initial states, and each step maps to a start, an end or a
stutter of `ConversationTurns`. `PredecessorsStayRetired` needs a second invariant about where a create is and what its predecessor's status can be
then. `RetiredRowsStayRetired` is an action property: the only writes of `current` are an insert, on a row that does not exist, and the restore of
a row in `replacing`.

`ConversationsKeepTheirBinding` needs a third one: a row that a create took away is held by that create alone (`HoldersInv`), and whenever no row is
current some create holds one that it has neither replaced nor restored yet (`KeptInv`). So when no create is under way, a row is current. `RowInv` is the conjunction of
these invariants, except `KeptInv`, on which the next module builds.

*SessionRecovery.* `RecoveryImplementsBindings` states that the coordinator and its callers are an implementation of `KernelBinding`: each of their steps is one of its steps or a stutter, so `RowInv` and all that
follows from it holds of them too. `Base` adds what a caller knows at each place, and that exactly the rows that exist have sessions. `Fresh` says that a session a caller has made and not yet bound is
nobody else's, and no row's: with it, `Owned` gives `SessionsAreOwned`, as every step that gives up a session binds it, hands it over or disposes of it. `CurrentSessionsAreOpen` needs `DisposalInv`: a
caller that rotates retires the row before it disposes of its session, a failed create disposes of a session no row has (`Fresh`), so until a crash or a lost acknowledgement the row of a session disposed of is retired for good, or about to be marked by a deletion. `SuccessorsRemember`
needs `CopyInv`, which follows the copy of a log from the host through the caller and its new session to the row, and where it may lack a turn that is `late`: a row in `replacing` gets no turn, so the
copy stays complete from the claim on.

*TurnLifecycle.* `TurnLifecycleTypes` proves the base (`BaseInvariant`): the types; that a slot is taken by each of the runners between acquire and
release, and without cancellations by nobody else (a statement about cardinalities that needs that each step moves at most one runner over that
border); that what was read and stored lies within the journal, so that a row reports something; and that the running lock and whoever acts on a copy of it name a turn. On it
`TurnLifecycleProofs` builds, each with its own invariant:

- `FirstTerminalStays`: the lock of a message is claimed once. `Claimed` says that the lock never names a message whose request has not come to
  the claim, so a claim is always for a message other than the lock's; every other write of the lock is a compare-and-set on "running".
- `CompletionIsDurable` and `SuspensionIsProven`: `Durable` follows a completion from the rows through the runner's `status`, the
  finalization that carries it and the lock it ends in, and an intervention likewise to the sidebar. That rows are never lost, and that a runner
  settles as completed only after the flush has covered what it read, is what makes it inductive.
- `RunningTurnStaysShown` and `TurnsSentUnderLock`: `Undisturbed`. Unattended, a turn that is prepared, queued or at work has no terminal row, has
  read nothing terminal, and is named by no finalization under way; so neither its runner nor the next request's recovery can have begun to release its lock or clear
  its run, and what an earlier turn still does misses, because each of its writes compares the message.

- `LocksAreAttended`: as long as the store works and the process is neither stopped nor killed, a running lock is in somebody's hands: of its request before the send, of its runner at any place before the first call of its
  finalization, or of a cancellation that has interrupted the runner and will look at the lock again. It is inductive as it stands; that `LockWrites` leaves only a claim to make a lock running, and that a finalization which does not release the lock
  of its own turn did not find it running, are the lemmas. It is what `TurnsEnd` needs beside fairness: the lock is never forgotten, for any number of turns and cancellations, also where TLC has no fair instance. With store faults it does not hold, by design.

*DurableWriter.* `IInv` is the conjunction of `TypeOK`; `Order` (saved ≤ sent ≤ taken ≤ received, and where they coincide); `Covered`
(the cursor and both batches' beginnings are durable: what lies behind them is in both collections); `InboxHasNoGap`; `Barrier` (where the barrier, the future and the caller can be with respect to each other)
and `OnlyServedFlushHangs`. `Covered` and `InboxHasNoGap` are inductive only together: an event may land when its predecessors in the batch have, and the predecessors
of the batch lie behind a covered number. `AckedIsDurable` follows from `Barrier` and `Covered`: a resolved future means
that everything received was saved. `WriterImplementsJournal` maps landings to `Persist`, cursor updates to `Advance` or a stutter, and returning flushes
to `Acknowledge`.

*TurnChannel.* `ChannelInv` has a part for each leg of a row's way. `Gates`: while the channel is open all rows of a call wait in `pending` until the call has started, then in `held` until it is marked; so whatever is behind the second gate is due. `Parents`: a call is marked only
when its start is acknowledged, and what is acknowledged is behind the cursor and durable, which is the journal's promise. `Pipeline`: what is due is stored, in the batch or in the queue, as long as the writer
has not failed; nothing else ever is. `Order`: a row comes after those of its source before it, in the collection, the batch and the queue, also when a failure has emptied the queue or the store goes on with the batch afterwards. `Closing`: where the last barrier and the stop
mark can be; behind a closed channel nothing follows the barrier, so that when it is resolved queue and batch are empty. From `Gates`, `Parents` and `Pipeline` follows `ParentsAreDurableFirst`, from `Order` `StoredRowsAreAPrefix`, and from `Pipeline` with `Closing`
`FinishReturnsWhatIsStored`. `QueuedSideCallsFail` is the writer's `OnlyServedFlushHangs` for the copy of its protocol. `ChannelKeepsJournal` states that the module's steps are steps of the abstract journal, or stutter: with `WriterImplementsJournal`,
which gives the same for `DurableWriter`, the two meet in one specification.

*ScheduledTasks.* `Base`: types, what an actor has read at which place, and that a run somebody works on is neither absent nor queued. `OneTurnForEveryLease` is a count: the turns of a run plus the actors that have taken it and
not yet begun a turn never exceed one more than the leases that expired (`Handover`); each claim needs a free lease, and a lease is free only when the run was never taken, has left the pending states, or expired. `SettledForGood` needs
that before a first expiry one actor or observer alone is at a run, and at a settled one at most an except branch (`Sole`); `RunningRunsAreWatched` follows whoever will write the outcome from the turn's preparation to the observer and
its except branch. `NoDueTimeIsSkipped`: whoever is about to release a time has begun or failed its run (`Started`), also if the run was found settled. `ScheduleIsOrdered` (no run lies ahead of
the due time) carries `OneMissedTimeIsCaughtUp` (`Dated`: releases move the due time past the clock) and `EnabledJobsAreScheduled` (`Switched`: a job that is off keeps the time of a run only from an edit of that very moment, and only then may an edit that read "off" meet a job that is on).

*TaskContainers.* `Base`: types, what a call has read where, that the table's lock is held by exactly the call that is inside a locked part (`Guarded`), and that slots are free or held, a cardinality
again. `MakersAreAlone` (`Unmade`): a container that is being made is in no table, file or other call. From it follow `TableIsSaved`
(`Current`: what the holder of the table has changed and not yet saved) and `NoContainerIsLost` (`Left`: whoever targets a container of a task that nobody excused targets the one in the table, until it is gone; a container without an id is excused the moment it is made).
`FrozenTasksStayQuiet` combines the most: marks are set after the kill and nothing starts a killed container; the mark of a sealed task is in the file, so that a restart keeps it; and the lease of a sealed task is popped by nobody but those who unseal it, as every call that could
was admitted before (`Allowed`), while a task with a lease gets no second container (`Named`).
`NoCircularWait`: while calls are under way, one of them waits for no other. `LeaseLocked` says that a lease's lock is held by exactly the call inside its with statement; then whoever has the table waits for nobody, whoever has a lease at most for the table, and whoever has a
slot at most for a lease. This is what `CallsEnd` needs beside fairness, for any number of calls.

The invariants were checked by TLC on the instances above before they were proved. The property of each theorem that a run checks is named in `PROJECT.json`.

*Only model-checked:* every liveness property (`TurnsEnd`, `RequestsEnd`, `CallsReturn`, `RunsAreTakenUp`, `CallsEnd`), as the prover does not reason about fairness and
`ENABLED`; and the six statements the code does not keep. Proved and in no run of their own: `ExclusiveTurn`, which the refinement implies; `InboxHasNoGap`, `CursorBehindRows` and
`AckedIsDurable`, which are parts of the writer's invariant or follow from `ImplementsJournal`; `OnlyServedSideCallHangs`, the safety part of `SideCallsEnd`; `ChannelKeepsJournal`, whose steps `TurnChannel` takes from `EventJournal`; `LockIsAttended` and `SomeCallGoesOn`.

## 5. Plan

Done, in this order: the binding rows with their abstract lock; the turn's life; the writer with its abstract journal; the proofs of all three; scheduled tasks and script containers with
their proofs; the coordinator over rows and sessions, its refinement and proofs; the turn channel over the abstract journal, with its proofs; what the liveness properties of turns and containers rest on, as theorems. Next:

1. Governance: action receipts (idempotency of a call that is made twice), approvals that are decided once, suspensions with the resume of a turn.
2. The renumbering of a session's journal on resume, joined to the cursor of `TurnLifecycle`.
3. Runtimes: discovery and creation under `RuntimeLock`, desktop bindings.
4. The live stream: the numbers that kernel and side rows share, and what a client that reconnects sees of them.
5. Orchestration, and pure parts: DAG retry and skip, the gatekeeper's decision as functions against a reference definition.

Not modelled, and why: web applications, prompts, enterprise data services (content writer, knowledge, analytics, the browser engine), the PostgreSQL compatibility layers and deployment scripts, which are most of the repository's lines, are input and output
with no protocol of their own; event payloads, profiles, plugin contents and Git state are data that no property distinguishes; runtime lock and affinity are advisory, as creation goes on without them, so nothing can be stated of
them but their cost; script jobs, document parser jobs, credential refresh and session versioning run in one task each. The components table in `PROJECT.json`
has the status of every part.

## 6. Running the checks

In this directory, `tlc -config MCKernelBinding_faults.cfg MCKernelBinding` checks a run (the configuration's name is the module's and the run's), and
`tlapm DurableWriterProofs.tla` checks a proof module. The longest run takes about three minutes with two workers; the longest
proof module, `TurnChannelProofs`, about three.
