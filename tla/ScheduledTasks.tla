--------------------------- MODULE ScheduledTasks ---------------------------
(***************************************************************************)
(* One scheduled job and its runs (chat-api/app/scheduled_tasks).  Every   *)
(* process of the API runs a dispatcher loop (scheduler.py) over the shared*)
(* store; a run is handed over by two leases, one on the job and one on    *)
(* the run, and started as a DSH turn that an observer task of the same    *)
(* process watches.  A run is named by the time it is scheduled for (the   *)
(* unique index on job and time), a run asked for by hand by a value of    *)
(* Manuals, which is also the task that dispatches it.                     *)
(*                                                                         *)
(* Left out: the job row's copy of its last run (status, session, error),  *)
(* which nothing in the scheduler reads, and the marks on the messages.    *)
(***************************************************************************)
EXTENDS Naturals, FiniteSets, FiniteSetsExt

CONSTANTS
    Workers,     \* processes that run a dispatcher
    Manuals,     \* runs asked for by hand
    Schedules,   \* sets of due times: a singleton is a job that runs once
    MaxTime,     \* a bound: the clock stops here
    MaxEvents,   \* a bound: how many mishaps, edits and deletions happen in all
    JobFaults,   \* which of the mishaps below may happen
    Nil

JobFaultKinds ==
    {"slow",     \* a lease of two minutes expires while its holder works
     "crash",    \* a process ends, or is stopped
     "store"}    \* a store call raises

ASSUME NilIsNoTimeOrActor ==
    /\ Nil \notin Nat \cup Workers \cup Manuals
    /\ Workers \cap Manuals = {} /\ (Workers \cup Manuals) \cap Nat = {}
ASSUME SchedulesAreTimes == Schedules \subseteq (SUBSET (Nat \ {0})) \ {{}}
ASSUME ClockAndMishapsAreBounded == MaxTime \in Nat /\ MaxEvents \in Nat
ASSUME JobFaultsAreKnown == JobFaults \subseteq JobFaultKinds
ASSUME ActorsAreFinite == IsFiniteSet(Workers) /\ IsFiniteSet(Manuals)

VARIABLES
    now,       \* the clock, in the unit of due times
    job,       \* the job's row
    status,    \* a run's "status"; "absent" before create_run
    held,      \* dispatching runs whose lease has not expired
    born,      \* a run's "created_at"
    turns,     \* history: turns that were prepared for a run
    expired,   \* history: how often a run's dispatch lease expired
    place,     \* where a dispatcher is: a worker's loop, or a manual run's task
    copy,      \* the job row an actor read
    work,      \* the run an actor is at
    phase,     \* which of its two loops a dispatcher is in
    home,      \* the process of a manual run's task
    watching,  \* observers of a process, per run, that wait for the turn's end
    handling,  \* those of them whose first _mark_finished raised
    orphaned,  \* history: running runs whose observer is gone
    draft,     \* the row a user's edit has read, Nil if there is no edit
    edited,    \* history: when edits were written
    events     \* mishaps, edits and deletions so far

rowsVars == <<job, status, held, born>>
actorVars == <<place, copy, work, phase, home>>
observerVars == <<watching, handling, orphaned>>
userVars == <<draft, edited>>
tasksVars == <<now, job, status, held, born, turns, expired, place, copy, work,
               phase, home, watching, handling, orphaned, draft, edited, events>>

Times == 1 .. MaxTime
Runs == Times \cup Manuals
Actors == Workers \cup Manuals

Pending == {"queued", "dispatching"}
Settled == {"failed", "ended"}
RunStatus == {"absent", "running"} \cup Pending \cup Settled
Places == {"recover", "job", "due", "create", "existing", "claim", "start",
           "prepared", "failing", "release", "unlease", "new", "over"}

Copies == [enabled : BOOLEAN, schedule : Schedules, owner : Workers \cup {Nil}]
JobRow == [exists : BOOLEAN, enabled : BOOLEAN, schedule : Schedules,
           next : (Nat \ {0}) \cup {Nil}, owner : Workers \cup {Nil}, leased : BOOLEAN]

TasksTypeOK ==
    /\ now \in 0 .. MaxTime
    /\ job \in JobRow
    /\ status \in [Runs -> RunStatus]
    /\ held \in SUBSET Runs
    /\ born \in [Runs -> 0 .. MaxTime]
    /\ turns \in [Runs -> Nat]
    /\ expired \in [Runs -> Nat]
    /\ place \in [Actors -> Places]
    /\ copy \in [Actors -> Copies \cup {Nil}]
    /\ work \in [Actors -> Runs \cup {Nil}]
    /\ phase \in [Workers -> {"recover", "due"}]
    /\ home \in [Manuals -> Workers \cup {Nil}]
    /\ watching \in [Workers -> [Runs -> Nat]]
    /\ handling \in [Workers -> [Runs -> Nat]]
    /\ orphaned \in SUBSET Runs
    /\ draft \in Copies \cup {Nil}
    /\ edited \in SUBSET (0 .. MaxTime)
    /\ events \in 0 .. MaxEvents

-----------------------------------------------------------------------------
\* next_run_at: the first due time after t.
NextAfter(schedule, t) ==
    LET later == {x \in schedule : x > t}
    IN IF later = {} THEN Nil ELSE Min(later)

\* An edit looks for the first due time after one unit ago, so for the first
\* from now on.
NextFromNow(schedule) ==
    LET later == {x \in schedule : x >= now}
    IN IF later = {} THEN Nil ELSE Min(later)

Host(a) == IF a \in Workers THEN a ELSE home[a]

Event == events < MaxEvents /\ events' = events + 1

Mishap(kind) == kind \in JobFaults /\ Event

\* An actor is at work on a claimed job or run.
Busy(a) == place[a] \notin {"recover", "due", "new", "over"}

\* What an actor knows of the job's row it read.
Known(owner) == [enabled |-> job.enabled, schedule |-> job.schedule, owner |-> owner]

Goto(a, p) == place' = [place EXCEPT ![a] = p]

\* An actor's call is over, and with it what it has read.
Leave(a, p) ==
    /\ Goto(a, p)
    /\ copy' = [copy EXCEPT ![a] = Nil]
    /\ work' = [work EXCEPT ![a] = Nil]

\* A run's status leaves "dispatching"; its lease, which the row keeps, is not
\* looked at any more.
Mark(r, s) ==
    /\ status' = [status EXCEPT ![r] = s]
    /\ held' = held \ {r}

\* An actor's run needs nothing more: a loop looks for the next, a task ends.
Done(a) == IF a \in Manuals THEN "over" ELSE phase[a]

\* The loop logs an exception and, after its five seconds of rest, begins
\* again; a task dies of it.
Raised(a) == IF a \in Manuals THEN "over" ELSE "recover"

TasksInit ==
    /\ now = 0
    /\ \E s \in Schedules :
          job = [exists |-> TRUE, enabled |-> TRUE, schedule |-> s,
                 next |-> NextAfter(s, 0), owner |-> Nil, leased |-> FALSE]
    /\ status = [r \in Runs |-> "absent"]
    /\ held = {}
    /\ born = [r \in Runs |-> 0]
    /\ turns = [r \in Runs |-> 0]
    /\ expired = [r \in Runs |-> 0]
    /\ place = [a \in Actors |-> IF a \in Workers THEN "recover" ELSE "new"]
    /\ copy = [a \in Actors |-> Nil]
    /\ work = [a \in Actors |-> Nil]
    /\ phase = [w \in Workers |-> "recover"]
    /\ home = [m \in Manuals |-> Nil]
    /\ watching = [w \in Workers |-> [r \in Runs |-> 0]]
    /\ handling = [w \in Workers |-> [r \in Runs |-> 0]]
    /\ orphaned = {}
    /\ draft = Nil
    /\ edited = {}
    /\ events = 0

-----------------------------------------------------------------------------
MutClaimable(r) == status[r] \in Pending
MutClaimableUnheld(r) == status[r] # "absent" /\ r \notin held
MutClaimableQueued(r) == status[r] = "queued" /\ r \notin held

\* The filter of claim_pending_run.
Claimable(r) == status[r] \in Pending /\ r \notin held

\* Its update.
ClaimRun(r) ==
    /\ status' = [status EXCEPT ![r] = "dispatching"]
    /\ held' = held \cup {r}
    /\ UNCHANGED <<job, born>>

RecoverClaim(w) ==
    /\ place[w] = "recover"
    /\ \E r \in Runs :
          /\ Claimable(r)
          /\ ClaimRun(r)
          /\ work' = [work EXCEPT ![w] = r]
    /\ Goto(w, "job")
    /\ UNCHANGED <<now, turns, expired, copy, phase, home, observerVars, userVars, events>>

\* get_job_for_run, and fail_pending_run when the job was deleted.
RecoverJob(w) ==
    /\ place[w] = "job"
    /\ IF job.exists
       THEN /\ copy' = [copy EXCEPT ![w] = Known(job.owner)]
            /\ Goto(w, "start")
            /\ UNCHANGED <<status, held, work>>
       ELSE /\ IF status[work[w]] = "dispatching"
               THEN Mark(work[w], "failed")
               ELSE UNCHANGED <<status, held>>
            /\ Leave(w, "recover")
    /\ UNCHANGED <<now, job, born, turns, expired, phase, home, observerVars, userVars, events>>

RecoverNone(w) ==
    /\ place[w] = "recover"
    /\ \A r \in Runs : ~Claimable(r)
    /\ Goto(w, "due")
    /\ phase' = [phase EXCEPT ![w] = "due"]
    /\ UNCHANGED <<now, rowsVars, turns, expired, copy, work, home, observerVars, userVars, events>>

\* The filter of claim_due_job.
Due == job.exists /\ job.enabled /\ job.next # Nil /\ job.next <= now /\ ~job.leased

\* The job's lease is taken, the row it was taken on becomes the loop's copy.
ClaimDue(w) ==
    /\ place[w] = "due"
    /\ Due
    /\ job' = [job EXCEPT !.owner = w, !.leased = TRUE]
    /\ copy' = [copy EXCEPT ![w] = Known(w)]
    /\ work' = [work EXCEPT ![w] = job.next]
    /\ Goto(w, "create")
    /\ UNCHANGED <<now, status, held, born, turns, expired, phase, home, observerVars,
                   userVars, events>>

DueNone(w) ==
    /\ place[w] = "due"
    /\ ~Due
    /\ Goto(w, "recover")
    /\ phase' = [phase EXCEPT ![w] = "recover"]
    /\ UNCHANGED <<now, rowsVars, turns, expired, copy, work, home, observerVars, userVars, events>>

\* The insert of a run's row.
InsertRun(r) ==
    /\ status' = [status EXCEPT ![r] = "queued"]
    /\ born' = [born EXCEPT ![r] = now]

\* create_run: the unique index refuses a second run for the same time.
CreateRun(w) ==
    /\ place[w] = "create"
    /\ IF status[work[w]] = "absent"
       THEN InsertRun(work[w]) /\ Goto(w, "claim")
       ELSE Goto(w, "existing") /\ UNCHANGED <<status, born>>
    /\ UNCHANGED <<now, job, held, turns, expired, copy, work, phase, home, observerVars,
                   userVars, events>>

MutReadRun(w) ==
    /\ place[w] = "existing"
    /\ Goto(w, IF status[work[w]] = "queued" THEN "claim" ELSE "release")
    /\ UNCHANGED <<now, rowsVars, turns, expired, copy, work, phase, home, observerVars,
                   userVars, events>>

\* get_run: an unfinished run is dispatched, for a settled one the schedule
\* just goes on.
ReadRun(w) ==
    /\ place[w] = "existing"
    /\ Goto(w, IF status[work[w]] \in Pending THEN "claim" ELSE "release")
    /\ UNCHANGED <<now, rowsVars, turns, expired, copy, work, phase, home, observerVars,
                   userVars, events>>

\* dispatch_now: the run is inserted and a task spawned for it.
DispatchNow(w, m) ==
    /\ place[m] = "new"
    /\ job.exists
    /\ InsertRun(m)
    /\ copy' = [copy EXCEPT ![m] = Known(job.owner)]
    /\ work' = [work EXCEPT ![m] = m]
    /\ home' = [home EXCEPT ![m] = w]
    /\ Goto(m, "claim")
    /\ UNCHANGED <<now, job, held, turns, expired, phase, observerVars, userVars, events>>

\* _claim_and_execute; when somebody else has the run, the job's lease stays
\* until it expires.
ClaimOwn(a) ==
    /\ place[a] = "claim"
    /\ IF Claimable(work[a])
       THEN ClaimRun(work[a]) /\ Goto(a, "start") /\ UNCHANGED <<copy, work>>
       ELSE Leave(a, Done(a)) /\ UNCHANGED rowsVars
    /\ UNCHANGED <<now, turns, expired, phase, home, observerVars, userVars, events>>

-----------------------------------------------------------------------------
\* prepare_turn admits a turn for the run, ...
Prepare(a) ==
    /\ place[a] = "start"
    /\ turns' = [turns EXCEPT ![work[a]] = @ + 1]
    /\ Goto(a, "prepared")
    /\ UNCHANGED <<now, rowsVars, expired, copy, work, phase, home, observerVars, userVars, events>>

\* ... or the user, the quota, the target, the admission or the conversation
\* (which is busy with another turn) refuses it.
Refuse(a) ==
    /\ place[a] = "start"
    /\ Goto(a, "failing")
    /\ UNCHANGED <<now, rowsVars, turns, expired, copy, work, phase, home, observerVars,
                   userVars, events>>

\* After a run was started or failed only the schedule is left to advance.
AfterStart(a) ==
    IF work[a] \in Manuals
    THEN Leave(a, Done(a))
    ELSE Goto(a, "release") /\ UNCHANGED <<copy, work>>

\* _mark_started names the run by its id only; then the observer is created.
MarkStarted(a) ==
    /\ place[a] = "prepared"
    /\ Mark(work[a], "running")
    /\ watching' = [watching EXCEPT ![Host(a)][work[a]] = @ + 1]
    /\ orphaned' = orphaned \ {work[a]}
    /\ AfterStart(a)
    /\ UNCHANGED <<now, job, born, turns, expired, phase, home, handling, userVars,
                   events>>

\* A store call of _mark_started raises, before or after the run's row was
\* updated: the turn goes on without an observer.
MarkRaises(a) ==
    /\ Mishap("store")
    /\ place[a] = "prepared"
    /\ UNCHANGED <<status, held>> \/ Mark(work[a], "running")
    /\ Goto(a, "failing")
    /\ UNCHANGED <<now, job, born, turns, expired, copy, work, phase, home,
                   observerVars, userVars>>

MutFailBeforeStart(a) ==
    /\ place[a] = "failing"
    /\ IF status[work[a]] = "dispatching"
       THEN Mark(work[a], "failed")
       ELSE UNCHANGED <<status, held>>
    /\ AfterStart(a)
    /\ UNCHANGED <<now, job, born, turns, expired, phase, home, observerVars, userVars,
                   events>>

\* _fail_before_start, whatever the run's status is by now.
FailBeforeStart(a) ==
    /\ place[a] = "failing"
    /\ Mark(work[a], "failed")
    /\ AfterStart(a)
    /\ UNCHANGED <<now, job, born, turns, expired, phase, home, observerVars, userVars, events>>

MutObserve(w, r) ==
    /\ watching' = [watching EXCEPT ![w][r] = @ - 1]
    /\ \E outcome \in Settled : Mark(r, outcome)
    /\ UNCHANGED <<now, job, born, turns, expired, actorVars, handling, orphaned,
                   userVars, events>>

\* The turn is over and its observer writes the outcome with _mark_finished, which
\* names the run by its id only ("ended" stands for completed, cancelled and
\* suspended).  Its three updates are one step: only the second is modelled, and
\* one that raises is ObserverRaises.
Observe(w, r) ==
    /\ watching[w][r] > 0
    /\ watching' = [watching EXCEPT ![w][r] = @ - 1]
    /\ \E outcome \in Settled : Mark(r, outcome)
    /\ UNCHANGED <<now, job, born, turns, expired, actorVars, handling, orphaned,
                   userVars, events>>

\* A runner whose task was cancelled on the user's request: wait_turn raises, and
\* the observer with it, CancelledError.  Nobody writes the run's outcome.
ObserverCancelled(w, r) ==
    /\ watching[w][r] > 0
    /\ watching' = [watching EXCEPT ![w][r] = @ - 1]
    /\ orphaned' = orphaned \cup {r}
    /\ UNCHANGED <<now, rowsVars, turns, expired, actorVars, handling, userVars, events>>

\* The except branch of _observe: the outcome is "failed", whatever the first
\* _mark_finished has written.
ObserverFails(w, r) ==
    /\ handling[w][r] > 0
    /\ handling' = [handling EXCEPT ![w][r] = @ - 1]
    /\ Mark(r, "failed")
    /\ UNCHANGED <<now, job, born, turns, expired, actorVars, watching, orphaned,
                   userVars, events>>

MutNextAfterRelease(a) == NextAfter(copy[a].schedule, work[a])

\* A recurring job catches up at most once: the next time is after now.
NextAfterRelease(a) ==
    NextAfter(copy[a].schedule, IF work[a] > now THEN work[a] ELSE now)

MutStillEnabled(a, next) == copy[a].enabled

\* A job that has no next time is switched off.
StillEnabled(a, next) == next # Nil /\ copy[a].enabled

\* The first update of release_after_dispatch: the schedule goes on, computed
\* from the actor's copy, unless an edit has moved it already.
Release(a) ==
    /\ place[a] = "release"
    /\ IF job.exists /\ job.next # Nil /\ job.next <= work[a]
       THEN /\ LET next == NextAfterRelease(a)
               IN job' = [job EXCEPT !.next = next, !.enabled = StillEnabled(a, next),
                                     !.owner = Nil, !.leased = FALSE]
            /\ Leave(a, Done(a))
       ELSE Goto(a, "unlease") /\ UNCHANGED <<job, copy, work>>
    /\ UNCHANGED <<now, status, held, born, turns, expired, phase, home, observerVars,
                   userVars, events>>

\* The second: a lease whose owner is the one of the copy is given up.
Unlease(a) ==
    /\ place[a] = "unlease"
    /\ job' = IF job.exists /\ job.owner = copy[a].owner
              THEN [job EXCEPT !.owner = Nil, !.leased = FALSE]
              ELSE job
    /\ Leave(a, Done(a))
    /\ UNCHANGED <<now, status, held, born, turns, expired, phase, home, observerVars,
                   userVars, events>>

-----------------------------------------------------------------------------

\* Somebody is between the claim of run r and the mark of its row.
AtWorkOn(r) == \E a \in Actors :
    place[a] \in {"job", "start", "prepared", "failing"} /\ work[a] = r

\* The dispatch lease of a run expires: because whoever claimed it is gone, or
\* (mishap "slow") while it is still at work.
RunLeaseExpires(r) ==
    /\ r \in held
    /\ IF AtWorkOn(r) THEN Mishap("slow") ELSE UNCHANGED events
    /\ held' = held \ {r}
    /\ expired' = [expired EXCEPT ![r] = @ + 1]
    /\ UNCHANGED <<now, job, status, born, turns, actorVars, observerVars, userVars>>

LeaseInUse == job.owner # Nil /\ phase[job.owner] = "due" /\ Busy(job.owner)

\* The same for the job's lease; its owner stays in the row.
JobLeaseExpires ==
    /\ job.leased
    /\ IF LeaseInUse THEN Mishap("slow") ELSE UNCHANGED events
    /\ job' = [job EXCEPT !.leased = FALSE]
    /\ UNCHANGED <<now, status, held, born, turns, expired, actorVars, observerVars, userVars>>

\* A process has an observer for run r, in one of its two places.
Attended(w, r) == watching[w][r] + handling[w][r] > 0

\* An actor is about to fail run r before (it takes it) its start.
Failing(a, r) == place[a] = "failing" /\ work[a] = r

\* A process dies or is stopped: its loop, its tasks and its observers end, the
\* runs they were at stay as they are.
Crash(w) ==
    /\ Mishap("crash")
    /\ place' = [a \in Actors |-> IF Host(a) # w THEN place[a] ELSE Raised(a)]
    /\ copy' = [a \in Actors |-> IF Host(a) # w THEN copy[a] ELSE Nil]
    /\ work' = [a \in Actors |-> IF Host(a) # w THEN work[a] ELSE Nil]
    /\ watching' = [watching EXCEPT ![w] = [r \in Runs |-> 0]]
    /\ handling' = [handling EXCEPT ![w] = [r \in Runs |-> 0]]
    /\ orphaned' = orphaned \cup {r \in Runs : \/ Attended(w, r)
                                               \/ \E a \in Actors : Host(a) = w /\ Failing(a, r)}
    /\ phase' = [phase EXCEPT ![w] = "recover"]
    /\ UNCHANGED <<now, rowsVars, turns, expired, home, userVars>>

\* A store call raises where nothing catches it but the loop.
StoreRaises(a) ==
    /\ Mishap("store")
    /\ place[a] \notin {"new", "over", "prepared"}
    /\ Leave(a, Raised(a))
    /\ phase' = [w \in Workers |-> IF w = a THEN "recover" ELSE phase[w]]
    /\ orphaned' = orphaned \cup {r \in Runs : Failing(a, r)}
    /\ UNCHANGED <<now, rowsVars, turns, expired, home, watching, handling, userVars>>

\* A store call of an observer's _mark_finished raises, before or after the run's
\* row was updated: the except branch takes over.
ObserverRaises(w, r) ==
    /\ Mishap("store")
    /\ watching[w][r] > 0
    /\ watching' = [watching EXCEPT ![w][r] = @ - 1]
    /\ handling' = [handling EXCEPT ![w][r] = @ + 1]
    /\ UNCHANGED <<status, held>> \/ \E outcome \in Settled : Mark(r, outcome)
    /\ UNCHANGED <<now, job, born, turns, expired, actorVars, orphaned, userVars>>

\* The store still raises in the except branch (the mishap is the same): if
\* neither call has updated the row, nobody will.
ObserverGivesUp(w, r) ==
    /\ handling[w][r] > 0
    /\ handling' = [handling EXCEPT ![w][r] = @ - 1]
    /\ orphaned' = orphaned \cup {r}
    /\ UNCHANGED <<now, rowsVars, turns, expired, actorVars, watching, userVars, events>>

Tick ==
    /\ now < MaxTime
    /\ now' = now + 1
    /\ UNCHANGED <<rowsVars, turns, expired, actorVars, observerVars, userVars, events>>

\* update_job reads the row ...
EditRead ==
    /\ draft = Nil
    /\ job.exists
    /\ draft' = Known(job.owner)
    /\ Event
    /\ UNCHANGED <<now, rowsVars, turns, expired, actorVars, observerVars, edited>>

\* ... and writes the fields that were sent, with the due time computed from
\* them and what it read.  A job that would never be due is refused.
EditWrite ==
    /\ draft # Nil
    /\ \E sent \in SUBSET {"enabled", "schedule"}, on \in BOOLEAN, s \in Schedules :
          LET enabled == IF "enabled" \in sent THEN on ELSE draft.enabled
              schedule == IF "schedule" \in sent THEN s ELSE draft.schedule
              next == IF enabled THEN NextFromNow(schedule) ELSE Nil
          IN /\ sent # {}
             /\ enabled => next # Nil
             /\ job' = IF ~job.exists THEN job
                       ELSE [job EXCEPT
                               !.schedule = schedule, !.next = next,
                               !.enabled = IF "enabled" \in sent THEN on ELSE @]
    /\ draft' = Nil
    /\ edited' = edited \cup {now}
    /\ UNCHANGED <<now, status, held, born, turns, expired, actorVars, observerVars, events>>

EditRefused ==
    /\ draft # Nil
    /\ draft' = Nil
    /\ UNCHANGED <<now, rowsVars, turns, expired, actorVars, observerVars, edited, events>>

DeleteJob ==
    /\ job.exists
    /\ job' = [job EXCEPT !.exists = FALSE]
    /\ Event
    /\ UNCHANGED <<now, status, held, born, turns, expired, actorVars, observerVars, userVars>>

-----------------------------------------------------------------------------
LoopStep(w) ==
    \/ RecoverClaim(w)
    \/ RecoverJob(w)
    \/ RecoverNone(w)
    \/ ClaimDue(w)
    \/ DueNone(w)
    \/ CreateRun(w)
    \/ ReadRun(w)

RunStep(a) ==
    \/ ClaimOwn(a)
    \/ Prepare(a)
    \/ Refuse(a)
    \/ MarkStarted(a)
    \/ FailBeforeStart(a)
    \/ Release(a)
    \/ Unlease(a)

ObserverStep(w, r) == Observe(w, r) \/ ObserverFails(w, r) \/ ObserverCancelled(w, r)

MishapStep ==
    \/ \E a \in Actors : MarkRaises(a) \/ StoreRaises(a)
    \/ \E w \in Workers : Crash(w) \/ \E r \in Runs : ObserverRaises(w, r) \/ ObserverGivesUp(w, r)

UserStep ==
    \/ \E w \in Workers, m \in Manuals : DispatchNow(w, m)
    \/ EditRead
    \/ EditWrite
    \/ EditRefused
    \/ DeleteJob

TasksNext ==
    \/ \E w \in Workers : LoopStep(w) \/ \E r \in Runs : ObserverStep(w, r)
    \/ \E a \in Actors : RunStep(a)
    \/ \E r \in Runs : RunLeaseExpires(r)
    \/ JobLeaseExpires
    \/ MishapStep
    \/ UserStep
    \/ Tick

TasksSpec == TasksInit /\ [][TasksNext]_tasksVars

\* The loops and tasks run on, their calls return, and leases expire; users,
\* mishaps, the clock and the turns themselves need not do anything.
TasksFairness ==
    /\ \A w \in Workers : WF_tasksVars(LoopStep(w) \/ RunStep(w))
    /\ \A m \in Manuals : WF_tasksVars(RunStep(m))
    /\ WF_tasksVars(\E r \in Runs : RunLeaseExpires(r))
    /\ WF_tasksVars(JobLeaseExpires)

TasksFairSpec == TasksSpec /\ TasksFairness

-----------------------------------------------------------------------------
\* However many dispatchers, recoveries and manual tasks take up a run, a second
\* turn is prepared for it only after its dispatch lease has expired: the run is
\* handed over by claim_pending_run alone (repository.py:193-215), and neither a
\* run that is running nor one that is settled is handed over again.
OneTurnPerLease == \A r \in Runs : turns[r] <= 1 + expired[r]

\* As long as no edit was written: two runs of the job are never created at the
\* same time, so after a downtime one missed time is caught up and the others
\* are skipped, whichever dispatchers come back together ("A recurring task
\* catches up at most once after downtime", repository.py:235).
CatchesUpOnce ==
    \A r1, r2 \in Times :
        /\ r1 # r2
        /\ status[r1] # "absent" /\ status[r2] # "absent"
        /\ \A e \in edited : e > born[r1]
        => born[r1] # born[r2]

\* An edit was written in the very unit of time for which a run exists: its due
\* time may be the run's, and a late release takes it for its own.
EditedWhenDue == \E e \in edited \cap Times : status[e] # "absent"

\* An enabled job has a due time, also when an edit is computed from a row that
\* a release has changed since, or a release from a row that was edited since: a
\* job without one would be shown as enabled and never run.
EnabledIsScheduled ==
    job.exists /\ job.enabled /\ ~EditedWhenDue => job.next # Nil

\* The schedule leaves a due time behind only when the run for it got a turn or
\* failed (the order test_scheduler_recovery.py checks for one dispatcher), or
\* when an edit or a deletion did it.
AdvancesAfterStart ==
    [][job'.next # job.next /\ draft' = draft
          => \/ turns[job.next] > 0
             \/ status[job.next] \in Settled]_tasksVars

\* A run that failed or ended is never handed over again, also when leases
\* expired; and its status changes only by a mark of a dispatcher whose lease
\* expired, or when an observer whose first _mark_finished raised overwrites it
\* with "failed" (dsh_execution.py:151-164).
SettledRunsStay ==
    [][\A r \in Runs : status[r] \in Settled
          => /\ status'[r] \in {"running"} \cup Settled
             /\ \/ status'[r] = status[r]
                \/ expired[r] > 0
                \/ status'[r] = "failed" /\ \E w \in Workers : handling[w][r] > 0]_tasksVars

\* A run shown as running has somebody who will write its outcome: an observer,
\* or a dispatcher that failed after it had marked the run.  The runs whose
\* observer is gone (its process died, its runner was cancelled, or the store
\* raised twice) are excepted: recovery takes up no running run.
RunningIsWatched ==
    \A r \in Runs \ orphaned : status[r] = "running"
        => \/ \E w \in Workers : Attended(w, r)
           \/ \E a \in Actors : Failing(a, r)

\* A due time of an enabled job gets its run, a turn or a failure, unless the user
\* edits or deletes the job; and a run asked for by hand never stays queued, though
\* its task may die before it has claimed the run.  Both whatever process dies or
\* store call raises on the way (scheduler._recover_pending takes it up).
RunsAreTakenUp ==
    /\ \A n \in Times :
          (job.exists /\ job.enabled /\ job.next = n /\ n <= now)
              ~> (status[n] \in {"running"} \cup Settled \/ job.next # n \/ ~job.exists)
    /\ \A m \in Manuals : status[m] = "queued" ~> status[m] \in {"running"} \cup Settled
=============================================================================
