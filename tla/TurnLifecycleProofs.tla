------------------------ MODULE TurnLifecycleProofs ------------------------
(* The safety properties of TurnLifecycle, for any sets of messages and      *)
(* clients, any number of slots and crashes, and any set of faults.          *)
EXTENDS TurnLifecycleTypes

-----------------------------------------------------------------------------
(* A message is claimed once, so a status once given is final. *)

PreClaim == {"new", "tidy", "recover", "repair", "sync"}

Claimed == \A m \in Messages : lock.msg = m => pc[m] \notin PreClaim

\* A runner stays a runner, or has ended.
LEMMA RunnerPlaces ==
    ASSUME Types, NEW m \in Messages, Runner(m)
    PROVE  pc[m] \in RunnerPcs /\ pc'[m] \in RunnerPcs \cup EndPcs
<1> USE Actor DEF stores, events, host, local, At
<1>1. /\ \A p : Goto(m, p) => pc'[m] = p
      /\ Finally(m) => pc'[m] \in {"suspend", "done"}
  BY Locality, FinallyLocal
<1>2. pc[m] \in RunnerPcs
  BY DEF Runner, RunnerWorks, RunnerAcquire, RunnerSend, RunnerReads, RunnerStreamBreaks, WriterPersists,
         WriterAdvances, RunnerFlushed, RunnerBreaks, RunnerFail, RunnerSettle, RunnerFinalized,
         RunnerRefinalized, RunnerEnds, RunnerPcs, SlotPcs
<1>3. CASE pc' = pc
  BY <1>2, <1>3
<1>4. CASE RunnerReads(m) /\ pc' # pc
  BY <1>1, <1>4 DEF RunnerReads, RunnerPcs, SlotPcs
<1>5. CASE RunnerFinalized(m) \/ RunnerRefinalized(m)
  BY <1>1, <1>5 DEF RunnerFinalized, RunnerRefinalized, RunnerPcs, SlotPcs, EndPcs
<1>6. CASE RunnerAcquire(m) \/ RunnerSend(m) \/ RunnerStreamBreaks(m) \/ RunnerFlushed(m) \/ RunnerBreaks(m)
           \/ RunnerFail(m) \/ RunnerSettle(m) \/ RunnerEnds(m)
  BY <1>1, <1>6 DEF RunnerAcquire, RunnerSend, RunnerStreamBreaks, RunnerFlushed, RunnerBreaks, RunnerFail,
         RunnerSettle, RunnerEnds, RunnerPcs, SlotPcs, EndPcs
<1> QED BY <1>2, <1>3, <1>4, <1>5, <1>6 DEF Runner, RunnerWorks, WriterPersists, WriterAdvances

\* Who writes the lock, and how.
LEMMA LockWrites ==
    ASSUME Types, Next
    PROVE  \/ lock' = lock
           \/ \E m \in Messages : Free(lock) /\ pc[m] = "sync" /\ lock' = Running(m) /\ pc'[m] = "append"
           \/ \E m \in Messages \cup {None}, s \in {"none"} \cup TerminalStatus :
                  lock = Running(m) /\ lock' = [lock EXCEPT !.status = s]
<1> USE DEF stores, events
<1>1. ASSUME NEW a \in Actors, JobStep(a), lock' # lock
      PROVE  \E m \in Messages \cup {None}, s \in {"none"} \cup TerminalStatus :
                  lock = Running(m) /\ lock' = [lock EXCEPT !.status = s]
  <2>1. FinishTurn(a)
    BY <1>1 DEF JobStep, ClearActiveRun, SuspendActiveRun, JobRaises
  <2>2. job[a].msg \in Messages \cup {None} /\ job[a].status \in {"none"} \cup TerminalStatus
    BY DEF Types, Jobs
  <2> QED BY <1>1, <2>1, <2>2 DEF FinishTurn
<1>2. ASSUME NEW m \in Messages, Prepare(m), lock' # lock
      PROVE  \/ Free(lock) /\ pc[m] = "sync" /\ lock' = Running(m) /\ pc'[m] = "append"
             \/ lock = Running(m) /\ lock' = [lock EXCEPT !.status = "failed"]
  <2>1. PrepareClaim(m) \/ PrepareUndo(m)
    BY <1>2 DEF Prepare, PrepareRead, PrepareTidied, PrepareRecover, PrepareRepaired, PrepareAppend, PrepareMark
  <2>2. \A p : Goto(m, p) => pc'[m] = p
    BY Actor, Locality
  <2> QED BY <1>2, <2>1, <2>2 DEF PrepareClaim, PrepareUndo, At
<1>3. ASSUME NEW m \in Messages, Runner(m) \/ Shutdown(m) \/ HostAsks(m) \/ HostEnds(m)
      PROVE  lock' = lock
  BY <1>3 DEF Runner, RunnerWorks, RunnerAcquire, RunnerSend, RunnerReads, RunnerStreamBreaks, WriterPersists,
         WriterAdvances, RunnerFlushed, RunnerBreaks, RunnerFail, RunnerSettle, RunnerFinalized,
         RunnerRefinalized, RunnerEnds, Shutdown, HostAsks, HostEnds
<1>4. ASSUME NEW k \in Clients, Client(k)
      PROVE  lock' = lock
  BY <1>4 DEF Client, CancelRead, ClientTidied, CancelGateway, CancelLookup, CancelWait,
         SnapshotRead, IngestFetch, IngestPersist, IngestAdvance, Prove, Proved, CancelInterrupt, CancelGathered, CancelLast, CancelReturns
<1>5. CASE Crash
  BY <1>5 DEF Crash
<1> QED BY <1>1, <1>2, <1>3, <1>4, <1>5 DEF Next, TerminalStatus

\* Only prepare_turn moves a message that is being prepared, and a message whose turn
\* was claimed is never prepared again.
LEMMA PlacesKept ==
    ASSUME Types, Named, Next, NEW m \in Messages, pc'[m] # pc[m]
    PROVE  \/ Prepare(m)
           \/ pc[m] \in RunnerPcs /\ pc'[m] \in RunnerPcs \cup EndPcs
           \/ Crash /\ pc'[m] = "dead"
<1> USE Actor
<1>1. ASSUME NEW a \in Actors, JobStep(a)
      PROVE  FALSE
  BY <1>1 DEF JobStep, FinishTurn, ClearActiveRun, SuspendActiveRun, JobRaises
<1>2. ASSUME NEW x \in Messages, CancelTask(x)
      PROVE  pc[m] \in RunnerPcs /\ pc'[m] \in RunnerPcs \cup EndPcs
  <2>1. x = m
    BY <1>2, CancelLocal
  <2>2. pc'[m] \in {"suspend", "done", "dead", "aborting"}
    BY <1>2, <2>1, CancelLocal
  <2>3. pc[m] \in RunnerPcs
    BY <1>2, <2>1 DEF CancelTask, RunnerPcs, SlotPcs
  <2> QED BY <2>2, <2>3 DEF RunnerPcs, SlotPcs, EndPcs
<1>3. ASSUME NEW x \in Messages, Prepare(x)
      PROVE  Prepare(m)
  BY <1>3, PrepareLocal DEF Others
<1>4. ASSUME NEW x \in Messages, Runner(x)
      PROVE  pc[m] \in RunnerPcs /\ pc'[m] \in RunnerPcs \cup EndPcs
  BY <1>4, RunnerLocal, RunnerPlaces DEF Others
<1>5. ASSUME NEW x \in Messages, HostAsks(x) \/ HostEnds(x)
      PROVE  FALSE
  BY <1>5 DEF HostAsks, HostEnds, local
<1>6. ASSUME NEW k \in Clients, Client(k)
      PROVE  pc[m] \in RunnerPcs /\ pc'[m] \in RunnerPcs \cup EndPcs
  <2>1. CancelInterrupt(k)
    BY <1>6, ClientLocal, DistinctActors DEF Others, Clients
  <2>2. target[k].msg \in Messages
    BY <2>1 DEF CancelInterrupt, Named, At, ClientPcs
  <2> QED BY <1>2, <2>1, <2>2 DEF CancelInterrupt
<1>7. CASE Crash
  BY <1>7, DistinctActors DEF Crash, Clients
<1> QED BY <1>1, <1>2, <1>3, <1>4, <1>5, <1>6, <1>7 DEF Next, Shutdown

\* claim_turn is the only way a message gets into the lock, and it is past it then.
LEMMA ClaimedStep ==
    ASSUME Types, Named, Claimed, Next
    PROVE  Claimed'
<1> SUFFICES ASSUME NEW m \in Messages, lock'.msg = m
             PROVE  pc'[m] \notin PreClaim
  BY DEF Claimed
<1>1. CASE lock.msg = m
  <2>1. pc[m] \notin PreClaim
    BY <1>1 DEF Claimed
  <2>2. CASE Prepare(m)
    <3>1. \A p : Goto(m, p) => pc'[m] = p
      BY Actor, Locality
    <3> QED BY <2>1, <2>2, <3>1 DEF Prepare, PrepareRead, PrepareTidied, PrepareRecover, PrepareRepaired,
         PrepareClaim, PrepareAppend, PrepareMark, PrepareUndo, PreClaim, At
  <2>3. CASE ~Prepare(m)
    BY <2>1, <2>3, PlacesKept DEF RunnerPcs, SlotPcs, EndPcs, PreClaim
  <2> QED BY <2>2, <2>3
<1>2. CASE lock.msg # m
  <2>1. PICK x \in Messages : lock' = Running(x) /\ pc'[x] = "append"
    BY <1>2, LockWrites DEF Types, Locks
  <2> QED BY <2>1 DEF Running, PreClaim
<1> QED BY <1>1, <1>2

\* The lock never names a message that has yet to claim it.
LEMMA ClaimedInvariant == Spec => []Claimed
<1>1. Init => Claimed
  BY DistinctActors DEF Init, Claimed, NoLock, PreClaim
<1>2. Base /\ Claimed /\ [Next]_vars => Claimed'
  BY ClaimedStep, SameTypes DEF Base, vars, stores, local, Claimed
<1> QED BY <1>1, <1>2, BaseInvariant, PTL DEF Spec

\* The first terminal status of a turn stays, whoever finalizes it and however
\* late (turn_finalization.py, finish_turn's compare-and-set).
THEOREM FirstTerminalStays == Spec => FirstTerminalWins
<1>1. Base /\ Claimed /\ [Next]_vars =>
         [Free(lock) => \/ lock' = lock
                        \/ \E m \in Messages \ {lock.msg} : lock' = Running(m)]_vars
  <2> SUFFICES ASSUME Base, Claimed, Next, Free(lock), lock' # lock
               PROVE  \E m \in Messages \ {lock.msg} : lock' = Running(m)
    BY DEF vars
  <2>1. PICK m \in Messages : pc[m] = "sync" /\ lock' = Running(m)
    BY LockWrites, SameTypes DEF Base, Free, Running
  <2>2. m # lock.msg
    BY <2>1 DEF Claimed, PreClaim
  <2> QED BY <2>1, <2>2
<1> QED BY <1>1, BaseInvariant, ClaimedInvariant, PTL DEF Spec, FirstTerminalWins

-----------------------------------------------------------------------------
(* What is said of a turn is backed by persisted rows. *)

Told(k) == \E id \in stored : Reports(id) = k
Resumable == Told("completed") /\ Told("ask")
Backed(j) == /\ j.status = "completed" => Told("completed")
             /\ j.suspend \/ j.phase = "suspend" => Resumable
Ended(m) == \E id \in ReadByRunner(m) : Reports(id) = "completed"

Durable ==
    /\ \A m \in Messages : \A k \in rows[m] : Told(k)
    /\ lock.status = "completed" => Told("completed")
    /\ sidebar.status = "suspended" => Resumable
    /\ \A a \in Actors : Backed(job[a])
    /\ \A m \in Messages : pc[m] = "flush" /\ run[m].status = "completed" => Ended(m)
    /\ \A m \in Messages : pc[m] \in {"settle", "finalize", "refinalize"} /\ run[m].status = "completed"
                               => Told("completed") /\ ReadByRunner(m) \subseteq stored

\* Rows are stored by a writer, by a failing runner, or by a reader.
LEMMA RowWrites ==
    ASSUME Types, InLog, Named, Next
    PROVE  \/ UNCHANGED <<rows, stored>>
           \/ \E m \in Messages, ids \in SUBSET Ids : Reportable(ids) /\ Store(m, ids)
<1> USE DEF stores, events, host, local
<1>1. ASSUME NEW m \in Messages, Prepare(m) \/ Shutdown(m) \/ HostAsks(m) \/ HostEnds(m)
      PROVE  UNCHANGED <<rows, stored>>
  BY <1>1 DEF Prepare, PrepareRead, PrepareTidied, PrepareRecover, PrepareRepaired, PrepareClaim,
         PrepareAppend, PrepareMark, PrepareUndo, Shutdown, HostAsks, HostEnds
<1>2. ASSUME NEW m \in Messages, Runner(m)
      PROVE  UNCHANGED <<rows, stored>> \/ \E ids \in SUBSET Ids : Reportable(ids) /\ Store(m, ids)
  <2>1. CASE WriterPersists(m)
    <3>1. Reportable(ReadByRunner(m))
      BY ReadTypes, SameTypes DEF InLog
    <3> QED BY <2>1, <3>1 DEF WriterPersists, Reportable
  <2>2. CASE RunnerFail(m)
    <3>1. pc[m] \in {"fail", "ended"} /\ run[m].pos \in Nat
      BY <2>2 DEF RunnerFail, Runs, Types
    <3>2. Reportable({<<pc[m], run[m].pos>>})
      BY <3>1 DEF Reportable, Ids
    <3> QED BY <2>2, <3>2 DEF RunnerFail, Reportable
  <2> QED BY <1>2, <2>1, <2>2 DEF Runner, RunnerWorks, RunnerAcquire, RunnerSend, RunnerReads, RunnerStreamBreaks,
         WriterAdvances, RunnerFlushed, RunnerBreaks, RunnerSettle, RunnerFinalized, RunnerRefinalized, RunnerEnds
<1>3. ASSUME NEW k \in Clients, Client(k)
      PROVE  UNCHANGED <<rows, stored>>
             \/ \E m \in Messages, ids \in SUBSET Ids : Reportable(ids) /\ Store(m, ids)
  <2>1. CASE IngestPersist(k)
    <3>1. target[k].msg \in Messages
      BY <2>1 DEF IngestPersist, Named, At, ClientPcs
    <3>2. Reportable(Fetched(k))
      BY Actor, FetchedTypes, SameTypes DEF InLog, Logged
    <3> QED BY <2>1, <3>1, <3>2 DEF IngestPersist, Reportable
  <2> QED BY <1>3, <2>1 DEF Client, CancelRead, ClientTidied, CancelGateway, CancelLookup, CancelWait,
         SnapshotRead, IngestFetch, IngestAdvance, Prove, Proved, CancelInterrupt, CancelGathered, CancelLast, CancelReturns
<1>4. ASSUME NEW a \in Actors, JobStep(a)
      PROVE  UNCHANGED <<rows, stored>>
  BY <1>4 DEF JobStep, FinishTurn, ClearActiveRun, SuspendActiveRun, JobRaises
<1>5. CASE Crash
  BY <1>5 DEF Crash
<1> QED BY <1>1, <1>2, <1>3, <1>4, <1>5 DEF Next

\* What the journal and the rows say they go on saying.
LEMMA ReportStays ==
    ASSUME LogGrows, NEW k \in {"log", "gateway", "fail", "ended"}, NEW p \in Nat, k = "log" => p \in 1..Len(log)
    PROVE  Reports(<<k, p>>)' = Reports(<<k, p>>)
BY DEF Reports, LogGrows

\* Once told, told for good: rows are never removed and never change.
LEMMA Stays ==
    ASSUME Types, InLog, Named, Next
    PROVE  /\ stored \subseteq stored'
           /\ \A k : Told(k) => Told(k)'
           /\ \A m \in Messages : run'[m] = run[m] =>
                  ReadByRunner(m)' = ReadByRunner(m) /\ (Ended(m) => Ended(m)')
<1>1. stored \subseteq stored'
  BY RowWrites DEF Store
<1>2. \A ids : Reportable(ids) => \A id \in ids : Reports(id)' = Reports(id)
  BY LogStep, ReportStays DEF Reportable, Ids
<1>3. Reportable(stored)
  BY DEF Types, InLog, Logged, Reportable
<1>4. \A k : Told(k) => Told(k)'
  BY <1>1, <1>2, <1>3 DEF Told
<1>5. ASSUME NEW m \in Messages, run'[m] = run[m]
      PROVE  ReadByRunner(m)' = ReadByRunner(m) /\ (Ended(m) => Ended(m)')
  <2>1. ReadByRunner(m)' = ReadByRunner(m)
    BY <1>5 DEF ReadByRunner
  <2>2. Reportable(ReadByRunner(m))
    BY ReadTypes, SameTypes DEF InLog
  <2>3. \A id \in ReadByRunner(m) : Reports(id)' = Reports(id)
    BY <1>2, <2>2
  <2> QED BY <2>1, <2>3 DEF Ended
<1> QED BY <1>1, <1>4, <1>5

\* The rows of every message stay among those of the session.
LEMMA RowsToldStep ==
    ASSUME Types, InLog, Named, Next, \A m \in Messages : \A k \in rows[m] : Told(k)
    PROVE  \A m \in Messages : \A k \in rows'[m] : Told(k)'
<1>1. CASE UNCHANGED <<rows, stored>>
  BY <1>1, Stays
<1>2. ASSUME NEW x \in Messages, NEW ids \in SUBSET Ids, Reportable(ids), Store(x, ids)
      PROVE  \A m \in Messages : \A k \in rows'[m] : Told(k)'
  <2>1. \A id \in ids : Reports(id)' = Reports(id)
    BY <1>2, LogStep, ReportStays DEF Reportable, Ids
  <2>2. ids \subseteq stored'
    BY <1>2 DEF Store
  <2>3. \A id \in ids : \A k : k = Reports(id) => Told(k)'
    BY <2>1, <2>2 DEF Told
  <2>4. \A m \in Messages : \A k \in rows'[m] : k \in rows[m] \/ \E id \in ids : k = Reports(id)
    BY <1>2 DEF Store, Types
  <2>5. \A k : Told(k) => Told(k)'
    BY Stays
  <2> QED BY <2>3, <2>4, <2>5
<1> QED BY <1>1, <1>2, RowWrites

\* A step that disturbs one actor keeps Durable if it does for that actor.
LEMMA DurableFor ==
    ASSUME Types, InLog, Named, Durable, Next, NEW a \in Actors,
           \A x \in Actors \ {a} : pc'[x] = pc[x] /\ job'[x] = job[x],
           \A m \in Messages \ {a} : run'[m] = run[m],
           lock'.status = "completed" => Told("completed"),
           sidebar'.status = "suspended" => Resumable,
           Backed(job'[a]),
           a \in Messages /\ pc'[a] = "flush" /\ run'[a].status = "completed" => Ended(a)',
           a \in Messages /\ pc'[a] \in {"settle", "finalize", "refinalize"} /\ run'[a].status = "completed"
               => Told("completed") /\ run'[a] = run[a] /\ ReadByRunner(a) \subseteq stored
    PROVE  Durable'
<1>1. /\ Told("completed") => Told("completed")'
      /\ Resumable => Resumable'
      /\ stored \subseteq stored'
  BY Stays DEF Resumable
<1>2. \A m \in Messages : run'[m] = run[m] =>
                  ReadByRunner(m)' = ReadByRunner(m) /\ (Ended(m) => Ended(m)')
  BY Stays
<1>3. \A m \in Messages : \A k \in rows'[m] : Told(k)'
  BY RowsToldStep DEF Durable
<1>4. \A x \in Actors : Backed(job[x])'
  <2>1. \A x \in Actors : Backed(job'[x])
    BY DEF Durable
  <2> QED BY <1>1, <2>1 DEF Backed
<1>5. \A m \in Messages : pc'[m] = "flush" /\ run'[m].status = "completed" => Ended(m)'
  BY <1>2, Actor DEF Durable
<1>6. ASSUME NEW m \in Messages, pc'[m] \in {"settle", "finalize", "refinalize"}, run'[m].status = "completed"
      PROVE  Told("completed")' /\ (ReadByRunner(m) \subseteq stored)'
  <2>1. run'[m] = run[m] /\ ReadByRunner(m) \subseteq stored /\ Told("completed")
    BY <1>6, Actor DEF Durable
  <2> QED BY <1>1, <1>2, <2>1
<1> QED BY <1>1, <1>3, <1>4, <1>5, <1>6 DEF Durable

\* A finalization writes what its job says.
LEMMA JobDurable ==
    ASSUME Types, InLog, Named, Durable, Next, NEW a \in Actors, JobStep(a)
    PROVE  Durable'
<1> USE Actor DEF stores, events, host, local
<1>1. UNCHANGED <<pc, run>> /\ \A x \in Actors \ {a} : job'[x] = job[x]
  BY JobLocal DEF JobStep, FinishTurn, ClearActiveRun, SuspendActiveRun, JobRaises
<1>2. job[a] \in Jobs /\ job \in [Actors -> Jobs] /\ lock \in Locks
  BY DEF Types
<1>3. \A p \in JobPhases : SetPhase(a, p) =>
         /\ job'[a].status = job[a].status \/ job'[a].status = "none"
         /\ job'[a].suspend = job[a].suspend \/ job'[a].suspend = FALSE
         /\ job'[a].phase = p
  <2> SUFFICES ASSUME NEW p \in JobPhases, SetPhase(a, p)
               PROVE  /\ job'[a].status = job[a].status \/ job'[a].status = "none"
                      /\ job'[a].suspend = job[a].suspend \/ job'[a].suspend = FALSE
                      /\ job'[a].phase = p
    OBVIOUS
  <2>1. CASE p \in {"ok", "raised"}
    <3>1. job'[a] = [NoJob EXCEPT !.phase = p]
      BY <1>2, <2>1 DEF SetPhase
    <3> QED BY <3>1 DEF NoJob
  <2>2. CASE p \notin {"ok", "raised"}
    <3>1. job'[a] = [job[a] EXCEPT !.phase = p]
      BY <1>2, <2>2 DEF SetPhase
    <3> QED BY <1>2, <3>1 DEF Jobs
  <2> QED BY <2>1, <2>2
<1>4. AfterClear(a) = "suspend" => job[a].suspend
  BY DEF AfterClear
<1>5. AfterClear(a) \in JobPhases
  BY DEF AfterClear, JobPhases
<1>10. /\ a \in Messages /\ pc'[a] = "flush" /\ run'[a].status = "completed" => Ended(a)'
       /\ a \in Messages /\ pc'[a] \in {"settle", "finalize", "refinalize"} /\ run'[a].status = "completed"
               => Told("completed") /\ run'[a] = run[a] /\ ReadByRunner(a) \subseteq stored
  BY <1>1, Stays DEF Durable
<1>6. CASE FinishTurn(a)
  <2>1. lock'.status = "completed" => Told("completed")
    BY <1>2, <1>6 DEF FinishTurn, Locks, Durable, Backed
  <2>2. PICK p \in JobPhases : SetPhase(a, p) /\ (p = "suspend" => job[a].suspend)
    BY <1>4, <1>5, <1>6 DEF FinishTurn, JobPhases
  <2>3. Backed(job'[a])
    BY <1>3, <2>2 DEF Durable, Backed
  <2>4. sidebar'.status = "suspended" => Resumable
    BY <1>6 DEF FinishTurn, Durable
  <2> QED BY <1>1, <1>10, <2>1, <2>3, <2>4, DurableFor
<1>7. CASE ClearActiveRun(a)
  <2>1. lock'.status = "completed" => Told("completed")
    BY <1>7 DEF ClearActiveRun, Durable
  <2>2. PICK p \in JobPhases : SetPhase(a, p) /\ (p = "suspend" => job[a].suspend)
    BY <1>4, <1>5, <1>7 DEF ClearActiveRun
  <2>3. Backed(job'[a])
    BY <1>3, <2>2 DEF Durable, Backed
  <2>4. sidebar'.status = "suspended" => Resumable
    BY <1>7 DEF ClearActiveRun, Durable, NoLock
  <2> QED BY <1>1, <1>10, <2>1, <2>3, <2>4, DurableFor
<1>8. CASE SuspendActiveRun(a)
  <2>1. lock'.status = "completed" => Told("completed")
    BY <1>8 DEF SuspendActiveRun, Durable
  <2>2. SetPhase(a, "ok") /\ "ok" \in JobPhases
    BY <1>8 DEF SuspendActiveRun, JobPhases
  <2>3. Backed(job'[a])
    BY <1>3, <2>2 DEF Durable, Backed
  <2>4. sidebar'.status = "suspended" => Resumable
    BY <1>8 DEF SuspendActiveRun, Durable, Backed
  <2> QED BY <1>1, <1>10, <2>1, <2>3, <2>4, DurableFor
<1>9. CASE JobRaises(a)
  <2>1. lock'.status = "completed" => Told("completed")
    BY <1>9 DEF JobRaises, Durable
  <2>2. SetPhase(a, "raised") /\ "raised" \in JobPhases
    BY <1>9 DEF JobRaises, JobPhases
  <2>3. Backed(job'[a])
    BY <1>3, <2>2 DEF Durable, Backed
  <2>4. sidebar'.status = "suspended" => Resumable
    BY <1>9 DEF JobRaises, Durable
  <2> QED BY <1>1, <1>10, <2>1, <2>3, <2>4, DurableFor
<1> QED BY <1>6, <1>7, <1>8, <1>9 DEF JobStep

\* The finalizations that actors start are backed by what is stored.
LEMMA BackedJobs ==
    ASSUME Types, Durable
    PROVE  /\ \A m, c : Backed(Finalization(m, "failed", c, FALSE)) /\ Backed(Finalization(m, "cancelled", c, FALSE))
           /\ \A m, s, c : (s = "completed" => Told("completed")) => Backed(Finalization(m, s, c, FALSE))
           /\ Backed(NoJob)
           /\ \A m : Resumable => Backed(Suspension(m))
           /\ \A m \in Messages : \A s \in terminal[m] : Backed(ProvenFinalization(m, s))
<1>1. \A m \in Messages : \A s \in terminal[m] : s \in rows[m]
  BY DEF terminal
<1>2. ASSUME NEW m \in Messages, NEW s \in terminal[m]
      PROVE  Backed(ProvenFinalization(m, s))
  <2> DEFINE j == ProvenFinalization(m, s)
  <2>1. /\ j.status = s /\ j.phase = "finish"
        /\ j.suspend <=> s = "completed" /\ "ask" \in rows[m]
    BY DEF ProvenFinalization, Finalization
  <2>2. \A k \in rows[m] : Told(k)
    BY DEF Durable
  <2> HIDE DEF j
  <2>3. Backed(j)
    BY <1>1, <2>1, <2>2 DEF Backed, Resumable
  <2> QED BY <2>3 DEF j
<1> QED BY <1>2 DEF Finalization, Suspension, NoJob, Backed

\* prepare_turn settles an earlier turn by what is persisted of it.
LEMMA PrepareDurable ==
    ASSUME Types, InLog, Named, Durable, Next, NEW m \in Messages, Prepare(m)
    PROVE  Durable'
<1> USE Actor DEF stores, events, host, local
<1>1. /\ \A x \in Actors \ {m} : pc'[x] = pc[x] /\ job'[x] = job[x]
      /\ \A x \in Messages \ {m} : run'[x] = run[x]
      /\ \A p : Goto(m, p) => pc'[m] = p
      /\ \A j : StartJob(m, j) => job'[m] = j
  BY PrepareLocal, Locality DEF Others, OtherRuns
<1>2. pc'[m] \notin {"flush", "settle", "finalize", "refinalize"}
  BY <1>1 DEF Prepare, PrepareRead, PrepareTidied, PrepareRecover, PrepareRepaired,
         PrepareClaim, PrepareAppend, PrepareMark, PrepareUndo
<1>3. lock'.status = "completed" => Told("completed")
  <2>1. lock' \in {lock, Running(m), [lock EXCEPT !.status = "failed"]}
    BY DEF Prepare, PrepareRead, PrepareTidied, PrepareRecover, PrepareRepaired,
         PrepareClaim, PrepareAppend, PrepareMark, PrepareUndo
  <2>2. Running(m).status # "completed" /\ [lock EXCEPT !.status = "failed"].status # "completed"
    BY DEF Running, Types, Locks
  <2> QED BY <2>1, <2>2 DEF Durable
<1>4. sidebar'.status = "suspended" => Resumable
  <2>1. sidebar' \in {sidebar, Running(m)}
    BY DEF Prepare, PrepareRead, PrepareTidied, PrepareRecover, PrepareRepaired,
         PrepareClaim, PrepareAppend, PrepareMark, PrepareUndo
  <2>2. Running(m).status # "suspended"
    BY DEF Running
  <2> QED BY <2>1, <2>2 DEF Durable
<1>5. Backed(job'[m])
  <2>1. CASE job' = job
    BY <2>1 DEF Durable
  <2>2. CASE PrepareRead(m) /\ job' # job
    <3>1. job'[m] = Finalization(lock.msg, lock.status, TRUE, FALSE)
      BY <1>1, <2>2 DEF PrepareRead
    <3> QED BY <3>1, BackedJobs DEF Durable
  <2>3. CASE PrepareRecover(m) /\ job' # job
    <3>1. target[m].msg \in Messages
      BY <2>3 DEF PrepareRecover, Named
    <3>2. \/ \E s \in terminal[target[m].msg] : job'[m] = ProvenFinalization(target[m].msg, s)
          \/ job'[m] = Finalization(target[m].msg, "failed", TRUE, FALSE)
      BY <1>1, <2>3 DEF PrepareRecover
    <3> QED BY <3>1, <3>2, BackedJobs
  <2> QED BY <2>1, <2>2, <2>3 DEF Prepare, PrepareTidied, PrepareRepaired,
         PrepareClaim, PrepareAppend, PrepareMark, PrepareUndo
<1> QED BY <1>1, <1>2, <1>3, <1>4, <1>5, DurableFor

\* The finally clause suspends a turn that is known to be completed only.
LEMMA FinallyDurable ==
    ASSUME Types, InLog, Named, Durable, Next, NEW m \in Messages, Finally(m),
           pc[m] \in {"settle", "finalize", "refinalize"}, UNCHANGED <<lock, sidebar>>
    PROVE  Durable'
<1> USE Actor
<1>1. /\ \A x \in Actors \ {m} : pc'[x] = pc[x] /\ job'[x] = job[x]
      /\ \A x \in Messages \ {m} : run'[x] = run[x]
      /\ pc'[m] \in {"suspend", "done"}
      /\ \A j : StartJob(m, j) => job'[m] = j
  BY FinallyLocal, Locality DEF OtherRuns
<1>2. Saw(m) /\ run[m].status = "completed" => Resumable
  <2>1. run[m].status = "completed" => Told("completed") /\ ReadByRunner(m) \subseteq stored
    BY DEF Durable
  <2> QED BY <2>1 DEF Saw, Resumable, Told
<1>3. Backed(job'[m])
  <2>1. job'[m] = NoJob \/ (job'[m] = Suspension(m) /\ Resumable)
    BY <1>1, <1>2 DEF Finally
  <2> QED BY <2>1, BackedJobs
<1> QED BY <1>1, <1>3, DurableFor DEF Durable

\* A cancelled task is cancelled, or suspended if its completion is persisted.
LEMMA CancelDurable ==
    ASSUME Types, InLog, Named, Durable, Next, NEW m \in Messages, CancelTask(m), UNCHANGED <<lock, sidebar>>
    PROVE  Durable'
<1> USE Actor
<1>1. CASE Finally(m) /\ pc[m] \in {"settle", "finalize", "refinalize"}
  BY <1>1, FinallyDurable
<1>2. CASE ~(Finally(m) /\ pc[m] \in {"settle", "finalize", "refinalize"})
  <2>1. /\ \A x \in Actors \ {m} : pc'[x] = pc[x] /\ job'[x] = job[x]
        /\ \A x \in Messages \ {m} : run'[x] = run[x]
        /\ pc'[m] \in {"suspend", "done", "dead", "aborting"}
        /\ \A j : StartJob(m, j) => job'[m] = j
    BY CancelLocal, Locality DEF OtherRuns
  <2>2. job'[m] = NoJob \/ job'[m] = Finalization(m, "cancelled", TRUE, FALSE)
    BY <1>2, <2>1 DEF CancelTask
  <2>3. Backed(job'[m])
    BY <2>2, BackedJobs
  <2> QED BY <2>1, <2>3, DurableFor DEF Durable
<1> QED BY <1>1, <1>2

\* The runner settles as completed only after its flush.
LEMMA RunnerDurable ==
    ASSUME Types, InLog, Named, Durable, Next, NEW m \in Messages, Runner(m)
    PROVE  Durable'
<1> USE Actor DEF stores, events, host, local, At
<1>1. /\ \A x \in Actors \ {m} : pc'[x] = pc[x] /\ job'[x] = job[x]
      /\ \A x \in Messages \ {m} : run'[x] = run[x]
      /\ \A p : Goto(m, p) => pc'[m] = p
      /\ \A j : StartJob(m, j) => job'[m] = j
      /\ run[m] \in Runs
  BY RunnerLocal, Locality DEF Others, OtherRuns, Types
<1>2. /\ lock'.status = "completed" => Told("completed")
      /\ sidebar'.status = "suspended" => Resumable
      /\ UNCHANGED <<lock, sidebar>>
  <2>1. UNCHANGED <<lock, sidebar>>
    BY DEF Runner, RunnerWorks, RunnerAcquire, RunnerSend, RunnerReads, RunnerStreamBreaks, WriterPersists,
         WriterAdvances, RunnerFlushed, RunnerBreaks, RunnerFail, RunnerSettle, RunnerFinalized,
         RunnerRefinalized, RunnerEnds
  <2> QED BY <2>1 DEF Durable
<1>3. CASE job' = job /\ run' = run /\ pc' = pc
  <2>1. pc'[m] = "flush" /\ run'[m].status = "completed" => Ended(m)'
    BY <1>3, Stays DEF Durable
  <2> QED BY <1>1, <1>2, <1>3, <2>1, DurableFor DEF Durable
<1>4. CASE job' = job /\ pc'[m] \notin {"flush", "settle", "finalize", "refinalize"}
  BY <1>1, <1>2, <1>4, DurableFor DEF Durable
<1>5. CASE RunnerReads(m) /\ pc'[m] = "flush" /\ pc' # pc
  <2>1. /\ run[m].base \in Nat /\ run[m].pos \in Nat /\ run[m].base <= run[m].pos
        /\ pc[m] = "stream" /\ ~run[m].broken
    BY <1>1, <1>5 DEF RunnerReads, Runs, InLog, Logged, Points
  <2>2. PICK p \in Nat : p = run[m].pos + 1
    BY <2>1
  <2>3. run'[m] = [run[m] EXCEPT !.pos = p, !.status = log[p].what]
    BY <1>5, <1>1, <2>2 DEF RunnerReads, Types
  <2>4. /\ run'[m].pos = p /\ run'[m].base = run[m].base /\ ~run'[m].broken
        /\ run'[m].status = log[p].what
    BY <1>1, <2>1, <2>3 DEF Runs
  <2>5. job' = job /\ log' = log
    BY <1>5 DEF RunnerReads
  <2>6. <<"log", p>> \in ReadByRunner(m)'
    BY <2>1, <2>2, <2>4 DEF ReadByRunner
  <2>7. Reports(<<"log", p>>)' = log[p].what
    BY <2>5 DEF Reports
  <2>8. run'[m].status = "completed" => Ended(m)'
    BY <2>4, <2>6, <2>7 DEF Ended
  <2> QED BY <1>1, <1>2, <1>5, <2>5, <2>8, DurableFor DEF Durable
<1>6. CASE RunnerStreamBreaks(m) \/ RunnerFail(m)
  <2>1. run'[m].status = "failed" /\ job' = job
    BY <1>1, <1>6 DEF RunnerStreamBreaks, RunnerFail, Types, Runs
  <2> QED BY <1>1, <1>2, <2>1, DurableFor DEF Durable
<1>7. CASE RunnerFlushed(m)
  <2>1. /\ pc[m] = "flush" /\ pc'[m] = "settle" /\ run' = run /\ job' = job
        /\ ReadByRunner(m) \subseteq stored
    BY <1>1, <1>7 DEF RunnerFlushed
  <2>2. run[m].status = "completed" => Told("completed")
    BY <2>1 DEF Durable, Ended, Told
  <2> QED BY <1>1, <1>2, <2>1, <2>2, DurableFor DEF Durable
<1>8. CASE RunnerSettle(m) \/ (RunnerFinalized(m) /\ ~Finally(m))
  <2>1. /\ pc[m] \in {"settle", "finalize"} /\ pc'[m] \in {"finalize", "refinalize"}
        /\ run'[m] = run[m] \/ run'[m].status = "failed"
        /\ \/ job'[m] = Finalization(m, "failed", TRUE, FALSE)
           \/ pc[m] = "settle" /\ \E c : job'[m] = Finalization(m, run[m].status, c, FALSE)
    <3>1. CASE RunnerSettle(m)
      <4>1. CASE StartJob(m, Finalization(m, run[m].status, ~Saw(m), FALSE)) /\ Goto(m, "finalize") /\ UNCHANGED run
        <5>1. job'[m] = Finalization(m, run[m].status, ~Saw(m), FALSE) /\ pc'[m] = "finalize"
          BY <1>1, <4>1
        <5>2. pc[m] = "settle"
          BY <3>1 DEF RunnerSettle
        <5> HIDE DEF Saw
        <5> QED BY <4>1, <5>1, <5>2
      <4>2. CASE /\ StartJob(m, Finalization(m, "failed", TRUE, FALSE)) /\ Goto(m, "refinalize")
                 /\ run' = [run EXCEPT ![m].status = "failed"]
        BY <1>1, <3>1, <4>2 DEF RunnerSettle, Types, Runs
      <4> QED BY <3>1, <4>1, <4>2 DEF RunnerSettle
    <3>2. CASE RunnerFinalized(m) /\ ~Finally(m)
      <4>1. /\ StartJob(m, Finalization(m, "failed", TRUE, FALSE)) /\ Goto(m, "refinalize")
            /\ run' = [run EXCEPT ![m].status = "failed"] /\ pc[m] = "finalize"
        BY <3>2 DEF RunnerFinalized
      <4>2. run'[m].status = "failed"
        BY <1>1, <4>1 DEF Types, Runs
      <4> QED BY <1>1, <4>1, <4>2
    <3> QED BY <1>8, <3>1, <3>2
  <2>2. run[m].status = "completed" => Told("completed") /\ ReadByRunner(m) \subseteq stored
    BY <2>1 DEF Durable
  <2>3. Backed(job'[m])
    BY <2>1, <2>2, BackedJobs
  <2> QED BY <1>1, <1>2, <2>1, <2>2, <2>3, DurableFor
<1>9. CASE Finally(m) /\ (RunnerFinalized(m) \/ RunnerRefinalized(m))
  BY <1>2, <1>9, FinallyDurable DEF RunnerFinalized, RunnerRefinalized
<1>10. ASSUME RunnerAcquire(m) \/ RunnerSend(m) \/ RunnerBreaks(m) \/ RunnerEnds(m)
       PROVE  job' = job /\ pc'[m] \notin {"flush", "settle", "finalize", "refinalize"}
  BY <1>1, <1>10 DEF RunnerAcquire, RunnerSend, RunnerBreaks, RunnerEnds
<1>11. ASSUME WriterPersists(m) \/ WriterAdvances(m)
       PROVE  job' = job /\ run' = run /\ pc' = pc
  BY <1>11 DEF WriterPersists, WriterAdvances
<1>12. ASSUME RunnerReads(m)
       PROVE  \/ pc'[m] = "flush" /\ pc' # pc
              \/ job' = job /\ pc'[m] \notin {"flush", "settle", "finalize", "refinalize"}
  BY <1>1, <1>12 DEF RunnerReads
<1> QED BY <1>3, <1>4, <1>5, <1>6, <1>7, <1>8, <1>9, <1>10, <1>11, <1>12 DEF Runner, RunnerWorks, RunnerRefinalized

\* cancel and snapshot finalize what is persisted, or as cancelled.
LEMMA ClientDurable ==
    ASSUME Types, InLog, Named, Durable, Next, NEW k \in Clients, Client(k)
    PROVE  Durable'
<1> USE Actor DEF stores, events, host, local
<1>1. UNCHANGED <<lock, sidebar>>
  BY DEF Client, CancelRead, ClientTidied, CancelGateway, CancelLookup, CancelWait,
         SnapshotRead, IngestFetch, IngestPersist, IngestAdvance, Prove, Proved, CancelInterrupt, CancelGathered, CancelLast, CancelReturns
<1>2. CASE CancelInterrupt(k)
  <2>1. target[k].msg \in Messages
    BY <1>2 DEF CancelInterrupt, Named, At, ClientPcs
  <2> QED BY <1>1, <1>2, <2>1, CancelDurable DEF CancelInterrupt
<1>3. CASE ~CancelInterrupt(k)
  <2>1. /\ \A x \in Actors \ {k} : pc'[x] = pc[x] /\ job'[x] = job[x]
        /\ run' = run /\ k \notin Messages
        /\ \A j : StartJob(k, j) => job'[k] = j
    BY <1>3, ClientLocal, Locality, DistinctActors DEF Others, Clients
  <2>2. Backed(job'[k])
    <3>1. CASE job' = job
      BY <3>1 DEF Durable
    <3>2. CASE CancelRead(k) /\ job' # job
      <4>1. job'[k] = Finalization(lock.msg, lock.status, TRUE, FALSE)
        BY <2>1, <3>2 DEF CancelRead
      <4> QED BY <4>1, BackedJobs DEF Durable
    <3>3. CASE Prove(k) /\ job' # job
      <4>1. target[k].msg \in Messages
        BY <3>3 DEF Prove, Named, At, ClientPcs
      <4>2. \E s \in terminal[target[k].msg] : job'[k] = ProvenFinalization(target[k].msg, s)
        BY <2>1, <3>3 DEF Prove
      <4> QED BY <4>1, <4>2, BackedJobs
    <3>4. CASE CancelLast(k)
      <4>1. job'[k] = Finalization(target[k].msg, "cancelled", TRUE, FALSE) \/ job'[k] = NoJob
        BY <2>1, <3>4 DEF CancelLast
      <4> QED BY <4>1, BackedJobs
    <3> QED BY <1>3, <3>1, <3>2, <3>3, <3>4 DEF Client, ClientTidied, CancelGateway, CancelLookup, CancelWait,
         SnapshotRead, IngestFetch, IngestPersist, IngestAdvance, Proved, CancelGathered, CancelReturns
  <2>3. lock'.status = "completed" => Told("completed")
    BY <1>1 DEF Durable
  <2>4. sidebar'.status = "suspended" => Resumable
    BY <1>1 DEF Durable
  <2> QED BY <2>1, <2>2, <2>3, <2>4, DurableFor
<1> QED BY <1>2, <1>3

\* Every step keeps Durable.
LEMMA DurableStep ==
    ASSUME Types, InLog, Named, Durable, Next
    PROVE  Durable'
<1> USE Actor DEF stores, events, host, local
<1>1. ASSUME NEW m \in Messages, Shutdown(m)
      PROVE  Durable'
  BY <1>1, CancelDurable DEF Shutdown
<1>2. ASSUME NEW m \in Messages, HostAsks(m) \/ HostEnds(m)
      PROVE  Durable'
  <2>1. UNCHANGED <<pc, job, run, lock, sidebar>>
    BY <1>2 DEF HostAsks, HostEnds
  <2>2. pc'[m] = "flush" /\ run'[m].status = "completed" => Ended(m)'
    BY <2>1, Stays DEF Durable
  <2> QED BY <2>1, <2>2, DurableFor DEF Durable
<1>3. CASE Crash
  <2>1. /\ \A m \in Messages : pc'[m] \notin {"flush", "settle", "finalize", "refinalize"}
        /\ \A a \in Actors : job'[a] = NoJob
        /\ UNCHANGED <<lock, sidebar, rows, stored, log>>
    BY <1>3, DistinctActors DEF Crash, EndPcs, Clients
  <2>2. \A a \in Actors : Backed(job[a])'
    BY <2>1 DEF Backed, NoJob
  <2>3. \A m \in Messages : \A k \in rows'[m] : Told(k)'
    BY RowsToldStep DEF Durable
  <2>4. /\ lock'.status = "completed" => Told("completed")'
        /\ sidebar'.status = "suspended" => Resumable'
    BY <2>1, Stays DEF Durable, Resumable
  <2> QED BY <2>1, <2>2, <2>3, <2>4 DEF Durable
<1> QED BY <1>1, <1>2, <1>3, JobDurable, PrepareDurable, RunnerDurable, ClientDurable DEF Next

\* What is said of a turn is backed by rows, in every reachable state.
LEMMA DurableInvariant == Spec => []Durable
<1>1. Init => Durable
  <2> SUFFICES ASSUME Init PROVE Durable
    OBVIOUS
  <2>1. \A a \in Actors : Backed(job[a])
    BY DEF Init, Backed, NoJob
  <2>2. \A m \in Messages : pc[m] = "new" /\ rows[m] = {}
    BY Actor DEF Init
  <2> QED BY <2>1, <2>2 DEF Durable, Init, NoLock
<1>2. Base /\ Durable /\ [Next]_vars => Durable'
  <2> SUFFICES ASSUME Base, Durable, [Next]_vars PROVE Durable'
    OBVIOUS
  <2>1. CASE Next
    BY <2>1, DurableStep, SameTypes DEF Base
  <2>2. CASE UNCHANGED vars
    BY <2>2 DEF vars, stores, events, host, local, Durable, Told, Resumable, Backed, Ended, ReadByRunner, Reports
  <2> QED BY <2>1, <2>2
<1> QED BY <1>1, <1>2, BaseInvariant, PTL DEF Spec

\* A turn is recorded as completed only on a persisted completion (turn_runner's
\* flush before it settles, finalize_persisted_terminal).
THEOREM CompletionIsDurable == Spec => []CompletedIsDurable
<1>1. Durable => CompletedIsDurable
  BY DEF Durable, CompletedIsDurable, Told
<1> QED BY <1>1, DurableInvariant, PTL

\* A conversation is shown as resumable only when the rows of its session hold an
\* intervention and a completion, of whichever turns (turn_runner's finally clause,
\* finalize_persisted_terminal).
THEOREM SuspensionIsProven == Spec => []SuspendedIsProven
<1>1. Durable => SuspendedIsProven
  BY DEF Durable, SuspendedIsProven, Resumable, Told
<1> QED BY <1>1, DurableInvariant, PTL

-----------------------------------------------------------------------------
(* Without users of cancel or snapshot, and without the ten-minute fallback, *)
(* a turn that is prepared, waits or streams has its lock and its sidebar.    *)

Holding == {"append", "mark", "undo", "queued", "send", "stream"}
Shown == {"queued", "send", "stream"}
InJob(j) == j.phase \in {"finish", "clear", "suspend"}

Early == PreClaim \cup Holding

\* A turn that holds its lock or has yet to claim it has no terminal row and no
\* finalization under way, and has read nothing terminal.
Undisturbed ==
    /\ \A m \in Messages : pc[m] \in Holding => lock = Running(m)
    /\ \A m \in Messages : pc[m] \in Shown => sidebar = Running(m)
    /\ \A m \in Messages : pc[m] \in Early => rows[m] \cap TerminalStatus = {}
    /\ \A a \in Actors, m \in Messages : InJob(job[a]) /\ job[a].msg = m => pc[m] \notin Early
    /\ \A m \in Messages : pc[m] \in Holding => \A id \in ReadByRunner(m) : Reports(id) \notin TerminalStatus

\* What a runner has read does not change under it.
LEMMA ReadStays ==
    ASSUME Types, InLog, Named, Next, NEW m \in Messages, run'[m] = run[m]
    PROVE  (\A id \in ReadByRunner(m) : Reports(id) \notin TerminalStatus)
               => \A id \in ReadByRunner(m)' : Reports(id)' \notin TerminalStatus
<1>1. ReadByRunner(m)' = ReadByRunner(m)
  BY Stays
<1>2. Reportable(ReadByRunner(m))
  BY ReadTypes, SameTypes DEF InLog
<1>3. \A id \in ReadByRunner(m) : Reports(id)' = Reports(id)
  BY <1>2, LogStep, ReportStays DEF Reportable, Ids
<1> QED BY <1>1, <1>3

\* A step that disturbs one message keeps Undisturbed if it does for that message.
LEMMA UndisturbedFor ==
    ASSUME Types, InLog, Named, Undisturbed, Next, NEW m \in Messages,
           \A a \in Actors \ {m} : pc'[a] = pc[a] /\ job'[a] = job[a],
           \A x \in Messages \ {m} : run'[x] = run[x] /\ rows'[x] = rows[x],
           \A x \in Messages \ {m} : pc[x] \in Holding => lock' = Running(x),
           \A x \in Messages \ {m} : pc[x] \in Shown => sidebar' = Running(x),
           pc'[m] \in Holding => lock' = Running(m),
           pc'[m] \in Shown => sidebar' = Running(m),
           pc'[m] \in Early => pc[m] \in Early /\ rows'[m] \cap TerminalStatus = {},
           \A x \in Messages : InJob(job'[m]) /\ job'[m].msg = x => pc'[x] \notin Early,
           pc'[m] \in Holding => \A id \in ReadByRunner(m)' : Reports(id)' \notin TerminalStatus
    PROVE  Undisturbed'
<1> USE Actor
<1>1. \A x \in Messages : pc'[x] \in Holding => lock' = Running(x)
  OBVIOUS
<1>2. \A x \in Messages : pc'[x] \in Shown => sidebar' = Running(x)
  OBVIOUS
<1>3. \A x \in Messages : pc'[x] \in Early => rows'[x] \cap TerminalStatus = {}
  BY DEF Undisturbed
<1>4. \A a \in Actors, x \in Messages : InJob(job'[a]) /\ job'[a].msg = x => pc'[x] \notin Early
  BY DEF Undisturbed
<1>5. \A x \in Messages : pc'[x] \in Holding => \A id \in ReadByRunner(x)' : Reports(id)' \notin TerminalStatus
  BY ReadStays DEF Undisturbed
<1> QED BY <1>1, <1>2, <1>3, <1>4, <1>5 DEF Undisturbed, Running, InJob

\* A finalization of one turn touches neither lock nor sidebar of another.
LEMMA JobUndisturbed ==
    ASSUME Types, InLog, Named, Undisturbed, Next, NEW a \in Messages, JobStep(a)
    PROVE  Undisturbed'
<1> USE Actor DEF stores, events, host, local
<1>1. UNCHANGED <<pc, run, rows, stored, log>> /\ \A x \in Actors \ {a} : job'[x] = job[x]
  BY JobLocal DEF JobStep, FinishTurn, ClearActiveRun, SuspendActiveRun, JobRaises
<1>2. job[a] \in Jobs /\ job \in [Actors -> Jobs]
  BY DEF Types
<1>3. InJob(job[a])
  BY DEF InJob, JobStep, FinishTurn, ClearActiveRun, SuspendActiveRun, JobRaises
<1>4. \A m \in Messages : job[a].msg = m => pc[m] \notin Early
  BY <1>3 DEF Undisturbed
<1>5. \A p : SetPhase(a, p) => job'[a].msg \in {job[a].msg, None}
  <2> SUFFICES ASSUME NEW p, SetPhase(a, p) PROVE job'[a].msg \in {job[a].msg, None}
    OBVIOUS
  <2>1. CASE p \in {"ok", "raised"}
    <3>1. job'[a] = [NoJob EXCEPT !.phase = p]
      BY <1>2, <2>1 DEF SetPhase
    <3> QED BY <3>1 DEF NoJob
  <2>2. CASE p \notin {"ok", "raised"}
    <3>1. job'[a] = [job[a] EXCEPT !.phase = p]
      BY <1>2, <2>2 DEF SetPhase
    <3> QED BY <1>2, <3>1 DEF Jobs
  <2> QED BY <2>1, <2>2
<1>6. job'[a].msg \in {job[a].msg, None}
  BY <1>5 DEF JobStep, FinishTurn, ClearActiveRun, SuspendActiveRun, JobRaises
<1>7. \A m \in Messages : pc[m] \in Holding => lock' = Running(m)
  <2> SUFFICES ASSUME NEW m \in Messages, pc[m] \in Holding PROVE lock' = Running(m)
    OBVIOUS
  <2>1. lock = Running(m) /\ job[a].msg # m
    BY <1>4 DEF Undisturbed, Early
  <2>2. lock # Running(job[a].msg)
    BY <2>1 DEF Running
  <2> QED BY <2>1, <2>2 DEF JobStep, FinishTurn, ClearActiveRun, SuspendActiveRun, JobRaises
<1>8. \A m \in Messages : pc[m] \in Shown => sidebar' = Running(m)
  <2> SUFFICES ASSUME NEW m \in Messages, pc[m] \in Shown PROVE sidebar' = Running(m)
    OBVIOUS
  <2>1. sidebar = Running(m) /\ job[a].msg # m
    BY <1>4 DEF Undisturbed, Early, Shown, Holding
  <2>2. sidebar.msg # job[a].msg
    BY <2>1 DEF Running
  <2> QED BY <2>1, <2>2 DEF JobStep, FinishTurn, ClearActiveRun, SuspendActiveRun, JobRaises
<1>9. pc'[a] \in Holding => \A id \in ReadByRunner(a)' : Reports(id)' \notin TerminalStatus
  BY <1>1, ReadStays DEF Undisturbed
<1>10. pc'[a] \in Early => pc[a] \in Early /\ rows'[a] \cap TerminalStatus = {}
  BY <1>1 DEF Undisturbed
<1>11. \A x \in Messages : InJob(job'[a]) /\ job'[a].msg = x => pc'[x] \notin Early
  BY <1>1, <1>4, <1>6
<1> QED BY <1>1, <1>7, <1>8, <1>9, <1>10, <1>11, UndisturbedFor

\* prepare_turn settles earlier turns only, and claims a lock that is free.
LEMMA PrepareUndisturbed ==
    ASSUME Types, InLog, Named, Claimed, Undisturbed, Next, "aged" \notin Faults, NEW m \in Messages, Prepare(m)
    PROVE  Undisturbed'
<1> USE Actor DEF stores, events, host, local, At
<1>1. /\ \A x \in Actors \ {m} : pc'[x] = pc[x] /\ job'[x] = job[x]
      /\ \A x \in Messages \ {m} : run'[x] = run[x]
      /\ \A p : Goto(m, p) => pc'[m] = p
      /\ \A j : StartJob(m, j) => job'[m] = j
  BY PrepareLocal, Locality DEF Others, OtherRuns
<1>2. pc[m] \in PreClaim \cup {"append", "mark", "undo"} /\ pc[m] \in Early /\ rows' = rows /\ log' = log
  BY DEF Prepare, PrepareRead, PrepareTidied, PrepareRecover, PrepareRepaired, PrepareClaim, PrepareAppend,
         PrepareMark, PrepareUndo, PreClaim, Holding, Early
<1>3. pc'[m] \in Early => pc[m] \in Early /\ rows'[m] \cap TerminalStatus = {}
  BY <1>2 DEF Undisturbed
<1>4. \A x \in Messages \ {m} : pc[x] \in Holding => lock' = Running(x) /\ pc[m] \notin Holding
  <2> SUFFICES ASSUME NEW x \in Messages \ {m}, pc[x] \in Holding
               PROVE  lock' = Running(x) /\ pc[m] \notin Holding
    OBVIOUS
  <2>1. lock = Running(x) /\ lock # Running(m) /\ ~Free(lock)
    BY DEF Undisturbed, Running, Free
  <2>2. lock' = lock
    BY <2>1 DEF Prepare, PrepareRead, PrepareTidied, PrepareRecover, PrepareRepaired, PrepareClaim, PrepareAppend,
         PrepareMark, PrepareUndo
  <2> QED BY <2>1, <2>2 DEF Undisturbed
<1>5. \A x \in Messages \ {m} : pc[x] \in Shown => sidebar' = Running(x)
  <2> SUFFICES ASSUME NEW x \in Messages \ {m}, pc[x] \in Shown
               PROVE  sidebar' = Running(x)
    OBVIOUS
  <2>1. sidebar = Running(x) /\ pc[m] \notin Holding
    BY <1>4 DEF Undisturbed, Shown, Holding
  <2>2. sidebar' = sidebar
    BY <2>1 DEF Prepare, PrepareRead, PrepareTidied, PrepareRecover, PrepareRepaired, PrepareClaim, PrepareAppend,
         PrepareMark, PrepareUndo, Holding
  <2> QED BY <2>1, <2>2
<1>6. pc'[m] \in Holding => lock' = Running(m)
  <2>1. CASE PrepareClaim(m)
    BY <1>1, <2>1 DEF PrepareClaim, Holding
  <2>2. CASE PrepareAppend(m) \/ PrepareMark(m)
    BY <2>2 DEF PrepareAppend, PrepareMark, Undisturbed, Holding
  <2>3. CASE PrepareRead(m) \/ PrepareTidied(m) \/ PrepareRecover(m) \/ PrepareRepaired(m) \/ PrepareUndo(m)
    BY <1>1, <2>3 DEF PrepareRead, PrepareTidied, PrepareRecover, PrepareRepaired, PrepareUndo, Holding
  <2> QED BY <2>1, <2>2, <2>3 DEF Prepare
<1>7. pc'[m] \in Shown => sidebar' = Running(m)
  BY <1>1 DEF Prepare, PrepareRead, PrepareTidied, PrepareRecover, PrepareRepaired, PrepareClaim, PrepareAppend,
         PrepareMark, PrepareUndo, Shown
<1>8. \A x \in Messages : InJob(job'[m]) /\ job'[m].msg = x => pc'[x] \notin Early
  <2> SUFFICES ASSUME NEW x \in Messages, InJob(job'[m]), job'[m].msg = x
               PROVE  pc'[x] \notin Early
    OBVIOUS
  <2>1. pc[x] \notin Early
    <3>1. CASE job' = job
      BY <3>1 DEF Undisturbed
    <3>2. CASE PrepareRead(m) /\ job' # job
      <4>1. x = lock.msg /\ lock.status \in TerminalStatus
        BY <1>1, <3>2 DEF PrepareRead, Finalization
      <4> QED BY <4>1 DEF Claimed, Undisturbed, Early, Running, TerminalStatus
    <3>3. CASE PrepareRecover(m) /\ job' # job
      <4>1. \E s \in terminal[target[m].msg] : job'[m] = ProvenFinalization(target[m].msg, s)
        BY <1>1, <3>3 DEF PrepareRecover, Expired
      <4>2. x = target[m].msg /\ terminal[x] # {}
        BY <4>1 DEF ProvenFinalization, Finalization
      <4>3. rows[x] \cap TerminalStatus # {}
        BY <4>2 DEF terminal
      <4> QED BY <4>3 DEF Undisturbed
    <3> QED BY <3>1, <3>2, <3>3 DEF Prepare, PrepareTidied, PrepareRepaired, PrepareClaim, PrepareAppend,
         PrepareMark, PrepareUndo
  <2>2. x # m
    BY <1>2, <2>1
  <2> QED BY <1>1, <2>1, <2>2
<1>9. pc'[m] \in Holding => \A id \in ReadByRunner(m)' : Reports(id)' \notin TerminalStatus
  <2>1. CASE run' = [run EXCEPT ![m] = [NoRun EXCEPT !.base = eventCursor, !.pos = eventCursor]]
    <3>1. run'[m] = [NoRun EXCEPT !.base = eventCursor, !.pos = eventCursor] /\ eventCursor \in Nat
      BY <2>1 DEF Types
    <3>2. run'[m].base = eventCursor /\ run'[m].pos = eventCursor /\ ~run'[m].broken
      BY <3>1 DEF NoRun
    <3>3. ReadByRunner(m)' = {}
      BY <3>1, <3>2 DEF ReadByRunner
    <3> QED BY <3>3
  <2>2. CASE PrepareUndo(m)
    BY <1>1, <2>2 DEF PrepareUndo, Holding
  <2>3. CASE PrepareAppend(m) \/ PrepareMark(m)
    <3>1. run' = run /\ pc[m] \in Holding
      BY <2>3 DEF PrepareAppend, PrepareMark, Holding
    <3> QED BY <3>1, ReadStays DEF Undisturbed
  <2>4. CASE PrepareRead(m) \/ PrepareTidied(m) \/ PrepareRecover(m) \/ PrepareRepaired(m)
             \/ (PrepareClaim(m) /\ run' # [run EXCEPT ![m] = [NoRun EXCEPT !.base = eventCursor, !.pos = eventCursor]])
    BY <1>1, <2>4 DEF PrepareRead, PrepareTidied, PrepareRecover, PrepareRepaired, PrepareClaim, Holding
  <2> QED BY <2>1, <2>2, <2>3, <2>4 DEF Prepare
<1> QED BY <1>1, <1>2, <1>3, <1>4, <1>5, <1>6, <1>7, <1>8, <1>9, UndisturbedFor

\* A runner starts its own finalization, and only when it has ended.
LEMMA RunnerUndisturbed ==
    ASSUME Types, InLog, Named, Undisturbed, Next, NEW m \in Messages, Runner(m)
    PROVE  Undisturbed'
<1> USE Actor DEF stores, events, host, local, At
<1>1. /\ \A x \in Actors \ {m} : pc'[x] = pc[x] /\ job'[x] = job[x]
      /\ \A x \in Messages \ {m} : run'[x] = run[x]
      /\ \A p : Goto(m, p) => pc'[m] = p
      /\ \A j : StartJob(m, j) => job'[m] = j
      /\ Finally(m) => pc'[m] \in {"suspend", "done"}
  BY RunnerLocal, Locality, FinallyLocal DEF Others, OtherRuns
<1>2. UNCHANGED <<lock, sidebar, log>>
  BY DEF Runner, RunnerWorks, RunnerAcquire, RunnerSend, RunnerReads, RunnerStreamBreaks, WriterPersists,
         WriterAdvances, RunnerFlushed, RunnerBreaks, RunnerFail, RunnerSettle, RunnerFinalized,
         RunnerRefinalized, RunnerEnds
<1>3. \A x \in Messages \ {m} : rows'[x] = rows[x]
  <2>1. CASE WriterPersists(m) \/ RunnerFail(m)
    BY <2>1 DEF WriterPersists, RunnerFail, Store, Types
  <2> QED BY <2>1 DEF Runner, RunnerWorks, RunnerAcquire, RunnerSend, RunnerReads, RunnerStreamBreaks,
         WriterAdvances, RunnerFlushed, RunnerBreaks, RunnerSettle, RunnerFinalized,
         RunnerRefinalized, RunnerEnds
<1>4. CASE pc'[m] \in Early
  <2>1. pc[m] \in {"queued", "send", "stream"} /\ pc'[m] \in {"queued", "send", "stream"}
    <3>1. CASE pc' = pc
      <4>1. pc[m] \in RunnerPcs
        BY RunnerPlaces
      <4> QED BY <1>4, <3>1, <4>1 DEF Early, PreClaim, Holding, RunnerPcs, SlotPcs
    <3>2. CASE RunnerReads(m) /\ pc' # pc
      BY <1>1, <1>4, <3>2 DEF RunnerReads, Early, PreClaim, Holding
    <3>3. CASE RunnerFinalized(m) \/ RunnerRefinalized(m)
      BY <1>1, <1>4, <3>3 DEF RunnerFinalized, RunnerRefinalized, Early, PreClaim, Holding
    <3>4. CASE RunnerAcquire(m) \/ RunnerSend(m) \/ RunnerStreamBreaks(m) \/ RunnerFlushed(m) \/ RunnerBreaks(m)
               \/ RunnerFail(m) \/ RunnerSettle(m) \/ RunnerEnds(m)
      BY <1>1, <1>4, <3>4 DEF RunnerAcquire, RunnerSend, RunnerStreamBreaks, RunnerFlushed, RunnerBreaks, RunnerFail,
         RunnerSettle, RunnerEnds, Early, PreClaim, Holding
    <3> QED BY <3>1, <3>2, <3>3, <3>4 DEF Runner, RunnerWorks, WriterPersists, WriterAdvances
  <2>2. pc[m] \in Shown /\ pc[m] \in Holding /\ pc[m] \in Early
    BY <2>1 DEF Shown, Holding, Early
  <2>3. \A id \in ReadByRunner(m) : Reports(id) \notin TerminalStatus
    BY <2>2 DEF Undisturbed
  <2>4. rows'[m] \cap TerminalStatus = {}
    <3>1. CASE WriterPersists(m)
      <4>1. rows'[m] = rows[m] \cup {Reports(id) : id \in ReadByRunner(m) \ stored}
        BY <3>1 DEF WriterPersists, Store, Types
      <4> QED BY <2>2, <2>3, <4>1 DEF Undisturbed
    <3>2. CASE RunnerFail(m)
      BY <2>1, <3>2 DEF RunnerFail
    <3>3. CASE rows' = rows
      BY <2>2, <3>3 DEF Undisturbed
    <3> QED BY <3>1, <3>2, <3>3 DEF Runner, RunnerWorks, RunnerAcquire, RunnerSend, RunnerReads, RunnerStreamBreaks,
         WriterAdvances, RunnerFlushed, RunnerBreaks, RunnerSettle, RunnerFinalized,
         RunnerRefinalized, RunnerEnds
  <2>5. job' = job
    <3>1. RunnerAcquire(m) \/ RunnerSend(m) \/ RunnerReads(m) \/ WriterPersists(m) \/ WriterAdvances(m)
          \/ RunnerBreaks(m) \/ RunnerStreamBreaks(m)
      BY <2>1 DEF Runner, RunnerWorks, RunnerFlushed, RunnerFail, RunnerSettle, RunnerFinalized,
         RunnerRefinalized, RunnerEnds
    <3> QED BY <3>1 DEF RunnerAcquire, RunnerSend, RunnerReads, WriterPersists, WriterAdvances, RunnerBreaks,
         RunnerStreamBreaks
  <2>6. \A id \in ReadByRunner(m)' : Reports(id)' \notin TerminalStatus
    <3>1. CASE run' = run
      BY <2>3, <3>1, ReadStays
    <3>2. CASE RunnerReads(m)
      <4>1. PICK p \in Nat : p = run[m].pos + 1
        BY DEF Types, Runs
      <4>2. log[p].what \notin TerminalStatus
        BY <1>1, <2>1, <3>2, <4>1 DEF RunnerReads
      <4>3. run'[m] = [run[m] EXCEPT !.pos = p]
        BY <3>2, <4>1, <4>2 DEF RunnerReads, Types
      <4>4. /\ run'[m].pos = p /\ run'[m].base = run[m].base /\ ~run[m].broken /\ ~run'[m].broken
            /\ run[m].base \in Nat /\ run[m].pos \in Nat
        BY <2>1, <4>3 DEF Types, Runs, InLog, Logged
      <4>5. \A id \in ReadByRunner(m)' : id \in ReadByRunner(m) \/ id = <<"log", p>>
        BY <4>1, <4>4 DEF ReadByRunner
      <4>6. Reports(<<"log", p>>)' \notin TerminalStatus
        BY <1>2, <4>2 DEF Reports
      <4>7. \A id \in ReadByRunner(m) : Reports(id)' = Reports(id)
        BY <1>2 DEF Reports
      <4> QED BY <2>3, <4>5, <4>6, <4>7
    <3>3. CASE RunnerStreamBreaks(m)
      BY <1>1, <2>1, <3>3 DEF RunnerStreamBreaks
    <3> QED BY <2>1, <3>1, <3>2, <3>3 DEF Runner, RunnerWorks, RunnerAcquire, RunnerSend, WriterPersists,
         WriterAdvances, RunnerFlushed, RunnerBreaks, RunnerFail, RunnerSettle, RunnerFinalized,
         RunnerRefinalized, RunnerEnds
  <2>7. \A x \in Messages : InJob(job'[m]) /\ job'[m].msg = x => pc'[x] \notin Early
    <3>1. \A x \in Messages : pc'[x] \in Early => pc[x] \in Early
      BY <1>1, <2>2
    <3> QED BY <2>5, <3>1 DEF Undisturbed
  <2>8. lock = Running(m) /\ sidebar = Running(m)
    BY <2>2 DEF Undisturbed
  <2> QED BY <1>1, <1>2, <1>3, <2>2, <2>4, <2>6, <2>7, <2>8, UndisturbedFor DEF Undisturbed
<1>5. CASE pc'[m] \notin Early
  <2>1. InJob(job'[m]) => job'[m].msg = m \/ job' = job
    <3>1. CASE RunnerSettle(m)
      BY <1>1, <3>1 DEF RunnerSettle, Finalization
    <3>2. CASE Finally(m)
      <4>1. StartJob(m, Suspension(m)) \/ StartJob(m, NoJob)
        BY <3>2 DEF Finally
      <4>2. job'[m] = Suspension(m) \/ job'[m] = NoJob
        BY <1>1, <4>1
      <4>3. Suspension(m).msg = m /\ NoJob.phase = "ok"
        BY DEF Suspension, NoJob
      <4> QED BY <4>2, <4>3 DEF InJob
    <3>3. CASE RunnerFinalized(m) /\ ~Finally(m)
      BY <1>1, <3>3 DEF RunnerFinalized, Finalization
    <3> QED BY <3>1, <3>2, <3>3 DEF Runner, RunnerWorks, RunnerAcquire, RunnerSend, RunnerReads, RunnerStreamBreaks,
         WriterPersists, WriterAdvances, RunnerFlushed, RunnerBreaks, RunnerFail, RunnerRefinalized, RunnerEnds
  <2>2. \A x \in Messages : InJob(job'[m]) /\ job'[m].msg = x => pc'[x] \notin Early
    BY <1>1, <1>5, <2>1 DEF Undisturbed
  <2>3. pc'[m] \notin Holding /\ pc'[m] \notin Shown
    BY <1>5 DEF Early, Shown, Holding
  <2> QED BY <1>1, <1>2, <1>3, <1>5, <2>2, <2>3, UndisturbedFor DEF Undisturbed
<1> QED BY <1>4, <1>5

\* A task cancelled by shutdown finalizes itself only.
LEMMA ShutdownUndisturbed ==
    ASSUME Types, InLog, Named, Undisturbed, Next, NEW m \in Messages, Shutdown(m)
    PROVE  Undisturbed'
<1> USE Actor DEF stores, events, host, At
<1>1. /\ \A x \in Actors \ {m} : pc'[x] = pc[x] /\ job'[x] = job[x]
      /\ \A x \in Messages \ {m} : run'[x] = run[x]
      /\ \A j : StartJob(m, j) => job'[m] = j
      /\ pc'[m] \in {"suspend", "done", "dead", "aborting"}
      /\ UNCHANGED <<lock, sidebar, rows>>
  BY CancelLocal, Locality DEF Shutdown, OtherRuns
<1>2. InJob(job'[m]) => job'[m].msg = m
  <2>1. StartJob(m, NoJob) \/ StartJob(m, Suspension(m)) \/ StartJob(m, Finalization(m, "cancelled", TRUE, FALSE))
    BY DEF Shutdown, CancelTask, Finally
  <2>2. job'[m] \in {NoJob, Suspension(m), Finalization(m, "cancelled", TRUE, FALSE)}
    BY <1>1, <2>1
  <2>3. NoJob.phase = "ok" /\ Suspension(m).msg = m /\ Finalization(m, "cancelled", TRUE, FALSE).msg = m
    BY DEF NoJob, Suspension, Finalization
  <2> QED BY <2>2, <2>3 DEF InJob
<1>3. pc'[m] \notin Early /\ pc'[m] \notin Holding /\ pc'[m] \notin Shown
  BY <1>1 DEF Early, PreClaim, Holding, Shown
<1>4. \A x \in Messages : InJob(job'[m]) /\ job'[m].msg = x => pc'[x] \notin Early
  BY <1>2, <1>3
<1> QED BY <1>1, <1>3, <1>4, UndisturbedFor DEF Undisturbed

\* Every step keeps Undisturbed.
LEMMA UndisturbedStep ==
    ASSUME Types, InLog, Named, Claimed, Undisturbed, Unattended, Next
    PROVE  Undisturbed'
<1> USE Actor DEF stores, events, host, local
<1>1. Actors = Messages /\ "aged" \notin Faults
  BY DEF Unattended
<1>2. ASSUME NEW m \in Messages, HostAsks(m) \/ HostEnds(m)
      PROVE  Undisturbed'
  <2>1. UNCHANGED <<pc, job, run, lock, sidebar, rows>>
    BY <1>2 DEF HostAsks, HostEnds
  <2>2. pc'[m] \in Holding => \A id \in ReadByRunner(m)' : Reports(id)' \notin TerminalStatus
    BY <2>1, ReadStays DEF Undisturbed
  <2> QED BY <2>1, <2>2, UndisturbedFor DEF Undisturbed, Shown, Holding, Early
<1>3. CASE Crash
  <2>1. /\ \A m \in Messages : /\ pc'[m] \notin Holding /\ pc'[m] \notin Shown
                               /\ pc'[m] \in Early => pc'[m] = pc[m]
        /\ \A a \in Actors : job'[a] = NoJob
        /\ rows' = rows
    BY <1>3, DistinctActors DEF Crash, EndPcs, Clients, Holding, Shown, Early, PreClaim
  <2>2. \A a \in Actors : ~InJob(job'[a])
    BY <2>1 DEF InJob, NoJob
  <2> QED BY <2>1, <2>2 DEF Undisturbed, InJob
<1> QED BY <1>1, <1>2, <1>3, JobUndisturbed, PrepareUndisturbed, RunnerUndisturbed, ShutdownUndisturbed
        DEF Next, Unattended

\* Nobody disturbs a turn that holds its lock, in any reachable state.
LEMMA UndisturbedInvariant == Spec => [](Unattended => Undisturbed)
<1>1. Init => Undisturbed
  <2> SUFFICES ASSUME Init PROVE Undisturbed
    OBVIOUS
  <2>1. \A m \in Messages : pc[m] = "new" /\ rows[m] = {}
    BY Actor DEF Init
  <2>2. \A a \in Actors : ~InJob(job[a])
    BY DEF Init, InJob, NoJob
  <2> QED BY <2>1, <2>2 DEF Undisturbed, Holding, Shown, InJob
<1>2. Base /\ Claimed /\ (Unattended => Undisturbed) /\ [Next]_vars => (Unattended => Undisturbed)'
  <2> SUFFICES ASSUME Base, Claimed, Unattended => Undisturbed, [Next]_vars, Unattended'
               PROVE  Undisturbed'
    OBVIOUS
  <2>1. Unattended /\ Undisturbed
    BY DEF Unattended, Clients
  <2>2. CASE Next
    BY <2>1, <2>2, UndisturbedStep, SameTypes DEF Base
  <2>3. CASE UNCHANGED vars
    BY <2>1, <2>3 DEF vars, stores, events, host, local, Undisturbed, InJob, ReadByRunner, Reports
  <2> QED BY <2>2, <2>3
<1> QED BY <1>1, <1>2, BaseInvariant, ClaimedInvariant, PTL DEF Spec

\* The sidebar shows the admitted turn as long as its runner is at work, however late
\* the clears and suspensions of earlier turns come (clear_active_run, suspend_active_run).
THEOREM RunningTurnStaysShown == Spec => []RunningTurnShown
<1>1. (Unattended => Undisturbed) => RunningTurnShown
  BY DEF Undisturbed, RunningTurnShown, Shown
<1> QED BY <1>1, UndisturbedInvariant, PTL

\* The host hears of a turn when its runner sends it.
LEMMA HostHears ==
    ASSUME Types, Unattended, Next, NEW m \in Messages, ~HostKnows(m), HostKnows(m)'
    PROVE  pc[m] = "send"
<1> USE DEF stores, events, host, local
<1>1. hostq \in Seq(Messages) /\ log \in Seq(Entries)
  BY DEF Types, Entries
<1>2. CASE UNCHANGED host
  BY <1>2 DEF HostKnows
<1>3. ASSUME NEW x \in Messages, RunnerSend(x), hostq' # hostq
      PROVE  pc[m] = "send"
  <2>1. hostq' = Append(hostq, x) /\ log' = log /\ pc[x] = "send"
    BY <1>3 DEF RunnerSend, At
  <2>2. ToSet(hostq') \subseteq ToSet(hostq) \cup {x}
    BY <1>1, <2>1, AppendProperties DEF ToSet
  <2> QED BY <2>1, <2>2 DEF HostKnows
<1>4. ASSUME NEW x \in Messages, HostAsks(x) \/ HostEnds(x)
      PROVE  HostKnows(m)
  <2>1. hostq # <<>> /\ x = Head(hostq) /\ hostq' \in {hostq, Tail(hostq)}
    BY <1>4 DEF HostAsks, HostEnds
  <2>2. PICK s : log' = Append(log, [msg |-> x, what |-> s]) /\ s \in EventKinds
    BY <1>4 DEF HostAsks, HostEnds, EventKinds
  <2>3. x \in ToSet(hostq) /\ ToSet(hostq') \subseteq ToSet(hostq)
    BY <1>1, <2>1, HeadTailProperties, EmptySeq, LenProperties DEF ToSet
  <2>4. \A e \in ToSet(log') : e \in ToSet(log) \/ e.msg = x
    <3>1. [msg |-> x, what |-> s] \in Entries
      BY <2>2 DEF Entries, EventKinds
    <3> QED BY <1>1, <2>2, <3>1, AppendProperties DEF ToSet
  <2> QED BY <2>3, <2>4 DEF HostKnows
<1>5. ASSUME NEW a \in Messages,
             JobStep(a) \/ Prepare(a) \/ Shutdown(a) \/ (Runner(a) /\ ~(RunnerSend(a) /\ hostq' # hostq))
      PROVE  UNCHANGED host
  <2>1. CASE JobStep(a)
    BY <2>1 DEF JobStep, FinishTurn, ClearActiveRun, SuspendActiveRun, JobRaises
  <2>2. CASE Prepare(a)
    BY <2>2 DEF Prepare, PrepareRead, PrepareTidied, PrepareRecover, PrepareRepaired, PrepareClaim,
         PrepareAppend, PrepareMark, PrepareUndo
  <2>3. CASE Runner(a) /\ ~(RunnerSend(a) /\ hostq' # hostq)
    BY <2>3 DEF Runner, RunnerWorks, RunnerAcquire, RunnerSend, RunnerReads, RunnerStreamBreaks, WriterPersists,
         WriterAdvances, RunnerFlushed, RunnerBreaks, RunnerFail, RunnerSettle, RunnerFinalized,
         RunnerRefinalized, RunnerEnds
  <2> QED BY <1>5, <2>1, <2>2, <2>3 DEF Shutdown
<1>6. Crash => UNCHANGED host
  BY DEF Crash
<1>7. Clients = {} /\ Actors = Messages
  BY Actor DEF Unattended
<1> QED BY <1>2, <1>3, <1>4, <1>5, <1>6, <1>7 DEF Next

\* A turn reaches the host under its own admission lock (prepare_turn's claim, the
\* gateway's send).
THEOREM TurnsSentUnderLock == Spec => SentUnderLock
<1>1. Base /\ (Unattended => Undisturbed) /\ [Next]_vars =>
         [Unattended => \A m \in Messages : ~HostKnows(m) /\ HostKnows(m)' => lock = Running(m)]_vars
  <2> SUFFICES ASSUME Base, Undisturbed, Unattended, Next, NEW m \in Messages, ~HostKnows(m), HostKnows(m)'
               PROVE  lock = Running(m)
    BY DEF vars
  <2>1. pc[m] = "send"
    BY HostHears, SameTypes DEF Base
  <2> QED BY <2>1 DEF Undisturbed, Holding
<1> QED BY <1>1, BaseInvariant, UndisturbedInvariant, PTL DEF Spec, SentUnderLock
-----------------------------------------------------------------------------
(* No path of a turn forgets its lock. *)

\* No store call fails, and the process neither dies nor is shut down.
Steady == Faults \cap {"store", "shutdown"} = {} /\ MaxCrashes = 0

\* The request or the runner of m is going to release the lock, ...
Releases(a, m) == job[a].phase = "finish" /\ job[a].msg = m
Unreleased == {"append", "mark", "undo", "queued", "send", "stream", "flush", "stuck", "fail", "ended",
               "settle"}
OwnerAttends(m) == \/ pc[m] \in Unreleased
                   \/ pc[m] \in {"finalize", "refinalize", "aborting"} /\ Releases(m, m)

\* ... or a cancellation that has interrupted it, or seen it end, is.
ClientAttends(k, m) == /\ target[k].msg = m
                       /\ pc[k] \in {"gather", "last"} \/ (pc[k] = "release" /\ Releases(k, m))

Attended(m) == OwnerAttends(m) \/ \E k \in Cancellers : ClientAttends(k, m)

LockIsAttended == Steady => \A m \in Messages : lock = Running(m) => Attended(m)

\* A finalization under way may only change the lock, or move to a later phase
\* when its turn does not hold the lock.
LEMMA JobAttended ==
    ASSUME Types, NEW a \in Actors, JobStep(a), NEW m \in Messages, ~StoreFails,
           lock = Running(m), lock' = lock
    PROVE  ~Releases(a, m)
<1> SUFFICES ASSUME Releases(a, m) PROVE FALSE
  OBVIOUS
<1>1. FinishTurn(a)
  BY DEF JobStep, ClearActiveRun, SuspendActiveRun, JobRaises, Releases
<1>2. lock' = [lock EXCEPT !.status = job[a].status] /\ job[a].status \in {"none"} \cup TerminalStatus
  BY <1>1 DEF FinishTurn, Releases, Types, Jobs
<1> QED BY <1>2 DEF Running, TerminalStatus

\* The request or the runner itself.
LEMMA OwnerStep ==
    ASSUME Types, ~StoreFails, NEW m \in Messages, Prepare(m) \/ Runner(m), OwnerAttends(m),
           lock = Running(m), lock' = lock
    PROVE  OwnerAttends(m)'
<1> USE Actor DEF stores, events, host, local, At
<1>0. /\ \A p : Goto(m, p) => pc'[m] = p
      /\ \A j : StartJob(m, j) => job'[m] = j
      /\ \A s, c, u : /\ Finalization(m, s, c, u).phase = "finish"
                      /\ Finalization(m, s, c, u).msg = m
  BY Locality DEF Finalization
<1>1. CASE Prepare(m)
  <2>1. PrepareAppend(m) \/ PrepareMark(m) \/ PrepareUndo(m)
    BY <1>1 DEF Prepare, PrepareRead, PrepareTidied, PrepareRecover, PrepareRepaired, PrepareClaim,
                OwnerAttends, Unreleased
  <2>2. ~PrepareUndo(m)
    BY DEF PrepareUndo, Running
  <2> QED BY <1>0, <2>1, <2>2 DEF PrepareAppend, PrepareMark, OwnerAttends, Unreleased
<1>2. CASE WriterPersists(m) \/ WriterAdvances(m)
  BY <1>2 DEF WriterPersists, WriterAdvances, OwnerAttends, Releases
<1>3. CASE RunnerReads(m)
  BY <1>0, <1>3 DEF RunnerReads, OwnerAttends, Unreleased
<1>4. CASE RunnerAcquire(m) \/ RunnerSend(m) \/ RunnerStreamBreaks(m) \/ RunnerFlushed(m)
           \/ RunnerBreaks(m) \/ RunnerFail(m)
  BY <1>0, <1>4 DEF RunnerAcquire, RunnerSend, RunnerStreamBreaks, RunnerFlushed, RunnerBreaks, RunnerFail,
                    OwnerAttends, Unreleased
<1>5. CASE RunnerSettle(m)
  <2>1. StartJob(m, Finalization(m, run[m].status, ~Saw(m), FALSE)) /\ Goto(m, "finalize")
    BY <1>5 DEF RunnerSettle
  <2>2. pc'[m] = "finalize" /\ job'[m] = Finalization(m, run[m].status, ~Saw(m), FALSE)
    BY <1>0, <2>1
  <2>3. job'[m].phase = "finish" /\ job'[m].msg = m
    BY <2>2 DEF Finalization
  <2> QED BY <2>2, <2>3 DEF OwnerAttends, Releases
\* A runner whose finalization is over does not attend to the lock any more.
<1>6. CASE RunnerFinalized(m) \/ RunnerRefinalized(m) \/ RunnerEnds(m)
  BY <1>6 DEF RunnerFinalized, RunnerRefinalized, RunnerEnds, JobDone, OwnerAttends, Releases, Unreleased
<1> QED BY <1>1, <1>2, <1>3, <1>4, <1>5, <1>6 DEF Runner, RunnerWorks

\* The cancellation itself.
LEMMA ClientStep ==
    ASSUME Types, NEW k \in Clients, Client(k), NEW m \in Messages, ClientAttends(k, m), lock = Running(m)
    PROVE  ClientAttends(k, m)'
<1> USE Actor DEF At
<1>0. /\ \A p : Goto(k, p) => pc'[k] = p
      /\ \A j : StartJob(k, j) => job'[k] = j
      /\ \A s, c, u : /\ Finalization(m, s, c, u).phase = "finish"
                      /\ Finalization(m, s, c, u).msg = m
  BY Locality DEF Finalization
<1>1. CancelInterrupt(k) \/ CancelGathered(k) \/ CancelLast(k)
  BY DEF Client, CancelRead, ClientTidied, CancelGateway, CancelLookup, CancelWait, SnapshotRead, IngestFetch, IngestPersist, IngestAdvance,
         Prove, Proved, CancelReturns, ClientAttends, Releases, JobDone
<1>2. CASE CancelInterrupt(k)
  <2>1. k # m
    BY DistinctActors DEF Clients
  <2>2. target[k].msg = m /\ pc'[k] = pc[k] /\ pc[k] = "gather"
    BY <1>2, <2>1, CancelLocal DEF CancelInterrupt, ClientAttends
  <2>3. target'[k].msg = m
    BY <1>2, <2>2 DEF CancelInterrupt, Types, Targets
  <2> QED BY <2>2, <2>3 DEF ClientAttends
<1>3. CASE CancelGathered(k)
  BY <1>0, <1>3 DEF CancelGathered, ClientAttends
<1>4. CASE CancelLast(k)
  BY <1>0, <1>4 DEF CancelLast, ClientAttends, Releases
<1> QED BY <1>1, <1>2, <1>3, <1>4

\* Whoever attends to a lock goes on until it is released, or hands it to whoever
\* interrupts it.
LEMMA AttendedStep ==
    ASSUME Base, Steady, Next, NEW m \in Messages, lock = Running(m), lock' = lock, Attended(m)
    PROVE  Attended(m)'
<1> USE Actor DEF stores, events, host, local
<1>0. Types /\ Named /\ ~StoreFails
  BY SameTypes DEF Base, Steady, StoreFails
<1>n. \A k \in Cancellers : k \in Clients /\ k # m
  BY DistinctActors
<1>1. ASSUME NEW a \in Actors, JobStep(a)
      PROVE  Attended(m)'
  <2>1. ~Releases(a, m)
    BY <1>0, <1>1, JobAttended
  <2>2. UNCHANGED <<pc, target>> /\ \A x \in Actors \ {a} : job'[x] = job[x]
    BY <1>0, <1>1, JobLocal DEF JobStep, FinishTurn, ClearActiveRun, SuspendActiveRun, JobRaises
  <2>3. \A x \in Actors : Releases(x, m) => Releases(x, m)'
    BY <2>1, <2>2 DEF Releases
  <2> QED BY <2>2, <2>3 DEF Attended, OwnerAttends, ClientAttends
<1>2. ASSUME NEW x \in Messages, Prepare(x) \/ Runner(x)
      PROVE  Attended(m)'
  <2>1. Others(x)
    BY <1>0, <1>2, PrepareLocal, RunnerLocal
  <2>2. OwnerAttends(m) => OwnerAttends(m)'
    <3>1. CASE x = m
      BY <1>0, <1>2, <3>1, OwnerStep
    <3>2. CASE x # m
      BY <2>1, <3>2 DEF Others, OwnerAttends, Releases
    <3> QED BY <3>1, <3>2
  <2>3. \A k \in Cancellers : ClientAttends(k, m) => ClientAttends(k, m)'
    <3>1. \A k \in Cancellers : k # x
      BY DistinctActors
    <3> QED BY <2>1, <3>1 DEF Others, ClientAttends, Releases
  <2> QED BY <2>2, <2>3 DEF Attended
<1>3. ASSUME NEW x \in Messages, HostAsks(x) \/ HostEnds(x)
      PROVE  Attended(m)'
  BY <1>3 DEF HostAsks, HostEnds, Attended, OwnerAttends, ClientAttends, Releases
<1>4. ASSUME NEW c \in Clients, Client(c)
      PROVE  Attended(m)'
  <2>1. ASSUME NEW k \in Cancellers, ClientAttends(k, m)
        PROVE  ClientAttends(k, m)'
    <3>1. CASE k = c
      BY <1>0, <1>4, <2>1, <3>1, ClientStep
    <3>2. CASE k # c /\ ~CancelInterrupt(c)
      BY <1>0, <1>4, <2>1, <3>2, ClientLocal DEF Others, ClientAttends, Releases
    <3>3. CASE k # c /\ CancelInterrupt(c)
      <4>1. target[c].msg \in Messages /\ CancelTask(target[c].msg)
        BY <1>0, <3>3 DEF CancelInterrupt, Named, At, ClientPcs
      <4>2. k # target[c].msg
        BY <4>1, DistinctActors
      <4>3. pc'[k] = pc[k] /\ job'[k] = job[k]
        BY <1>0, <4>1, <4>2, CancelLocal
      <4>4. target'[k] = target[k]
        BY <1>0, <3>3 DEF CancelInterrupt, Types
      <4> QED BY <2>1, <4>3, <4>4 DEF ClientAttends, Releases
    <3> QED BY <3>1, <3>2, <3>3
  <2>2. ASSUME OwnerAttends(m)
        PROVE  Attended(m)'
    <3>1. m # c
      BY DistinctActors DEF Clients
    <3>2. CASE ~CancelInterrupt(c)
      BY <1>0, <1>4, <2>2, <3>1, <3>2, ClientLocal DEF Others, Attended, OwnerAttends, Releases
    <3>3. CASE CancelInterrupt(c)
      <4>1. target[c].msg \in Messages /\ CancelTask(target[c].msg) /\ pc[c] = "gather"
        BY <1>0, <3>3 DEF CancelInterrupt, Named, At, ClientPcs
      <4>2. CASE target[c].msg # m
        BY <1>0, <2>2, <4>1, <4>2, CancelLocal DEF Attended, OwnerAttends, Releases
      \* The turn is interrupted, and the cancellation sees to its lock.
      <4>3. CASE target[c].msg = m
        <5>1. pc'[c] = "gather"
          BY <1>0, <3>1, <4>1, <4>3, CancelLocal
        <5>2. target'[c].msg = m
          BY <1>0, <3>3, <4>3 DEF CancelInterrupt, Types, Targets
        <5>3. c \in Cancellers
          BY <1>0, <4>1 DEF Named
        <5> QED BY <5>1, <5>2, <5>3 DEF Attended, ClientAttends
      <4> QED BY <4>2, <4>3
    <3> QED BY <3>2, <3>3
  <2> QED BY <2>1, <2>2 DEF Attended
<1>5. ~Crash
  BY DEF Crash, Base, TypeOK, Steady
<1>6. \A x \in Messages : ~Shutdown(x)
  BY DEF Shutdown, Steady
<1> QED BY <1>1, <1>2, <1>3, <1>4, <1>5, <1>6 DEF Next

\* As long as the store works and the process lives, the admission lock of a turn is in
\* somebody's hands: of its request, of its runner, or of a cancellation that has stopped
\* the runner at any of its awaits, and each of them releases it before it ends
\* (chat_service.py:199-297, turn_runner.py:194-319, turn_cancellation.py:53-116).
THEOREM LocksAreAttended == Spec => []LockIsAttended
<1>1. Init => LockIsAttended
  BY DEF Init, LockIsAttended, Running, NoLock
<1>2. Base /\ LockIsAttended /\ [Next]_vars => LockIsAttended'
  <2> SUFFICES ASSUME Base, LockIsAttended, [Next]_vars, Steady, NEW m \in Messages, lock' = Running(m)
               PROVE  Attended(m)'
    BY DEF LockIsAttended, Steady
  <2>1. CASE UNCHANGED vars
    BY <2>1 DEF vars, stores, local, LockIsAttended, Attended, OwnerAttends, ClientAttends, Releases
  <2>2. CASE Next /\ lock' = lock
    BY <2>2, AttendedStep DEF LockIsAttended
  <2>3. CASE Next /\ lock' # lock
    <3>1. \A x \in Messages, s \in {"none"} \cup TerminalStatus :
             lock = Running(x) => [lock EXCEPT !.status = s] # Running(m)
      BY DEF Running, TerminalStatus
    <3>2. \A s \in {"none"} \cup TerminalStatus :
             lock = Running(None) => [lock EXCEPT !.status = s] # Running(m)
      BY DEF Running, TerminalStatus
    <3>3. PICK x \in Messages : lock' = Running(x) /\ pc'[x] = "append"
      BY <2>3, <3>1, <3>2, LockWrites, SameTypes DEF Base
    <3>4. x = m
      BY <3>3 DEF Running
    <3> QED BY <3>3, <3>4 DEF Attended, OwnerAttends, Unreleased
  <2> QED BY <2>1, <2>2, <2>3
<1> QED BY <1>1, <1>2, BaseInvariant, PTL DEF Spec
=============================================================================
