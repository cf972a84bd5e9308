------------------------- MODULE TurnLifecycleTypes -------------------------
(* Proofs about TurnLifecycle, for any sets of messages and clients, any     *)
(* number of slots and crashes, and any set of faults.                       *)
EXTENDS TurnLifecycle, FiniteSetTheorems, SequenceTheorems, TLAPS

\* Who acts: the turns, and the users of cancel and snapshot.
LEMMA Actor == /\ Messages \subseteq Actors /\ Cancellers \subseteq Actors /\ Viewers \subseteq Actors
               /\ Actors = Messages \cup Clients /\ Clients = Cancellers \cup Viewers
               /\ None \notin Messages
BY DistinctActors DEF Actors, Clients

Entries == [msg : Messages, what : EventKinds]

\* The log only grows, and what it says stays.
LogGrows == /\ Len(log) <= Len(log')
            /\ \A p \in 1..Len(log) : log'[p] = log[p]

\* Types of the host's variables and of what the host's steps do to them.
LEMMA Appends ==
    ASSUME TypeOK, NEW e \in Entries, log' = Append(log, e)
    PROVE  log' \in Seq(Entries) /\ LogGrows
BY DEF TypeOK, LogGrows, Entries

\* The answer of the host to a cancellation: one end for each turn it works on.
LEMMA Cancels ==
    ASSUME TypeOK, log' = log \o [i \in DOMAIN hostq |-> [msg |-> hostq[i], what |-> "cancelled"]]
    PROVE  log' \in Seq(Entries) /\ LogGrows
<1> DEFINE ends == [i \in 1..Len(hostq) |-> [msg |-> hostq[i], what |-> "cancelled"]]
<1>1. /\ hostq \in Seq(Messages) /\ log \in Seq(Entries)
      /\ Len(hostq) \in Nat /\ DOMAIN hostq = 1..Len(hostq)
  BY LenProperties DEF TypeOK, Entries
<1>2. \A i \in 1..Len(hostq) : [msg |-> hostq[i], what |-> "cancelled"] \in Entries
  BY <1>1, ElementOfSeq DEF Entries, EventKinds, TerminalStatus
<1>3. ends \in Seq(Entries)
  BY <1>1, <1>2, SeqDef
<1>4. log' = log \o ends
  BY <1>1
<1> HIDE DEF ends
<1> QED BY <1>1, <1>3, <1>4, ConcatProperties, LenProperties DEF LogGrows

-----------------------------------------------------------------------------
(* Types. *)

\* The runners that have a slot, the events a runner read from the journal, and
\* where the numbers of journal events may be.
Holders == {m \in Messages : pc[m] \in SlotPcs}
Upto(r) == IF r.broken THEN r.pos - 1 ELSE r.pos
Points(r) == r.base <= r.pos /\ (r.base < Upto(r) => Upto(r) <= Len(log))

\* No task of this instance is ever cancelled.
Uncancelled == Cancellers = {} /\ "shutdown" \notin Faults

Slots == /\ IsFiniteSet(Holders) /\ Cardinality(Holders) <= inFlight
         /\ Uncancelled => /\ inFlight = Cardinality(Holders)
                           /\ \A m \in Messages : pc[m] # "aborting"

Logged == /\ \A m \in Messages : Points(run[m])
          /\ \A m \in Messages : pc[m] \in {"append", "mark", "queued", "send", "stream"} => ~run[m].broken
          /\ \A p \in Nat : <<"log", p>> \in stored => p \in 1..Len(log)
Seen == \A a \in Actors : target[a].upto <= Len(log)
InLog == Logged /\ Seen

\* Who acts on a turn knows which.
Named ==
    /\ lock.status = "running" => lock.msg \in Messages
    /\ \A m \in Messages : At(m, "recover") => target[m].msg \in Messages
    /\ \A k \in Clients : pc[k] \in ClientPcs \ {"idle", "tidy"} => target[k].msg \in Messages
    /\ \A k \in Viewers : pc[k] \in {"idle", "ingest", "persist", "advance", "prove", "proved"}

Base == TypeOK /\ Slots /\ InLog /\ Named

\* The ids of the rows a runner or a reader stores are those of events in the
\* journal, or of failures made up.
Ids == {"log", "gateway", "fail", "ended"} \X Nat
Reportable(ids) == ids \subseteq Ids /\ \A p \in Nat : <<"log", p>> \in ids => p \in 1..Len(log)

\* What a row reports is an event the model knows.
LEMMA ReportTypes ==
    ASSUME TypeOK, NEW ids, Reportable(ids), NEW id \in ids
    PROVE  Reports(id) \in EventKinds
<1>1. PICK k \in {"log", "gateway", "fail", "ended"}, p \in Nat : id = <<k, p>>
  BY DEF Reportable, Ids
<1>2. CASE k = "log"
  <2>1. log[p] \in [msg : Messages, what : EventKinds]
    BY <1>1, <1>2, ElementOfSeq DEF TypeOK, Reportable
  <2> QED BY <1>1, <1>2, <2>1 DEF Reports
<1>3. CASE k # "log"
  BY <1>1, <1>3 DEF Reports, EventKinds, TerminalStatus
<1> QED BY <1>2, <1>3

\* A batch written by the store ($setOnInsert) keeps the types of the rows.
LEMMA StoreTypes ==
    ASSUME TypeOK, NEW m \in Messages, NEW ids, Reportable(ids), Store(m, ids)
    PROVE  /\ rows' \in [Messages -> SUBSET EventKinds]
           /\ stored' \subseteq Ids
           /\ \A p \in Nat : <<"log", p>> \in stored' =>
                  <<"log", p>> \in stored \/ p \in 1..Len(log)
<1>1. \A id \in ids : Reports(id) \in EventKinds
  BY ReportTypes
<1> QED BY <1>1 DEF TypeOK, Reportable, Ids, Store

\* What a runner has read since its subscription are events that exist.
LEMMA ReadTypes ==
    ASSUME TypeOK, Logged, NEW m \in Messages
    PROVE  Reportable(ReadByRunner(m))
<1> DEFINE r == run[m]
<1>1. r.base \in Nat /\ r.pos \in Nat /\ r.broken \in BOOLEAN
  BY DEF TypeOK
<1>2. Len(log) \in Nat
  BY LenProperties DEF TypeOK
<1>3. ReadByRunner(m) \subseteq {<<"log", p>> : p \in r.base + 1 .. Upto(r)} \cup {<<"gateway", r.pos>>}
  BY DEF ReadByRunner, Upto
<1>4. \A p \in r.base + 1 .. Upto(r) : p \in 1..Len(log)
  BY <1>1, <1>2 DEF Logged, Points, Upto
<1> HIDE DEF r
<1> QED BY <1>1, <1>3, <1>4 DEF Reportable, Ids

\* What a reader has fetched are events that exist.
LEMMA FetchedTypes ==
    ASSUME TypeOK, Seen, NEW k \in Actors
    PROVE  Reportable(Fetched(k))
<1>1. target[k].cursor \in Nat /\ target[k].upto \in Nat /\ target[k].upto <= Len(log) /\ Len(log) \in Nat
  BY LenProperties DEF TypeOK, Seen
<1> QED BY <1>1 DEF Reportable, Ids, Fetched

Jobs == [phase : JobPhases, msg : Messages \cup {None},
         status : {"none"} \cup TerminalStatus, clear : BOOLEAN, suspend : BOOLEAN]
Targets == [msg : Messages \cup {None}, status : {"none", "running"} \cup TerminalStatus,
            cursor : Nat, upto : Nat, task : BOOLEAN]
Runs == [base : Nat, pos : Nat, broken : BOOLEAN, status : {"none"} \cup TerminalStatus]
Pcs == PreparePcs \cup RunnerPcs \cup EndPcs \cup ClientPcs
Locks == [msg : Messages \cup {None}, status : {"none", "running"} \cup TerminalStatus]

\* Types of the records that steps assign.
LEMMA Constructors ==
    /\ NoJob \in Jobs /\ NoTarget \in Targets /\ NoRun \in Runs /\ NoLock \in Locks
    /\ \A m \in Messages \cup {None}, s \in {"none"} \cup TerminalStatus, c, u \in BOOLEAN :
           Finalization(m, s, c, u) \in Jobs
    /\ \A m \in Messages : Suspension(m) \in Jobs /\ Running(m) \in Locks
BY DEF NoJob, NoTarget, NoRun, NoLock, Jobs, Targets, Runs, Locks, Finalization, Suspension, Running,
       JobPhases, TerminalStatus

\* The places an actor may go to, each as a fact of its own.
LEMMA Places ==
    /\ "new" \in Pcs /\ "tidy" \in Pcs /\ "recover" \in Pcs /\ "repair" \in Pcs /\ "sync" \in Pcs /\ "append" \in Pcs
    /\ "mark" \in Pcs /\ "undo" \in Pcs /\ "queued" \in Pcs /\ "send" \in Pcs /\ "stream" \in Pcs /\ "flush" \in Pcs
    /\ "stuck" \in Pcs /\ "fail" \in Pcs /\ "ended" \in Pcs /\ "settle" \in Pcs /\ "finalize" \in Pcs /\ "refinalize" \in Pcs
    /\ "aborting" \in Pcs /\ "suspend" \in Pcs /\ "done" \in Pcs /\ "dead" \in Pcs /\ "rejected" \in Pcs /\ "idle" \in Pcs
    /\ "gateway" \in Pcs /\ "lookup" \in Pcs /\ "wait" \in Pcs /\ "ingest" \in Pcs /\ "persist" \in Pcs
    /\ "advance" \in Pcs /\ "prove" \in Pcs /\ "proved" \in Pcs
    /\ "gather" \in Pcs /\ "last" \in Pcs /\ "release" \in Pcs
BY DEF Pcs, PreparePcs, RunnerPcs, SlotPcs, EndPcs, ClientPcs

\* A finalization stays one when its phase moves.
LEMMA SetPhaseTypes ==
    ASSUME job \in [Actors -> Jobs], NEW a \in Actors, NEW p \in JobPhases, SetPhase(a, p)
    PROVE  job' \in [Actors -> Jobs]
<1>1. CASE p \in {"ok", "raised"}
  <2>1. [NoJob EXCEPT !.phase = p] \in Jobs
    BY Constructors DEF Jobs
  <2> QED BY <1>1, <2>1 DEF SetPhase
<1>2. CASE p \notin {"ok", "raised"}
  <2>1. [job[a] EXCEPT !.phase = p] \in Jobs
    BY DEF Jobs
  <2> QED BY <1>2, <2>1 DEF SetPhase
<1> QED BY <1>1, <1>2

\* A job's statuses are terminal ones.
LEMMA JobTypes ==
    ASSUME TypeOK, NEW a \in Actors, JobStep(a)
    PROVE  TypeOK'
<1> USE DEF stores, events, host, local
<1>1. job \in [Actors -> Jobs] /\ lock \in Locks
  BY DEF TypeOK, Jobs, Locks
<1>2. \A p \in JobPhases : SetPhase(a, p) => job' \in [Actors -> Jobs]
  BY <1>1, SetPhaseTypes
<1>3. AfterClear(a) \in JobPhases
  BY DEF AfterClear, JobPhases
<1>4. CASE FinishTurn(a)
  <2>1. lock' \in Locks
    BY <1>1, <1>4 DEF FinishTurn, Locks, Jobs
  <2>2. job' \in [Actors -> Jobs]
    BY <1>2, <1>3, <1>4 DEF FinishTurn, JobPhases
  <2> QED BY <1>4, <2>1, <2>2 DEF FinishTurn, TypeOK, Jobs, Locks
<1>5. CASE ClearActiveRun(a)
  <2>1. job' \in [Actors -> Jobs]
    BY <1>2, <1>3, <1>5 DEF ClearActiveRun
  <2> QED BY <1>5, <2>1 DEF ClearActiveRun, NoLock, TypeOK, Jobs
<1>6. CASE SuspendActiveRun(a)
  <2>1. job' \in [Actors -> Jobs]
    BY <1>2, <1>6 DEF SuspendActiveRun, JobPhases
  <2> QED BY <1>6, <2>1 DEF SuspendActiveRun, TypeOK, Jobs
<1>7. CASE JobRaises(a)
  <2>1. job' \in [Actors -> Jobs]
    BY <1>2, <1>7 DEF JobRaises, JobPhases
  <2> QED BY <1>7, <2>1 DEF JobRaises, TypeOK, Jobs
<1> QED BY <1>4, <1>5, <1>6, <1>7 DEF JobStep

\* The same types, with the names given to them above.
Types ==
    /\ lock \in Locks
    /\ sidebar \in [msg : Messages \cup {None}, status : {"none", "running", "suspended"}]
    /\ rows \in [Messages -> SUBSET EventKinds]
    /\ stored \subseteq Ids /\ eventCursor \in Nat
    /\ hostq \in Seq(Messages) /\ log \in Seq(Entries)
    /\ pc \in [Actors -> Pcs]
    /\ job \in [Actors -> Jobs]
    /\ target \in [Actors -> Targets]
    /\ run \in [Messages -> Runs]
    /\ inFlight \in 0..MaxSlots /\ crashes \in 0..MaxCrashes
    /\ cancelled \subseteq Messages

\* Types is TypeOK.
LEMMA SameTypes == Types <=> TypeOK
BY DEF Types, TypeOK, Pcs, Locks, Ids, Entries, Jobs, Targets, Runs

\* Types of the copy of the binding an actor reads (find_binding).
LEMMA ReadCopyTypes ==
    ASSUME Types, NEW c \in BOOLEAN
    PROVE  ReadCopy(c) \in Targets
BY DEF Types, ReadCopy, Targets, Locks

\* Types of the finalization a persisted terminal row calls for.
LEMMA ProvenTypes ==
    ASSUME Types, NEW m \in Messages, NEW s \in terminal[m]
    PROVE  ProvenFinalization(m, s) \in Jobs
<1>1. s \in TerminalStatus
  BY DEF Types, terminal
<1> QED BY <1>1, Constructors DEF ProvenFinalization

\* What one assignment to an entry does to a type.
LEMMA Assignments ==
    ASSUME Types
    PROVE  /\ \A a \in Actors, p \in Pcs : Goto(a, p) => pc' \in [Actors -> Pcs]
           /\ \A a \in Actors, j \in Jobs : StartJob(a, j) => job' \in [Actors -> Jobs]
<1>1. pc \in [Actors -> Pcs] /\ job \in [Actors -> Jobs]
  BY DEF Types
<1> QED BY <1>1 DEF Goto, StartJob

\* The fields of a run that steps assign.
LEMMA RunAssignments ==
    ASSUME NEW r \in Runs
    PROVE  /\ [r EXCEPT !.pos = r.pos + 1] \in Runs
           /\ [r EXCEPT !.pos = r.pos + 1, !.broken = TRUE, !.status = "failed"] \in Runs
           /\ [r EXCEPT !.status = "failed"] \in Runs
           /\ \A s \in TerminalStatus : [r EXCEPT !.pos = r.pos + 1, !.status = s] \in Runs
<1>1. \A n \in Nat : [r EXCEPT !.pos = n] \in Runs
  BY DEF Runs
<1>2. \A x \in Runs, s \in TerminalStatus : [x EXCEPT !.status = s] \in Runs
  BY DEF Runs
<1>3. \A x \in Runs : [x EXCEPT !.broken = TRUE] \in Runs
  BY DEF Runs
<1>4. r.pos + 1 \in Nat /\ "failed" \in TerminalStatus
  BY DEF Runs, TerminalStatus
<1>5. [r EXCEPT !.pos = r.pos + 1] \in Runs
  BY <1>1, <1>4
<1>6. \A s \in TerminalStatus : [r EXCEPT !.pos = r.pos + 1, !.status = s]
                                = [[r EXCEPT !.pos = r.pos + 1] EXCEPT !.status = s]
  OBVIOUS
<1>7. [r EXCEPT !.pos = r.pos + 1, !.broken = TRUE, !.status = "failed"]
      = [[[r EXCEPT !.pos = r.pos + 1] EXCEPT !.broken = TRUE] EXCEPT !.status = "failed"]
  OBVIOUS
<1>8. [[[r EXCEPT !.pos = r.pos + 1] EXCEPT !.broken = TRUE] EXCEPT !.status = "failed"] \in Runs
  BY <1>2, <1>3, <1>4, <1>5
<1> QED BY <1>2, <1>4, <1>5, <1>6, <1>7, <1>8

\* Types of prepare_turn's steps.
LEMMA PrepareTypes ==
    ASSUME Types, Named, NEW m \in Messages, Prepare(m)
    PROVE  Types'
<1> USE Actor DEF stores, events, host, local
<1>0. /\ \A p \in Pcs : Goto(m, p) => pc' \in [Actors -> Pcs]
      /\ \A j \in Jobs : StartJob(m, j) => job' \in [Actors -> Jobs]
  BY Assignments
<1>1. CASE PrepareRead(m)
  <2>1. target' \in [Actors -> Targets]
    <3>1. ReadCopy(FALSE) \in Targets /\ target \in [Actors -> Targets]
      BY ReadCopyTypes DEF Types
    <3> QED BY <1>1, <3>1 DEF PrepareRead
  <2>2. lock.status \in TerminalStatus => Finalization(lock.msg, lock.status, TRUE, FALSE) \in Jobs
    BY Constructors DEF Types, Locks
  <2>3. job' \in [Actors -> Jobs]
    <3>1. job \in [Actors -> Jobs]
      BY DEF Types
    <3> QED BY <1>1, <1>0, <2>2, <3>1 DEF PrepareRead
  <2>4. pc' \in [Actors -> Pcs]
    BY <1>1, <1>0, Places DEF PrepareRead
  <2> QED BY <1>1, <2>1, <2>3, <2>4 DEF PrepareRead, Types
<1>2. CASE PrepareTidied(m)
  <2>1. pc' \in [Actors -> Pcs]
    BY <1>2, <1>0, Places DEF PrepareTidied
  <2> QED BY <1>2, <2>1 DEF PrepareTidied, Types
<1>3. CASE PrepareRecover(m)
  <2>1. target[m].msg \in Messages
    BY <1>3 DEF PrepareRecover, Named
  <2>2. Finalization(target[m].msg, "failed", TRUE, FALSE) \in Jobs
    BY <2>1, Constructors DEF TerminalStatus
  <2>3. \A s \in terminal[target[m].msg] : ProvenFinalization(target[m].msg, s) \in Jobs
    BY <2>1, ProvenTypes
  <2>4. job' \in [Actors -> Jobs]
    <3>1. job \in [Actors -> Jobs]
      BY DEF Types
    <3> QED BY <1>3, <1>0, <2>2, <2>3, <3>1 DEF PrepareRecover
  <2>5. pc' \in [Actors -> Pcs]
    BY <1>3, <1>0, Places DEF PrepareRecover
  <2> QED BY <1>3, <2>4, <2>5 DEF PrepareRecover, Types
<1>4. CASE PrepareRepaired(m)
  <2>1. pc' \in [Actors -> Pcs]
    BY <1>4, <1>0, Places DEF PrepareRepaired
  <2> QED BY <1>4, <2>1 DEF PrepareRepaired, Types
<1>5. CASE PrepareClaim(m)
  <2>1. run' \in [Messages -> Runs]
    <3>1. run \in [Messages -> Runs] /\ eventCursor \in Nat
      BY DEF Types
    <3>2. [NoRun EXCEPT !.base = eventCursor, !.pos = eventCursor] \in Runs
      BY <3>1 DEF Runs, NoRun
    <3> QED BY <1>5, <3>1, <3>2 DEF PrepareClaim
  <2>2. lock' \in Locks
    BY <1>5, Constructors DEF PrepareClaim, Types
  <2>3. pc' \in [Actors -> Pcs]
    BY <1>5, <1>0, Places DEF PrepareClaim
  <2> QED BY <1>5, <2>1, <2>2, <2>3 DEF PrepareClaim, Types
<1>6. CASE PrepareAppend(m)
  <2>1. pc' \in [Actors -> Pcs]
    BY <1>6, <1>0, Places DEF PrepareAppend
  <2> QED BY <1>6, <2>1 DEF PrepareAppend, Types
<1>7. CASE PrepareMark(m)
  <2>1. pc' \in [Actors -> Pcs]
    BY <1>7, <1>0, Places DEF PrepareMark
  <2>2. sidebar' \in [msg : Messages \cup {None}, status : {"none", "running", "suspended"}]
    BY <1>7 DEF PrepareMark, Running, Types
  <2> QED BY <1>7, <2>1, <2>2 DEF PrepareMark, Types
<1>8. CASE PrepareUndo(m)
  <2>1. pc' \in [Actors -> Pcs]
    BY <1>8, <1>0, Places DEF PrepareUndo
  <2>2. lock' \in Locks
    <3>1. lock \in Locks
      BY DEF Types
    <3> QED BY <1>8, <3>1 DEF PrepareUndo, Locks, TerminalStatus
  <2>3. run' \in [Messages -> Runs]
    <3>1. run \in [Messages -> Runs]
      BY DEF Types
    <3> QED BY <1>8, <3>1, Constructors DEF PrepareUndo
  <2> QED BY <1>8, <2>1, <2>2, <2>3 DEF PrepareUndo, Types
<1> QED BY <1>1, <1>2, <1>3, <1>4, <1>5, <1>6, <1>7, <1>8 DEF Prepare

\* Types of the finally clause: its slot is there to be released.
LEMMA FinallyTypes ==
    ASSUME Types, inFlight > 0, NEW m \in Messages, Finally(m)
    PROVE  /\ inFlight' \in 0..MaxSlots
           /\ run' \in [Messages -> Runs]
           /\ job' \in [Actors -> Jobs]
           /\ pc' \in [Actors -> Pcs]
<1> USE Actor
<1>0. /\ \A p \in Pcs : Goto(m, p) => pc' \in [Actors -> Pcs]
      /\ \A j \in Jobs : StartJob(m, j) => job' \in [Actors -> Jobs]
  BY Assignments
<1>1. inFlight' \in 0..MaxSlots
  BY SlotsExist DEF Finally, ReleaseSlot, Types
<1>2. run' \in [Messages -> Runs]
  <2>1. run \in [Messages -> Runs]
    BY DEF Types
  <2> QED BY <2>1, Constructors DEF Finally
<1>3. job' \in [Actors -> Jobs] /\ pc' \in [Actors -> Pcs]
  BY <1>0, Constructors, Places DEF Finally
<1> QED BY <1>1, <1>2, <1>3

\* Types of the runner's steps (turn_runner.run).
LEMMA RunnerTypes ==
    ASSUME Types, InLog, NEW m \in Messages, pc[m] \in SlotPcs => inFlight > 0, Runner(m)
    PROVE  Types'
<1> USE Actor DEF stores, events, host, local
<1>0. /\ \A p \in Pcs : Goto(m, p) => pc' \in [Actors -> Pcs]
      /\ \A j \in Jobs : StartJob(m, j) => job' \in [Actors -> Jobs]
      /\ pc \in [Actors -> Pcs] /\ job \in [Actors -> Jobs] /\ run \in [Messages -> Runs] /\ run[m] \in Runs
  BY Assignments DEF Types
<1>r. \A r \in Runs : run' = [run EXCEPT ![m] = r] => run' \in [Messages -> Runs]
  BY <1>0
<1>1. CASE RunnerAcquire(m)
  <2>1. pc' \in [Actors -> Pcs]
    BY <1>1, <1>0, Places DEF RunnerAcquire
  <2>2. inFlight' \in 0..MaxSlots
    BY <1>1, SlotsExist DEF RunnerAcquire, AcquireSlot, Types
  <2> QED BY <1>1, <2>1, <2>2 DEF RunnerAcquire, Types
<1>2. CASE RunnerSend(m)
  <2>1. pc' \in [Actors -> Pcs]
    BY <1>2, <1>0, Places DEF RunnerSend
  <2>2. hostq' \in Seq(Messages)
    <3>1. hostq \in Seq(Messages)
      BY DEF Types
    <3> QED BY <1>2, <3>1 DEF RunnerSend
  <2> QED BY <1>2, <2>1, <2>2 DEF RunnerSend, Types
<1>3. CASE RunnerReads(m)
  <2>1. pc' \in [Actors -> Pcs]
    BY <1>3, <1>0, Places DEF RunnerReads
  <2>2. \/ run' = [run EXCEPT ![m] = [run[m] EXCEPT !.pos = run[m].pos + 1]]
        \/ \E s \in TerminalStatus :
              run' = [run EXCEPT ![m] = [run[m] EXCEPT !.pos = run[m].pos + 1, !.status = s]]
    BY <1>3, <1>0 DEF RunnerReads
  <2>3. run' \in [Messages -> Runs]
    BY <1>0, <1>r, <2>2, RunAssignments
  <2> QED BY <1>3, <2>1, <2>3 DEF RunnerReads, Types
<1>4. CASE RunnerStreamBreaks(m)
  <2>1. pc' \in [Actors -> Pcs]
    BY <1>4, <1>0, Places DEF RunnerStreamBreaks
  <2>2. run' = [run EXCEPT ![m] = [run[m] EXCEPT !.pos = run[m].pos + 1, !.broken = TRUE, !.status = "failed"]]
    BY <1>4, <1>0 DEF RunnerStreamBreaks
  <2>3. run' \in [Messages -> Runs]
    BY <1>0, <1>r, <2>2, RunAssignments
  <2> QED BY <1>4, <2>1, <2>3 DEF RunnerStreamBreaks, Types
<1>5. CASE WriterPersists(m)
  <2>1. Reportable(ReadByRunner(m))
    BY ReadTypes, SameTypes DEF InLog
  <2>2. rows' \in [Messages -> SUBSET EventKinds] /\ stored' \subseteq Ids
    BY <1>5, <2>1, StoreTypes, SameTypes DEF WriterPersists
  <2> QED BY <1>5, <2>2 DEF WriterPersists, Types
<1>6. CASE WriterAdvances(m)
  <2>1. eventCursor' \in Nat
    BY <1>6, <1>0 DEF WriterAdvances, Runs
  <2> QED BY <1>6, <2>1 DEF WriterAdvances, Types
<1>7. CASE RunnerFlushed(m)
  <2>1. pc' \in [Actors -> Pcs]
    BY <1>7, <1>0, Places DEF RunnerFlushed
  <2> QED BY <1>7, <2>1 DEF RunnerFlushed, Types
<1>8. CASE RunnerBreaks(m)
  <2>1. pc' \in [Actors -> Pcs]
    BY <1>8, <1>0, Places DEF RunnerBreaks
  <2> QED BY <1>8, <2>1 DEF RunnerBreaks, Types
<1>9. CASE RunnerFail(m)
  <2>1. pc[m] \in {"fail", "ended"} /\ run[m].pos \in Nat
    BY <1>9, <1>0 DEF RunnerFail, Runs
  <2>2. Reportable({<<pc[m], run[m].pos>>})
    BY <2>1 DEF Reportable, Ids
  <2>3. rows' \in [Messages -> SUBSET EventKinds] /\ stored' \subseteq Ids
    BY <1>9, <2>2, StoreTypes, SameTypes DEF RunnerFail, Types
  <2>4. run' = [run EXCEPT ![m] = [run[m] EXCEPT !.status = "failed"]]
    BY <1>9, <1>0 DEF RunnerFail
  <2>5. run' \in [Messages -> Runs]
    BY <1>0, <1>r, <2>4, RunAssignments
  <2>6. pc' \in [Actors -> Pcs]
    BY <1>9, <1>0, Places DEF RunnerFail
  <2> QED BY <1>9, <2>3, <2>5, <2>6 DEF RunnerFail, Types
<1>10. CASE RunnerSettle(m)
  <2>1. Finalization(m, run[m].status, ~Saw(m), FALSE) \in Jobs
    <3> DEFINE unseen == ~Saw(m)
    <3>1. run[m].status \in {"none"} \cup TerminalStatus
      BY <1>0 DEF Runs
    <3>2. unseen \in BOOLEAN
      BY DEF Saw
    <3> HIDE DEF unseen
    <3>3. Finalization(m, run[m].status, unseen, FALSE) \in Jobs
      BY <3>1, <3>2, Constructors
    <3> QED BY <3>3 DEF unseen
  <2>2. Finalization(m, "failed", TRUE, FALSE) \in Jobs
    BY Constructors DEF TerminalStatus
  <2>3. job' \in [Actors -> Jobs]
    BY <1>10, <1>0, <2>1, <2>2 DEF RunnerSettle
  <2>4. pc' \in [Actors -> Pcs]
    BY <1>10, <1>0, Places DEF RunnerSettle
  <2>5. run' = run \/ run' = [run EXCEPT ![m] = [run[m] EXCEPT !.status = "failed"]]
    BY <1>10, <1>0 DEF RunnerSettle
  <2>6. run' \in [Messages -> Runs]
    BY <1>0, <1>r, <2>5, RunAssignments
  <2> QED BY <1>10, <2>3, <2>4, <2>6 DEF RunnerSettle, Types
<1>11. CASE RunnerFinalized(m)
  <2>1. CASE Finally(m)
    <3>1. inFlight > 0
      BY <1>11 DEF RunnerFinalized, SlotPcs, At
    <3> QED BY <1>11, <2>1, <3>1, FinallyTypes DEF RunnerFinalized, Types
  <2>2. CASE ~Finally(m)
    <3>1. Finalization(m, "failed", TRUE, FALSE) \in Jobs
      BY Constructors DEF TerminalStatus
    <3>2. StartJob(m, Finalization(m, "failed", TRUE, FALSE)) /\ Goto(m, "refinalize")
      BY <1>11, <2>2 DEF RunnerFinalized
    <3>5. job' \in [Actors -> Jobs] /\ pc' \in [Actors -> Pcs]
      BY <1>0, <3>1, <3>2, Places
    <3>3. run' = [run EXCEPT ![m] = [run[m] EXCEPT !.status = "failed"]]
      BY <1>11, <1>0, <2>2 DEF RunnerFinalized
    <3>4. run' \in [Messages -> Runs]
      BY <1>0, <1>r, <3>3, RunAssignments
    <3> QED BY <1>11, <2>2, <3>4, <3>5 DEF RunnerFinalized, Types
  <2> QED BY <2>1, <2>2
<1>12. CASE RunnerRefinalized(m)
  <2>1. inFlight > 0
    BY <1>12 DEF RunnerRefinalized, SlotPcs, At
  <2> QED BY <1>12, <2>1, FinallyTypes DEF RunnerRefinalized, Types
<1>13. CASE RunnerEnds(m)
  <2>1. pc' \in [Actors -> Pcs]
    BY <1>13, <1>0, Places DEF RunnerEnds
  <2> QED BY <1>13, <2>1 DEF RunnerEnds, Types
<1> QED BY <1>1, <1>2, <1>3, <1>4, <1>5, <1>6, <1>7, <1>8, <1>9, <1>10, <1>11, <1>12, <1>13
        DEF Runner, RunnerWorks

\* Types of a cancelled task (task.cancel).
LEMMA CancelTypes ==
    ASSUME Types, NEW m \in Messages, pc[m] \in SlotPcs => inFlight > 0, CancelTask(m),
           UNCHANGED <<stores, host>>
    PROVE  /\ inFlight' \in 0..MaxSlots
           /\ run' \in [Messages -> Runs]
           /\ job' \in [Actors -> Jobs]
           /\ pc' \in [Actors -> Pcs]
<1> USE Actor
<1>0. /\ \A p \in Pcs : Goto(m, p) => pc' \in [Actors -> Pcs]
      /\ \A j \in Jobs : StartJob(m, j) => job' \in [Actors -> Jobs]
      /\ inFlight \in 0..MaxSlots /\ run \in [Messages -> Runs]
  BY Assignments DEF Types
<1>1. CASE pc[m] \in {"settle", "finalize", "refinalize"} /\ Finally(m)
  BY <1>1, FinallyTypes DEF SlotPcs
<1>2. CASE ~Finally(m)
  <2>1. Finalization(m, "cancelled", TRUE, FALSE) \in Jobs
    BY Constructors DEF TerminalStatus
  <2>2. job' \in [Actors -> Jobs] /\ pc' \in [Actors -> Pcs]
    BY <1>0, <1>2, <2>1, Constructors, Places DEF CancelTask
  <2>3. run' = [run EXCEPT ![m] = NoRun] /\ inFlight' = inFlight
    BY <1>2 DEF CancelTask
  <2> QED BY <1>0, <2>2, <2>3, Constructors
<1>3. CASE Finally(m) /\ pc[m] \notin {"settle", "finalize", "refinalize"}
  <2>1. run' = [run EXCEPT ![m] = NoRun] /\ inFlight' = inFlight
    BY <1>3 DEF CancelTask
  <2>2. job' \in [Actors -> Jobs] /\ pc' \in [Actors -> Pcs]
    BY <1>0, <1>3, Constructors, Places DEF Finally
  <2> QED BY <1>0, <2>1, <2>2, Constructors
<1> QED BY <1>1, <1>2, <1>3

\* Types of the host's steps; its journal only grows.
LEMMA HostTypes ==
    ASSUME Types, NEW m \in Messages, HostAsks(m) \/ HostEnds(m)
    PROVE  Types' /\ LogGrows
<1> USE DEF stores, events, host, local
<1>1. CASE HostAsks(m)
  <2>1. [msg |-> m, what |-> "ask"] \in Entries
    BY DEF Entries, EventKinds
  <2>2. log' \in Seq(Entries) /\ LogGrows
    BY <1>1, <2>1, SameTypes, Appends DEF HostAsks
  <2> QED BY <1>1, <2>2 DEF HostAsks, Types
<1>2. CASE HostEnds(m)
  <2>1. PICK s \in TerminalStatus : log' = Append(log, [msg |-> m, what |-> s])
    BY <1>2 DEF HostEnds
  <2>2. [msg |-> m, what |-> s] \in Entries
    BY DEF Entries, EventKinds
  <2>3. log' \in Seq(Entries) /\ LogGrows
    BY <2>1, <2>2, SameTypes, Appends
  <2>4. hostq' \in Seq(Messages)
    BY <1>2 DEF HostEnds, Types
  <2> QED BY <1>2, <2>3, <2>4 DEF HostEnds, Types
<1> QED BY <1>1, <1>2

\* Types of the steps of cancel and snapshot.
LEMMA ClientTypes ==
    ASSUME Types, InLog, Named, NEW k \in Clients, Client(k),
           \A m \in Messages : pc[m] \in SlotPcs => inFlight > 0
    PROVE  Types'
<1> USE Actor DEF stores, events, host, local
<1>0. /\ \A p \in Pcs : Goto(k, p) => pc' \in [Actors -> Pcs]
      /\ \A j \in Jobs : StartJob(k, j) => job' \in [Actors -> Jobs]
      /\ pc \in [Actors -> Pcs] /\ job \in [Actors -> Jobs] /\ target \in [Actors -> Targets]
      /\ lock \in Locks /\ target[k] \in Targets
  BY Assignments DEF Types
<1>r. Return(k) => pc' \in [Actors -> Pcs] /\ target' \in [Actors -> Targets]
  BY <1>0, Places, Constructors DEF Return
<1>1. CASE CancelRead(k)
  <2>1. ReadCopy(lock.status = "running") \in Targets
    BY ReadCopyTypes
  <2>2. target' \in [Actors -> Targets]
    BY <1>0, <1>1, <2>1 DEF CancelRead
  <2>3. lock.status # "running" /\ lock # NoLock => lock.status \in {"none"} \cup TerminalStatus
    BY <1>0 DEF Locks
  <2>4. lock.status # "running" => Finalization(lock.msg, lock.status, TRUE, FALSE) \in Jobs
    BY <1>0, Constructors DEF Locks
  <2>5. job' \in [Actors -> Jobs] /\ pc' \in [Actors -> Pcs]
    BY <1>0, <1>1, <2>4, Places DEF CancelRead
  <2> QED BY <1>1, <2>2, <2>5 DEF CancelRead, Types
<1>2. CASE ClientTidied(k)
  BY <1>2, <1>r DEF ClientTidied, Types
<1>3. CASE CancelGateway(k)
  <2>1. pc' \in [Actors -> Pcs] /\ target' \in [Actors -> Targets]
    <3>1. CASE Return(k)
      BY <3>1, <1>r
    <3>2. CASE Goto(k, "lookup") /\ UNCHANGED target
      BY <3>2, <1>0, Places
    <3> QED BY <1>3, <3>1, <3>2 DEF CancelGateway
  <2>2. log' \in Seq(Entries) /\ hostq' \in Seq(Messages)
    <3>0. log \in Seq(Entries) /\ hostq \in Seq(Messages)
      BY DEF Types
    <3>1. CASE UNCHANGED host
      BY <3>0, <3>1
    <3>2. CASE ~UNCHANGED host
      <4>1. /\ log' = log \o [i \in DOMAIN hostq |-> [msg |-> hostq[i], what |-> "cancelled"]]
            /\ hostq' = <<>>
        BY <1>3, <3>2 DEF CancelGateway
      <4>2. log' \in Seq(Entries)
        BY <4>1, SameTypes, Cancels
      <4>3. hostq' \in Seq(Messages)
        BY <4>1, EmptySeq
      <4> QED BY <4>2, <4>3
    <3> QED BY <3>1, <3>2
  <2> QED BY <1>3, <2>1, <2>2 DEF CancelGateway, Types
<1>4. CASE CancelLookup(k)
  <2> DEFINE b == Alive(target[k].msg)
  <2>0. b \in BOOLEAN
    BY DEF Alive
  <2>5. target' = [target EXCEPT ![k].task = b] /\ Goto(k, IF b THEN "wait" ELSE "ingest")
    BY <1>4 DEF CancelLookup
  <2> HIDE DEF b
  <2>1. target' = [target EXCEPT ![k] = [target[k] EXCEPT !.task = b]]
    BY <1>0, <2>5
  <2>2. [target[k] EXCEPT !.task = b] \in Targets
    BY <1>0, <2>0 DEF Targets
  <2>3. target' \in [Actors -> Targets]
    BY <1>0, <2>1, <2>2
  <2>4. pc' \in [Actors -> Pcs]
    BY <1>0, <2>5, Places
  <2> QED BY <1>4, <2>3, <2>4 DEF CancelLookup, Types
<1>5. CASE CancelWait(k)
  <2>1. pc' \in [Actors -> Pcs] /\ target' \in [Actors -> Targets]
    <3>1. CASE Return(k)
      BY <3>1, <1>r
    <3>2. CASE ~Return(k)
      <4>1. Goto(k, IF Alive(target[k].msg) THEN "ingest" ELSE "last") /\ UNCHANGED target
        BY <1>5, <3>2 DEF CancelWait
      <4>2. CASE Goto(k, "ingest") /\ UNCHANGED target
        BY <4>2, <1>0, Places
      <4>3. CASE Goto(k, "last") /\ UNCHANGED target
        BY <4>3, <1>0, Places
      <4> QED BY <4>1, <4>2, <4>3
    <3> QED BY <3>1, <3>2
  <2> QED BY <1>5, <2>1 DEF CancelWait, Types
<1>6. CASE SnapshotRead(k)
  <2>1. ReadCopy(TRUE) \in Targets
    BY ReadCopyTypes
  <2>2. target' \in [Actors -> Targets] /\ pc' \in [Actors -> Pcs]
    BY <1>0, <1>6, <2>1, Places DEF SnapshotRead
  <2> QED BY <1>6, <2>2 DEF SnapshotRead, Types
<1>7. CASE IngestFetch(k)
  <2>1. Len(log) \in Nat
    BY LenProperties DEF Types
  <2>2. [target[k] EXCEPT !.upto = Len(log)] \in Targets
    BY <1>0, <2>1 DEF Targets
  <2>3. pc' \in [Actors -> Pcs] /\ target' \in [Actors -> Targets]
    <3>1. CASE Return(k)
      BY <3>1, <1>r
    <3>2. CASE ~Return(k)
      <4>1. target' = [target EXCEPT ![k] = [target[k] EXCEPT !.upto = Len(log)]]
        BY <1>0, <1>7, <3>2 DEF IngestFetch
      <4> QED BY <1>0, <1>7, <2>2, <3>2, <4>1, Places DEF IngestFetch
    <3> QED BY <3>1, <3>2
  <2> QED BY <1>7, <2>3 DEF IngestFetch, Types
<1>14. CASE IngestPersist(k)
  <2>1. pc' \in [Actors -> Pcs] /\ target' \in [Actors -> Targets]
    BY <1>0, <1>14, <1>r, Places DEF IngestPersist
  <2>2. target[k].msg \in Messages
    BY <1>14 DEF IngestPersist, Named, At, ClientPcs
  <2>3. Reportable(Fetched(k))
    BY FetchedTypes, SameTypes DEF InLog
  <2>4. rows' \in [Messages -> SUBSET EventKinds] /\ stored' \subseteq Ids
    BY <1>14, <2>2, <2>3, StoreTypes, SameTypes DEF IngestPersist, Types
  <2> QED BY <1>14, <2>1, <2>4 DEF IngestPersist, Types
<1>15. CASE IngestAdvance(k)
  <2>1. pc' \in [Actors -> Pcs] /\ target' \in [Actors -> Targets]
    BY <1>0, <1>15, <1>r, Places DEF IngestAdvance
  <2>2. eventCursor' \in Nat
    BY <1>0, <1>15 DEF IngestAdvance, Types, Targets
  <2> QED BY <1>15, <2>1, <2>2 DEF IngestAdvance, Types
<1>8. CASE Prove(k)
  <2>1. target[k].msg \in Messages
    BY <1>8 DEF Prove, Named, At, ClientPcs
  <2>2. \A s \in terminal[target[k].msg] : ProvenFinalization(target[k].msg, s) \in Jobs
    BY <2>1, ProvenTypes
  <2>3. job' \in [Actors -> Jobs]
    BY <1>0, <1>8, <2>2 DEF Prove
  <2>4. pc' \in [Actors -> Pcs]
    BY <1>0, <1>8, Places DEF Prove
  <2> QED BY <1>8, <2>3, <2>4 DEF Prove, Types
<1>9. CASE Proved(k)
  <2>1. pc' \in [Actors -> Pcs] /\ target' \in [Actors -> Targets]
    BY <1>0, <1>9, <1>r, Places DEF Proved
  <2> QED BY <1>9, <2>1 DEF Proved, Types
<1>10. CASE CancelInterrupt(k)
  <2>1. target[k].msg \in Messages
    BY <1>10 DEF CancelInterrupt, Named, At, ClientPcs
  <2>2. /\ inFlight' \in 0..MaxSlots /\ run' \in [Messages -> Runs]
        /\ job' \in [Actors -> Jobs] /\ pc' \in [Actors -> Pcs]
    BY <1>10, <2>1, CancelTypes DEF CancelInterrupt
  <2>3. [target[k] EXCEPT !.task = FALSE] \in Targets
    BY <1>0 DEF Targets
  <2>4. target' \in [Actors -> Targets]
    BY <1>0, <1>10, <2>3 DEF CancelInterrupt
  <2> QED BY <1>10, <2>2, <2>4 DEF CancelInterrupt, Types
<1>11. CASE CancelGathered(k)
  <2>1. pc' \in [Actors -> Pcs]
    BY <1>0, <1>11, Places DEF CancelGathered
  <2> QED BY <1>11, <2>1 DEF CancelGathered, Types
<1>12. CASE CancelLast(k)
  <2>1. target[k].msg \in Messages
    BY <1>12 DEF CancelLast, Named, At, ClientPcs
  <2>2. Finalization(target[k].msg, "cancelled", TRUE, FALSE) \in Jobs
    BY <2>1, Constructors DEF TerminalStatus
  <2>3. job' \in [Actors -> Jobs] /\ pc' \in [Actors -> Pcs]
    BY <1>0, <1>12, <2>2, Places, Constructors DEF CancelLast
  <2> QED BY <1>12, <2>3 DEF CancelLast, Types
<1>13. CASE CancelReturns(k)
  <2>1. target[k].msg \in Messages
    BY <1>13 DEF CancelReturns, Named, At, ClientPcs
  <2> QED BY <1>13, <1>r, <2>1 DEF CancelReturns, Types
<1> QED BY <1>1, <1>2, <1>3, <1>4, <1>5, <1>6, <1>7, <1>8, <1>9, <1>10, <1>11, <1>12, <1>13,
       <1>14, <1>15 DEF Client

\* Types after a crash.
LEMMA CrashTypes ==
    ASSUME Types, Crash
    PROVE  Types'
<1>1. pc' \in [Actors -> Pcs]
  BY Places DEF Crash, Types
<1>2. job' \in [Actors -> Jobs] /\ target' \in [Actors -> Targets] /\ run' \in [Messages -> Runs]
  BY Constructors DEF Crash
<1>3. inFlight' \in 0..MaxSlots /\ crashes' \in 0..MaxCrashes
  BY SlotsExist, FaultsAndClock DEF Crash, Types
<1> QED BY <1>1, <1>2, <1>3 DEF Crash, Types, stores, events, host

-----------------------------------------------------------------------------
(* What a step leaves alone. *)

\* Every actor but a, and every run but m's.
Others(a) == \A x \in Actors \ {a} : pc'[x] = pc[x] /\ target'[x] = target[x] /\ job'[x] = job[x]
OtherRuns(m) == \A x \in Messages \ {m} : run'[x] = run[x]

\* An assignment to one actor leaves the others where they are.
LEMMA Locality ==
    ASSUME Types, NEW a \in Actors
    PROVE  /\ \A p : Goto(a, p) => pc'[a] = p /\ \A x \in Actors \ {a} : pc'[x] = pc[x]
           /\ \A j : StartJob(a, j) => job'[a] = j /\ \A x \in Actors \ {a} : job'[x] = job[x]
           /\ Return(a) => /\ pc'[a] = "idle" /\ target'[a] = NoTarget
                           /\ \A x \in Actors \ {a} : pc'[x] = pc[x] /\ target'[x] = target[x]
BY DEF Types, Goto, StartJob, Return

\* A step of a finalization is of one actor only.
LEMMA JobLocal ==
    ASSUME Types, NEW a \in Actors, JobStep(a)
    PROVE  \A x \in Actors \ {a} : job'[x] = job[x]
<1>1. \A p : SetPhase(a, p) => \A x \in Actors \ {a} : job'[x] = job[x]
  BY DEF Types, SetPhase
<1> QED BY <1>1 DEF JobStep, FinishTurn, ClearActiveRun, SuspendActiveRun, JobRaises

\* A step of prepare_turn is of one actor only.
LEMMA PrepareLocal ==
    ASSUME Types, NEW m \in Messages, Prepare(m)
    PROVE  Others(m) /\ OtherRuns(m)
<1> USE Actor DEF Others, OtherRuns, local
<1>0. /\ \A p : Goto(m, p) => pc'[m] = p /\ \A x \in Actors \ {m} : pc'[x] = pc[x]
      /\ \A j : StartJob(m, j) => job'[m] = j /\ \A x \in Actors \ {m} : job'[x] = job[x]
  BY Locality
<1>1. CASE PrepareRead(m)
  <2>1. \A x \in Actors \ {m} : target'[x] = target[x]
    BY <1>1 DEF PrepareRead, Types
  <2> QED BY <1>0, <1>1, <2>1 DEF PrepareRead
<1>2. CASE PrepareTidied(m)
  BY <1>0, <1>2 DEF PrepareTidied
<1>3. CASE PrepareRecover(m)
  BY <1>0, <1>3 DEF PrepareRecover
<1>4. CASE PrepareRepaired(m)
  BY <1>0, <1>4 DEF PrepareRepaired
<1>5. CASE PrepareClaim(m)
  <2>1. \A x \in Messages \ {m} : run'[x] = run[x]
    BY <1>5 DEF PrepareClaim, Types
  <2> QED BY <1>0, <1>5, <2>1 DEF PrepareClaim
<1>6. CASE PrepareAppend(m)
  BY <1>0, <1>6 DEF PrepareAppend
<1>7. CASE PrepareMark(m)
  BY <1>0, <1>7 DEF PrepareMark
<1>8. CASE PrepareUndo(m)
  <2>1. \A x \in Messages \ {m} : run'[x] = run[x]
    BY <1>8 DEF PrepareUndo, Types
  <2> QED BY <1>0, <1>8, <2>1 DEF PrepareUndo
<1> QED BY <1>1, <1>2, <1>3, <1>4, <1>5, <1>6, <1>7, <1>8 DEF Prepare

\* The finally clause is of one runner only, and ends it or suspends.
LEMMA FinallyLocal ==
    ASSUME Types, NEW m \in Messages, Finally(m)
    PROVE  /\ \A x \in Actors \ {m} : pc'[x] = pc[x] /\ job'[x] = job[x]
           /\ OtherRuns(m) /\ run'[m] = NoRun
           /\ pc'[m] \in {"suspend", "done"}
<1> USE Actor
<1>0. /\ \A p : Goto(m, p) => pc'[m] = p /\ \A x \in Actors \ {m} : pc'[x] = pc[x]
      /\ \A j : StartJob(m, j) => job'[m] = j /\ \A x \in Actors \ {m} : job'[x] = job[x]
  BY Locality
<1>1. OtherRuns(m) /\ run'[m] = NoRun
  BY DEF Finally, Types, OtherRuns
<1> QED BY <1>0, <1>1 DEF Finally

\* task.cancel moves the task it cancels only.
LEMMA CancelLocal ==
    ASSUME Types, NEW m \in Messages, CancelTask(m)
    PROVE  /\ \A x \in Actors \ {m} : pc'[x] = pc[x] /\ job'[x] = job[x]
           /\ OtherRuns(m) /\ run'[m] = NoRun
           /\ pc'[m] \in {"suspend", "done", "dead", "aborting"}
<1> USE Actor
<1>0. /\ \A p : Goto(m, p) => pc'[m] = p /\ \A x \in Actors \ {m} : pc'[x] = pc[x]
      /\ \A j : StartJob(m, j) => job'[m] = j /\ \A x \in Actors \ {m} : job'[x] = job[x]
  BY Locality
<1>1. CASE Finally(m)
  BY <1>1, FinallyLocal
<1>2. CASE ~Finally(m)
  <2>1. run' = [run EXCEPT ![m] = NoRun]
    BY <1>2 DEF CancelTask
  <2>2. OtherRuns(m) /\ run'[m] = NoRun
    BY <2>1 DEF Types, OtherRuns
  <2> QED BY <1>0, <1>2, <2>2 DEF CancelTask
<1> QED BY <1>1, <1>2

\* A step of a runner is of one actor only.
LEMMA RunnerLocal ==
    ASSUME Types, NEW m \in Messages, Runner(m)
    PROVE  Others(m) /\ OtherRuns(m)
<1> USE Actor DEF Others, OtherRuns, stores, events, host, local
<1>0. /\ \A p : Goto(m, p) => pc'[m] = p /\ \A x \in Actors \ {m} : pc'[x] = pc[x]
      /\ \A j : StartJob(m, j) => job'[m] = j /\ \A x \in Actors \ {m} : job'[x] = job[x]
      /\ run \in [Messages -> Runs]
  BY Locality DEF Types
<1>1. CASE RunnerAcquire(m) \/ RunnerSend(m)
  BY <1>0, <1>1 DEF RunnerAcquire, RunnerSend
<1>2. CASE RunnerReads(m)
  BY <1>0, <1>2 DEF RunnerReads
<1>3. CASE RunnerStreamBreaks(m)
  BY <1>0, <1>3 DEF RunnerStreamBreaks
<1>4. CASE WriterPersists(m) \/ WriterAdvances(m) \/ RunnerFlushed(m) \/ RunnerBreaks(m)
  BY <1>0, <1>4 DEF WriterPersists, WriterAdvances, RunnerFlushed, RunnerBreaks
<1>5. CASE RunnerFail(m)
  BY <1>0, <1>5 DEF RunnerFail
<1>6. CASE RunnerSettle(m)
  BY <1>0, <1>6 DEF RunnerSettle
<1>7. CASE RunnerFinalized(m)
  <2>1. CASE Finally(m)
    BY <1>7, <2>1, FinallyLocal DEF RunnerFinalized
  <2>2. CASE ~Finally(m)
    BY <1>0, <1>7, <2>2 DEF RunnerFinalized
  <2> QED BY <2>1, <2>2
<1>8. CASE RunnerRefinalized(m)
  BY <1>8, FinallyLocal DEF RunnerRefinalized
<1>9. CASE RunnerEnds(m)
  BY <1>0, <1>9 DEF RunnerEnds
<1> QED BY <1>1, <1>2, <1>3, <1>4, <1>5, <1>6, <1>7, <1>8, <1>9 DEF Runner, RunnerWorks

\* A client interrupts a runner, or acts for itself only.
LEMMA ClientLocal ==
    ASSUME Types, NEW k \in Clients, Client(k), ~CancelInterrupt(k)
    PROVE  Others(k) /\ UNCHANGED <<run, inFlight>>
<1> USE Actor DEF Others, stores, events, host, local
<1>0. /\ \A p : Goto(k, p) => pc'[k] = p /\ \A x \in Actors \ {k} : pc'[x] = pc[x]
      /\ \A j : StartJob(k, j) => job'[k] = j /\ \A x \in Actors \ {k} : job'[x] = job[x]
      /\ Return(k) => \A x \in Actors \ {k} : pc'[x] = pc[x] /\ target'[x] = target[x]
      /\ target \in [Actors -> Targets]
  BY Locality DEF Types
<1>1. CASE CancelRead(k)
  BY <1>0, <1>1 DEF CancelRead
<1>2. CASE ClientTidied(k)
  BY <1>0, <1>2 DEF ClientTidied
<1>3. CASE CancelGateway(k)
  BY <1>0, <1>3 DEF CancelGateway
<1>4. CASE CancelLookup(k)
  BY <1>0, <1>4 DEF CancelLookup
<1>5. CASE CancelWait(k) \/ CancelGathered(k) \/ CancelLast(k) \/ Prove(k)
  BY <1>0, <1>5 DEF CancelWait, CancelGathered, CancelLast, Prove
<1>6. CASE SnapshotRead(k)
  BY <1>0, <1>6 DEF SnapshotRead
<1>7. CASE IngestFetch(k)
  <2>1. \A x \in Actors \ {k} : target'[x] = target[x]
    BY <1>0, <1>7 DEF IngestFetch
  <2> QED BY <1>0, <1>7, <2>1 DEF IngestFetch
<1>14. CASE IngestPersist(k) \/ IngestAdvance(k)
  BY <1>0, <1>14 DEF IngestPersist, IngestAdvance
<1>8. CASE Proved(k)
  BY <1>0, <1>8 DEF Proved
<1>9. CASE CancelReturns(k)
  BY <1>0, <1>9 DEF CancelReturns
<1> QED BY <1>1, <1>2, <1>3, <1>4, <1>5, <1>6, <1>7, <1>8, <1>9, <1>14 DEF Client

-----------------------------------------------------------------------------
(* Slots are taken and given back one at a time. *)

\* One slot more or less, and one holder more or less.
LEMMA Counted ==
    ASSUME Types, Slots, NEW m \in Messages, \A x \in Messages \ {m} : pc'[x] = pc[x],
           Uncancelled => pc'[m] # "aborting",
           \/ (pc[m] \in SlotPcs <=> pc'[m] \in SlotPcs) /\ inFlight' = inFlight
           \/ pc[m] \notin SlotPcs /\ pc'[m] \in SlotPcs /\ inFlight' = inFlight + 1
           \/ pc[m] \in SlotPcs /\ pc'[m] \notin SlotPcs /\ inFlight' = inFlight - 1
           \/ pc[m] \in SlotPcs /\ pc'[m] \notin SlotPcs /\ inFlight' = inFlight /\ ~Uncancelled
    PROVE  Slots'
<1>0. /\ IsFiniteSet(Holders) /\ Cardinality(Holders) \in Nat /\ inFlight \in Nat
      /\ Cardinality(Holders) <= inFlight /\ (Uncancelled => inFlight = Cardinality(Holders))
  BY FS_CardinalityType, SlotsExist DEF Slots, Types
<1>1. /\ Uncancelled => \A x \in Messages : pc'[x] # "aborting"
      /\ Uncancelled' <=> Uncancelled
  BY DEF Slots, Uncancelled
<1>2. CASE (pc[m] \in SlotPcs <=> pc'[m] \in SlotPcs) /\ inFlight' = inFlight
  <2>1. Holders' = Holders
    BY <1>2 DEF Holders
  <2> QED BY <1>0, <1>1, <1>2, <2>1 DEF Slots
<1>3. CASE pc[m] \notin SlotPcs /\ pc'[m] \in SlotPcs /\ inFlight' = inFlight + 1
  <2>1. Holders' = Holders \cup {m} /\ m \notin Holders
    BY <1>3 DEF Holders
  <2>2. IsFiniteSet(Holders') /\ Cardinality(Holders') = Cardinality(Holders) + 1
    BY <1>0, <2>1, FS_AddElement
  <2> QED BY <1>0, <1>1, <1>3, <2>2 DEF Slots
<1>4. CASE pc[m] \in SlotPcs /\ pc'[m] \notin SlotPcs
  <2>1. Holders' = Holders \ {m} /\ m \in Holders
    BY <1>4 DEF Holders
  <2>2. IsFiniteSet(Holders') /\ Cardinality(Holders') = Cardinality(Holders) - 1
    BY <1>0, <2>1, FS_RemoveElement
  <2> QED BY <1>0, <1>1, <1>4, <2>2 DEF Slots
<1> QED BY <1>2, <1>3, <1>4

\* Who holds a slot has one to release.
LEMMA SlotTaken ==
    ASSUME Types, Slots, NEW m \in Messages, pc[m] \in SlotPcs
    PROVE  inFlight > 0
<1>1. IsFiniteSet(Holders) /\ m \in Holders /\ Cardinality(Holders) <= inFlight
  BY DEF Slots, Holders
<1>2. Cardinality(Holders) # 0 /\ Cardinality(Holders) \in Nat
  BY <1>1, FS_CardinalityType, FS_EmptySet
<1> QED BY <1>1, <1>2, SlotsExist DEF Types

\* Nobody moves: the slots stay balanced.
LEMMA SameHolders ==
    ASSUME Types, Slots, \A m \in Messages : pc'[m] = pc[m], inFlight' = inFlight
    PROVE  Slots'
<1>1. Holders' = Holders
  BY DEF Holders
<1> QED BY <1>1 DEF Slots, Uncancelled

\* prepare_turn takes no slot.
LEMMA PrepareSlots ==
    ASSUME Types, Slots, NEW m \in Messages, Prepare(m)
    PROVE  Slots'
<1> USE Actor
<1>1. \A x \in Messages \ {m} : pc'[x] = pc[x]
  BY PrepareLocal DEF Others
<1>2. \A p : Goto(m, p) => pc'[m] = p
  BY Locality
<1>3. pc[m] \notin SlotPcs /\ inFlight' = inFlight
  BY DEF SlotPcs, At, Prepare, PrepareRead, PrepareTidied, PrepareRecover, PrepareRepaired,
         PrepareClaim, PrepareAppend, PrepareMark, PrepareUndo
<1>4. pc'[m] \in {"sync", "recover", "tidy", "rejected", "repair", "append", "mark", "undo", "queued"}
  BY <1>2 DEF Prepare, PrepareRead, PrepareTidied, PrepareRecover, PrepareRepaired,
              PrepareClaim, PrepareAppend, PrepareMark, PrepareUndo
<1>5. pc'[m] \notin SlotPcs /\ pc'[m] # "aborting"
  BY <1>4 DEF SlotPcs
<1> QED BY <1>1, <1>3, <1>5, Counted

\* The finally clause releases the slot of the turn it ends.
LEMMA FinallySlots ==
    ASSUME Types, Slots, NEW m \in Messages, pc[m] \in SlotPcs, Finally(m)
    PROVE  Slots'
<1>1. pc'[m] \notin SlotPcs /\ pc'[m] # "aborting"
  BY FinallyLocal DEF SlotPcs
<1>2. \A x \in Messages \ {m} : pc'[x] = pc[x]
  BY Actor, FinallyLocal
<1>3. inFlight' = inFlight - 1
  BY DEF Finally, ReleaseSlot
<1> QED BY <1>1, <1>2, <1>3, Counted

\* task.cancel gives back at most the slot of the task it cancels; it may leak it.
LEMMA CancelSlots ==
    ASSUME Types, Slots, NEW m \in Messages, CancelTask(m), ~Uncancelled
    PROVE  Slots'
<1>1. CASE pc[m] \in {"settle", "finalize", "refinalize"} /\ Finally(m)
  BY <1>1, FinallySlots DEF SlotPcs
<1>2. CASE ~Finally(m) \/ pc[m] \notin {"settle", "finalize", "refinalize"}
  <2>1. inFlight' = inFlight
    BY <1>2 DEF CancelTask
  <2>2. \A x \in Messages \ {m} : pc'[x] = pc[x]
    BY Actor, CancelLocal
  <2>3. pc[m] \notin SlotPcs => pc'[m] \notin SlotPcs
    <3>1. \A p : Goto(m, p) => pc'[m] = p
      BY Actor, Locality
    <3> QED BY <1>2, <3>1 DEF CancelTask, SlotPcs
  <2> QED BY <2>1, <2>2, <2>3, Counted
<1> QED BY <1>1, <1>2

\* A runner takes its slot when it starts and gives it back when it ends.
LEMMA RunnerSlots ==
    ASSUME Types, Slots, NEW m \in Messages, Runner(m)
    PROVE  Slots'
<1> USE Actor DEF At, stores, events, host, local
<1>1. /\ \A x \in Messages \ {m} : pc'[x] = pc[x]
      /\ \A p : Goto(m, p) => pc'[m] = p
  BY RunnerLocal, Locality DEF Others
<1>2. CASE RunnerAcquire(m)
  <2>1. pc[m] \notin SlotPcs /\ pc'[m] \in SlotPcs /\ inFlight' = inFlight + 1 /\ pc'[m] # "aborting"
    BY <1>1, <1>2 DEF RunnerAcquire, AcquireSlot, SlotPcs
  <2> QED BY <1>1, <2>1, Counted
<1>3. CASE /\ \/ RunnerSend(m) \/ RunnerReads(m) \/ RunnerStreamBreaks(m) \/ WriterPersists(m)
              \/ WriterAdvances(m) \/ RunnerFlushed(m) \/ RunnerBreaks(m) \/ RunnerFail(m) \/ RunnerSettle(m)
           /\ inFlight' = inFlight
  <2>1. pc[m] \in SlotPcs /\ pc[m] # "aborting"
    BY <1>3 DEF RunnerSend, RunnerReads, RunnerStreamBreaks, WriterPersists,
              WriterAdvances, RunnerFlushed, RunnerBreaks, RunnerFail, RunnerSettle, SlotPcs
  <2>2. pc'[m] \in SlotPcs /\ pc'[m] # "aborting"
    <3>1. CASE RunnerSend(m) \/ RunnerStreamBreaks(m) \/ RunnerFlushed(m) \/ RunnerBreaks(m)
               \/ RunnerFail(m) \/ RunnerSettle(m)
      BY <1>1, <3>1 DEF RunnerSend, RunnerStreamBreaks, RunnerFlushed, RunnerBreaks, RunnerFail, RunnerSettle, SlotPcs
    <3>2. CASE RunnerReads(m)
      BY <1>1, <3>2, <2>1 DEF RunnerReads, SlotPcs
    <3>3. CASE WriterPersists(m) \/ WriterAdvances(m)
      BY <3>3, <2>1 DEF WriterPersists, WriterAdvances
    <3> QED BY <1>3, <3>1, <3>2, <3>3
  <2> QED BY <1>1, <1>3, <2>1, <2>2, Counted
<1>4. CASE RunnerFinalized(m)
  <2>1. pc[m] \in SlotPcs
    BY <1>4 DEF RunnerFinalized, SlotPcs
  <2>2. CASE Finally(m)
    BY <2>1, <2>2, FinallySlots
  <2>3. CASE ~Finally(m)
    <3>1. pc'[m] = "refinalize" /\ inFlight' = inFlight
      BY <1>1, <1>4, <2>3 DEF RunnerFinalized
    <3>2. pc'[m] \in SlotPcs /\ pc'[m] # "aborting"
      BY <3>1 DEF SlotPcs
    <3> QED BY <1>1, <2>1, <3>1, <3>2, Counted
  <2> QED BY <2>2, <2>3
<1>5. CASE RunnerRefinalized(m)
  BY <1>5, FinallySlots DEF RunnerRefinalized, SlotPcs
<1>6. CASE RunnerEnds(m)
  <2>1. pc'[m] = "done" /\ inFlight' = inFlight /\ pc[m] \in {"suspend", "aborting"}
    BY <1>1, <1>6 DEF RunnerEnds
  <2>2. pc'[m] \notin SlotPcs /\ pc'[m] # "aborting" /\ (pc[m] = "suspend" => pc[m] \notin SlotPcs)
    BY <2>1 DEF SlotPcs
  <2>3. pc[m] = "aborting" => ~Uncancelled /\ pc[m] \in SlotPcs
    BY DEF Slots, SlotPcs
  <2> QED BY <1>1, <2>1, <2>2, <2>3, Counted
<1>7. RunnerSend(m) \/ RunnerReads(m) \/ RunnerStreamBreaks(m) \/ WriterPersists(m)
      \/ WriterAdvances(m) \/ RunnerFlushed(m) \/ RunnerBreaks(m) \/ RunnerFail(m) \/ RunnerSettle(m)
          => inFlight' = inFlight
  BY DEF RunnerSend, RunnerReads, RunnerStreamBreaks, WriterPersists,
         WriterAdvances, RunnerFlushed, RunnerBreaks, RunnerFail, RunnerSettle
<1> QED BY <1>2, <1>3, <1>4, <1>5, <1>6, <1>7 DEF Runner, RunnerWorks

\* Every step keeps the slots balanced, as far as tasks are not cancelled.
LEMMA SlotsStep ==
    ASSUME Types, Slots, Named, Next
    PROVE  Slots'
<1> USE Actor DEF stores, events, host, local
<1>1. CASE \E a \in Actors : JobStep(a)
  <2>1. pc' = pc /\ inFlight' = inFlight
    BY <1>1 DEF JobStep, FinishTurn, ClearActiveRun, SuspendActiveRun, JobRaises
  <2> QED BY <2>1, SameHolders
<1>2. ASSUME NEW m \in Messages, Prepare(m) \/ Runner(m) \/ Shutdown(m) \/ HostAsks(m) \/ HostEnds(m)
      PROVE  Slots'
  <2>1. CASE Shutdown(m)
    BY <2>1, CancelSlots DEF Shutdown, Uncancelled
  <2>2. CASE HostAsks(m) \/ HostEnds(m)
    BY <2>2, SameHolders DEF HostAsks, HostEnds
  <2> QED BY <1>2, <2>1, <2>2, PrepareSlots, RunnerSlots
<1>3. ASSUME NEW k \in Clients, Client(k)
      PROVE  Slots'
  <2>1. CASE CancelInterrupt(k)
    <3>1. target[k].msg \in Messages
      BY <2>1 DEF CancelInterrupt, Named, At, ClientPcs
    <3>2. Cancellers # {}
      BY <1>3, <2>1 DEF Named, CancelInterrupt, At
    <3> QED BY <2>1, <3>1, <3>2, CancelSlots DEF CancelInterrupt, Uncancelled
  <2>2. CASE ~CancelInterrupt(k)
    <3>1. \A m \in Messages : pc'[m] = pc[m]
      BY <1>3, <2>2, ClientLocal, DistinctActors DEF Others, Clients
    <3> QED BY <1>3, <2>2, <3>1, ClientLocal, SameHolders
  <2> QED BY <2>1, <2>2
<1>4. CASE Crash
  <2>1. \A m \in Messages : pc'[m] \notin SlotPcs /\ pc'[m] # "aborting"
    BY <1>4, DistinctActors DEF Crash, SlotPcs, EndPcs, Clients
  <2>2. Holders' = {}
    BY <2>1 DEF Holders
  <2>3. inFlight' = 0
    BY <1>4 DEF Crash
  <2> QED BY <2>1, <2>2, <2>3, FS_EmptySet DEF Slots, Uncancelled
<1> QED BY <1>1, <1>2, <1>3, <1>4 DEF Next

-----------------------------------------------------------------------------
(* Actors know whom they act for, and rows and runs point into the journal. *)

\* A step that moves one actor keeps Named if it does for that actor.
LEMMA NamedFor ==
    ASSUME Types, Named, NEW a \in Actors,
           \A x \in Actors \ {a} : pc'[x] = pc[x] /\ target'[x] = target[x],
           lock'.status = "running" => lock'.msg \in Messages,
           a \in Messages /\ pc'[a] = "recover" => target'[a].msg \in Messages,
           a \in Clients /\ pc'[a] \in ClientPcs \ {"idle", "tidy"} => target'[a].msg \in Messages,
           a \in Viewers => pc'[a] \in {"idle", "ingest", "persist", "advance", "prove", "proved"}
    PROVE  Named'
BY Actor DEF Named, At

\* A request that recovers a turn knows which (turn_recovery.recover).
LEMMA PrepareNamed ==
    ASSUME Types, Named, NEW m \in Messages, Prepare(m)
    PROVE  Named'
<1> USE Actor DEF stores, events, host, local
<1>1. m \notin Clients
  BY DistinctActors DEF Clients
<1>2. /\ \A x \in Actors \ {m} : pc'[x] = pc[x] /\ target'[x] = target[x]
      /\ \A p : Goto(m, p) => pc'[m] = p
  BY PrepareLocal, Locality DEF Others
<1>3. lock'.status = "running" => lock'.msg \in Messages
  <2>1. CASE PrepareClaim(m)
    <3>1. lock' = Running(m) \/ lock' = lock
      BY <2>1 DEF PrepareClaim
    <3> QED BY <3>1 DEF Running, Named
  <2>2. CASE PrepareUndo(m)
    BY <2>2 DEF PrepareUndo, Types, Locks, Named
  <2>3. CASE lock' = lock
    BY <2>3 DEF Named
  <2> QED BY <2>1, <2>2, <2>3 DEF Prepare, PrepareRead, PrepareTidied, PrepareRecover, PrepareRepaired,
         PrepareAppend, PrepareMark
<1>4. pc'[m] = "recover" => target'[m].msg \in Messages
  <2>1. CASE PrepareRead(m)
    <3>1. target'[m] = ReadCopy(FALSE) /\ (pc'[m] = "recover" => lock.status = "running")
      BY <1>2, <2>1 DEF PrepareRead, Types
    <3> QED BY <3>1 DEF ReadCopy, Named
  <2>2. CASE ~PrepareRead(m)
    BY <1>2, <2>2 DEF Prepare, PrepareTidied, PrepareRecover, PrepareRepaired,
         PrepareClaim, PrepareAppend, PrepareMark, PrepareUndo
  <2> QED BY <2>1, <2>2
<1> QED BY <1>1, <1>2, <1>3, <1>4, NamedFor

\* A runner leaves the names others act by alone.
LEMMA RunnerNamed ==
    ASSUME Types, Named, NEW m \in Messages, Runner(m)
    PROVE  Named'
<1> USE Actor DEF stores, events, host, local
<1>1. m \notin Clients /\ m \notin Viewers
  BY DistinctActors DEF Clients
<1>2. /\ \A x \in Actors \ {m} : pc'[x] = pc[x] /\ target'[x] = target[x]
      /\ \A p : Goto(m, p) => pc'[m] = p
      /\ Finally(m) => pc'[m] \in {"suspend", "done"}
  BY RunnerLocal, Locality, FinallyLocal DEF Others
<1>3. lock' = lock
  BY DEF Runner, RunnerWorks, RunnerAcquire, RunnerSend, RunnerReads, RunnerStreamBreaks, WriterPersists,
         WriterAdvances, RunnerFlushed, RunnerBreaks, RunnerFail, RunnerSettle, RunnerFinalized,
         RunnerRefinalized, RunnerEnds
<1>4. pc'[m] # "recover"
  <2>1. CASE pc' = pc
    BY <2>1 DEF Runner, RunnerWorks, RunnerAcquire, RunnerSend, RunnerReads, RunnerStreamBreaks, WriterPersists,
         WriterAdvances, RunnerFlushed, RunnerBreaks, RunnerFail, RunnerSettle, RunnerFinalized,
         RunnerRefinalized, RunnerEnds, At
  <2>2. CASE RunnerReads(m) /\ pc' # pc
    BY <1>2, <2>2 DEF RunnerReads
  <2>3. CASE RunnerFinalized(m) \/ RunnerRefinalized(m)
    BY <1>2, <2>3 DEF RunnerFinalized, RunnerRefinalized
  <2> QED BY <1>2, <2>1, <2>2, <2>3 DEF Runner, RunnerWorks, RunnerAcquire, RunnerSend, RunnerStreamBreaks,
         WriterPersists, WriterAdvances, RunnerFlushed, RunnerBreaks, RunnerFail, RunnerSettle, RunnerEnds
<1> QED BY <1>1, <1>2, <1>3, <1>4, NamedFor DEF Named

\* A cancellation and a reader know the turn they read.
LEMMA ClientNamed ==
    ASSUME Types, Named, NEW k \in Clients, Client(k)
    PROVE  Named'
<1> USE Actor DEF stores, events, host, local
<1>1. k \notin Messages /\ (k \in Viewers => k \notin Cancellers) /\ lock' = lock
  BY DistinctActors DEF Clients, Client, CancelRead, ClientTidied, CancelGateway, CancelLookup, CancelWait,
         SnapshotRead, IngestFetch, IngestPersist, IngestAdvance, Prove, Proved, CancelInterrupt, CancelGathered, CancelLast, CancelReturns
<1>2. /\ \A p : Goto(k, p) => pc'[k] = p
      /\ Return(k) => pc'[k] = "idle"
      /\ target \in [Actors -> Targets]
  BY Locality DEF Types
<1>3. CASE CancelInterrupt(k)
  <2>1. target[k].msg \in Messages /\ k \notin Viewers
    BY <1>3 DEF CancelInterrupt, Named, At, ClientPcs
  <2>2. /\ \A x \in Actors \ {target[k].msg} : pc'[x] = pc[x]
        /\ pc'[target[k].msg] # "recover"
    BY <1>3, <2>1, CancelLocal DEF CancelInterrupt
  <2>3. \A x \in Actors : target'[x].msg = target[x].msg
    BY <1>2, <1>3 DEF CancelInterrupt, Targets
  <2> QED BY <1>1, <2>1, <2>2, <2>3, DistinctActors DEF Named, At, Clients
<1>4. CASE ~CancelInterrupt(k)
  <2>1. \A x \in Actors \ {k} : pc'[x] = pc[x] /\ target'[x] = target[x]
    BY <1>4, ClientLocal DEF Others
  <2>2. pc'[k] \in ClientPcs \ {"idle", "tidy"} => target'[k].msg \in Messages
    <3>1. CASE CancelRead(k)
      <4>1. target'[k] = ReadCopy(lock.status = "running")
        BY <1>2, <3>1 DEF CancelRead
      <4>2. pc'[k] # "tidy" => lock.status = "running"
        BY <1>2, <3>1 DEF CancelRead
      <4> QED BY <4>1, <4>2 DEF ReadCopy, Named
    <3>2. CASE SnapshotRead(k)
      <4>1. target'[k] = ReadCopy(TRUE) /\ lock.status = "running"
        BY <1>2, <3>2 DEF SnapshotRead
      <4> QED BY <4>1 DEF ReadCopy, Named
    <3>3. CASE CancelLookup(k)
      <4>1. target'[k].msg = target[k].msg
        BY <1>2, <3>3 DEF CancelLookup, Targets
      <4> QED BY <3>3, <4>1 DEF CancelLookup, Named, At, ClientPcs
    <3>4. CASE UNCHANGED target /\ ~CancelRead(k) /\ ~SnapshotRead(k) /\ ~IngestFetch(k)
      <4>1. pc[k] \in {"gateway", "lookup", "wait", "persist", "advance", "prove",
                       "proved", "gather", "last", "release"} \/ ClientTidied(k) \/ CancelReturns(k)
        BY <1>4, <3>4 DEF Client, CancelGateway, CancelLookup, CancelWait,
         IngestPersist, IngestAdvance, Prove, Proved, CancelGathered, CancelLast, CancelReturns, At
      <4>2. ClientTidied(k) \/ CancelReturns(k) => pc'[k] = "idle"
        BY <1>2 DEF ClientTidied, CancelReturns
      <4> QED BY <3>4, <4>1, <4>2 DEF Named, ClientPcs
    <3>5. CASE Return(k)
      BY <1>2, <3>5
    <3>6. CASE IngestFetch(k) /\ ~Return(k)
      <4>1. target'[k].msg = target[k].msg /\ pc[k] = "ingest"
        BY <1>2, <3>6 DEF IngestFetch, Targets, At
      <4> QED BY <4>1 DEF Named, ClientPcs
    <3> QED BY <1>4, <3>1, <3>2, <3>3, <3>4, <3>5, <3>6 DEF Client, ClientTidied, CancelGateway, CancelWait,
         IngestFetch, IngestPersist, IngestAdvance, Prove, Proved, CancelGathered, CancelLast, CancelReturns
  <2>3. k \in Viewers => pc'[k] \in {"idle", "ingest", "persist", "advance", "prove", "proved"}
    BY <1>1, <1>2, <1>4 DEF Named, Client, CancelRead, ClientTidied, CancelGateway, CancelLookup, CancelWait,
         SnapshotRead, IngestFetch, IngestPersist, IngestAdvance, Prove, Proved, CancelGathered, CancelLast, CancelReturns, At
  <2> QED BY <1>1, <2>1, <2>2, <2>3, NamedFor DEF Named
<1> QED BY <1>3, <1>4

\* Every step keeps Named.
LEMMA NamedStep ==
    ASSUME Types, Named, Next
    PROVE  Named'
<1> USE Actor DEF stores, events, host, local
<1>1. ASSUME NEW a \in Actors, JobStep(a)
      PROVE  Named'
  <2>1. pc' = pc /\ target' = target
    BY <1>1 DEF JobStep, FinishTurn, ClearActiveRun, SuspendActiveRun, JobRaises
  <2>2. lock'.status = "running" => lock'.msg \in Messages
    <3>1. CASE FinishTurn(a)
      <4>1. job[a].status # "running" /\ lock \in Locks
        BY DEF Types, Jobs, TerminalStatus
      <4> QED BY <3>1, <4>1 DEF FinishTurn, Named, Locks
    <3>2. CASE lock' = lock
      BY <3>2 DEF Named
    <3> QED BY <1>1, <3>1, <3>2 DEF JobStep, ClearActiveRun, SuspendActiveRun, JobRaises
  <2> QED BY <2>1, <2>2 DEF Named, At
<1>2. ASSUME NEW m \in Messages, Shutdown(m)
      PROVE  Named'
  <2>1. /\ \A x \in Actors \ {m} : pc'[x] = pc[x]
        /\ pc'[m] # "recover" /\ m \notin Clients /\ target' = target /\ lock' = lock
    BY <1>2, CancelLocal, DistinctActors DEF Shutdown, Clients
  <2> QED BY <2>1, NamedFor DEF Named
<1>3. ASSUME NEW m \in Messages, HostAsks(m) \/ HostEnds(m)
      PROVE  Named'
  BY <1>3 DEF HostAsks, HostEnds, Named, At
<1>4. CASE Crash
  <2>1. /\ \A m \in Messages : pc'[m] # "recover"
        /\ \A k \in Clients : pc'[k] = "idle"
        /\ lock' = lock
    BY <1>4, DistinctActors DEF Crash, EndPcs, Clients
  <2> QED BY <2>1 DEF Named, At
<1> QED BY <1>1, <1>2, <1>3, <1>4, PrepareNamed, RunnerNamed, ClientNamed DEF Next

\* A step of one runner keeps Logged if it does for that runner and for the rows.
LEMMA InLogFor ==
    ASSUME Types, Types', Logged, NEW m \in Messages, OtherRuns(m),
           \A x \in Messages \ {m} : pc'[x] = pc[x],
           Len(log) <= Len(log'),
           \A p \in Nat : <<"log", p>> \in stored' => <<"log", p>> \in stored \/ p \in 1..Len(log),
           Points(run'[m]),
           pc'[m] \in {"append", "mark", "queued", "send", "stream"} => ~run'[m].broken
    PROVE  Logged'
<1>1. Len(log) \in Nat /\ Len(log') \in Nat
  BY LenProperties DEF Types
<1>2. \A x \in Messages : run'[x] \in Runs /\ Points(run'[x])
  BY DEF Types, Logged, OtherRuns
<1>3. \A x \in Messages : Points(run[x])'
  BY <1>1, <1>2 DEF Points, Upto, Runs
<1>4. \A p \in Nat : <<"log", p>> \in stored' => p \in 1..Len(log')
  BY <1>1 DEF Logged
<1>5. \A x \in Messages : pc'[x] \in {"append", "mark", "queued", "send", "stream"} => ~run'[x].broken
  BY DEF Logged, OtherRuns
<1> QED BY <1>3, <1>4, <1>5 DEF Logged

\* Runs that stay, and runs that are over.
LEMMA PointsKept ==
    /\ Points(NoRun) /\ ~NoRun.broken
    /\ \A r \in Runs, s \in TerminalStatus : Points(r) => Points([r EXCEPT !.status = s])
    /\ \A c \in Nat : LET r == [NoRun EXCEPT !.base = c, !.pos = c] IN Points(r) /\ ~r.broken
BY DEF Points, Upto, NoRun, Runs

\* A claim subscribes from the cursor of the row it claimed.
LEMMA PrepareInLog ==
    ASSUME Types, Types', Logged, NEW m \in Messages, Prepare(m)
    PROVE  Logged'
<1> USE Actor DEF stores, events, host, local
<1>1. /\ \A x \in Messages \ {m} : pc'[x] = pc[x]
      /\ OtherRuns(m)
      /\ \A p : Goto(m, p) => pc'[m] = p
  BY PrepareLocal, Locality DEF Others
<1>2. log' = log /\ stored' = stored
  BY DEF Prepare, PrepareRead, PrepareTidied, PrepareRecover, PrepareRepaired,
         PrepareClaim, PrepareAppend, PrepareMark, PrepareUndo
<1>3. /\ Points(run'[m])
      /\ pc'[m] \in {"append", "mark", "queued", "send", "stream"} => ~run'[m].broken
  <2>1. CASE run' = [run EXCEPT ![m] = [NoRun EXCEPT !.base = eventCursor, !.pos = eventCursor]]
    <3>1. run'[m] = [NoRun EXCEPT !.base = eventCursor, !.pos = eventCursor] /\ eventCursor \in Nat
      BY <2>1 DEF Types
    <3> QED BY <3>1, PointsKept
  <2>2. CASE PrepareUndo(m)
    <3>1. run'[m] = NoRun
      BY <2>2 DEF PrepareUndo, Types
    <3> QED BY <3>1, PointsKept
  <2>3. CASE run' = run /\ run' # [run EXCEPT ![m] = [NoRun EXCEPT !.base = eventCursor, !.pos = eventCursor]]
    <3>1. pc'[m] \in {"append", "mark", "queued", "send", "stream"} => pc[m] \in {"append", "mark"}
      BY <1>1, <2>3 DEF Prepare, PrepareRead, PrepareTidied, PrepareRecover, PrepareRepaired,
         PrepareClaim, PrepareAppend, PrepareMark, PrepareUndo, At, Types
    <3> QED BY <2>3, <3>1 DEF Logged
  <2> QED BY <2>1, <2>2, <2>3 DEF Prepare, PrepareRead, PrepareTidied, PrepareRecover, PrepareRepaired,
         PrepareClaim, PrepareAppend, PrepareMark
<1>4. Len(log) <= Len(log')
  BY <1>2, LenProperties DEF Types
<1> QED BY <1>1, <1>2, <1>3, <1>4, InLogFor

\* A runner reads one entry after the other and stores what it read.
LEMMA RunnerInLog ==
    ASSUME Types, Types', Logged, NEW m \in Messages, Runner(m)
    PROVE  Logged'
<1> USE Actor DEF stores, events, host, local
<1>1. /\ \A x \in Messages \ {m} : pc'[x] = pc[x]
      /\ OtherRuns(m)
      /\ \A p : Goto(m, p) => pc'[m] = p
      /\ Finally(m) => run'[m] = NoRun
  BY RunnerLocal, Locality, FinallyLocal DEF Others
<1>2. log' = log /\ Len(log) \in Nat
  BY LenProperties DEF Runner, RunnerWorks, RunnerAcquire, RunnerSend, RunnerReads, RunnerStreamBreaks, WriterPersists,
         WriterAdvances, RunnerFlushed, RunnerBreaks, RunnerFail, RunnerSettle, RunnerFinalized,
         RunnerRefinalized, RunnerEnds, Types
<1>3. \A p \in Nat : <<"log", p>> \in stored' => <<"log", p>> \in stored \/ p \in 1..Len(log)
  <2>1. CASE WriterPersists(m)
    <3>1. Reportable(ReadByRunner(m))
      BY ReadTypes, SameTypes
    <3> QED BY <2>1, <3>1, StoreTypes, SameTypes DEF WriterPersists
  <2>2. CASE RunnerFail(m)
    <3>1. pc[m] \in {"fail", "ended"} /\ run[m].pos \in Nat
      BY <2>2 DEF RunnerFail, Runs, Types
    <3>2. Reportable({<<pc[m], run[m].pos>>})
      BY <3>1 DEF Reportable, Ids
    <3> QED BY <2>2, <3>2, StoreTypes, SameTypes DEF RunnerFail
  <2>3. CASE stored' = stored
    BY <2>3
  <2> QED BY <2>1, <2>2, <2>3 DEF Runner, RunnerWorks, RunnerAcquire, RunnerSend, RunnerReads, RunnerStreamBreaks,
         WriterAdvances, RunnerFlushed, RunnerBreaks, RunnerSettle, RunnerFinalized,
         RunnerRefinalized, RunnerEnds
<1>4. run[m] \in Runs /\ Points(run[m]) /\ (pc[m] \in {"queued", "send", "stream"} => ~run[m].broken)
  BY DEF Types, Logged
<1>5. /\ Points(run'[m])
      /\ pc'[m] \in {"append", "mark", "queued", "send", "stream"} => ~run'[m].broken
  <2>1. CASE RunnerReads(m)
    <3>1. /\ run'[m].pos = run[m].pos + 1 /\ run'[m].base = run[m].base /\ run'[m].broken = run[m].broken
          /\ run[m].pos < Len(log) /\ At(m, "stream")
      BY <2>1 DEF RunnerReads, Types, Runs
    <3> QED BY <1>2, <1>4, <3>1 DEF Points, Upto, Runs, At
  <2>2. CASE RunnerStreamBreaks(m)
    <3>1. /\ run'[m].pos = run[m].pos + 1 /\ run'[m].base = run[m].base /\ run'[m].broken = TRUE
          /\ At(m, "stream") /\ pc'[m] = "flush"
      BY <1>1, <2>2 DEF RunnerStreamBreaks, Types, Runs
    <3> QED BY <1>2, <1>4, <3>1 DEF Points, Upto, Runs, At
  <2>3. CASE RunnerFail(m)
    <3>1. run'[m] = [run[m] EXCEPT !.status = "failed"] /\ pc'[m] = "settle"
      BY <1>1, <2>3 DEF RunnerFail, Types
    <3> QED BY <1>4, <3>1, PointsKept DEF TerminalStatus
  <2>4. CASE RunnerSettle(m) \/ (RunnerFinalized(m) /\ ~Finally(m))
    <3>1. /\ run'[m] = run[m] \/ run'[m] = [run[m] EXCEPT !.status = "failed"]
          /\ pc'[m] \in {"finalize", "refinalize"}
      BY <1>1, <2>4 DEF RunnerSettle, RunnerFinalized, Types
    <3> QED BY <1>4, <3>1, PointsKept DEF TerminalStatus
  <2>5. CASE Finally(m)
    BY <1>1, <2>5, PointsKept
  <2>7. CASE RunnerAcquire(m) \/ RunnerSend(m) \/ WriterPersists(m) \/ WriterAdvances(m)
             \/ RunnerFlushed(m) \/ RunnerBreaks(m) \/ RunnerEnds(m)
    <3>1. run' = run
      BY <2>7 DEF RunnerAcquire, RunnerSend, WriterPersists, WriterAdvances, RunnerFlushed, RunnerBreaks, RunnerEnds
    <3>2. pc'[m] \in {"append", "mark", "queued", "send", "stream"} => pc[m] \in {"queued", "send", "stream"}
      BY <1>1, <2>7 DEF RunnerAcquire, RunnerSend, WriterPersists, WriterAdvances, RunnerFlushed, RunnerBreaks,
                RunnerEnds, At
    <3> QED BY <1>4, <3>1, <3>2
  <2> QED BY <2>1, <2>2, <2>3, <2>4, <2>5, <2>7 DEF Runner, RunnerWorks, RunnerRefinalized
<1> QED BY <1>1, <1>2, <1>3, <1>5, InLogFor

\* Every step keeps Logged.
LEMMA InLogStep ==
    ASSUME Types, Types', InLog, Named, Next
    PROVE  Logged'
<1> USE Actor DEF stores, events, host, local
<1>0. Len(log) \in Nat /\ Logged
  BY LenProperties DEF Types, InLog
<1>1. ASSUME UNCHANGED <<pc, run>>, Len(log) <= Len(log'), stored' = stored
      PROVE  Logged'
  <2>1. CASE Messages = {}
    BY <1>0, <1>1, <2>1, LenProperties DEF Logged, Types
  <2>2. CASE Messages # {}
    <3>1. PICK m \in Messages : TRUE
      BY <2>2
    <3> QED BY <1>0, <1>1, <3>1, InLogFor DEF OtherRuns, Logged
  <2> QED BY <2>1, <2>2
<1>2. ASSUME NEW a \in Actors, JobStep(a)
      PROVE  Logged'
  BY <1>0, <1>1, <1>2 DEF JobStep, FinishTurn, ClearActiveRun, SuspendActiveRun, JobRaises
<1>3. ASSUME NEW m \in Messages, CancelTask(m), UNCHANGED <<stores, host>>
      PROVE  Logged'
  <2>1. /\ \A x \in Messages \ {m} : pc'[x] = pc[x]
        /\ OtherRuns(m) /\ run'[m] = NoRun
    BY <1>3, CancelLocal
  <2>2. Points(run'[m]) /\ ~run'[m].broken
    BY <2>1, PointsKept
  <2>3. Len(log) <= Len(log') /\ stored' = stored
    BY <1>0, <1>3
  <2> QED BY <1>0, <2>1, <2>2, <2>3, InLogFor
<1>4. ASSUME NEW m \in Messages, HostAsks(m) \/ HostEnds(m)
      PROVE  Logged'
  <2>1. LogGrows
    BY <1>4, HostTypes
  <2> QED BY <1>1, <1>4, <2>1 DEF HostAsks, HostEnds, LogGrows
<1>5. ASSUME NEW k \in Clients, Client(k), ~CancelInterrupt(k)
      PROVE  Logged'
  <2>1. /\ \A m \in Messages : pc'[m] = pc[m]
        /\ run' = run
    BY <1>5, ClientLocal, DistinctActors DEF Others, Clients
  <2>2. Len(log) <= Len(log')
    <3>1. CASE CancelGateway(k) /\ log' # log
      <4>1. LogGrows
        BY <3>1, SameTypes, Cancels DEF CancelGateway
      <4> QED BY <4>1 DEF LogGrows
    <3>2. CASE log' = log
      BY <1>0, <3>2
    <3> QED BY <1>5, <3>1, <3>2 DEF Client, CancelRead, ClientTidied, CancelLookup, CancelWait,
         SnapshotRead, IngestFetch, IngestPersist, IngestAdvance, Prove, Proved, CancelGathered, CancelLast, CancelReturns
  <2>3. \A p \in Nat : <<"log", p>> \in stored' => <<"log", p>> \in stored \/ p \in 1..Len(log)
    <3>1. CASE IngestPersist(k) /\ stored' # stored
      <4>1. target[k].msg \in Messages
        BY <3>1 DEF IngestPersist, Named, At, ClientPcs
      <4>2. Reportable(Fetched(k))
        BY FetchedTypes, SameTypes DEF InLog
      <4>3. Store(target[k].msg, Fetched(k))
        BY <3>1 DEF IngestPersist
      <4> QED BY <4>1, <4>2, <4>3, StoreTypes, SameTypes
    <3>2. CASE stored' = stored
      BY <3>2
    <3> QED BY <1>5, <3>1, <3>2 DEF Client, CancelRead, ClientTidied, CancelGateway, CancelLookup, CancelWait,
         SnapshotRead, IngestFetch, IngestAdvance, Prove, Proved, CancelGathered, CancelLast, CancelReturns
  <2>4. CASE Messages = {}
    BY <1>0, <2>2, <2>3, <2>4, LenProperties DEF Logged, Types
  <2>5. CASE Messages # {}
    <3>1. PICK m \in Messages : TRUE
      BY <2>5
    <3> QED BY <1>0, <2>1, <2>2, <2>3, <3>1, InLogFor DEF OtherRuns, Logged
  <2> QED BY <2>4, <2>5
<1>6. ASSUME NEW k \in Clients, CancelInterrupt(k)
      PROVE  Logged'
  <2>1. target[k].msg \in Messages
    BY <1>6 DEF CancelInterrupt, Named, At, ClientPcs
  <2> QED BY <1>3, <1>6, <2>1 DEF CancelInterrupt
<1>7. CASE Crash
  <2>1. \A m \in Messages : run'[m] = NoRun
    BY <1>7 DEF Crash
  <2>2. \A m \in Messages : Points(run[m])' /\ ~run'[m].broken
    BY <2>1 DEF Points, Upto, NoRun
  <2> QED BY <1>0, <1>7, <2>2 DEF Crash, Logged
<1> QED BY <1>0, <1>2, <1>3, <1>4, <1>5, <1>6, <1>7, PrepareInLog, RunnerInLog DEF Next, Shutdown

\* No step rewrites the host's journal.
LEMMA LogStep ==
    ASSUME Types, Next
    PROVE  LogGrows
<1> USE DEF stores, events, host, local
<1>1. CASE log' = log
  BY <1>1, LenProperties DEF LogGrows, Types
<1>2. ASSUME NEW m \in Messages, HostAsks(m) \/ HostEnds(m)
      PROVE  LogGrows
  BY <1>2, HostTypes
<1>3. ASSUME NEW k \in Clients, Client(k), log' # log
      PROVE  LogGrows
  <2>1. CancelGateway(k)
    BY <1>3 DEF Client, CancelRead, ClientTidied, CancelLookup, CancelWait,
         SnapshotRead, IngestFetch, IngestPersist, IngestAdvance, Prove, Proved, CancelInterrupt, CancelGathered, CancelLast, CancelReturns
  <2> QED BY <1>3, <2>1, SameTypes, Cancels DEF CancelGateway
<1>4. ASSUME NEW m \in Messages, Prepare(m) \/ Runner(m) \/ Shutdown(m)
      PROVE  log' = log
  <2>1. CASE Prepare(m)
    BY <2>1 DEF Prepare, PrepareRead, PrepareTidied, PrepareRecover, PrepareRepaired, PrepareClaim,
         PrepareAppend, PrepareMark, PrepareUndo
  <2>2. CASE Runner(m)
    BY <2>2 DEF Runner, RunnerWorks, RunnerAcquire, RunnerSend, RunnerReads, RunnerStreamBreaks, WriterPersists,
         WriterAdvances, RunnerFlushed, RunnerBreaks, RunnerFail, RunnerSettle, RunnerFinalized,
         RunnerRefinalized, RunnerEnds
  <2> QED BY <1>4, <2>1, <2>2 DEF Shutdown
<1>5. ASSUME NEW a \in Actors, JobStep(a)
      PROVE  log' = log
  BY <1>5 DEF JobStep, FinishTurn, ClearActiveRun, SuspendActiveRun, JobRaises
<1>6. CASE Crash
  BY <1>1, <1>6 DEF Crash
<1> QED BY <1>1, <1>2, <1>3, <1>4, <1>5, <1>6 DEF Next

\* A reader fetches what there is, and the journal only grows.
LEMMA SeenStep ==
    ASSUME Types, Seen, Named, Next
    PROVE  Seen'
<1> USE Actor DEF stores, events, host, local
<1>0. /\ Len(log) \in Nat /\ Len(log') \in Nat /\ Len(log) <= Len(log')
      /\ target \in [Actors -> Targets]
  BY LogStep, LenProperties DEF LogGrows, Types
<1>1. \A b \in BOOLEAN : ReadCopy(b).upto = 0 /\ NoTarget.upto = 0
  BY DEF ReadCopy, NoTarget
<1>2. ASSUME \A a \in Actors : target'[a].upto \in {target[a].upto, 0, Len(log)}
      PROVE  Seen'
  BY <1>0, <1>2 DEF Seen, Targets
<1>3. CASE target' = target
  BY <1>2, <1>3
<1>4. ASSUME NEW a \in Actors, NEW b \in BOOLEAN, target' = [target EXCEPT ![a] = ReadCopy(b)]
      PROVE  Seen'
  BY <1>0, <1>1, <1>2, <1>4
<1>5. ASSUME NEW k \in Actors, Return(k)
      PROVE  Seen'
  BY <1>0, <1>1, <1>2, <1>5 DEF Return
<1>6. ASSUME NEW k \in Actors, NEW b, target' = [target EXCEPT ![k].task = b]
      PROVE  Seen'
  <2>1. \A a \in Actors : target'[a].upto = target[a].upto
    BY <1>0, <1>6 DEF Targets
  <2> QED BY <1>2, <2>1
<1>7. ASSUME NEW k \in Actors, target' = [target EXCEPT ![k].upto = Len(log)]
      PROVE  Seen'
  <2>1. \A a \in Actors : target'[a].upto \in {target[a].upto, Len(log)}
    BY <1>0, <1>7 DEF Targets
  <2> QED BY <1>2, <2>1
<1>8. ASSUME NEW m \in Messages, Prepare(m) \/ Runner(m) \/ Shutdown(m) \/ HostAsks(m) \/ HostEnds(m)
      PROVE  Seen'
  <2>1. CASE PrepareRead(m)
    BY <1>4, <2>1 DEF PrepareRead
  <2>2. CASE ~PrepareRead(m) /\ Prepare(m)
    BY <1>3, <2>2 DEF Prepare, PrepareTidied, PrepareRecover, PrepareRepaired, PrepareClaim,
         PrepareAppend, PrepareMark, PrepareUndo
  <2>3. CASE Runner(m)
    BY <1>3, <2>3 DEF Runner, RunnerWorks, RunnerAcquire, RunnerSend, RunnerReads, RunnerStreamBreaks,
         WriterPersists, WriterAdvances, RunnerFlushed, RunnerBreaks, RunnerFail, RunnerSettle,
         RunnerFinalized, RunnerRefinalized, RunnerEnds
  <2>4. CASE Shutdown(m) \/ HostAsks(m) \/ HostEnds(m)
    BY <1>3, <2>4 DEF Shutdown, HostAsks, HostEnds
  <2> QED BY <1>8, <2>1, <2>2, <2>3, <2>4
<1>9. ASSUME NEW k \in Clients, Client(k)
      PROVE  Seen'
  <2>1. CASE CancelRead(k) \/ SnapshotRead(k)
    <3>1. (lock.status = "running") \in BOOLEAN
      OBVIOUS
    <3> QED BY <1>4, <2>1, <3>1 DEF CancelRead, SnapshotRead
  <2>2. CASE CancelLookup(k) \/ CancelInterrupt(k)
    BY <1>6, <2>2 DEF CancelLookup, CancelInterrupt
  <2>3. CASE IngestFetch(k)
    BY <1>5, <1>7, <2>3 DEF IngestFetch
  <2>4. CASE ClientTidied(k) \/ CancelGateway(k) \/ CancelWait(k) \/ IngestPersist(k) \/ IngestAdvance(k)
             \/ Prove(k) \/ Proved(k) \/ CancelGathered(k) \/ CancelLast(k) \/ CancelReturns(k)
    BY <1>3, <1>5, <2>4 DEF ClientTidied, CancelGateway, CancelWait, IngestPersist, IngestAdvance, Prove,
         Proved, CancelGathered, CancelLast, CancelReturns
  <2> QED BY <1>9, <2>1, <2>2, <2>3, <2>4 DEF Client
<1>10. ASSUME NEW a \in Actors, JobStep(a)
       PROVE  Seen'
  BY <1>3, <1>10 DEF JobStep, FinishTurn, ClearActiveRun, SuspendActiveRun, JobRaises
<1>11. CASE Crash
  BY <1>1, <1>2, <1>11 DEF Crash
<1> QED BY <1>8, <1>9, <1>10, <1>11 DEF Next

-----------------------------------------------------------------------------
(* The types are an invariant, together with what they rest on. *)

\* The initial states.
LEMMA BaseInit == Init => Base
<1> SUFFICES ASSUME Init PROVE Base
  OBVIOUS
<1> USE Actor
<1>1. pc \in [Actors -> Pcs]
  BY Places DEF Init
<1>2. Types
  BY <1>1, Constructors, SlotsExist, FaultsAndClock, EmptySeq DEF Init, Types, NoLock
<1>3. Holders = {}
  BY DEF Init, Holders, SlotPcs
<1>4. Slots
  BY <1>3, FS_EmptySet DEF Slots, Init
<1>5. InLog
  <2>1. Len(log) = 0
    BY EmptySeq DEF Init
  <2>2. Seen
    BY <2>1 DEF Init, Seen, NoTarget
  <2> QED BY <2>2, PointsKept DEF Init, InLog, Logged
<1>6. Named
  BY DistinctActors DEF Init, Named, At, NoLock, Clients
<1> QED BY <1>2, <1>4, <1>5, <1>6, SameTypes DEF Base

\* Every step keeps the types.
LEMMA TypesStep ==
    ASSUME Types, Slots, InLog, Named, Next
    PROVE  Types'
<1> USE Actor
<1>1. \A m \in Messages : pc[m] \in SlotPcs => inFlight > 0
  BY SlotTaken
<1>2. ASSUME NEW a \in Actors, JobStep(a)
      PROVE  Types'
  BY <1>2, JobTypes, SameTypes DEF Types, TypeOK, Pcs, Locks, Ids, Entries, Jobs, Targets, Runs
<1>3. ASSUME NEW m \in Messages, Shutdown(m)
      PROVE  Types'
  BY <1>1, <1>3, CancelTypes DEF Shutdown, Types, stores, events, host
<1> QED BY <1>1, <1>2, <1>3, PrepareTypes, RunnerTypes, HostTypes, ClientTypes, CrashTypes DEF Next

\* Every step keeps the inductive invariant.
LEMMA BaseStep ==
    ASSUME Base, [Next]_vars
    PROVE  Base'
<1>1. Types /\ Slots /\ InLog /\ Named
  BY SameTypes DEF Base
<1>2. CASE Next
  <2>1. Types'
    BY <1>1, <1>2, TypesStep
  <2>2. TypeOK'
    BY <2>1 DEF Types, TypeOK, Pcs, Locks, Ids, Entries, Jobs, Targets, Runs
  <2> QED BY <1>1, <1>2, <2>1, <2>2, SlotsStep, InLogStep, SeenStep, NamedStep DEF Base, InLog
<1>3. CASE UNCHANGED vars
  BY <1>1, <1>3 DEF vars, stores, events, host, local, Base, TypeOK, Slots, Holders, Uncancelled, InLog, Logged, Seen, Points, Upto, Named, At
<1> QED BY <1>2, <1>3

\* The inductive core of the model of a turn's life.
THEOREM BaseInvariant == Spec => []Base
<1> QED BY BaseInit, BaseStep, PTL DEF Spec

\* Type correctness of a turn's life.
THEOREM TypeCorrect == Spec => []TypeOK
<1>1. Base => TypeOK
  BY DEF Base
<1> QED BY <1>1, BaseInvariant, PTL

\* The slots of backpressure are given back by every turn that is not cancelled
\* (turn_runner.run, TurnBackpressure).
THEOREM SlotsStayBalanced == Spec => []SlotsBalanced
<1>1. Base => SlotsBalanced
  BY DEF Base, Slots, SlotsBalanced, Uncancelled, Holders
<1> QED BY <1>1, BaseInvariant, PTL
=============================================================================
