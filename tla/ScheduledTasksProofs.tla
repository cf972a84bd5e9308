----------------------- MODULE ScheduledTasksProofs -----------------------
(* Proofs about ScheduledTasks, for any number of dispatchers and runs by   *)
(* hand, any schedules, any bounds on the clock and on mishaps.             *)
EXTENDS ScheduledTasks, FiniteSetTheorems, WellFoundedInduction, TLAPS

Idle == {"recover", "due", "new", "over"}
AtRun == {"job", "start", "prepared", "failing"}
InLoop == {"create", "existing", "release", "unlease"}

\* What an actor has read by the place it is at.
ActorsKnow ==
    /\ \A a \in Actors :
          /\ place[a] \notin Idle => work[a] \in Runs
          /\ place[a] \notin Idle \cup {"job"} => copy[a] \in Copies
          /\ place[a] \in InLoop => work[a] \in Times
    /\ \A m \in Manuals :
          /\ work[m] \in {m, Nil}
          /\ place[m] \in {"new", "claim", "start", "prepared", "failing", "over"}
          /\ place[m] = "new" => status[m] = "absent"

\* A run that somebody has claimed, or watches, is past "queued" for good.
TakenUp ==
    /\ \A a \in Actors :
          /\ place[a] \in AtRun => status[work[a]] \notin {"absent", "queued"}
          /\ place[a] \in {"existing", "claim", "release"} => status[work[a]] # "absent"
    /\ \A w \in Workers, r \in Runs :
          watching[w][r] > 0 \/ handling[w][r] > 0 => status[r] \notin {"absent", "queued"}
    /\ \A r \in held : status[r] = "dispatching"

Base == TasksTypeOK /\ ActorsKnow /\ TakenUp

-----------------------------------------------------------------------------
\* The least of some naturals is one of them (FiniteSetsExt states Min for any set).
LEMMA MinOfTimes ==
    ASSUME NEW S \in SUBSET Nat, S # {}
    PROVE  Min(S) \in S /\ \A x \in S : Min(S) <= x
<1> DEFINE R == OpToRel(<, Nat)
<1>1. IsWellFoundedOn(R, Nat)
  BY NatLessThanWellFounded
<1>2. PICK n \in S : \A m \in S : <<m, n>> \notin R
  <2> HIDE DEF R
  <2> QED BY <1>1, WFMin
<1>3. ASSUME NEW m \in Nat, NEW k \in Nat, m < k
      PROVE  <<m, k>> \in R
  <2> DEFINE ss == <<m, k>>
  <2>1. ss \in Nat \X Nat /\ ss[1] < ss[2]
    BY <1>3
  <2> QED BY <2>1 DEF OpToRel
<1>4. \A m \in S : n <= m
  <2> HIDE DEF R
  <2>1. ASSUME NEW m \in S PROVE n <= m
    <3>1. m \in Nat /\ n \in Nat /\ <<m, n>> \notin R
      BY <1>2
    <3>2. ~(m < n)
      BY <1>3, <3>1
    <3> QED BY <3>1, <3>2
  <2> QED BY <2>1
<1> QED BY <1>4 DEF Min

\* A next due time comes after the moment it is computed for (schedule.py:46-77).
LEMMA NextIsLater ==
    ASSUME NEW s \in Schedules, NEW t \in Nat
    PROVE  /\ NextAfter(s, t) \in (Nat \ {0}) \cup {Nil}
           /\ NextAfter(s, t) # Nil => NextAfter(s, t) > t
<1>1. s \in SUBSET (Nat \ {0})
  BY SchedulesAreTimes
<1> DEFINE later == {x \in s : x > t}
<1>2. later # {} => Min(later) \in later
  BY <1>1, MinOfTimes
<1> QED BY <1>1, <1>2 DEF NextAfter

\* A due time that an edit computes is not past (repository.py:108-116).
LEMMA NextIsNotPast ==
    ASSUME NEW s \in Schedules, now \in Nat
    PROVE  /\ NextFromNow(s) \in (Nat \ {0}) \cup {Nil}
           /\ NextFromNow(s) # Nil => NextFromNow(s) >= now
<1>1. s \in SUBSET (Nat \ {0})
  BY SchedulesAreTimes
<1> DEFINE later == {x \in s : x >= now}
<1>2. later # {} => Min(later) \in later
  BY <1>1, MinOfTimes
<1> QED BY <1>1, <1>2 DEF NextFromNow

\* Every step keeps the types.
LEMMA TypesAreKept ==
    ASSUME Base, [TasksNext]_tasksVars
    PROVE  TasksTypeOK'
<1> USE DEF TasksTypeOK, rowsVars, actorVars, observerVars, userVars, Actors, Goto, Leave, Mark, Event, Mishap
<1>0. Base /\ TasksTypeOK
  BY DEF Base
<1>a. ASSUME NEW a \in Actors
      PROVE  /\ Done(a) \in Places
             /\ Raised(a) \in Places
  BY <1>0 DEF Done, Raised, Places
<1>b. ASSUME NEW a \in Actors, place[a] \notin Idle
      PROVE  work[a] \in Runs
  BY <1>0, <1>b DEF Base, ActorsKnow
<1>c. ASSUME NEW a \in Actors, place[a] \notin Idle \cup {"job"}
      PROVE  copy[a] \in Copies
  BY <1>0, <1>c DEF Base, ActorsKnow
<1>d. job.owner \in Workers \cup {Nil}
  BY <1>0 DEF JobRow
<1>e. ASSUME NEW o \in Workers \cup {Nil}
      PROVE  Known(o) \in Copies
  BY <1>0 DEF Known, JobRow, Copies
<1>1. ASSUME NEW w \in Workers, RecoverClaim(w)
      PROVE  TasksTypeOK'
  BY <1>0, <1>1 DEF RecoverClaim, ClaimRun, Places, RunStatus, Pending
<1>2. ASSUME NEW w \in Workers, RecoverJob(w)
      PROVE  TasksTypeOK'
  BY <1>0, <1>d, <1>e, <1>2 DEF RecoverJob, Places, RunStatus, Settled
<1>3. ASSUME NEW w \in Workers, RecoverNone(w)
      PROVE  TasksTypeOK'
  BY <1>0, <1>3 DEF RecoverNone, Places
<1>4. ASSUME NEW w \in Workers, ClaimDue(w)
      PROVE  TasksTypeOK'
  <2>0. job.next \in Nat \ {0} /\ job.next <= now
    BY <1>0, <1>4 DEF ClaimDue, Due, JobRow
  <2>1. job.next \in Times /\ job.next \in Runs
    BY <1>0, <2>0, ClockAndMishapsAreBounded DEF Times, Runs
  <2>2. job' \in JobRow
    BY <1>0, <1>4 DEF ClaimDue, JobRow
  <2> QED BY <1>0, <1>e, <1>4, <2>1, <2>2 DEF ClaimDue, Places
<1>5. ASSUME NEW w \in Workers, DueNone(w)
      PROVE  TasksTypeOK'
  BY <1>0, <1>5 DEF DueNone, Places
<1>6. ASSUME NEW w \in Workers, CreateRun(w)
      PROVE  TasksTypeOK'
  <2>1. work[w] \in Runs
    BY <1>b, <1>6 DEF CreateRun, Idle
  <2> QED BY <1>0, <2>1, <1>6 DEF CreateRun, InsertRun, Places, RunStatus, Pending
<1>7. ASSUME NEW w \in Workers, ReadRun(w)
      PROVE  TasksTypeOK'
  BY <1>0, <1>7 DEF ReadRun, Places
<1>8. ASSUME NEW a \in Actors, ClaimOwn(a)
      PROVE  TasksTypeOK'
  <2>1. work[a] \in Runs
    BY <1>b, <1>8 DEF ClaimOwn, Idle
  <2>2. CASE Claimable(work[a])
    <3>1. /\ status' = [status EXCEPT ![work[a]] = "dispatching"]
          /\ held' = held \cup {work[a]} /\ UNCHANGED <<job, born, copy, work>>
          /\ place' = [place EXCEPT ![a] = "start"]
      BY <1>8, <2>2 DEF ClaimOwn, ClaimRun
    <3> QED BY <1>0, <1>8, <2>1, <3>1 DEF ClaimOwn, Places, RunStatus, Pending
  <2>3. CASE ~Claimable(work[a])
    BY <1>0, <1>a, <1>8, <2>3 DEF ClaimOwn
  <2> QED BY <2>2, <2>3
<1>9. ASSUME NEW a \in Actors, Prepare(a)
      PROVE  TasksTypeOK'
  <2>1. work[a] \in Runs
    BY <1>b, <1>9 DEF Prepare, Idle
  <2> QED BY <1>0, <2>1, <1>9 DEF Prepare, Places
<1>10. ASSUME NEW a \in Actors, Refuse(a)
      PROVE  TasksTypeOK'
  BY <1>0, <1>10 DEF Refuse, Places
<1>11. ASSUME NEW a \in Actors, MarkStarted(a)
      PROVE  TasksTypeOK'
  <2>1. work[a] \in Runs
    BY <1>b, <1>11 DEF MarkStarted, Idle
  <2>2. watching' \in [Workers -> [Runs -> Nat]]
    <3> DEFINE h == Host(a)
    <3>1. watching' = [watching EXCEPT ![h] = [watching[h] EXCEPT ![work[a]] = @ + 1]]
      BY <1>11 DEF MarkStarted
    <3>2. ASSUME h \in Workers
          PROVE  [watching[h] EXCEPT ![work[a]] = @ + 1] \in [Runs -> Nat]
      BY <1>0, <2>1, <3>2
    <3> HIDE DEF h
    <3> QED BY <1>0, <3>1, <3>2
  <2>3. orphaned' \in SUBSET Runs
    BY <1>0, <1>11 DEF MarkStarted
  <2> QED BY <1>0, <1>a, <2>1, <2>2, <2>3, <1>11 DEF MarkStarted, AfterStart, Places, RunStatus
<1>12. ASSUME NEW a \in Actors, FailBeforeStart(a)
      PROVE  TasksTypeOK'
  BY <1>0, <1>a, <1>12 DEF FailBeforeStart, AfterStart, Places, RunStatus, Settled
<1>13. ASSUME NEW a \in Actors, Release(a)
      PROVE  TasksTypeOK'
  <2>1. copy[a] \in Copies /\ work[a] \in Times
    BY <1>0, <1>13 DEF Release, Base, ActorsKnow, Idle, InLoop
  <2>2. NextAfterRelease(a) \in (Nat \ {0}) \cup {Nil}
    BY <1>0, <2>1, NextIsLater, ClockAndMishapsAreBounded DEF NextAfterRelease, Copies, Times
  <2>3. job' \in JobRow
    <3> DEFINE next == NextAfterRelease(a)
    <3>1. StillEnabled(a, next) \in BOOLEAN
      BY <2>1 DEF StillEnabled, Copies
    <3>2. job' = job \/ job' = [job EXCEPT !.next = next, !.enabled = StillEnabled(a, next),
                                        !.owner = Nil, !.leased = FALSE]
      BY <1>13 DEF Release
    <3>3. next \in (Nat \ {0}) \cup {Nil}
      BY <2>2
    <3> HIDE DEF next
    <3> QED BY <1>0, <3>1, <3>2, <3>3 DEF JobRow
  <2> QED BY <1>0, <1>a, <1>13, <2>3 DEF Release, Places
<1>14. ASSUME NEW a \in Actors, Unlease(a)
      PROVE  TasksTypeOK'
  <2>1. job' \in JobRow
    BY <1>0, <1>14 DEF Unlease, JobRow
  <2> QED BY <1>0, <1>a, <1>14, <2>1 DEF Unlease
<1>15. ASSUME NEW a \in Actors, MarkRaises(a)
      PROVE  TasksTypeOK'
  <2>1. events' \in 0 .. MaxEvents
    BY <1>0, <1>15, ClockAndMishapsAreBounded DEF MarkRaises
  <2>2. status' \in [Runs -> RunStatus] /\ held' \in SUBSET Runs
    BY <1>0, <1>15 DEF MarkRaises, RunStatus
  <2> QED BY <1>0, <1>15, <2>1, <2>2 DEF MarkRaises, Places
<1>16. ASSUME NEW a \in Actors, StoreRaises(a)
      PROVE  TasksTypeOK'
  BY <1>0, <1>a, <1>16, ClockAndMishapsAreBounded DEF StoreRaises
<1>17. ASSUME NEW w \in Workers, Crash(w)
      PROVE  TasksTypeOK'
  <2>1. place' \in [Actors -> Places]
    BY <1>0, <1>a, <1>17 DEF Crash
  <2>2. copy' \in [Actors -> Copies \cup {Nil}] /\ work' \in [Actors -> Runs \cup {Nil}]
    BY <1>0, <1>17 DEF Crash
  <2>3. /\ watching' \in [Workers -> [Runs -> Nat]] /\ phase' \in [Workers -> {"recover", "due"}]
        /\ handling' \in [Workers -> [Runs -> Nat]]
    BY <1>0, <1>17 DEF Crash
  <2>4. orphaned' \in SUBSET Runs
    BY <1>0, <1>17 DEF Crash
  <2> QED BY <1>0, <1>17, <2>1, <2>2, <2>3, <2>4, ClockAndMishapsAreBounded DEF Crash
<1>18. ASSUME NEW w \in Workers, NEW r \in Runs, ObserverRaises(w, r)
      PROVE  TasksTypeOK'
  <2>1. status' \in [Runs -> RunStatus] /\ held' \in SUBSET Runs
    BY <1>0, <1>18 DEF ObserverRaises, RunStatus, Settled
  <2> QED BY <1>0, <1>18, <2>1, ClockAndMishapsAreBounded DEF ObserverRaises
<1>19. ASSUME NEW w \in Workers, NEW r \in Runs, Observe(w, r)
      PROVE  TasksTypeOK'
  BY <1>0, <1>19 DEF Observe, RunStatus, Settled
<1>29. ASSUME NEW w \in Workers, NEW r \in Runs, ObserverGivesUp(w, r)
      PROVE  TasksTypeOK'
  BY <1>0, <1>29 DEF ObserverGivesUp
<1>30. ASSUME NEW w \in Workers, NEW r \in Runs, ObserverFails(w, r)
      PROVE  TasksTypeOK'
  BY <1>0, <1>30 DEF ObserverFails, RunStatus, Settled
<1>31. ASSUME NEW w \in Workers, NEW r \in Runs, ObserverCancelled(w, r)
      PROVE  TasksTypeOK'
  BY <1>0, <1>31 DEF ObserverCancelled
<1>20. ASSUME NEW w \in Workers, NEW m \in Manuals, DispatchNow(w, m)
      PROVE  TasksTypeOK'
  <2>1. m \in Actors /\ m \in Runs
    BY DEF Runs
  <2> QED BY <1>0, <1>d, <1>e, <1>20, <2>1 DEF DispatchNow, InsertRun, Places, RunStatus, Pending
<1>21. CASE EditRead
  BY <1>0, <1>d, <1>e, <1>21, ClockAndMishapsAreBounded DEF EditRead
<1>22. CASE EditWrite
  <2> PICK sent \in SUBSET {"enabled", "schedule"}, on \in BOOLEAN, s \in Schedules :
         LET enabled == IF "enabled" \in sent THEN on ELSE draft.enabled
             schedule == IF "schedule" \in sent THEN s ELSE draft.schedule
             next == IF enabled THEN NextFromNow(schedule) ELSE Nil
         IN job' = IF ~job.exists THEN job
                   ELSE [job EXCEPT !.schedule = schedule, !.next = next,
                                    !.enabled = IF "enabled" \in sent THEN on ELSE @]
    BY <1>22 DEF EditWrite
  <2> DEFINE schedule == IF "schedule" \in sent THEN s ELSE draft.schedule
  <2>1. schedule \in Schedules
    BY <1>0, <1>22 DEF EditWrite, Copies
  <2>2. NextFromNow(schedule) \in (Nat \ {0}) \cup {Nil}
    BY <1>0, <2>1, NextIsNotPast, ClockAndMishapsAreBounded
  <2>3. job' \in JobRow
    <3> DEFINE next == IF (IF "enabled" \in sent THEN on ELSE draft.enabled)
                       THEN NextFromNow(schedule) ELSE Nil
    <3>1. next \in (Nat \ {0}) \cup {Nil}
      BY <2>2
    <3>2. job' = job \/ job' = [job EXCEPT !.schedule = schedule, !.next = next,
                                        !.enabled = IF "enabled" \in sent THEN on ELSE @]
      OBVIOUS
    <3> HIDE DEF next, schedule
    <3> QED BY <1>0, <2>1, <3>1, <3>2 DEF JobRow
  <2>4. now \in 0 .. MaxTime /\ edited' = edited \cup {now} /\ draft' = Nil
    BY <1>0, <1>22 DEF EditWrite
  <2> QED BY <1>0, <1>22, <2>3, <2>4 DEF EditWrite
<1>23. CASE EditRefused
  BY <1>0, <1>23 DEF EditRefused
<1>24. CASE DeleteJob
  <2>1. job' \in JobRow
    BY <1>0, <1>24 DEF DeleteJob, JobRow
  <2> QED BY <1>0, <1>24, <2>1, ClockAndMishapsAreBounded DEF DeleteJob
<1>25. ASSUME NEW r \in Runs, RunLeaseExpires(r)
      PROVE  TasksTypeOK'
  BY <1>0, <1>25, ClockAndMishapsAreBounded DEF RunLeaseExpires
<1>26. CASE JobLeaseExpires
  <2>1. job' \in JobRow
    BY <1>0, <1>26 DEF JobLeaseExpires, JobRow
  <2> QED BY <1>0, <1>26, <2>1, ClockAndMishapsAreBounded DEF JobLeaseExpires
<1>27. CASE Tick
  BY <1>0, <1>27, ClockAndMishapsAreBounded DEF Tick
<1>28. CASE UNCHANGED tasksVars
  BY <1>0, <1>28 DEF tasksVars
<1> QED
  BY <1>1, <1>2, <1>3, <1>4, <1>5, <1>6, <1>7, <1>8, <1>9, <1>10, <1>11, <1>12, <1>13, <1>14,
     <1>15, <1>16, <1>17, <1>18, <1>19, <1>20, <1>21, <1>22, <1>23, <1>24, <1>25, <1>26, <1>27,
     <1>28, <1>29, <1>30, <1>31
  DEF TasksNext, LoopStep, RunStep, ObserverStep, MishapStep, UserStep

\* A step of one actor keeps what the others know.
LEMMA OthersKnow ==
    ASSUME Base, NEW a \in Actors,
           \A b \in Actors : b = a \/ /\ place'[b] = place[b] /\ copy'[b] = copy[b]
                                      /\ work'[b] = work[b],
           \A m \in Manuals : m = a \/ status[m] # "absent" \/ status'[m] = "absent",
           place'[a] \notin Idle => work'[a] \in Runs,
           place'[a] \notin Idle \cup {"job"} => copy'[a] \in Copies,
           place'[a] \in InLoop => work'[a] \in Times,
           a \in Manuals => /\ work'[a] \in {a, Nil}
                            /\ place'[a] \in {"claim", "start", "prepared", "failing", "over"}
    PROVE  ActorsKnow'
<1>1. ASSUME NEW b \in Actors
      PROVE  /\ place'[b] \notin Idle => work'[b] \in Runs
             /\ place'[b] \notin Idle \cup {"job"} => copy'[b] \in Copies
             /\ place'[b] \in InLoop => work'[b] \in Times
  BY DEF Base, ActorsKnow
<1>2. ASSUME NEW m \in Manuals
      PROVE  /\ work'[m] \in {m, Nil}
             /\ place'[m] \in {"new", "claim", "start", "prepared", "failing", "over"}
             /\ place'[m] = "new" => status'[m] = "absent"
  BY DEF Base, ActorsKnow, Actors
<1> QED BY <1>1, <1>2 DEF ActorsKnow, Idle, InLoop, Runs, Times, Copies

\* An actor whose run is started or failed has all that "release" needs.
LEMMA AfterStartKnows ==
    ASSUME Base, NEW a \in Actors, AfterStart(a), place[a] \in {"prepared", "failing"},
           \A m \in Manuals : status[m] # "absent" \/ status'[m] = "absent"
    PROVE  ActorsKnow'
<1>0. work[a] \in Runs /\ copy[a] \in Copies /\ (a \in Manuals => work[a] \in {a, Nil})
  BY DEF Base, ActorsKnow, Idle
<1>1. place \in [Actors -> Places] /\ copy \in [Actors -> Copies \cup {Nil}]
      /\ work \in [Actors -> Runs \cup {Nil}]
  BY DEF Base, TasksTypeOK
<1>2. CASE work[a] \in Manuals
  <2>1. /\ place' = [place EXCEPT ![a] = Done(a)] /\ copy' = [copy EXCEPT ![a] = Nil]
        /\ work' = [work EXCEPT ![a] = Nil]
    BY <1>2 DEF AfterStart, Leave, Goto
  <2>2. Done(a) \in Idle /\ (a \in Manuals => Done(a) = "over")
    BY DEF Done, Idle, Actors, Base, TasksTypeOK
  <2>3. /\ place'[a] = Done(a) /\ work'[a] = Nil
        /\ \A b \in Actors \ {a} : /\ place'[b] = place[b] /\ copy'[b] = copy[b]
                                  /\ work'[b] = work[b]
    BY <1>1, <2>1
  <2>4. /\ place'[a] \in Idle /\ place'[a] \notin InLoop
        /\ a \in Manuals => /\ work'[a] \in {a, Nil}
                            /\ place'[a] \in {"claim", "start", "prepared", "failing", "over"}
    BY <2>2, <2>3 DEF Idle, InLoop
  <2>5. \A m \in Manuals : m = a \/ status[m] # "absent" \/ status'[m] = "absent"
    OBVIOUS
  <2>6. \A b \in Actors : b = a \/ /\ place'[b] = place[b] /\ copy'[b] = copy[b]
                                   /\ work'[b] = work[b]
    BY <2>3
  <2> QED BY <2>4, <2>5, <2>6, OthersKnow, Zenon
<1>3. CASE work[a] \notin Manuals
  <2>1. place' = [place EXCEPT ![a] = "release"] /\ UNCHANGED <<copy, work>>
    BY <1>3 DEF AfterStart, Goto
  <2>2. work[a] \in Times /\ a \notin Manuals
    <3>1. work[a] \in Times
      BY <1>0, <1>3 DEF Runs
    <3> QED BY <1>0, <1>3, <3>1, NilIsNoTimeOrActor DEF Times
  <2> QED BY <1>0, <1>1, <2>1, <2>2, OthersKnow DEF Idle, InLoop
<1> QED BY <1>2, <1>3

\* A step of one actor keeps the claims of the others.
LEMMA OthersClaims ==
    ASSUME Base, NEW a \in Actors,
           \A b \in Actors : b = a \/ /\ place'[b] = place[b] /\ work'[b] = work[b],
           \A r \in Runs : status[r] # "absent" => status'[r] # "absent",
           \A r \in Runs : status[r] \notin {"absent", "queued"}
                             => status'[r] \notin {"absent", "queued"},
           place'[a] \in AtRun => status'[work'[a]] \notin {"absent", "queued"},
           place'[a] \in {"existing", "claim", "release"} => status'[work'[a]] # "absent",
           \A w \in Workers, r \in Runs : watching'[w][r] > 0 \/ handling'[w][r] > 0
               => \/ watching[w][r] > 0 \/ handling[w][r] > 0
                  \/ status[r] \notin {"absent", "queued"},
           \A r \in held' : status'[r] = "dispatching"
    PROVE  TakenUp'
<1>1. ASSUME NEW b \in Actors
      PROVE  /\ place'[b] \in AtRun => status'[work'[b]] \notin {"absent", "queued"}
             /\ place'[b] \in {"existing", "claim", "release"} => status'[work'[b]] # "absent"
  <2>1. place[b] \notin Idle => work[b] \in Runs
    BY DEF Base, ActorsKnow
  <2>2. /\ place[b] \in AtRun => status[work[b]] \notin {"absent", "queued"}
        /\ place[b] \in {"existing", "claim", "release"} => status[work[b]] # "absent"
    BY DEF Base, TakenUp
  <2> QED BY <2>1, <2>2 DEF AtRun, Idle
<1>2. ASSUME NEW w \in Workers, NEW r \in Runs, watching'[w][r] > 0 \/ handling'[w][r] > 0
      PROVE  status'[r] \notin {"absent", "queued"}
  BY <1>2 DEF Base, TakenUp
<1> QED BY <1>1, <1>2 DEF TakenUp

\* Every step leaves each actor with what its next place needs.
LEMMA KnowledgeIsKept ==
    ASSUME Base, [TasksNext]_tasksVars
    PROVE  ActorsKnow'
<1> USE NilIsNoTimeOrActor
<1> USE DEF Base, TasksTypeOK, ActorsKnow, rowsVars, actorVars, Goto, Leave, Mark, Actors, Idle,
            InLoop
<1>1. ASSUME NEW w \in Workers, RecoverClaim(w)
      PROVE  ActorsKnow'
  BY <1>1 DEF RecoverClaim, Claimable, ClaimRun, Pending
<1>2. ASSUME NEW w \in Workers, RecoverJob(w)
      PROVE  ActorsKnow'
  <2>0. work[w] \in Runs /\ status[work[w]] # "absent" /\ w \notin Manuals
    BY <1>2 DEF RecoverJob, TakenUp, AtRun
  <2>1. \A m \in Manuals : status[m] # "absent" \/ status'[m] = "absent"
    <3>1. \A r \in Runs : r = work[w] \/ status'[r] = status[r]
      BY <1>2, <2>0 DEF RecoverJob
    <3> QED BY <2>0, <3>1 DEF Runs
  <2>2. CASE job.exists
    <3>1. Known(job.owner) \in Copies
      BY DEF Known, Copies, JobRow
    <3>2. /\ place' = [place EXCEPT ![w] = "start"] /\ UNCHANGED work
          /\ copy' = [copy EXCEPT ![w] = Known(job.owner)]
      BY <1>2, <2>2 DEF RecoverJob
    <3> QED BY <2>0, <2>1, <3>1, <3>2, OthersKnow
  <2>3. CASE ~job.exists
    <3>1. /\ place' = [place EXCEPT ![w] = "recover"] /\ copy' = [copy EXCEPT ![w] = Nil]
          /\ work' = [work EXCEPT ![w] = Nil]
      BY <1>2, <2>3 DEF RecoverJob
    <3> QED BY <2>0, <2>1, <3>1, OthersKnow
  <2> QED BY <2>2, <2>3
<1>3. ASSUME NEW w \in Workers, RecoverNone(w)
      PROVE  ActorsKnow'
  BY <1>3 DEF RecoverNone
<1>4. ASSUME NEW w \in Workers, ClaimDue(w)
      PROVE  ActorsKnow'
  <2>1. job.next \in Nat \ {0} /\ job.next <= now
    BY <1>4 DEF ClaimDue, Due, JobRow
  <2>2. job.next \in Times /\ job.next \in Runs
    BY <2>1, ClockAndMishapsAreBounded DEF Times, Runs
  <2>3. Known(w) \in Copies
    BY DEF Known, Copies, JobRow
  <2> QED BY <1>4, <2>2, <2>3 DEF ClaimDue
<1>5. ASSUME NEW w \in Workers, DueNone(w)
      PROVE  ActorsKnow'
  BY <1>5 DEF DueNone
<1>6. ASSUME NEW w \in Workers, CreateRun(w)
      PROVE  ActorsKnow'
  <2>1. work[w] \in Times /\ copy[w] \in Copies /\ work[w] \notin Manuals /\ w \notin Manuals
    <3>1. work[w] \in Times /\ copy[w] \in Copies
      BY <1>6 DEF CreateRun
    <3> QED BY <3>1 DEF Times
  <2>2. /\ \E p \in {"claim", "existing"} : place' = [place EXCEPT ![w] = p]
        /\ UNCHANGED <<copy, work>>
    BY <1>6 DEF CreateRun, InsertRun
  <2>3. \A m \in Manuals : status[m] # "absent" \/ status'[m] = "absent"
    <3>1. \A r \in Runs : r = work[w] \/ status'[r] = status[r]
      BY <1>6, <2>1 DEF CreateRun, InsertRun
    <3> QED BY <2>1, <3>1 DEF Runs
  <2> QED BY <2>1, <2>2, <2>3, OthersKnow DEF Runs
<1>7. ASSUME NEW w \in Workers, ReadRun(w)
      PROVE  ActorsKnow'
  BY <1>7 DEF ReadRun
<1>8. ASSUME NEW a \in Actors, ClaimOwn(a)
      PROVE  ActorsKnow'
  <2>1. work[a] \in Runs /\ copy[a] \in Copies /\ (a \in Manuals => work[a] \in {a, Nil})
    BY <1>8 DEF ClaimOwn
  <2>2. \A m \in Manuals : status[m] # "absent" \/ status'[m] = "absent"
    <3>1. \A r \in Runs : (r = work[a] /\ status[r] # "absent") \/ status'[r] = status[r]
      BY <1>8, <2>1 DEF ClaimOwn, ClaimRun, Claimable, Pending
    <3> QED BY <3>1 DEF Runs
  <2>3. \/ place' = [place EXCEPT ![a] = "start"] /\ UNCHANGED <<copy, work>>
        \/ /\ place' = [place EXCEPT ![a] = Done(a)] /\ copy' = [copy EXCEPT ![a] = Nil]
           /\ work' = [work EXCEPT ![a] = Nil]
    BY <1>8 DEF ClaimOwn
  <2>4. Done(a) \in Idle /\ (a \in Manuals => Done(a) = "over")
    BY DEF Done
  <2>5. /\ \A b \in Actors \ {a} : /\ place'[b] = place[b] /\ copy'[b] = copy[b]
                                  /\ work'[b] = work[b]
        /\ \/ place'[a] = "start" /\ copy'[a] = copy[a] /\ work'[a] = work[a]
           \/ place'[a] = Done(a) /\ work'[a] = Nil
    BY <2>3
  <2> HIDE DEF Done
  <2> QED BY <2>1, <2>2, <2>4, <2>5, OthersKnow
<1>9. ASSUME NEW a \in Actors, Prepare(a)
      PROVE  ActorsKnow'
  BY <1>9 DEF Prepare
<1>10. ASSUME NEW a \in Actors, Refuse(a)
      PROVE  ActorsKnow'
  BY <1>10 DEF Refuse
<1>11. ASSUME NEW a \in Actors, MarkStarted(a)
      PROVE  ActorsKnow'
  <2>1. work[a] \in Runs /\ status[work[a]] # "absent"
    BY <1>11 DEF MarkStarted, TakenUp, AtRun
  <2>2. \A m \in Manuals : status[m] # "absent" \/ status'[m] = "absent"
    BY <1>11, <2>1 DEF MarkStarted
  <2>3. AfterStart(a)
    BY <1>11 DEF MarkStarted
  <2> QED BY <1>11, <2>1, <2>2, <2>3, AfterStartKnows DEF MarkStarted
<1>12. ASSUME NEW a \in Actors, FailBeforeStart(a)
      PROVE  ActorsKnow'
  <2>1. work[a] \in Runs /\ status[work[a]] # "absent"
    BY <1>12 DEF FailBeforeStart, TakenUp, AtRun
  <2>2. \A m \in Manuals : status[m] # "absent" \/ status'[m] = "absent"
    BY <1>12, <2>1 DEF FailBeforeStart
  <2>3. AfterStart(a)
    BY <1>12 DEF FailBeforeStart
  <2> QED BY <1>12, <2>1, <2>2, <2>3, AfterStartKnows DEF FailBeforeStart
<1>13. ASSUME NEW a \in Actors, Release(a)
      PROVE  ActorsKnow'
  <2>1. work[a] \in Times /\ copy[a] \in Copies /\ a \notin Manuals
    BY <1>13 DEF Release
  <2>2. Done(a) \in {"recover", "due"}
    BY <2>1 DEF Done
  <2>3. \/ place' = [place EXCEPT ![a] = Done(a)]
        \/ place' = [place EXCEPT ![a] = "unlease"] /\ UNCHANGED <<copy, work>>
    BY <1>13 DEF Release
  <2>4. /\ \A b \in Actors \ {a} : copy'[b] = copy[b] /\ work'[b] = work[b]
        /\ UNCHANGED status
    BY <1>13 DEF Release
  <2>5. /\ \A b \in Actors \ {a} : place'[b] = place[b]
        /\ \/ place'[a] = "unlease" /\ copy'[a] = copy[a] /\ work'[a] = work[a]
           \/ place'[a] \in {"recover", "due"}
    BY <2>2, <2>3
  <2> QED BY <2>1, <2>4, <2>5, OthersKnow DEF Runs
<1>14. ASSUME NEW a \in Actors, Unlease(a)
      PROVE  ActorsKnow'
  BY <1>14 DEF Unlease, Done
<1>15. ASSUME NEW a \in Actors, MarkRaises(a)
      PROVE  ActorsKnow'
  <2>1. work[a] \in Runs /\ status[work[a]] # "absent" /\ copy[a] \in Copies
    BY <1>15 DEF MarkRaises, TakenUp, AtRun
  <2>2. \A m \in Manuals : status[m] # "absent" \/ status'[m] = "absent"
    <3>1. \A r \in Runs : r = work[a] \/ status'[r] = status[r]
      BY <1>15, <2>1 DEF MarkRaises
    <3> QED BY <2>1, <3>1 DEF Runs
  <2>3. place' = [place EXCEPT ![a] = "failing"] /\ UNCHANGED <<copy, work>>
    BY <1>15 DEF MarkRaises
  <2> QED BY <2>1, <2>2, <2>3, OthersKnow
<1>16. ASSUME NEW a \in Actors, StoreRaises(a)
      PROVE  ActorsKnow'
  BY <1>16 DEF StoreRaises, Raised
<1>17. ASSUME NEW w \in Workers, Crash(w)
      PROVE  ActorsKnow'
  BY <1>17 DEF Crash, Host, Raised
<1>18. ASSUME NEW w \in Workers, NEW r \in Runs, ObserverRaises(w, r)
      PROVE  ActorsKnow'
  <2>1. status[r] # "absent"
    BY <1>18 DEF ObserverRaises, TakenUp
  <2>2. \A m \in Manuals : status[m] # "absent" \/ status'[m] = "absent"
    <3>1. \A x \in Runs : x = r \/ status'[x] = status[x]
      BY <1>18 DEF ObserverRaises
    <3> QED BY <2>1, <3>1 DEF Runs
  <2> QED BY <1>18, <2>2 DEF ObserverRaises
<1>19. ASSUME NEW w \in Workers, NEW r \in Runs, Observe(w, r)
      PROVE  ActorsKnow'
  <2>1. status[r] # "absent"
    BY <1>19 DEF Observe, TakenUp
  <2>2. \A m \in Manuals : status[m] # "absent" \/ status'[m] = "absent"
    BY <1>19, <2>1 DEF Observe
  <2> QED BY <1>19, <2>2 DEF Observe
<1>29. ASSUME NEW w \in Workers, NEW r \in Runs, ObserverGivesUp(w, r)
      PROVE  ActorsKnow'
  BY <1>29 DEF ObserverGivesUp
<1>30. ASSUME NEW w \in Workers, NEW r \in Runs, ObserverFails(w, r)
      PROVE  ActorsKnow'
  <2>1. status[r] # "absent"
    BY <1>30 DEF ObserverFails, TakenUp
  <2>2. \A m \in Manuals : status[m] # "absent" \/ status'[m] = "absent"
    BY <1>30, <2>1 DEF ObserverFails
  <2> QED BY <1>30, <2>2 DEF ObserverFails
<1>31. ASSUME NEW w \in Workers, NEW r \in Runs, ObserverCancelled(w, r)
      PROVE  ActorsKnow'
  BY <1>31 DEF ObserverCancelled
<1>20. ASSUME NEW w \in Workers, NEW m \in Manuals, DispatchNow(w, m)
      PROVE  ActorsKnow'
  BY <1>20 DEF DispatchNow, InsertRun, Known, Copies, JobRow, Runs
<1>21. CASE EditRead
  BY <1>21 DEF EditRead
<1>22. CASE EditWrite
  BY <1>22 DEF EditWrite
<1>23. CASE EditRefused
  BY <1>23 DEF EditRefused
<1>24. CASE DeleteJob
  BY <1>24 DEF DeleteJob
<1>25. ASSUME NEW r \in Runs, RunLeaseExpires(r)
      PROVE  ActorsKnow'
  BY <1>25 DEF RunLeaseExpires
<1>26. CASE JobLeaseExpires
  BY <1>26 DEF JobLeaseExpires
<1>27. CASE Tick
  BY <1>27 DEF Tick
<1>28. CASE UNCHANGED tasksVars
  BY <1>28 DEF tasksVars
<1> QED
  BY <1>1, <1>2, <1>3, <1>4, <1>5, <1>6, <1>7, <1>8, <1>9, <1>10, <1>11, <1>12, <1>13, <1>14,
     <1>15, <1>16, <1>17, <1>18, <1>19, <1>20, <1>21, <1>22, <1>23, <1>24, <1>25, <1>26, <1>27,
     <1>28, <1>29, <1>30, <1>31
  DEF TasksNext, LoopStep, RunStep, ObserverStep, MishapStep, UserStep

LEMMA HeldIsDispatching ==
    ASSUME Base
    PROVE  held \in SUBSET Runs /\ \A r \in held : status[r] = "dispatching"
BY DEF Base, TasksTypeOK, TakenUp

\* Every step marks a run past "queued" before anybody works on it or watches it.
LEMMA ClaimsAreKept ==
    ASSUME Base, [TasksNext]_tasksVars
    PROVE  TakenUp'
<1> USE DEF Base, TasksTypeOK, TakenUp, rowsVars, actorVars, observerVars, userVars, Goto, Leave, Mark,
            Actors, Idle, AtRun
<1>1. ASSUME NEW w \in Workers, RecoverClaim(w)
      PROVE  TakenUp'
  BY <1>1 DEF RecoverClaim, Claimable, ClaimRun, Pending
<1>2. ASSUME NEW w \in Workers, RecoverJob(w)
      PROVE  TakenUp'
  <2>0. work[w] \in Runs /\ status[work[w]] # "absent" /\ w \notin Manuals
    BY <1>2 DEF RecoverJob, ActorsKnow, TakenUp, AtRun
  <2>1. CASE job.exists
    <3>1. Known(job.owner) \in Copies
      BY DEF Known, Copies, JobRow
    <3> QED BY <1>2, <2>0, <2>1, <3>1 DEF RecoverJob
  <2>2. CASE ~job.exists
    <3>1. /\ place' = [place EXCEPT ![w] = "recover"] /\ copy' = [copy EXCEPT ![w] = Nil]
          /\ work' = [work EXCEPT ![w] = Nil] /\ UNCHANGED <<watching, handling>>
      BY <1>2, <2>2 DEF RecoverJob
    <3>2. CASE UNCHANGED <<status, held>>
      BY <2>0, <3>1, <3>2
    <3>3. CASE /\ status' = [status EXCEPT ![work[w]] = "failed"]
               /\ held' = held \ {work[w]}
      BY <2>0, <3>1, <3>3
    <3> QED BY <1>2, <2>2, <3>2, <3>3 DEF RecoverJob
  <2> QED BY <2>1, <2>2
<1>3. ASSUME NEW w \in Workers, RecoverNone(w)
      PROVE  TakenUp'
  BY <1>3 DEF RecoverNone
<1>4. ASSUME NEW w \in Workers, ClaimDue(w)
      PROVE  TakenUp'
  BY <1>4 DEF ClaimDue
<1>5. ASSUME NEW w \in Workers, DueNone(w)
      PROVE  TakenUp'
  BY <1>5 DEF DueNone
<1>6. ASSUME NEW w \in Workers, CreateRun(w)
      PROVE  TakenUp'
  <2>1. work[w] \in Times /\ work[w] \in Runs /\ work[w] \notin Manuals /\ w \notin Manuals
    <3>1. work[w] \in Times
      BY <1>6 DEF CreateRun, ActorsKnow, InLoop
    <3> QED BY <3>1, NilIsNoTimeOrActor DEF Times, Runs
  <2>2. CASE status[work[w]] = "absent"
    <3>1. /\ place' = [place EXCEPT ![w] = "claim"] /\ UNCHANGED <<copy, work, watching, handling, held>>
          /\ status' = [status EXCEPT ![work[w]] = "queued"]
      BY <1>6, <2>2 DEF CreateRun, InsertRun
    <3> QED BY <1>6, <2>1, <2>2, <3>1 DEF CreateRun
  <2>3. CASE status[work[w]] # "absent"
    <3>1. /\ place' = [place EXCEPT ![w] = "existing"]
          /\ UNCHANGED <<copy, work, watching, handling, held, status>>
      BY <1>6, <2>3 DEF CreateRun
    <3> QED BY <1>6, <2>1, <2>3, <3>1 DEF CreateRun
  <2> QED BY <2>2, <2>3
<1>7. ASSUME NEW w \in Workers, ReadRun(w)
      PROVE  TakenUp'
  BY <1>7 DEF ReadRun, Pending
<1>8. ASSUME NEW a \in Actors, ClaimOwn(a)
      PROVE  TakenUp'
  <2>0. work[a] \in Runs
    BY <1>8 DEF ClaimOwn, ActorsKnow
  <2>1. CASE Claimable(work[a])
    <3>1. /\ place' = [place EXCEPT ![a] = "start"] /\ UNCHANGED <<copy, work, watching, handling>>
          /\ status' = [status EXCEPT ![work[a]] = "dispatching"] /\ held' = held \cup {work[a]}
          /\ status[work[a]] # "absent"
      BY <1>8, <2>1 DEF ClaimOwn, Claimable, ClaimRun, Pending
    <3> QED BY <1>8, <2>0, <3>1 DEF ClaimOwn
  <2>2. CASE ~Claimable(work[a])
    <3>1. /\ place' = [place EXCEPT ![a] = Done(a)] /\ copy' = [copy EXCEPT ![a] = Nil]
          /\ work' = [work EXCEPT ![a] = Nil] /\ UNCHANGED <<status, held, watching, handling>>
      BY <1>8, <2>2 DEF ClaimOwn
    <3>2. Done(a) \in Idle /\ (a \in Manuals => Done(a) = "over") /\ Done(a) # "new"
      BY DEF Done
    <3> QED BY <3>1, <3>2
  <2> QED BY <2>1, <2>2
<1>9. ASSUME NEW a \in Actors, Prepare(a)
      PROVE  TakenUp'
  BY <1>9 DEF Prepare
<1>10. ASSUME NEW a \in Actors, Refuse(a)
      PROVE  TakenUp'
  BY <1>10 DEF Refuse
<1>11. ASSUME NEW a \in Actors, MarkStarted(a)
      PROVE  TakenUp'
  <2>1. work[a] \in Runs /\ status[work[a]] \notin {"absent", "queued"}
    BY <1>11 DEF MarkStarted, ActorsKnow
  <2>2. /\ \A b \in Actors \ {a} : place'[b] = place[b] /\ work'[b] = work[b]
        /\ \/ place'[a] \in Idle
           \/ place'[a] = "release" /\ work'[a] = work[a]
    BY <1>11 DEF MarkStarted, AfterStart, Done
  <2>3. /\ \A r \in Runs \ {work[a]} : status'[r] = status[r]
        /\ status'[work[a]] \in {"running", "failed"} /\ held' = held \ {work[a]}
    BY <1>11, <2>1 DEF MarkStarted
  <2>4. \A w \in Workers, r \in Runs : watching'[w][r] > 0 => r = work[a] \/ watching[w][r] > 0
    BY <1>11, <2>1 DEF MarkStarted
  <2>5. UNCHANGED handling
    BY <1>11 DEF MarkStarted
  <2> HIDE DEF TakenUp
  <2> QED BY <2>1, <2>2, <2>3, <2>4, <2>5, HeldIsDispatching, OthersClaims
<1>12. ASSUME NEW a \in Actors, FailBeforeStart(a)
      PROVE  TakenUp'
  <2>1. work[a] \in Runs /\ status[work[a]] \notin {"absent", "queued"}
    BY <1>12 DEF FailBeforeStart, ActorsKnow
  <2>2. /\ \A b \in Actors \ {a} : place'[b] = place[b] /\ work'[b] = work[b]
        /\ \/ place'[a] \in Idle
           \/ place'[a] = "release" /\ work'[a] = work[a]
    BY <1>12 DEF FailBeforeStart, AfterStart, Done
  <2>3. /\ \A r \in Runs \ {work[a]} : status'[r] = status[r]
        /\ status'[work[a]] \in {"running", "failed"} /\ held' = held \ {work[a]}
    BY <1>12, <2>1 DEF FailBeforeStart
  <2>5. UNCHANGED <<watching, handling>>
    BY <1>12 DEF FailBeforeStart
  <2> HIDE DEF TakenUp
  <2> QED BY <2>1, <2>2, <2>3, <2>5, HeldIsDispatching, OthersClaims
<1>13. ASSUME NEW a \in Actors, Release(a)
      PROVE  TakenUp'
  <2>1. place'[a] \in {"unlease", "over", "recover", "due"}
    BY <1>13 DEF Release, Done
  <2> QED BY <1>13, <2>1 DEF Release
<1>14. ASSUME NEW a \in Actors, Unlease(a)
      PROVE  TakenUp'
  BY <1>14 DEF Unlease, Done
<1>15. ASSUME NEW a \in Actors, MarkRaises(a)
      PROVE  TakenUp'
  <2>0. work[a] \in Runs
    BY <1>15 DEF MarkRaises, ActorsKnow
  <2>1. CASE UNCHANGED <<status, held>>
    BY <1>15, <2>1 DEF MarkRaises
  <2>2. CASE Mark(work[a], "running")
    BY <1>15, <2>0, <2>2 DEF MarkRaises
  <2> QED BY <1>15, <2>1, <2>2 DEF MarkRaises
<1>16. ASSUME NEW a \in Actors, StoreRaises(a)
      PROVE  TakenUp'
  BY <1>16 DEF StoreRaises, Raised
<1>17. ASSUME NEW w \in Workers, Crash(w)
      PROVE  TakenUp'
  BY <1>17 DEF Crash, Host, Raised
<1>18. ASSUME NEW w \in Workers, NEW r \in Runs, ObserverRaises(w, r)
      PROVE  TakenUp'
  <2>1. status[r] \notin {"absent", "queued"}
    BY <1>18 DEF ObserverRaises
  <2>2. CASE UNCHANGED <<status, held>>
    BY <1>18, <2>1, <2>2 DEF ObserverRaises
  <2>3. ASSUME NEW outcome \in Settled, Mark(r, outcome)
        PROVE  TakenUp'
    BY <1>18, <2>1, <2>3 DEF ObserverRaises, Settled
  <2> QED BY <1>18, <2>2, <2>3 DEF ObserverRaises
<1>19. ASSUME NEW w \in Workers, NEW r \in Runs, Observe(w, r)
      PROVE  TakenUp'
  BY <1>19 DEF Observe, Settled
<1>29. ASSUME NEW w \in Workers, NEW r \in Runs, ObserverGivesUp(w, r)
      PROVE  TakenUp'
  BY <1>29 DEF ObserverGivesUp
<1>30. ASSUME NEW w \in Workers, NEW r \in Runs, ObserverFails(w, r)
      PROVE  TakenUp'
  BY <1>30 DEF ObserverFails
<1>31. ASSUME NEW w \in Workers, NEW r \in Runs, ObserverCancelled(w, r)
      PROVE  TakenUp'
  BY <1>31 DEF ObserverCancelled
<1>20. ASSUME NEW w \in Workers, NEW m \in Manuals, DispatchNow(w, m)
      PROVE  TakenUp'
  BY <1>20 DEF DispatchNow, InsertRun, ActorsKnow, Runs
<1>21. CASE EditRead
  BY <1>21 DEF EditRead
<1>22. CASE EditWrite
  BY <1>22 DEF EditWrite
<1>23. CASE EditRefused
  BY <1>23 DEF EditRefused
<1>24. CASE DeleteJob
  BY <1>24 DEF DeleteJob
<1>25. ASSUME NEW r \in Runs, RunLeaseExpires(r)
      PROVE  TakenUp'
  BY <1>25 DEF RunLeaseExpires
<1>26. CASE JobLeaseExpires
  BY <1>26 DEF JobLeaseExpires
<1>27. CASE Tick
  BY <1>27 DEF Tick
<1>28. CASE UNCHANGED tasksVars
  BY <1>28 DEF tasksVars
<1> QED
  BY <1>1, <1>2, <1>3, <1>4, <1>5, <1>6, <1>7, <1>8, <1>9, <1>10, <1>11, <1>12, <1>13, <1>14,
     <1>15, <1>16, <1>17, <1>18, <1>19, <1>20, <1>21, <1>22, <1>23, <1>24, <1>25, <1>26, <1>27,
     <1>28, <1>29, <1>30, <1>31
  DEF TasksNext, LoopStep, RunStep, ObserverStep, MishapStep, UserStep

\* Base is kept by every step, and so holds always.
THEOREM BaseInvariant == TasksSpec => []Base
<1>1. TasksInit => Base
  <2> SUFFICES ASSUME TasksInit PROVE Base
    OBVIOUS
  <2> USE DEF TasksInit
  <2>1. job \in JobRow
    <3> PICK s \in Schedules :
           job = [exists |-> TRUE, enabled |-> TRUE, schedule |-> s,
                  next |-> NextAfter(s, 0), owner |-> Nil, leased |-> FALSE]
      OBVIOUS
    <3>1. NextAfter(s, 0) \in (Nat \ {0}) \cup {Nil}
      BY NextIsLater
    <3> QED BY <3>1 DEF JobRow
  <2>2. TasksTypeOK
    BY <2>1, ClockAndMishapsAreBounded DEF TasksTypeOK, Actors, Places, RunStatus
  <2>3. \A a \in Actors : place[a] \in {"recover", "new"}
    BY DEF Actors
  <2>4. \A m \in Manuals : place[m] = "new" /\ work[m] = Nil /\ status[m] = "absent"
    BY NilIsNoTimeOrActor DEF Actors, Runs
  <2>5. ActorsKnow
    BY <2>3, <2>4 DEF ActorsKnow, Idle, InLoop
  <2>6. TakenUp
    BY <2>3 DEF TakenUp, AtRun
  <2> QED BY <2>2, <2>5, <2>6 DEF Base
<1>2. Base /\ [TasksNext]_tasksVars => Base'
  BY TypesAreKept, KnowledgeIsKept, ClaimsAreKept DEF Base
<1> QED BY <1>1, <1>2, PTL DEF TasksSpec

\* The types hold in every reachable state.
THEOREM TypeCorrect == TasksSpec => []TasksTypeOK
BY BaseInvariant, PTL DEF Base

-----------------------------------------------------------------------------
\* What a step does to the runs, the actors at work on them and their watchers:
\* it is of one of the following ten kinds.
Taking == {"job", "start"}

Others(a) == \A b \in Actors : b # a => place'[b] = place[b] /\ work'[b] = work[b]
NoNewcomer == \A a \in Actors :
    place'[a] \in AtRun => /\ place[a] \in AtRun /\ work'[a] = work[a]
                           /\ place'[a] \in Taking => place[a] \in Taking

Quiet ==
    /\ UNCHANGED <<status, held, turns, expired>>
    /\ NoNewcomer
    /\ \A w \in Workers, r \in Runs :
          /\ watching'[w][r] \in {watching[w][r], 0, watching[w][r] - 1}
          /\ handling'[w][r] \in {handling[w][r], 0, handling[w][r] - 1}

Inserting(r) ==
    /\ status[r] = "absent" /\ status' = [status EXCEPT ![r] = "queued"]
    /\ UNCHANGED <<held, turns, expired, watching, handling>>
    /\ NoNewcomer

Claiming(a, r) ==
    /\ Claimable(r)
    /\ place[a] \notin AtRun /\ place'[a] \in Taking /\ work'[a] = r
    /\ Others(a)
    /\ status' = [status EXCEPT ![r] = "dispatching"] /\ held' = held \cup {r}
    /\ UNCHANGED <<turns, expired, watching, handling>>

Preparing(a) ==
    /\ place[a] = "start" /\ place'[a] = "prepared"
    /\ Others(a)
    /\ turns' = [turns EXCEPT ![work[a]] = @ + 1]
    /\ UNCHANGED <<status, held, expired, work, watching, handling>>

\* An actor's last mark: it goes on to the schedule or leaves.
Marking(a, s) ==
    /\ place[a] \in AtRun /\ place'[a] \notin AtRun
    /\ Others(a)
    /\ Mark(work[a], s)
    /\ UNCHANGED <<turns, expired, handling>>
    /\ \/ s = "failed" /\ place[a] \in {"job", "failing"} /\ UNCHANGED watching
       \/ /\ s = "running" /\ place[a] = "prepared"
          /\ \A w \in Workers, r \in Runs :
                watching'[w][r] = IF w = Host(a) /\ r = work[a] THEN watching[w][r] + 1
                                                                ELSE watching[w][r]

HalfMarking(a) ==
    /\ place[a] = "prepared" /\ place'[a] = "failing"
    /\ Others(a)
    /\ Mark(work[a], "running")
    /\ UNCHANGED <<turns, expired, work, watching, handling>>

Observing(w, r) ==
    /\ watching[w][r] > 0
    /\ watching' = [watching EXCEPT ![w][r] = @ - 1]
    /\ \E s \in Settled : Mark(r, s)
    /\ UNCHANGED <<turns, expired, place, work, handling>>

\* An observer's first mark raised.
Raising(w, r) ==
    /\ watching[w][r] > 0
    /\ watching' = [watching EXCEPT ![w][r] = @ - 1]
    /\ handling' = [handling EXCEPT ![w][r] = @ + 1]
    /\ UNCHANGED <<status, held>> \/ \E s \in Settled : Mark(r, s)
    /\ UNCHANGED <<turns, expired, place, work>>

\* Its second overwrites what the first may have written.
Overwriting(w, r) ==
    /\ handling[w][r] > 0
    /\ handling' = [handling EXCEPT ![w][r] = @ - 1]
    /\ Mark(r, "failed")
    /\ UNCHANGED <<turns, expired, place, work, watching>>

Expiring(r) ==
    /\ r \in held
    /\ held' = held \ {r} /\ expired' = [expired EXCEPT ![r] = @ + 1]
    /\ UNCHANGED <<status, turns, place, work, watching, handling>>

OfAKind ==
    \/ Quiet
    \/ \E r \in Runs : Inserting(r) \/ Expiring(r)
    \/ \E a \in Actors : \/ Preparing(a) \/ HalfMarking(a)
                         \/ Marking(a, "running") \/ Marking(a, "failed")
                         \/ \E r \in Runs : Claiming(a, r)
    \/ \E w \in Workers, r \in Runs : Observing(w, r) \/ Raising(w, r) \/ Overwriting(w, r)

\* Every step of the scheduler is of one of these kinds.
LEMMA EveryStepIsOfAKind ==
    ASSUME Base, [TasksNext]_tasksVars
    PROVE  OfAKind
<1> USE DEF rowsVars, actorVars, observerVars, userVars, Goto, Leave
<1>0. /\ place \in [Actors -> Places] /\ work \in [Actors -> Runs \cup {Nil}]
      /\ watching \in [Workers -> [Runs -> Nat]] /\ status \in [Runs -> RunStatus]
      /\ handling \in [Workers -> [Runs -> Nat]]
      /\ turns \in [Runs -> Nat] /\ Workers \subseteq Actors /\ Manuals \subseteq Actors
  BY DEF Base, TasksTypeOK, Actors
<1>a. ASSUME NEW a \in Actors, place[a] \notin Idle
      PROVE  work[a] \in Runs
  BY <1>a DEF Base, ActorsKnow
<1>b. ASSUME NEW a \in Actors
      PROVE  Done(a) \notin AtRun /\ Raised(a) \notin AtRun
  BY <1>0 DEF Base, TasksTypeOK, Done, Raised, AtRun, Actors
<1>c. ASSUME NEW a \in Actors, AfterStart(a)
      PROVE  place'[a] \notin AtRun /\ Others(a)
  BY <1>0, <1>b, <1>c DEF AfterStart, Others, AtRun
<1>1. ASSUME NEW w \in Workers, RecoverClaim(w)
      PROVE  OfAKind
  <2>1. \E r \in Runs : Claiming(w, r)
    BY <1>0, <1>1 DEF RecoverClaim, Claiming, ClaimRun, Others, AtRun, Taking
  <2> QED BY <1>0, <2>1 DEF OfAKind
<1>2. ASSUME NEW w \in Workers, RecoverJob(w)
      PROVE  OfAKind
  <2>0. work[w] \in Runs /\ w \in Actors
    BY <1>0, <1>a, <1>2 DEF RecoverJob, Idle
  <2>1. CASE ~job.exists /\ status[work[w]] = "dispatching"
    <3>1. Marking(w, "failed")
      BY <1>0, <1>2, <2>0, <2>1 DEF RecoverJob, Marking, Others, AtRun
    <3> QED BY <2>0, <3>1 DEF OfAKind
  <2>2. CASE ~(~job.exists /\ status[work[w]] = "dispatching")
    <3>1. Quiet
      BY <1>0, <1>2, <2>0, <2>2 DEF RecoverJob, Quiet, NoNewcomer, AtRun, Taking
    <3> QED BY <3>1 DEF OfAKind
  <2> QED BY <2>1, <2>2
<1>3. ASSUME NEW w \in Workers, RecoverNone(w)
      PROVE  OfAKind
  <2>1. Quiet
    BY <1>0, <1>a, <1>b, <1>3 DEF RecoverNone, Quiet, NoNewcomer, AtRun, Taking
  <2> QED BY <2>1 DEF OfAKind
<1>4. ASSUME NEW w \in Workers, ClaimDue(w)
      PROVE  OfAKind
  <2>1. Quiet
    BY <1>0, <1>a, <1>b, <1>4 DEF ClaimDue, Quiet, NoNewcomer, AtRun, Taking
  <2> QED BY <2>1 DEF OfAKind
<1>5. ASSUME NEW w \in Workers, DueNone(w)
      PROVE  OfAKind
  <2>1. Quiet
    BY <1>0, <1>a, <1>b, <1>5 DEF DueNone, Quiet, NoNewcomer, AtRun, Taking
  <2> QED BY <2>1 DEF OfAKind
<1>6. ASSUME NEW w \in Workers, CreateRun(w)
      PROVE  OfAKind
  <2>0. work[w] \in Runs /\ w \in Actors
    BY <1>0, <1>a, <1>6 DEF CreateRun, Idle
  <2>1. CASE status[work[w]] = "absent"
    <3>1. Inserting(work[w])
      BY <1>0, <1>6, <2>0, <2>1 DEF CreateRun, Inserting, InsertRun, NoNewcomer, AtRun
    <3> QED BY <2>0, <3>1 DEF OfAKind
  <2>2. CASE status[work[w]] # "absent"
    <3>1. Quiet
      BY <1>0, <1>6, <2>0, <2>2 DEF CreateRun, Quiet, NoNewcomer, AtRun
    <3> QED BY <3>1 DEF OfAKind
  <2> QED BY <2>1, <2>2
<1>7. ASSUME NEW w \in Workers, ReadRun(w)
      PROVE  OfAKind
  <2>1. Quiet
    BY <1>0, <1>a, <1>b, <1>7 DEF ReadRun, Quiet, NoNewcomer, AtRun, Taking
  <2> QED BY <2>1 DEF OfAKind
<1>8. ASSUME NEW a \in Actors, ClaimOwn(a)
      PROVE  OfAKind
  <2>0. work[a] \in Runs
    BY <1>a, <1>8 DEF ClaimOwn, Idle
  <2>1. CASE Claimable(work[a])
    <3>1. Claiming(a, work[a])
      BY <1>0, <1>8, <2>0, <2>1 DEF ClaimOwn, Claiming, ClaimRun, Others, AtRun, Taking
    <3> QED BY <2>0, <3>1 DEF OfAKind
  <2>2. CASE ~Claimable(work[a])
    <3>1. Quiet
      BY <1>0, <1>b, <1>8, <2>2 DEF ClaimOwn, Quiet, NoNewcomer
    <3> QED BY <3>1 DEF OfAKind
  <2> QED BY <2>1, <2>2
<1>9. ASSUME NEW a \in Actors, Prepare(a)
      PROVE  OfAKind
  <2>1. Preparing(a)
    BY <1>0, <1>a, <1>9 DEF Prepare, Preparing, Others, Idle
  <2> QED BY <2>1 DEF OfAKind
<1>10. ASSUME NEW a \in Actors, Refuse(a)
      PROVE  OfAKind
  <2>1. Quiet
    BY <1>0, <1>a, <1>b, <1>10 DEF Refuse, Quiet, NoNewcomer, AtRun, Taking
  <2> QED BY <2>1 DEF OfAKind
<1>11. ASSUME NEW a \in Actors, MarkStarted(a)
      PROVE  OfAKind
  <2>0. work[a] \in Runs
    BY <1>a, <1>11 DEF MarkStarted, Idle
  <2>1. \A w \in Workers, r \in Runs :
           watching'[w][r] = IF w = Host(a) /\ r = work[a] THEN watching[w][r] + 1
                                                           ELSE watching[w][r]
    <3> DEFINE h == Host(a)
    <3>1. watching' = [watching EXCEPT ![h] = [watching[h] EXCEPT ![work[a]] = @ + 1]]
      BY <1>11 DEF MarkStarted
    <3> HIDE DEF h
    <3>2. \A w \in Workers, r \in Runs :
             watching'[w][r] = IF w = h /\ r = work[a] THEN watching[w][r] + 1
                                                       ELSE watching[w][r]
      BY <1>0, <2>0, <3>1
    <3> QED BY <3>2 DEF h
  <2>2. Marking(a, "running")
    BY <1>0, <1>c, <1>11, <2>1 DEF MarkStarted, Marking, AtRun
  <2> QED BY <2>2 DEF OfAKind
<1>12. ASSUME NEW a \in Actors, FailBeforeStart(a)
      PROVE  OfAKind
  <2>1. Marking(a, "failed")
    BY <1>0, <1>c, <1>12 DEF FailBeforeStart, Marking, AtRun
  <2> QED BY <2>1 DEF OfAKind
<1>13. ASSUME NEW a \in Actors, Release(a)
      PROVE  OfAKind
  <2>1. Quiet
    BY <1>0, <1>a, <1>b, <1>13 DEF Release, Quiet, NoNewcomer, AtRun, Taking
  <2> QED BY <2>1 DEF OfAKind
<1>14. ASSUME NEW a \in Actors, Unlease(a)
      PROVE  OfAKind
  <2>1. Quiet
    BY <1>0, <1>a, <1>b, <1>14 DEF Unlease, Quiet, NoNewcomer, AtRun, Taking
  <2> QED BY <2>1 DEF OfAKind
<1>15. ASSUME NEW a \in Actors, MarkRaises(a)
      PROVE  OfAKind
  <2>1. CASE UNCHANGED <<status, held>>
    <3>1. Quiet
      BY <1>0, <1>15, <2>1 DEF MarkRaises, Quiet, NoNewcomer, AtRun, Taking
    <3> QED BY <3>1 DEF OfAKind
  <2>2. CASE Mark(work[a], "running")
    <3>1. HalfMarking(a)
      BY <1>0, <1>15, <2>2 DEF MarkRaises, HalfMarking, Others
    <3> QED BY <3>1 DEF OfAKind
  <2> QED BY <1>15, <2>1, <2>2 DEF MarkRaises
<1>16. ASSUME NEW a \in Actors, StoreRaises(a)
      PROVE  OfAKind
  <2>1. Quiet
    BY <1>0, <1>a, <1>b, <1>16 DEF StoreRaises, Quiet, NoNewcomer, AtRun, Taking
  <2> QED BY <2>1 DEF OfAKind
<1>17. ASSUME NEW w \in Workers, Crash(w)
      PROVE  OfAKind
  <2>1. Quiet
    BY <1>0, <1>a, <1>b, <1>17 DEF Crash, Quiet, NoNewcomer, AtRun, Taking
  <2> QED BY <2>1 DEF OfAKind
<1>18. ASSUME NEW w \in Workers, NEW r \in Runs, ObserverRaises(w, r)
      PROVE  OfAKind
  <2>1. Raising(w, r)
    BY <1>18 DEF ObserverRaises, Raising
  <2> QED BY <2>1 DEF OfAKind
<1>19. ASSUME NEW w \in Workers, NEW r \in Runs, Observe(w, r)
      PROVE  OfAKind
  <2>1. Observing(w, r)
    BY <1>19 DEF Observe, Observing
  <2> QED BY <2>1 DEF OfAKind
<1>29. ASSUME NEW w \in Workers, NEW r \in Runs, ObserverGivesUp(w, r)
      PROVE  OfAKind
  <2>1. Quiet
    BY <1>0, <1>29 DEF ObserverGivesUp, Quiet, NoNewcomer, AtRun, Taking
  <2> QED BY <2>1 DEF OfAKind
<1>30. ASSUME NEW w \in Workers, NEW r \in Runs, ObserverFails(w, r)
      PROVE  OfAKind
  <2>1. Overwriting(w, r)
    BY <1>30 DEF ObserverFails, Overwriting
  <2> QED BY <2>1 DEF OfAKind
<1>31. ASSUME NEW w \in Workers, NEW r \in Runs, ObserverCancelled(w, r)
      PROVE  OfAKind
  <2>1. Quiet
    BY <1>0, <1>31 DEF ObserverCancelled, Quiet, NoNewcomer, AtRun, Taking
  <2> QED BY <2>1 DEF OfAKind
<1>20. ASSUME NEW w \in Workers, NEW m \in Manuals, DispatchNow(w, m)
      PROVE  OfAKind
  <2>1. Inserting(m) /\ m \in Runs
    BY <1>0, <1>20 DEF DispatchNow, Base, ActorsKnow, Inserting, InsertRun, NoNewcomer, AtRun,
       Runs
  <2> QED BY <2>1 DEF OfAKind
<1>21. CASE EditRead
  <2>1. Quiet
    BY <1>0, <1>a, <1>b, <1>21 DEF EditRead, Quiet, NoNewcomer, AtRun, Taking
  <2> QED BY <2>1 DEF OfAKind
<1>22. CASE EditWrite
  <2>1. Quiet
    BY <1>0, <1>a, <1>b, <1>22 DEF EditWrite, Quiet, NoNewcomer, AtRun, Taking
  <2> QED BY <2>1 DEF OfAKind
<1>23. CASE EditRefused
  <2>1. Quiet
    BY <1>0, <1>a, <1>b, <1>23 DEF EditRefused, Quiet, NoNewcomer, AtRun, Taking
  <2> QED BY <2>1 DEF OfAKind
<1>24. CASE DeleteJob
  <2>1. Quiet
    BY <1>0, <1>a, <1>b, <1>24 DEF DeleteJob, Quiet, NoNewcomer, AtRun, Taking
  <2> QED BY <2>1 DEF OfAKind
<1>25. ASSUME NEW r \in Runs, RunLeaseExpires(r)
      PROVE  OfAKind
  <2>1. Expiring(r)
    BY <1>25 DEF RunLeaseExpires, Expiring
  <2> QED BY <2>1 DEF OfAKind
<1>26. CASE JobLeaseExpires
  <2>1. Quiet
    BY <1>0, <1>a, <1>b, <1>26 DEF JobLeaseExpires, Quiet, NoNewcomer, AtRun, Taking
  <2> QED BY <2>1 DEF OfAKind
<1>27. CASE Tick
  <2>1. Quiet
    BY <1>0, <1>a, <1>b, <1>27 DEF Tick, Quiet, NoNewcomer, AtRun, Taking
  <2> QED BY <2>1 DEF OfAKind
<1>28. CASE UNCHANGED tasksVars
  <2>1. Quiet
    BY <1>0, <1>a, <1>b, <1>28 DEF tasksVars, Quiet, NoNewcomer, AtRun, Taking
  <2> QED BY <2>1 DEF OfAKind
<1> QED
  BY <1>1, <1>2, <1>3, <1>4, <1>5, <1>6, <1>7, <1>8, <1>9, <1>10, <1>11, <1>12, <1>13, <1>14,
     <1>15, <1>16, <1>17, <1>18, <1>19, <1>20, <1>21, <1>22, <1>23, <1>24, <1>25, <1>26, <1>27,
     <1>28, <1>29, <1>30, <1>31
  DEF TasksNext, LoopStep, RunStep, ObserverStep, MishapStep, UserStep

-----------------------------------------------------------------------------
\* Who may still start a turn for a run, and how many turns the run may have.
Starters(r) == {a \in Actors : place[a] \in Taking /\ work[a] = r}
Turnable(r) ==
    IF status[r] \in {"absent", "queued"} THEN 0
    ELSE IF status[r] = "dispatching" /\ r \notin held THEN expired[r] ELSE 1 + expired[r]

Handover == \A r \in Runs : turns[r] + Cardinality(Starters(r)) <= Turnable(r)

\* So the starters of a run can be counted.
LEMMA StartersAreFinite ==
    ASSUME NEW r \in Runs
    PROVE  IsFiniteSet(Starters(r)) /\ Cardinality(Starters(r)) \in Nat
<1>1. IsFiniteSet(Actors)
  BY ActorsAreFinite, FS_Union DEF Actors
<1>2. Starters(r) \subseteq Actors
  BY DEF Starters
<1> QED BY <1>1, <1>2, FS_Subset, FS_CardinalityType

\* A step that brings a run no new starter and no turn, and lowers no bound.
LEMMA NoNewStarter ==
    ASSUME Base, Base', Handover,
           \A r \in Runs : Starters(r)' \subseteq Starters(r) /\ turns'[r] = turns[r],
           \A r \in Runs : Turnable(r) <= Turnable(r)'
    PROVE  Handover'
<1> SUFFICES ASSUME NEW r \in Runs
             PROVE  turns'[r] + Cardinality(Starters(r)') <= Turnable(r)'
  BY DEF Handover
<1>1. Cardinality(Starters(r)') <= Cardinality(Starters(r)) /\ Cardinality(Starters(r)') \in Nat
  BY StartersAreFinite, FS_Subset, FS_CardinalityType
<1>2. turns[r] \in Nat /\ expired[r] \in Nat /\ expired'[r] \in Nat
  BY DEF Base, TasksTypeOK
<1>3. Turnable(r) \in Nat /\ Turnable(r)' \in Nat
  BY <1>2 DEF Turnable
<1>4. Cardinality(Starters(r)) \in Nat /\ turns[r] + Cardinality(Starters(r)) <= Turnable(r)
  BY StartersAreFinite DEF Handover
<1> QED BY <1>1, <1>2, <1>3, <1>4

\* No step lets a run have more turns than one for each of its leases.
LEMMA HandoverIsKept ==
    ASSUME Base, Base', Handover, OfAKind
    PROVE  Handover'
<1>0. /\ place \in [Actors -> Places] /\ work \in [Actors -> Runs \cup {Nil}]
      /\ status \in [Runs -> RunStatus] /\ turns \in [Runs -> Nat] /\ expired \in [Runs -> Nat]
  BY DEF Base, TasksTypeOK
<1>t. TakenUp /\ \A a \in Actors : place[a] \in AtRun => work[a] \in Runs
  BY DEF Base, ActorsKnow, Idle, AtRun
<1>n. ASSUME NoNewcomer
      PROVE  \A r \in Runs : Starters(r)' \subseteq Starters(r)
  BY <1>n DEF NoNewcomer, Starters, Taking, AtRun
<1>o. ASSUME NEW a \in Actors, Others(a), place'[a] \notin Taking
      PROVE  \A r \in Runs : Starters(r)' \subseteq Starters(r)
  BY <1>o DEF Others, Starters
<1>1. CASE Quiet
  BY <1>1, <1>0, <1>n, NoNewStarter DEF Quiet, Turnable
<1>2. ASSUME NEW r \in Runs, Inserting(r)
      PROVE  Handover'
  <2>1. \A x \in Runs : Turnable(x) <= Turnable(x)'
    BY <1>0, <1>2 DEF Inserting, Turnable
  <2> QED BY <1>2, <1>n, <2>1, NoNewStarter DEF Inserting
<1>3. ASSUME NEW r \in Runs, Expiring(r)
      PROVE  Handover'
  <2>1. status[r] = "dispatching"
    BY <1>t, <1>3 DEF Expiring, TakenUp
  <2>2. \A x \in Runs : Turnable(x) <= Turnable(x)'
    BY <1>0, <1>3, <2>1 DEF Expiring, Turnable
  <2>3. \A x \in Runs : Starters(x)' \subseteq Starters(x)
    BY <1>3 DEF Expiring, Starters
  <2> QED BY <1>3, <2>2, <2>3, NoNewStarter DEF Expiring
<1>4. ASSUME NEW a \in Actors, Preparing(a)
      PROVE  Handover'
  <2> SUFFICES ASSUME NEW r \in Runs
               PROVE  turns'[r] + Cardinality(Starters(r)') <= Turnable(r)'
    BY DEF Handover
  <2>0. /\ turns[r] \in Nat /\ Cardinality(Starters(r)) \in Nat /\ IsFiniteSet(Starters(r))
        /\ turns[r] + Cardinality(Starters(r)) <= Turnable(r) /\ Turnable(r)' = Turnable(r)
        /\ Turnable(r) \in Nat
    BY <1>0, <1>4, StartersAreFinite DEF Handover, Preparing, Turnable
  <2>1. CASE work[a] = r
    <3>1. Starters(r)' = Starters(r) \ {a} /\ a \in Starters(r)
      BY <1>4, <2>1 DEF Preparing, Others, Starters, Taking
    <3>2. Cardinality(Starters(r)') = Cardinality(Starters(r)) - 1
      BY <2>0, <3>1, FS_RemoveElement
    <3> QED BY <1>0, <1>4, <2>0, <2>1, <3>2 DEF Preparing
  <2>2. CASE work[a] # r
    <3>1. Starters(r)' = Starters(r)
      BY <1>4, <2>2 DEF Preparing, Others, Starters, Taking
    <3> QED BY <1>0, <1>4, <2>0, <2>2, <3>1 DEF Preparing
  <2> QED BY <2>1, <2>2
<1>5. ASSUME NEW a \in Actors, place[a] \in AtRun, NEW s \in RunStatus \ Pending, s # "absent",
             Mark(work[a], s), UNCHANGED <<turns, expired>>, Others(a), place'[a] \notin Taking
      PROVE  Handover'
  <2>1. status[work[a]] \notin {"absent", "queued"}
    BY <1>t, <1>5 DEF TakenUp
  <2>2. \A x \in Runs : Turnable(x) <= Turnable(x)'
    BY <1>0, <1>t, <1>5, <2>1 DEF Mark, Turnable, Pending
  <2> QED BY <1>5, <1>o, <2>2, NoNewStarter
<1>6. ASSUME NEW a \in Actors, HalfMarking(a)
      PROVE  Handover'
  BY <1>5, <1>6 DEF HalfMarking, AtRun, Taking, RunStatus, Pending
<1>7. ASSUME NEW a \in Actors, NEW s \in {"running", "failed"}, Marking(a, s)
      PROVE  Handover'
  BY <1>5, <1>7 DEF Marking, AtRun, Taking, RunStatus, Pending, Settled
<1>8. ASSUME NEW r \in Runs, status[r] \notin {"absent", "queued"},
             UNCHANGED <<status, held>> \/ \E s \in Settled : Mark(r, s),
             UNCHANGED <<turns, expired, place, work>>
      PROVE  Handover'
  <2>2. \A x \in Runs : Turnable(x) <= Turnable(x)'
    BY <1>0, <1>8 DEF Mark, Turnable, Settled
  <2>3. \A x \in Runs : Starters(x)' \subseteq Starters(x)
    BY <1>8 DEF Starters
  <2> QED BY <1>8, <2>2, <2>3, NoNewStarter
<1>10. ASSUME NEW w \in Workers, NEW r \in Runs,
              Observing(w, r) \/ Raising(w, r) \/ Overwriting(w, r)
      PROVE  Handover'
  <2>1. status[r] \notin {"absent", "queued"}
    BY <1>t, <1>10 DEF TakenUp, Observing, Raising, Overwriting
  <2> QED BY <1>8, <1>10, <2>1 DEF Observing, Raising, Overwriting, Settled
<1>9. ASSUME NEW a \in Actors, NEW q \in Runs, Claiming(a, q)
      PROVE  Handover'
  <2> SUFFICES ASSUME NEW r \in Runs
               PROVE  turns'[r] + Cardinality(Starters(r)') <= Turnable(r)'
    BY DEF Handover
  <2>0. /\ turns'[r] = turns[r] /\ turns[r] \in Nat /\ expired[r] \in Nat /\ expired' = expired
        /\ Cardinality(Starters(r)) \in Nat /\ IsFiniteSet(Starters(r))
        /\ turns[r] + Cardinality(Starters(r)) <= Turnable(r)
    BY <1>0, <1>9, StartersAreFinite DEF Handover, Claiming
  <2>1. CASE q = r
    <3>1. Starters(r)' = Starters(r) \cup {a} /\ a \notin Starters(r)
      BY <1>9, <2>1 DEF Claiming, Others, Starters, Taking, AtRun
    <3>2. Cardinality(Starters(r)') = Cardinality(Starters(r)) + 1
      BY <2>0, <3>1, FS_AddElement
    <3>3. Turnable(r)' = 1 + expired[r] /\ Turnable(r) <= expired[r]
      BY <1>0, <1>9, <2>0, <2>1 DEF Claiming, Claimable, Pending, Turnable
    <3>4. Turnable(r) \in Nat
      BY <2>0 DEF Turnable
    <3> QED BY <2>0, <3>2, <3>3, <3>4
  <2>2. CASE q # r
    <3>1. Starters(r)' = Starters(r)
      BY <1>9, <2>2 DEF Claiming, Others, Starters, Taking, AtRun
    <3>2. Turnable(r)' = Turnable(r)
      BY <1>0, <1>9, <2>2 DEF Claiming, Turnable
    <3> QED BY <2>0, <3>1, <3>2
  <2> QED BY <2>1, <2>2
<1> QED BY <1>1, <1>2, <1>3, <1>4, <1>6, <1>7, <1>9, <1>10 DEF OfAKind

\* However many dispatchers, recoveries and manual tasks take up a run, it gets
\* no second turn before its dispatch lease has expired (repository.py:193-215).
THEOREM OneTurnForEveryLease == TasksSpec => []OneTurnPerLease
<1>1. TasksInit /\ Base => Handover
  <2> SUFFICES ASSUME TasksInit, Base, NEW r \in Runs
               PROVE  turns[r] + Cardinality(Starters(r)) <= Turnable(r)
    BY DEF Handover
  <2>1. Starters(r) = {}
    BY DEF TasksInit, Starters, Taking, Actors
  <2>2. Cardinality(Starters(r)) = 0
    BY <2>1, FS_EmptySet
  <2> QED BY <2>2 DEF TasksInit, Turnable
<1>2. Base /\ Base' /\ Handover /\ [TasksNext]_tasksVars => Handover'
  BY EveryStepIsOfAKind, HandoverIsKept
<1>3. Base /\ Handover => OneTurnPerLease
  <2> SUFFICES ASSUME Base, Handover, NEW r \in Runs
               PROVE  turns[r] <= 1 + expired[r]
    BY DEF OneTurnPerLease
  <2>1. turns[r] \in Nat /\ expired[r] \in Nat /\ Cardinality(Starters(r)) \in Nat
    BY StartersAreFinite DEF Base, TasksTypeOK
  <2>2. turns[r] + Cardinality(Starters(r)) <= Turnable(r)
    BY DEF Handover
  <2>3. Turnable(r) <= 1 + expired[r] /\ Turnable(r) \in Nat
    BY <2>1 DEF Turnable
  <2> QED BY <2>1, <2>2, <2>3
<1>4. TasksSpec => []Base
  BY BaseInvariant
<1> QED BY <1>1, <1>2, <1>3, <1>4, PTL DEF TasksSpec

-----------------------------------------------------------------------------
\* Who is at a run whose lease never expired: one actor, or after it one
\* observer, or nobody; at a settled one an observer whose first mark raised.
Unattended(r) == \A w \in Workers : watching[w][r] = 0 /\ handling[w][r] = 0

SoleOf(r) ==
    /\ \A a, b \in Actors :
          place[a] \in AtRun /\ work[a] = r /\ place[b] \in AtRun /\ work[b] = r => a = b
    /\ (\E a \in Actors : place[a] \in AtRun /\ work[a] = r) => Unattended(r)
    /\ \A v, w \in Workers : Attended(v, r) /\ Attended(w, r) => v = w
    /\ \A w \in Workers : watching[w][r] + handling[w][r] <= 1
    /\ status[r] \in Settled =>
          /\ \A a \in Actors : ~(place[a] \in AtRun /\ work[a] = r)
          /\ \A w \in Workers : watching[w][r] = 0
    /\ status[r] = "dispatching" => r \in held /\ Unattended(r)

Sole == \A r \in Runs : expired[r] = 0 => SoleOf(r)

\* No step brings a second actor or observer to such a run.
LEMMA SoleIsKept ==
    ASSUME Base, Base', Sole, OfAKind
    PROVE  Sole'
<1> SUFFICES ASSUME NEW r \in Runs, expired'[r] = 0
             PROVE  SoleOf(r)'
  BY DEF Sole
<1>0. /\ status \in [Runs -> RunStatus] /\ expired \in [Runs -> Nat]
      /\ watching \in [Workers -> [Runs -> Nat]] /\ watching' \in [Workers -> [Runs -> Nat]]
      /\ handling \in [Workers -> [Runs -> Nat]] /\ handling' \in [Workers -> [Runs -> Nat]]
      /\ \A a \in Actors : place[a] \in AtRun => work[a] \in Runs
  BY DEF Base, TasksTypeOK, ActorsKnow, Idle, AtRun
<1>t. /\ \A a \in Actors : place[a] \in AtRun => status[work[a]] \notin {"absent", "queued"}
      /\ \A w \in Workers : watching[w][r] > 0 \/ handling[w][r] > 0
                                => status[r] \notin {"absent", "queued"}
  BY DEF Base, TakenUp
<1>n. /\ \A w \in Workers : watching[w][r] \in Nat /\ handling[w][r] \in Nat
      /\ \A w \in Workers : watching'[w][r] \in Nat /\ handling'[w][r] \in Nat
  BY <1>0
<1> USE DEF Unattended, Attended
<1>1. CASE Quiet
  <2>1. SoleOf(r) /\ status'[r] = status[r] /\ held' = held
    BY <1>1 DEF Quiet, Sole
  <2>2. \A a \in Actors : place'[a] \in AtRun /\ work'[a] = r => place[a] \in AtRun /\ work[a] = r
    BY <1>1 DEF Quiet, NoNewcomer
  <2>3. \A w \in Workers : /\ watching'[w][r] <= watching[w][r]
                           /\ handling'[w][r] <= handling[w][r]
    BY <1>n, <1>1 DEF Quiet
  <2>5. \A w \in Workers : /\ watching'[w][r] + handling'[w][r] <= 1
                           /\ watching[w][r] = 0 => watching'[w][r] = 0
                           /\ handling[w][r] = 0 => handling'[w][r] = 0
                           /\ Attended(w, r)' => Attended(w, r)
    BY <1>n, <2>1, <2>3 DEF SoleOf
  <2> HIDE DEF Attended
  <2> QED BY <2>1, <2>2, <2>5 DEF SoleOf
<1>2. ASSUME NEW q \in Runs, Inserting(q)
      PROVE  SoleOf(r)'
  <2>1. SoleOf(r)
    BY <1>2 DEF Inserting, Sole
  <2>2. CASE q # r
    <3>1. status'[r] = status[r]
      BY <1>0, <1>2, <2>2 DEF Inserting
    <3> QED BY <1>2, <2>1, <3>1 DEF Inserting, NoNewcomer, SoleOf
  <2>3. CASE q = r
    <3>1. status'[r] = "queued"
      BY <1>0, <1>2, <2>3 DEF Inserting
    <3> QED BY <1>2, <2>1, <3>1 DEF Inserting, NoNewcomer, SoleOf, Settled
  <2> QED BY <2>2, <2>3
<1>3. ASSUME NEW q \in Runs, Expiring(q)
      PROVE  SoleOf(r)'
  <2>1. q # r /\ expired[r] = 0
    BY <1>0, <1>3 DEF Expiring
  <2> QED BY <1>3, <2>1 DEF Expiring, Sole, SoleOf
<1>4. ASSUME NEW a \in Actors, Preparing(a)
      PROVE  SoleOf(r)'
  <2>1. SoleOf(r)
    BY <1>4 DEF Preparing, Sole
  <2>2. UNCHANGED <<status, held, watching, handling>>
    BY <1>4 DEF Preparing
  <2>3. \A b \in Actors : place'[b] \in AtRun /\ work'[b] = r <=> place[b] \in AtRun /\ work[b] = r
    BY <1>4 DEF Preparing, Others, AtRun
  <2> QED BY <2>1, <2>2, <2>3 DEF SoleOf
<1>5. ASSUME NEW a \in Actors, HalfMarking(a)
      PROVE  SoleOf(r)'
  <2>1. SoleOf(r)
    BY <1>5 DEF HalfMarking, Sole
  <2>2. CASE work[a] = r
    <3>1. status'[r] = "running"
      BY <1>0, <1>5, <2>2 DEF HalfMarking, Mark
    <3> QED BY <1>5, <2>1, <2>2, <3>1 DEF HalfMarking, Others, AtRun, SoleOf, Settled
  <2>3. CASE work[a] # r
    <3>1. status'[r] = status[r] /\ (r \in held => r \in held')
      BY <1>0, <1>5, <2>3 DEF HalfMarking, Mark
    <3> QED BY <1>5, <2>1, <2>3, <3>1 DEF HalfMarking, Others, AtRun, SoleOf
  <2> QED BY <2>2, <2>3
<1>6. ASSUME NEW a \in Actors, NEW s \in {"running", "failed"}, Marking(a, s)
      PROVE  SoleOf(r)'
  <2>1. SoleOf(r) /\ work[a] \in Runs
    BY <1>0, <1>6 DEF Marking, Sole
  <2>2. CASE work[a] = r
    <3>1. status'[r] = s
      BY <1>0, <1>6, <2>2 DEF Marking, Mark
    <3>2. \A b \in Actors : ~(place'[b] \in AtRun /\ work'[b] = r)
      BY <1>6, <2>1, <2>2 DEF Marking, Others, SoleOf
    <3>3. \A w \in Workers : watching[w][r] = 0 /\ handling[w][r] = 0 /\ handling'[w][r] = 0
      BY <1>6, <2>1, <2>2 DEF Marking, SoleOf
    <3>4. CASE s = "failed"
      BY <1>6, <3>1, <3>2, <3>3, <3>4 DEF Marking, SoleOf
    <3>5. CASE s = "running"
      <4>1. \A w \in Workers : watching'[w][r] = IF w = Host(a) THEN 1 ELSE 0
        BY <1>6, <2>2, <3>3, <3>5 DEF Marking
      <4>2. \A w \in Workers : Attended(w, r)' => w = Host(a)
        BY <3>3, <4>1
      <4>3. \A w \in Workers : watching'[w][r] + handling'[w][r] <= 1
        BY <3>3, <4>1
      <4> HIDE DEF Attended, Unattended
      <4> QED BY <3>1, <3>2, <3>5, <4>2, <4>3 DEF SoleOf, Settled
    <3> QED BY <3>4, <3>5
  <2>3. CASE work[a] # r
    <3>1. status'[r] = status[r] /\ (r \in held => r \in held')
      BY <1>0, <1>6, <2>3 DEF Marking, Mark
    <3>2. \A w \in Workers : watching'[w][r] = watching[w][r]
      BY <1>6, <2>3 DEF Marking
    <3>4. handling' = handling
      BY <1>6 DEF Marking
    <3>3. \A b \in Actors : place'[b] \in AtRun /\ work'[b] = r => place[b] \in AtRun /\ work[b] = r
      BY <1>6 DEF Marking, Others
    <3> QED BY <2>1, <3>1, <3>2, <3>3, <3>4 DEF SoleOf
  <2> QED BY <2>2, <2>3
<1>7. ASSUME NEW v \in Workers, NEW q \in Runs,
             Observing(v, q) \/ Raising(v, q) \/ Overwriting(v, q)
      PROVE  SoleOf(r)'
  <2>1. SoleOf(r)
    BY <1>7 DEF Observing, Raising, Overwriting, Sole
  <2>2. CASE q = r
    <3>1. status'[r] \in Settled \cup {status[r]} /\ (r \in held => r \in held' \/ status'[r] \in Settled)
      BY <1>0, <1>7, <2>2 DEF Observing, Raising, Overwriting, Mark, Settled
    <3>2. \A a \in Actors : ~(place'[a] \in AtRun /\ work'[a] = r)
      BY <1>7, <1>n, <2>1, <2>2 DEF Observing, Raising, Overwriting, SoleOf
    <3>3. \A w \in Workers \ {v} : watching[w][r] = 0 /\ handling[w][r] = 0
      BY <1>7, <1>n, <2>1, <2>2 DEF Observing, Raising, Overwriting, SoleOf
    <3>4. \A w \in Workers \ {v} : watching'[w][r] = 0 /\ handling'[w][r] = 0
      BY <1>0, <1>7, <2>2, <3>3 DEF Observing, Raising, Overwriting
    <3>5. watching'[v][r] = 0 /\ handling'[v][r] \in {0, 1}
      <4>1. watching[v][r] + handling[v][r] <= 1
        BY <2>1 DEF SoleOf
      <4>2. CASE watching[v][r] > 0 /\ watching' = [watching EXCEPT ![v][r] = @ - 1]
        <5>1. watching[v][r] = 1 /\ handling[v][r] = 0
          BY <1>n, <4>1, <4>2
        <5>2. watching'[v][r] = 0
          BY <1>0, <4>2, <5>1
        <5>3. handling' = handling \/ handling' = [handling EXCEPT ![v][r] = @ + 1]
          BY <1>7, <2>2, <4>2, <5>1 DEF Observing, Raising, Overwriting
        <5> QED BY <1>0, <5>1, <5>2, <5>3
      <4>3. CASE Overwriting(v, q)
        <5>1. watching[v][r] = 0 /\ handling[v][r] = 1
          BY <1>n, <2>2, <4>1, <4>3 DEF Overwriting
        <5> QED BY <1>0, <2>2, <4>3, <5>1 DEF Overwriting
      <4> QED BY <1>7, <2>2, <4>2, <4>3 DEF Observing, Raising
    <3>6. status[r] # "dispatching"
      BY <1>7, <1>n, <2>1, <2>2 DEF Observing, Raising, Overwriting, SoleOf
    <3> QED BY <3>1, <3>2, <3>4, <3>5, <3>6 DEF SoleOf, Settled
  <2>3. CASE q # r
    <3>1. status'[r] = status[r] /\ (r \in held => r \in held')
      BY <1>0, <1>7, <2>3 DEF Observing, Raising, Overwriting, Mark
    <3>2. \A w \in Workers : watching'[w][r] = watching[w][r] /\ handling'[w][r] = handling[w][r]
      BY <1>0, <1>7, <2>3 DEF Observing, Raising, Overwriting
    <3>3. UNCHANGED <<place, work>>
      BY <1>7 DEF Observing, Raising, Overwriting
    <3> QED BY <2>1, <3>1, <3>2, <3>3 DEF SoleOf
  <2> QED BY <2>2, <2>3
<1>8. ASSUME NEW a \in Actors, NEW q \in Runs, Claiming(a, q)
      PROVE  SoleOf(r)'
  <2>1. SoleOf(r)
    BY <1>8 DEF Claiming, Sole
  <2>2. CASE q = r
    <3>1. status[r] = "queued"
      BY <1>8, <2>1, <2>2 DEF Claiming, Claimable, Pending, SoleOf
    <3>2. status'[r] = "dispatching" /\ r \in held'
      BY <1>0, <1>8, <2>2 DEF Claiming
    <3>3. \A b \in Actors : ~(place[b] \in AtRun /\ work[b] = r)
      BY <1>t, <3>1
    <3>4. \A w \in Workers : watching'[w][r] = 0 /\ handling'[w][r] = 0
      BY <1>n, <1>t, <1>8, <3>1 DEF Claiming
    <3>5. \A b \in Actors : place'[b] \in AtRun /\ work'[b] = r => b = a
      BY <1>8, <3>3 DEF Claiming, Others
    <3> QED BY <3>2, <3>4, <3>5 DEF SoleOf, Settled
  <2>3. CASE q # r
    <3>1. status'[r] = status[r] /\ (r \in held => r \in held')
      BY <1>0, <1>8, <2>3 DEF Claiming
    <3>2. \A b \in Actors : place'[b] \in AtRun /\ work'[b] = r => place[b] \in AtRun /\ work[b] = r
      BY <1>8, <2>3 DEF Claiming, Others
    <3> QED BY <1>8, <2>1, <3>1, <3>2 DEF Claiming, SoleOf
  <2> QED BY <2>2, <2>3
<1> QED BY <1>1, <1>2, <1>3, <1>4, <1>5, <1>6, <1>7, <1>8 DEF OfAKind

\* What may still be written over a settled run, and by whom.
Overwritten(r) ==
    \/ status'[r] = status[r]
    \/ expired[r] > 0
    \/ status'[r] = "failed" /\ \E w \in Workers : handling[w][r] > 0

\* No step hands over a settled run; and one that was never handed over twice
\* is touched only by an observer whose first mark raised.
LEMMA NobodyIsAtASettledRun ==
    ASSUME Base, Sole, OfAKind, NEW r \in Runs, status[r] \in Settled
    PROVE  status'[r] \in {"running"} \cup Settled /\ Overwritten(r)
<1>0. status \in [Runs -> RunStatus] /\ expired[r] \in Nat
  BY DEF Base, TasksTypeOK
<1>1. expired[r] = 0 => /\ \A a \in Actors : place[a] \in AtRun => work[a] # r
                        /\ \A w \in Workers : watching[w][r] = 0
  BY DEF Sole, SoleOf
<1>e. expired[r] = 0 \/ expired[r] > 0
  BY <1>0
<1> USE DEF Overwritten
<1>4. CASE Quiet
  BY <1>4 DEF Quiet
<1>5. ASSUME NEW q \in Runs, Inserting(q) \/ Expiring(q)
      PROVE  status'[r] = status[r]
  BY <1>0, <1>5 DEF Inserting, Expiring, Settled
<1>6. ASSUME NEW a \in Actors, Preparing(a)
      PROVE  status'[r] = status[r]
  BY <1>6 DEF Preparing
<1>7. ASSUME NEW a \in Actors, HalfMarking(a) \/ Marking(a, "running") \/ Marking(a, "failed")
      PROVE  status'[r] \in {"running"} \cup Settled /\ Overwritten(r)
  <2>1. status'[r] \in {"running", "failed", status[r]}
    BY <1>0, <1>7 DEF HalfMarking, Marking, Mark
  <2>2. expired[r] = 0 => status'[r] = status[r]
    BY <1>0, <1>1, <1>7 DEF HalfMarking, Marking, Mark, AtRun
  <2> QED BY <1>e, <2>1, <2>2 DEF Settled
<1>8. ASSUME NEW a \in Actors, NEW q \in Runs, Claiming(a, q)
      PROVE  status'[r] = status[r]
  BY <1>0, <1>8 DEF Claiming, Claimable, Pending, Settled
<1>9. ASSUME NEW w \in Workers, NEW q \in Runs, Observing(w, q) \/ Raising(w, q)
      PROVE  status'[r] \in {"running"} \cup Settled /\ Overwritten(r)
  <2>1. status'[r] \in Settled
    BY <1>0, <1>9 DEF Observing, Raising, Mark
  <2>2. expired[r] = 0 => q # r
    BY <1>1, <1>9 DEF Observing, Raising
  <2>3. q # r => status'[r] = status[r]
    BY <1>0, <1>9 DEF Observing, Raising, Mark
  <2> QED BY <1>e, <2>1, <2>2, <2>3
<1>10. ASSUME NEW w \in Workers, NEW q \in Runs, Overwriting(w, q)
      PROVE  status'[r] \in {"running"} \cup Settled /\ Overwritten(r)
  BY <1>0, <1>10 DEF Overwriting, Mark, Settled
<1> QED BY <1>4, <1>5, <1>6, <1>7, <1>8, <1>9, <1>10 DEF OfAKind

\* A settled run is never handed over again, whatever leases expired; its status
\* is overwritten only after its lease had expired, or by the except branch of
\* _observe (dsh_execution.py:151-164 and repository.py:193-215).
THEOREM SettledForGood == TasksSpec => SettledRunsStay
<1>1. TasksInit /\ Base => Sole
  <2> SUFFICES ASSUME TasksInit, Base, NEW r \in Runs
               PROVE  SoleOf(r)
    BY DEF Sole
  <2>1. \A a \in Actors : place[a] \notin AtRun
    BY DEF TasksInit, AtRun, Actors
  <2>2. (\A w \in Workers : watching[w][r] = 0 /\ handling[w][r] = 0) /\ status[r] = "absent"
    BY DEF TasksInit
  <2> QED BY <2>1, <2>2 DEF SoleOf, Settled, Attended, Unattended
<1>2. Base /\ Base' /\ Sole /\ [TasksNext]_tasksVars => Sole'
  BY EveryStepIsOfAKind, SoleIsKept
<1>3. Base /\ Sole /\ [TasksNext]_tasksVars
      => [\A r \in Runs : status[r] \in Settled
             => /\ status'[r] \in {"running"} \cup Settled
                /\ \/ status'[r] = status[r]
                   \/ expired[r] > 0
                   \/ status'[r] = "failed" /\ \E w \in Workers : handling[w][r] > 0]_tasksVars
  BY EveryStepIsOfAKind, NobodyIsAtASettledRun DEF Overwritten
<1>4. TasksSpec => []Base
  BY BaseInvariant
<1>5. TasksSpec => []Sole
  BY <1>1, <1>2, <1>4, PTL DEF TasksSpec
<1> QED BY <1>3, <1>4, <1>5, PTL DEF TasksSpec, SettledRunsStay

-----------------------------------------------------------------------------
\* A manual run's task knows its process as soon as it exists.
HomeKnown == \A m \in Manuals : place[m] = "new" <=> home[m] = Nil

\* Most steps touch no observer and mark no run "running"; an actor that is about
\* to fail a run stays there or fails it.
Calm ==
    /\ UNCHANGED <<watching, handling, home>> /\ orphaned \subseteq orphaned'
    /\ \A r \in Runs : status'[r] = "running" => status[r] = "running"
    /\ \A a \in Actors, r \in Runs \ orphaned' :
          Failing(a, r) /\ status'[r] = "running" => Failing(a, r)'
    /\ \A m \in Manuals : place'[m] = "new" <=> place[m] = "new"

Watched == RunningIsWatched /\ HomeKnown

LEMMA CalmKeepsWatch ==
    ASSUME Watched, Calm
    PROVE  Watched'
<1>1. RunningIsWatched'
  <2> SUFFICES ASSUME NEW r \in Runs \ orphaned', status'[r] = "running"
               PROVE  \/ \E w \in Workers : Attended(w, r)'
                      \/ \E a \in Actors : Failing(a, r)'
    BY DEF RunningIsWatched
  <2>1. r \notin orphaned /\ status[r] = "running"
    BY DEF Calm
  <2>2. CASE \E w \in Workers : Attended(w, r)
    BY <2>2 DEF Calm, Attended
  <2>3. CASE \E a \in Actors : Failing(a, r)
    BY <2>3 DEF Calm
  <2> QED BY <2>1, <2>2, <2>3 DEF Watched, RunningIsWatched
<1>2. HomeKnown'
  BY DEF Watched, HomeKnown, Calm
<1> QED BY <1>1, <1>2 DEF Watched

\* A running run loses its observer or its dispatcher only when it is orphaned.
LEMMA WatchIsKept ==
    ASSUME Base, Watched, [TasksNext]_tasksVars
    PROVE  Watched'
<1> USE DEF rowsVars, actorVars, observerVars, userVars, Goto, Leave
<1>0. /\ place \in [Actors -> Places] /\ work \in [Actors -> Runs \cup {Nil}]
      /\ watching \in [Workers -> [Runs -> Nat]] /\ handling \in [Workers -> [Runs -> Nat]]
      /\ status \in [Runs -> RunStatus] /\ home \in [Manuals -> Workers \cup {Nil}]
      /\ orphaned \in SUBSET Runs /\ phase \in [Workers -> {"recover", "due"}]
      /\ Actors = Workers \cup Manuals /\ Workers \cap Manuals = {} /\ Manuals \subseteq Runs
      /\ Nil \notin Workers
  BY NilIsNoTimeOrActor DEF Base, TasksTypeOK, Actors, Runs
<1>a. ASSUME NEW a \in Actors, place[a] \notin Idle
      PROVE  work[a] \in Runs
  BY <1>a DEF Base, ActorsKnow
<1>1. ASSUME NEW w \in Workers, RecoverClaim(w)
      PROVE  Watched'
  <2>1. Calm
    BY <1>0, <1>1 DEF RecoverClaim, ClaimRun, Calm, Failing
  <2> QED BY <2>1, CalmKeepsWatch
<1>2. ASSUME NEW w \in Workers, RecoverJob(w)
      PROVE  Watched'
  <2>1. Calm
    BY <1>0, <1>a, <1>2 DEF RecoverJob, Calm, Failing, Mark, Idle
  <2> QED BY <2>1, CalmKeepsWatch
<1>3. ASSUME NEW w \in Workers, RecoverNone(w)
      PROVE  Watched'
  <2>1. Calm
    BY <1>0, <1>3 DEF RecoverNone, Calm, Failing
  <2> QED BY <2>1, CalmKeepsWatch
<1>4. ASSUME NEW w \in Workers, ClaimDue(w)
      PROVE  Watched'
  <2>1. Calm
    BY <1>0, <1>4 DEF ClaimDue, Calm, Failing
  <2> QED BY <2>1, CalmKeepsWatch
<1>5. ASSUME NEW w \in Workers, DueNone(w)
      PROVE  Watched'
  <2>1. Calm
    BY <1>0, <1>5 DEF DueNone, Calm, Failing
  <2> QED BY <2>1, CalmKeepsWatch
<1>6. ASSUME NEW w \in Workers, CreateRun(w)
      PROVE  Watched'
  <2>1. Calm
    BY <1>0, <1>a, <1>6 DEF CreateRun, InsertRun, Calm, Failing, Idle
  <2> QED BY <2>1, CalmKeepsWatch
<1>7. ASSUME NEW w \in Workers, ReadRun(w)
      PROVE  Watched'
  <2>1. Calm
    BY <1>0, <1>7 DEF ReadRun, Calm, Failing
  <2> QED BY <2>1, CalmKeepsWatch
<1>8. ASSUME NEW a \in Actors, ClaimOwn(a)
      PROVE  Watched'
  <2>1. Calm
    BY <1>0, <1>a, <1>8 DEF ClaimOwn, ClaimRun, Done, Calm, Failing, Idle
  <2> QED BY <2>1, CalmKeepsWatch
<1>9. ASSUME NEW a \in Actors, Prepare(a)
      PROVE  Watched'
  <2>1. Calm
    BY <1>0, <1>9 DEF Prepare, Calm, Failing
  <2> QED BY <2>1, CalmKeepsWatch
<1>10. ASSUME NEW a \in Actors, Refuse(a)
      PROVE  Watched'
  <2>1. Calm
    BY <1>0, <1>10 DEF Refuse, Calm, Failing
  <2> QED BY <2>1, CalmKeepsWatch
<1>11. ASSUME NEW a \in Actors, FailBeforeStart(a)
      PROVE  Watched'
  <2>1. Calm
    BY <1>0, <1>a, <1>11 DEF FailBeforeStart, AfterStart, Done, Calm, Failing, Mark, Idle
  <2> QED BY <2>1, CalmKeepsWatch
<1>12. ASSUME NEW a \in Actors, Release(a)
      PROVE  Watched'
  <2>1. Calm
    BY <1>0, <1>12 DEF Release, Done, Calm, Failing
  <2> QED BY <2>1, CalmKeepsWatch
<1>13. ASSUME NEW a \in Actors, Unlease(a)
      PROVE  Watched'
  <2>1. Calm
    BY <1>0, <1>13 DEF Unlease, Done, Calm, Failing
  <2> QED BY <2>1, CalmKeepsWatch
<1>14. ASSUME NEW a \in Actors, StoreRaises(a)
      PROVE  Watched'
  <2>1. Calm
    BY <1>0, <1>14 DEF StoreRaises, Raised, Calm, Failing
  <2> QED BY <2>1, CalmKeepsWatch
<1>15. CASE EditRead
  <2>1. Calm
    BY <1>15 DEF EditRead, Calm, Failing
  <2> QED BY <2>1, CalmKeepsWatch
<1>16. CASE EditWrite
  <2>1. Calm
    BY <1>16 DEF EditWrite, Calm, Failing
  <2> QED BY <2>1, CalmKeepsWatch
<1>17. CASE EditRefused
  <2>1. Calm
    BY <1>17 DEF EditRefused, Calm, Failing
  <2> QED BY <2>1, CalmKeepsWatch
<1>18. CASE DeleteJob
  <2>1. Calm
    BY <1>18 DEF DeleteJob, Calm, Failing
  <2> QED BY <2>1, CalmKeepsWatch
<1>19. CASE JobLeaseExpires
  <2>1. Calm
    BY <1>19 DEF JobLeaseExpires, Calm, Failing
  <2> QED BY <2>1, CalmKeepsWatch
<1>20. CASE Tick
  <2>1. Calm
    BY <1>20 DEF Tick, Calm, Failing
  <2> QED BY <2>1, CalmKeepsWatch
<1>21. CASE UNCHANGED tasksVars
  <2>1. Calm
    BY <1>21 DEF tasksVars, Calm, Failing
  <2> QED BY <2>1, CalmKeepsWatch
<1>22. ASSUME NEW r \in Runs, RunLeaseExpires(r)
      PROVE  Watched'
  <2>1. Calm
    BY <1>22 DEF RunLeaseExpires, Calm, Failing
  <2> QED BY <2>1, CalmKeepsWatch
<1>23. ASSUME NEW w \in Workers, NEW m \in Manuals, DispatchNow(w, m)
      PROVE  Watched'
  <2>1. HomeKnown'
    BY <1>0, <1>23 DEF DispatchNow, HomeKnown, Watched
  <2>2. /\ UNCHANGED <<watching, handling, orphaned>>
        /\ \A r \in Runs : status'[r] = "running" => status[r] = "running"
        /\ \A a \in Actors, r \in Runs : Failing(a, r) => Failing(a, r)'
    BY <1>0, <1>23 DEF DispatchNow, InsertRun, Failing
  <2> QED BY <2>1, <2>2 DEF Watched, RunningIsWatched, Attended
<1>24. ASSUME NEW a \in Actors, MarkStarted(a)
      PROVE  Watched'
  <2>1. /\ place[a] = "prepared" /\ work[a] \in Runs /\ UNCHANGED <<handling, home>>
        /\ orphaned' = orphaned \ {work[a]} /\ status' = [status EXCEPT ![work[a]] = "running"]
        /\ watching' = [watching EXCEPT ![Host(a)][work[a]] = @ + 1]
    BY <1>a, <1>24 DEF MarkStarted, Mark, Idle
  <2>2. Host(a) \in Workers
    BY <1>0, <2>1 DEF Host, Watched, HomeKnown
  <2>3. \A b \in Actors \ {a} : place'[b] = place[b] /\ work'[b] = work[b]
    BY <1>0, <1>24 DEF MarkStarted, AfterStart
  <2>4. HomeKnown'
    <3>1. a \in Manuals => place'[a] # "new"
      BY <1>0, <1>24 DEF MarkStarted, AfterStart, Done
    <3> QED BY <1>0, <2>1, <2>3, <3>1 DEF Watched, HomeKnown
  <2>5. ASSUME NEW r \in Runs \ orphaned', status'[r] = "running"
        PROVE  \/ \E w \in Workers : Attended(w, r)'
               \/ \E b \in Actors : Failing(b, r)'
    <3>1. CASE r = work[a]
      <4>1. watching'[Host(a)][r] = watching[Host(a)][r] + 1 /\ watching[Host(a)][r] \in Nat
        BY <1>0, <2>1, <2>2, <3>1
      <4>2. handling'[Host(a)][r] \in Nat
        BY <1>0, <2>1, <2>2
      <4> QED BY <2>2, <4>1, <4>2 DEF Attended
    <3>2. CASE r # work[a]
      <4>1. r \notin orphaned /\ status[r] = "running"
        BY <1>0, <2>1, <2>5, <3>2
      <4>2. \A w \in Workers : Attended(w, r) => Attended(w, r)'
        BY <1>0, <2>1, <2>2, <3>2 DEF Attended
      <4>3. \A b \in Actors : Failing(b, r) => Failing(b, r)'
        BY <2>1, <2>3 DEF Failing
      <4> QED BY <4>1, <4>2, <4>3 DEF Watched, RunningIsWatched
    <3> QED BY <3>1, <3>2
  <2> QED BY <2>4, <2>5 DEF Watched, RunningIsWatched
<1>25. ASSUME NEW a \in Actors, MarkRaises(a)
      PROVE  Watched'
  <2>1. /\ place[a] = "prepared" /\ work[a] \in Runs
        /\ place' = [place EXCEPT ![a] = "failing"]
        /\ UNCHANGED <<work, watching, handling, home, orphaned>>
        /\ \A r \in Runs \ {work[a]} : status'[r] = status[r]
    BY <1>0, <1>a, <1>25 DEF MarkRaises, Mark, Idle
  <2>2. HomeKnown'
    BY <1>0, <2>1 DEF Watched, HomeKnown
  <2>3. \A b \in Actors, r \in Runs : Failing(b, r) => Failing(b, r)'
    BY <1>0, <2>1 DEF Failing
  <2>4. Failing(a, work[a])'
    BY <1>0, <2>1 DEF Failing
  <2> QED BY <2>1, <2>2, <2>3, <2>4 DEF Watched, RunningIsWatched, Attended
<1>26. ASSUME NEW w \in Workers, NEW q \in Runs,
              Observe(w, q) \/ ObserverFails(w, q) \/ ObserverCancelled(w, q)
              \/ ObserverRaises(w, q) \/ ObserverGivesUp(w, q)
      PROVE  Watched'
  <2>1. UNCHANGED <<place, work, home>> /\ orphaned \subseteq orphaned'
    BY <1>26 DEF Observe, ObserverFails, ObserverCancelled, ObserverRaises, ObserverGivesUp
  <2>2. \A r \in Runs \ {q} : /\ status'[r] = status[r]
                             /\ \A v \in Workers : /\ watching'[v][r] = watching[v][r]
                                                  /\ handling'[v][r] = handling[v][r]
    BY <1>0, <1>26 DEF Observe, ObserverFails, ObserverCancelled, ObserverRaises, ObserverGivesUp,
                     Mark
  <2>3. status'[q] # "running" \/ q \in orphaned' \/ Attended(w, q)'
    <3>1. CASE Observe(w, q) \/ ObserverFails(w, q)
      BY <1>0, <3>1 DEF Observe, ObserverFails, Mark, Settled
    <3>2. CASE ObserverCancelled(w, q) \/ ObserverGivesUp(w, q)
      BY <3>2 DEF ObserverCancelled, ObserverGivesUp
    <3>3. CASE ObserverRaises(w, q)
      <4>1. /\ watching[w][q] > 0 /\ watching' = [watching EXCEPT ![w][q] = @ - 1]
            /\ handling' = [handling EXCEPT ![w][q] = @ + 1]
        BY <3>3 DEF ObserverRaises
      <4>2. watching'[w][q] \in Nat /\ handling'[w][q] \in Nat \ {0}
        BY <1>0, <4>1
      <4> QED BY <4>2 DEF Attended
    <3> QED BY <1>26, <3>1, <3>2, <3>3
  <2> QED BY <2>1, <2>2, <2>3 DEF Watched, RunningIsWatched, Attended, Failing, HomeKnown
<1>27. ASSUME NEW w \in Workers, Crash(w)
      PROVE  Watched'
  <2>1. HomeKnown'
    <3>1. \A m \in Manuals : place'[m] = "new" <=> place[m] = "new"
      BY <1>0, <1>27 DEF Crash, Host, Raised, Watched, HomeKnown
    <3> QED BY <1>27, <3>1 DEF Crash, Watched, HomeKnown
  <2>2. ASSUME NEW r \in Runs \ orphaned', status'[r] = "running"
        PROVE  \/ \E v \in Workers : Attended(v, r)'
               \/ \E b \in Actors : Failing(b, r)'
    <3>1. /\ r \notin orphaned /\ status[r] = "running" /\ ~Attended(w, r)
          /\ ~\E a \in Actors : Host(a) = w /\ Failing(a, r)
      BY <1>27, <2>2 DEF Crash
    <3>2. \A v \in Workers \ {w} : Attended(v, r) => Attended(v, r)'
      BY <1>0, <1>27 DEF Crash, Attended
    <3>3. \A a \in Actors : Host(a) # w /\ Failing(a, r) => Failing(a, r)'
      BY <1>27 DEF Crash, Failing
    <3> QED BY <3>1, <3>2, <3>3 DEF Watched, RunningIsWatched
  <2> QED BY <2>1, <2>2 DEF Watched, RunningIsWatched
<1> QED
  BY <1>1, <1>2, <1>3, <1>4, <1>5, <1>6, <1>7, <1>8, <1>9, <1>10, <1>11, <1>12, <1>13, <1>14,
     <1>15, <1>16, <1>17, <1>18, <1>19, <1>20, <1>21, <1>22, <1>23, <1>24, <1>25, <1>26, <1>27
  DEF TasksNext, LoopStep, RunStep, ObserverStep, MishapStep, UserStep

\* A run that is shown as running has an observer, or a dispatcher that will fail
\* it, unless its observer's process died, its runner was cancelled or the store
\* raised in both calls (dsh_execution.py:57-71, 123-164).
THEOREM RunningRunsAreWatched == TasksSpec => []RunningIsWatched
<1>1. TasksInit => Watched
  BY NilIsNoTimeOrActor DEF TasksInit, Watched, RunningIsWatched, HomeKnown, Actors
<1>2. Base /\ Watched /\ [TasksNext]_tasksVars => Watched'
  BY WatchIsKept
<1>3. TasksSpec => []Base
  BY BaseInvariant
<1>4. Watched => RunningIsWatched
  BY DEF Watched
<1> QED BY <1>1, <1>2, <1>3, <1>4, PTL DEF TasksSpec

-----------------------------------------------------------------------------
\* The steps again, by what they do to the schedule: most of them nothing.
Keeping ==
    /\ UNCHANGED <<now, born, edited>> /\ (draft' = draft \/ draft' = Nil)
    /\ job'.next = job.next /\ job'.enabled = job.enabled /\ (job'.exists => job.exists)
    /\ \A r \in Runs : status'[r] = "absent" <=> status[r] = "absent"
    /\ \A a \in Actors : place'[a] = "create" => place[a] = "create" /\ work'[a] = work[a]

Scheduling ==
    \/ Keeping
    \/ \E w \in Workers : ClaimDue(w) \/ CreateRun(w) \/ \E m \in Manuals : DispatchNow(w, m)
    \/ \E a \in Actors : Release(a)
    \/ EditRead \/ EditWrite \/ Tick

\* Every step is one of those.
LEMMA EveryStepSchedules ==
    ASSUME Base, [TasksNext]_tasksVars
    PROVE  Scheduling
<1> USE DEF rowsVars, actorVars, observerVars, userVars, Goto, Leave, Mark
<1>0. /\ place \in [Actors -> Places] /\ work \in [Actors -> Runs \cup {Nil}]
      /\ status \in [Runs -> RunStatus] /\ Workers \subseteq Actors /\ Manuals \subseteq Actors
  BY DEF Base, TasksTypeOK, Actors
<1>a. ASSUME NEW a \in Actors, place[a] \notin Idle
      PROVE  work[a] \in Runs
  BY <1>a DEF Base, ActorsKnow
<1>b. ASSUME NEW a \in Actors
      PROVE  Done(a) # "create" /\ Raised(a) # "create"
  BY <1>0 DEF Base, TasksTypeOK, Done, Raised, Actors
<1>t. \A a \in Actors : place[a] \in AtRun => status[work[a]] # "absent"
  BY DEF Base, TakenUp
<1>j. job \in JobRow
  BY DEF Base, TasksTypeOK
<1>1. ASSUME NEW w \in Workers, RecoverClaim(w)
      PROVE  Scheduling
  <2>1. Keeping
    BY <1>0, <1>1 DEF RecoverClaim, Claimable, ClaimRun, Pending, Keeping
  <2> QED BY <2>1 DEF Scheduling
<1>2. ASSUME NEW w \in Workers, RecoverJob(w)
      PROVE  Scheduling
  <2>0. work[w] \in Runs /\ status[work[w]] # "absent" /\ w \in Actors
    BY <1>0, <1>a, <1>t, <1>2 DEF RecoverJob, Idle, AtRun
  <2>1. Keeping
    BY <1>0, <2>0, <1>2 DEF RecoverJob, Keeping
  <2> QED BY <2>1 DEF Scheduling
<1>3. ASSUME NEW w \in Workers, RecoverNone(w)
      PROVE  Scheduling
  <2>1. Keeping
    BY <1>0, <1>a, <1>b, <1>j, <1>3 DEF RecoverNone, Keeping
  <2> QED BY <2>1 DEF Scheduling
<1>4. ASSUME NEW w \in Workers, ClaimDue(w)
      PROVE  Scheduling
  BY <1>0, <1>4 DEF Scheduling
<1>5. ASSUME NEW w \in Workers, DueNone(w)
      PROVE  Scheduling
  <2>1. Keeping
    BY <1>0, <1>a, <1>b, <1>j, <1>5 DEF DueNone, Keeping
  <2> QED BY <2>1 DEF Scheduling
<1>6. ASSUME NEW w \in Workers, CreateRun(w)
      PROVE  Scheduling
  BY <1>0, <1>6 DEF Scheduling
<1>7. ASSUME NEW w \in Workers, ReadRun(w)
      PROVE  Scheduling
  <2>1. Keeping
    BY <1>0, <1>a, <1>b, <1>j, <1>7 DEF ReadRun, Keeping
  <2> QED BY <2>1 DEF Scheduling
<1>8. ASSUME NEW a \in Actors, ClaimOwn(a)
      PROVE  Scheduling
  <2>1. Keeping
    BY <1>0, <1>a, <1>b, <1>8 DEF ClaimOwn, Claimable, ClaimRun, Pending, Keeping, Idle
  <2> QED BY <2>1 DEF Scheduling
<1>9. ASSUME NEW a \in Actors, Prepare(a)
      PROVE  Scheduling
  <2>1. Keeping
    BY <1>0, <1>a, <1>b, <1>j, <1>9 DEF Prepare, Keeping
  <2> QED BY <2>1 DEF Scheduling
<1>10. ASSUME NEW a \in Actors, Refuse(a)
      PROVE  Scheduling
  <2>1. Keeping
    BY <1>0, <1>a, <1>b, <1>j, <1>10 DEF Refuse, Keeping
  <2> QED BY <2>1 DEF Scheduling
<1>11. ASSUME NEW a \in Actors, MarkStarted(a)
      PROVE  Scheduling
  <2>0. work[a] \in Runs /\ status[work[a]] # "absent"
    BY <1>0, <1>a, <1>t, <1>11 DEF MarkStarted, Idle, AtRun
  <2>1. \A r \in Runs : status'[r] = "absent" <=> status[r] = "absent"
    BY <1>0, <2>0, <1>11 DEF MarkStarted
  <2>2. \A b \in Actors : place'[b] = "create" => place[b] = "create" /\ work'[b] = work[b]
    BY <1>0, <1>b, <1>11 DEF MarkStarted, AfterStart
  <2>3. Keeping
    BY <1>j, <2>1, <2>2, <1>11 DEF MarkStarted, Keeping
  <2> QED BY <2>3 DEF Scheduling
<1>12. ASSUME NEW a \in Actors, FailBeforeStart(a)
      PROVE  Scheduling
  <2>0. work[a] \in Runs /\ status[work[a]] # "absent"
    BY <1>0, <1>a, <1>t, <1>12 DEF FailBeforeStart, Idle, AtRun
  <2>1. \A r \in Runs : status'[r] = "absent" <=> status[r] = "absent"
    BY <1>0, <2>0, <1>12 DEF FailBeforeStart
  <2>2. \A b \in Actors : place'[b] = "create" => place[b] = "create" /\ work'[b] = work[b]
    BY <1>0, <1>b, <1>12 DEF FailBeforeStart, AfterStart
  <2>3. Keeping
    BY <1>j, <2>1, <2>2, <1>12 DEF FailBeforeStart, Keeping
  <2> QED BY <2>3 DEF Scheduling
<1>13. ASSUME NEW a \in Actors, Release(a)
      PROVE  Scheduling
  BY <1>0, <1>13 DEF Scheduling
<1>14. ASSUME NEW a \in Actors, Unlease(a)
      PROVE  Scheduling
  <2>1. Keeping
    BY <1>0, <1>a, <1>b, <1>j, <1>14 DEF Unlease, JobRow, Keeping
  <2> QED BY <2>1 DEF Scheduling
<1>15. ASSUME NEW a \in Actors, MarkRaises(a)
      PROVE  Scheduling
  <2>0. work[a] \in Runs /\ status[work[a]] # "absent"
    BY <1>0, <1>a, <1>t, <1>15 DEF MarkRaises, Idle, AtRun
  <2>1. \A r \in Runs : status'[r] = "absent" <=> status[r] = "absent"
    BY <1>0, <2>0, <1>15 DEF MarkRaises
  <2>2. \A b \in Actors : place'[b] = "create" => place[b] = "create" /\ work'[b] = work[b]
    BY <1>0, <1>b, <1>15 DEF MarkRaises, AfterStart
  <2>3. Keeping
    BY <1>j, <2>1, <2>2, <1>15 DEF MarkRaises, Keeping
  <2> QED BY <2>3 DEF Scheduling
<1>16. ASSUME NEW a \in Actors, StoreRaises(a)
      PROVE  Scheduling
  <2>1. Keeping
    BY <1>0, <1>a, <1>b, <1>j, <1>16 DEF StoreRaises, Keeping
  <2> QED BY <2>1 DEF Scheduling
<1>17. ASSUME NEW w \in Workers, Crash(w)
      PROVE  Scheduling
  <2>1. Keeping
    BY <1>0, <1>a, <1>b, <1>j, <1>17 DEF Crash, Keeping
  <2> QED BY <2>1 DEF Scheduling
<1>18. ASSUME NEW w \in Workers, NEW r \in Runs, ObserverRaises(w, r)
      PROVE  Scheduling
  <2>0. status[r] # "absent"
    BY <1>18 DEF ObserverRaises, Base, TakenUp
  <2>1. \A q \in Runs : status'[q] = "absent" <=> status[q] = "absent"
    BY <1>0, <2>0, <1>18 DEF ObserverRaises, Settled
  <2>2. Keeping
    BY <1>0, <2>1, <1>18 DEF ObserverRaises, Keeping
  <2> QED BY <2>2 DEF Scheduling
<1>19. ASSUME NEW w \in Workers, NEW r \in Runs, Observe(w, r)
      PROVE  Scheduling
  <2>0. status[r] # "absent"
    BY <1>19 DEF Observe, Base, TakenUp
  <2>1. Keeping
    BY <1>0, <2>0, <1>19 DEF Observe, Keeping, Settled
  <2> QED BY <2>1 DEF Scheduling
<1>29. ASSUME NEW w \in Workers, NEW r \in Runs, ObserverGivesUp(w, r)
      PROVE  Scheduling
  <2>1. Keeping
    BY <1>0, <1>j, <1>29 DEF ObserverGivesUp, Keeping
  <2> QED BY <2>1 DEF Scheduling
<1>30. ASSUME NEW w \in Workers, NEW r \in Runs, ObserverFails(w, r)
      PROVE  Scheduling
  <2>0. status[r] # "absent"
    BY <1>30 DEF ObserverFails, Base, TakenUp
  <2>1. Keeping
    BY <1>0, <2>0, <1>30 DEF ObserverFails, Keeping
  <2> QED BY <2>1 DEF Scheduling
<1>31. ASSUME NEW w \in Workers, NEW r \in Runs, ObserverCancelled(w, r)
      PROVE  Scheduling
  <2>1. Keeping
    BY <1>0, <1>j, <1>31 DEF ObserverCancelled, Keeping
  <2> QED BY <2>1 DEF Scheduling
<1>20. ASSUME NEW w \in Workers, NEW m \in Manuals, DispatchNow(w, m)
      PROVE  Scheduling
  BY <1>0, <1>20 DEF Scheduling
<1>21. CASE EditRead
  BY <1>0, <1>21 DEF Scheduling
<1>22. CASE EditWrite
  BY <1>0, <1>22 DEF Scheduling
<1>23. CASE EditRefused
  <2>1. Keeping
    BY <1>0, <1>a, <1>b, <1>j, <1>23 DEF EditRefused, Keeping
  <2> QED BY <2>1 DEF Scheduling
<1>24. CASE DeleteJob
  <2>1. Keeping
    BY <1>0, <1>a, <1>b, <1>j, <1>24 DEF DeleteJob, JobRow, Keeping
  <2> QED BY <2>1 DEF Scheduling
<1>25. ASSUME NEW r \in Runs, RunLeaseExpires(r)
      PROVE  Scheduling
  <2>1. Keeping
    BY <1>0, <1>a, <1>b, <1>j, <1>25 DEF RunLeaseExpires, Keeping
  <2> QED BY <2>1 DEF Scheduling
<1>26. CASE JobLeaseExpires
  <2>1. Keeping
    BY <1>0, <1>a, <1>b, <1>j, <1>26 DEF JobLeaseExpires, JobRow, Keeping
  <2> QED BY <2>1 DEF Scheduling
<1>27. CASE Tick
  BY <1>0, <1>27 DEF Scheduling
<1>28. CASE UNCHANGED tasksVars
  <2>1. Keeping
    BY <1>28 DEF tasksVars, Keeping
  <2> QED BY <2>1 DEF Scheduling
<1> QED
  BY <1>1, <1>2, <1>3, <1>4, <1>5, <1>6, <1>7, <1>8, <1>9, <1>10, <1>11, <1>12, <1>13, <1>14,
     <1>15, <1>16, <1>17, <1>18, <1>19, <1>20, <1>21, <1>22, <1>23, <1>24, <1>25, <1>26, <1>27,
     <1>28, <1>29, <1>30, <1>31
  DEF TasksNext, LoopStep, RunStep, ObserverStep, MishapStep, UserStep

\* A time for which there is a run, or is about to be.
Coming(r) == status[r] # "absent" \/ \E a \in Actors : place[a] = "create" /\ work[a] = r

\* Runs are created for the past, and the schedule does not go back to them.
Ordered == \A r \in Times : Coming(r) => r <= now /\ (job.next = Nil \/ job.next >= r)

\* What a release that moves the schedule does.
LEMMA ReleaseMovesOn ==
    ASSUME Base, Ordered, NEW a \in Actors, Release(a), job' # job
    PROVE  /\ job.next = work[a] /\ work[a] \in Times /\ status[work[a]] # "absent"
           /\ job'.next \in (Nat \ {0}) \cup {Nil}
           /\ job'.next # Nil => job'.next > now
           /\ job'.enabled => copy[a].enabled /\ job'.next # Nil
           /\ ~job'.enabled => ~copy[a].enabled \/ job'.next = Nil
           /\ job'.exists = job.exists
<1>1. /\ copy[a] \in Copies /\ work[a] \in Times /\ work[a] \in Runs
      /\ status[work[a]] # "absent" /\ now \in Nat /\ job \in JobRow
  BY ClockAndMishapsAreBounded DEF Release, Base, TasksTypeOK, ActorsKnow, TakenUp, Idle, InLoop, Runs
<1>2. job.next # Nil /\ job.next <= work[a]
  BY DEF Release
<1>3. job.next = work[a]
  BY <1>1, <1>2, ClockAndMishapsAreBounded DEF Ordered, Coming, JobRow, Times
<1> DEFINE next == NextAfterRelease(a)
           t == IF work[a] > now THEN work[a] ELSE now
<1>4. t \in Nat /\ t >= now
  BY <1>1, ClockAndMishapsAreBounded DEF Times
<1>5. next = NextAfter(copy[a].schedule, t) /\ copy[a].schedule \in Schedules
  BY <1>1 DEF NextAfterRelease, Copies
<1>6. next \in (Nat \ {0}) \cup {Nil} /\ (next # Nil => next > now)
  <2> HIDE DEF t, next
  <2>1. next \in (Nat \ {0}) \cup {Nil} /\ (next # Nil => next > t)
    BY <1>4, <1>5, NextIsLater
  <2> QED BY <1>1, <1>4, <2>1, NilIsNoTimeOrActor
<1>7. job' = [job EXCEPT !.next = next, !.enabled = StillEnabled(a, next),
                         !.owner = Nil, !.leased = FALSE]
  BY DEF Release
<1> HIDE DEF next
<1> QED BY <1>1, <1>3, <1>6, <1>7 DEF JobRow, StillEnabled

\* What an edit writes.
LEMMA EditWrites ==
    ASSUME Base, EditWrite, job' # job
    PROVE  /\ job'.next \in (Nat \ {0}) \cup {Nil} /\ (job'.next # Nil => job'.next >= now)
           /\ job'.exists /\ job.exists
           /\ \/ job'.enabled /\ job'.next # Nil
              \/ ~job'.enabled /\ job'.next = Nil
              \/ job'.enabled = job.enabled /\ (job'.next # Nil <=> draft.enabled)
<1> PICK sent \in SUBSET {"enabled", "schedule"}, on \in BOOLEAN, s \in Schedules :
       LET enabled == IF "enabled" \in sent THEN on ELSE draft.enabled
           schedule == IF "schedule" \in sent THEN s ELSE draft.schedule
           next == IF enabled THEN NextFromNow(schedule) ELSE Nil
       IN /\ sent # {}
          /\ enabled => next # Nil
          /\ job' = IF ~job.exists THEN job
                    ELSE [job EXCEPT
                            !.schedule = schedule, !.next = next,
                            !.enabled = IF "enabled" \in sent THEN on ELSE @]
  BY DEF EditWrite
<1> DEFINE enabled == IF "enabled" \in sent THEN on ELSE draft.enabled
           schedule == IF "schedule" \in sent THEN s ELSE draft.schedule
           next == IF enabled THEN NextFromNow(schedule) ELSE Nil
<1>1. draft \in Copies /\ now \in Nat /\ job \in JobRow
  BY ClockAndMishapsAreBounded DEF Base, TasksTypeOK, EditWrite
<1>2. schedule \in Schedules
  BY <1>1 DEF Copies
<1>3. next \in (Nat \ {0}) \cup {Nil} /\ (next # Nil => next >= now)
  <2> HIDE DEF schedule
  <2> QED BY <1>1, <1>2, NextIsNotPast
<1>4. /\ enabled <=> next # Nil
      /\ job.exists /\ job' = [job EXCEPT !.schedule = schedule, !.next = next,
                                 !.enabled = IF "enabled" \in sent THEN on ELSE @]
  OBVIOUS
<1>5. job'.next = next /\ job'.exists = job.exists
      /\ job'.enabled = IF "enabled" \in sent THEN on ELSE job.enabled
  <2> HIDE DEF next, schedule
  <2> QED BY <1>1, <1>4 DEF JobRow
<1>6. CASE "enabled" \in sent
  BY <1>3, <1>4, <1>5, <1>6
<1>7. CASE "enabled" \notin sent
  BY <1>3, <1>4, <1>5, <1>7
<1> QED BY <1>6, <1>7

\* No step takes the schedule back, or creates a run for the future.
LEMMA OrderIsKept ==
    ASSUME Base, Base', Ordered, Scheduling
    PROVE  Ordered'
<1> SUFFICES ASSUME NEW r \in Times, Coming(r)'
             PROVE  r <= now' /\ (job'.next = Nil \/ job'.next >= r)
  BY DEF Ordered
<1>0. /\ now \in Nat /\ r \in Nat /\ r \in Runs /\ job \in JobRow /\ status \in [Runs -> RunStatus]
      /\ place \in [Actors -> Places] /\ work \in [Actors -> Runs \cup {Nil}]
      /\ Workers \subseteq Actors /\ Manuals \subseteq Actors
  BY ClockAndMishapsAreBounded DEF Base, TasksTypeOK, Times, Runs, Actors
<1>o. Coming(r) => r <= now /\ (job.next = Nil \/ job.next >= r)
  BY DEF Ordered
<1>1. CASE Keeping
  BY <1>0, <1>o, <1>1 DEF Keeping, Coming
<1>2. ASSUME NEW w \in Workers, ClaimDue(w)
      PROVE  r <= now' /\ (job'.next = Nil \/ job'.next >= r)
  <2>1. job'.next = job.next /\ now' = now /\ job.next \in Nat /\ job.next <= now
    BY <1>0, <1>2 DEF ClaimDue, Due, JobRow
  <2>2. Coming(r) \/ r = job.next
    BY <1>0, <1>2 DEF ClaimDue, Coming, Goto
  <2> QED BY <1>0, <1>o, <2>1, <2>2
<1>3. ASSUME NEW w \in Workers, CreateRun(w)
      PROVE  r <= now' /\ (job'.next = Nil \/ job'.next >= r)
  <2>1. Coming(r)
    BY <1>0, <1>3 DEF CreateRun, InsertRun, Coming, Goto
  <2> QED BY <1>o, <1>3, <2>1 DEF CreateRun
<1>4. ASSUME NEW w \in Workers, NEW m \in Manuals, DispatchNow(w, m)
      PROVE  r <= now' /\ (job'.next = Nil \/ job'.next >= r)
  <2>1. m # r
    BY NilIsNoTimeOrActor, <1>0
  <2>2. Coming(r)
    BY <1>0, <1>4, <2>1 DEF DispatchNow, InsertRun, Coming, Goto
  <2> QED BY <1>o, <1>4, <2>2 DEF DispatchNow
<1>5. ASSUME NEW a \in Actors, Release(a)
      PROVE  r <= now' /\ (job'.next = Nil \/ job'.next >= r)
  <2>0. Done(a) # "create"
    BY <1>0 DEF Base, TasksTypeOK, Done, Actors
  <2>1. Coming(r) /\ now' = now
    BY <1>0, <1>5, <2>0 DEF Release, Leave, Goto, Coming
  <2>2. CASE job' = job
    BY <1>o, <2>1, <2>2
  <2>3. CASE job' # job
    BY <1>0, <1>o, <1>5, <2>1, <2>3, ReleaseMovesOn, NilIsNoTimeOrActor
  <2> QED BY <2>2, <2>3
<1>6. CASE EditRead
  BY <1>o, <1>6 DEF EditRead, Coming, rowsVars, actorVars
<1>7. CASE EditWrite
  <2>1. Coming(r) /\ now' = now
    BY <1>7 DEF EditWrite, Coming, actorVars
  <2>2. CASE job' = job
    BY <1>o, <2>1, <2>2
  <2>3. CASE job' # job
    BY <1>0, <1>o, <1>7, <2>1, <2>3, EditWrites, NilIsNoTimeOrActor
  <2> QED BY <2>2, <2>3
<1>8. CASE Tick
  BY <1>0, <1>o, <1>8 DEF Tick, Coming, rowsVars, actorVars
<1> QED BY <1>1, <1>2, <1>3, <1>4, <1>5, <1>6, <1>7, <1>8 DEF Scheduling

\* The schedule is never before a run that exists.
THEOREM ScheduleIsOrdered == TasksSpec => []Ordered
<1>1. TasksInit => Ordered
  BY DEF TasksInit, Ordered, Coming, Actors, Times, Runs
<1>2. Base /\ Base' /\ Ordered /\ [TasksNext]_tasksVars => Ordered'
  BY EveryStepSchedules, OrderIsKept
<1> QED BY <1>1, <1>2, BaseInvariant, PTL DEF TasksSpec

-----------------------------------------------------------------------------
\* When runs were created, and where the schedule stands relative to them as
\* long as nobody has edited it.
Dated ==
    /\ \A e \in edited : e <= now
    /\ \A r \in Times : status[r] # "absent" => r <= born[r] /\ born[r] <= now
    /\ edited = {} =>
          /\ \A r \in Times : status[r] # "absent" =>
                job.next = Nil \/ job.next = r \/ job.next > born[r]
          /\ \A a \in Actors : place[a] = "create" /\ status[work[a]] = "absent" =>
                job.next = work[a]

\* Without edits, a run is created for the job's due time only, at a time later
\* than every other run.
LEMMA DatesAreKept ==
    ASSUME Base, Base', Ordered, Dated, CatchesUpOnce, Scheduling
    PROVE  Dated' /\ CatchesUpOnce'
<1>0. /\ now \in Nat /\ job \in JobRow /\ status \in [Runs -> RunStatus]
      /\ born \in [Runs -> 0 .. MaxTime] /\ edited \subseteq Nat
      /\ place \in [Actors -> Places] /\ work \in [Actors -> Runs \cup {Nil}]
      /\ Workers \subseteq Actors /\ Manuals \subseteq Actors
      /\ Times \subseteq Runs /\ Times \subseteq Nat /\ Manuals \cap Times = {}
  BY NilIsNoTimeOrActor, ClockAndMishapsAreBounded DEF Base, TasksTypeOK, Times, Runs, Actors
<1>1. CASE Keeping
  <2>1. /\ UNCHANGED <<now, born, edited>> /\ job'.next = job.next
        /\ \A r \in Runs : status'[r] = "absent" <=> status[r] = "absent"
        /\ \A a \in Actors : place'[a] = "create" => place[a] = "create" /\ work'[a] = work[a]
    BY <1>1 DEF Keeping
  <2>2. \A a \in Actors : place[a] = "create" => work[a] \in Runs
    BY <1>0 DEF Base, ActorsKnow, InLoop
  <2>3. CatchesUpOnce'
    BY <1>0, <2>1 DEF CatchesUpOnce
  <2>4. /\ \A e \in edited' : e <= now'
        /\ \A r \in Times : status'[r] # "absent" => r <= born'[r] /\ born'[r] <= now'
    BY <1>0, <2>1 DEF Dated
  <2>5. edited' = {} => \A r \in Times : status'[r] # "absent" =>
           job'.next = Nil \/ job'.next = r \/ job'.next > born'[r]
    BY <1>0, <2>1 DEF Dated
  <2>6. edited' = {} => \A a \in Actors : place'[a] = "create" /\ status'[work'[a]] = "absent" =>
           job'.next = work'[a]
    BY <2>1, <2>2 DEF Dated
  <2> QED BY <2>3, <2>4, <2>5, <2>6 DEF Dated
<1>2. ASSUME NEW w \in Workers, ClaimDue(w)
      PROVE  Dated' /\ CatchesUpOnce'
  <2>1. job'.next = job.next /\ UNCHANGED <<now, status, born, edited>>
    BY <1>0, <1>2 DEF ClaimDue, userVars, JobRow
  <2>2. \A a \in Actors : place'[a] = "create" =>
           work'[a] = job.next \/ (place[a] = "create" /\ work'[a] = work[a])
    BY <1>0, <1>2 DEF ClaimDue, Goto
  <2> QED BY <2>1, <2>2 DEF Dated, CatchesUpOnce
<1>3. ASSUME NEW w \in Workers, CreateRun(w)
      PROVE  Dated' /\ CatchesUpOnce'
  <2>0. /\ UNCHANGED <<now, job, work, edited>> /\ place[w] = "create" /\ work[w] \in Times
        /\ \A a \in Actors : place'[a] = "create" => place[a] = "create" /\ a # w
    BY <1>0, <1>3 DEF CreateRun, Goto, userVars, Base, ActorsKnow, InLoop
  <2>1. CASE status[work[w]] # "absent"
    <3>1. UNCHANGED <<status, born>>
      BY <1>3, <2>1 DEF CreateRun
    <3> QED BY <2>0, <3>1 DEF Dated, CatchesUpOnce
  <2>2. CASE status[work[w]] = "absent"
    <3> DEFINE n == work[w]
    <3>1. /\ status' = [status EXCEPT ![n] = "queued"] /\ born' = [born EXCEPT ![n] = now]
      BY <1>3, <2>2 DEF CreateRun, InsertRun
    <3>2. n <= now
      <4>1. Coming(n)
        BY <1>0, <2>0 DEF Coming
      <4> QED BY <2>0, <4>1 DEF Ordered
    <3>3. ASSUME edited = {}
          PROVE  job.next = n /\ \A r \in Times : status[r] # "absent" => born[r] < now
      <4>1. job.next = n
        BY <1>0, <2>0, <2>2, <3>3 DEF Dated
      <4>2. n # Nil /\ n \in Nat
        BY <1>0, <2>0, NilIsNoTimeOrActor
      <4>3. ASSUME NEW r \in Times, status[r] # "absent"
            PROVE  born[r] < now
        <5>1. n > born[r] /\ born[r] \in Nat
          BY <1>0, <2>2, <3>3, <4>1, <4>2, <4>3 DEF Dated
        <5> HIDE DEF n
        <5> QED BY <1>0, <3>2, <4>2, <5>1
      <4> QED BY <4>1, <4>3
    <3>4. Dated'
      <4>1. \A r \in Times : status'[r] # "absent" => r <= born'[r] /\ born'[r] <= now
        BY <1>0, <2>0, <3>1, <3>2 DEF Dated
      <4>2. ASSUME edited' = {}
            PROVE  /\ \A r \in Times : status'[r] # "absent" =>
                         job'.next = Nil \/ job'.next = r \/ job'.next > born'[r]
                   /\ \A a \in Actors : place'[a] = "create" /\ status'[work'[a]] = "absent" =>
                         job'.next = work'[a]
        <5>1. edited = {}
          BY <2>0, <4>2
        <5>2. \A a \in Actors : place'[a] = "create" /\ status'[work'[a]] = "absent" =>
                 status[work[a]] = "absent"
          BY <1>0, <2>0, <3>1 DEF Base, ActorsKnow, InLoop
        <5> QED BY <1>0, <2>0, <3>1, <3>3, <5>1, <5>2 DEF Dated
      <4> QED BY <2>0, <4>1, <4>2 DEF Dated
    <3>5. CatchesUpOnce'
      <4> SUFFICES ASSUME NEW r1 \in Times, NEW r2 \in Times, r1 # r2,
                          status'[r1] # "absent", status'[r2] # "absent",
                          \A e \in edited : e > born'[r1]
                   PROVE  born'[r1] # born'[r2]
        BY <2>0 DEF CatchesUpOnce
      <4>1. CASE r1 # n /\ r2 # n
        BY <1>0, <3>1, <4>1 DEF CatchesUpOnce
      <4>2. CASE r1 = n
        <5>1. born'[r1] = now /\ born'[r2] = born[r2] /\ status[r2] # "absent"
          BY <1>0, <3>1, <4>2
        <5>2. edited = {}
          BY <1>0, <5>1 DEF Dated
        <5> QED BY <1>0, <3>3, <5>1, <5>2
      <4>3. CASE r2 = n
        <5>1. born'[r2] = now /\ born'[r1] = born[r1] /\ status[r1] # "absent"
          BY <1>0, <3>1, <4>3
        <5>2. ASSUME NEW e \in edited
              PROVE  born[r1] < now
          <6>1. e > born[r1] /\ e <= now /\ e \in Nat /\ born[r1] \in Nat
            BY <1>0, <5>1 DEF Dated
          <6> QED BY <1>0, <6>1
        <5>3. born[r1] < now
          BY <3>3, <5>1, <5>2
        <5> QED BY <1>0, <5>1, <5>3
      <4> QED BY <4>1, <4>2, <4>3
    <3> QED BY <3>4, <3>5
  <2> QED BY <2>1, <2>2
<1>4. ASSUME NEW w \in Workers, NEW m \in Manuals, DispatchNow(w, m)
      PROVE  Dated' /\ CatchesUpOnce'
  <2>1. /\ UNCHANGED <<now, job, edited>>
        /\ \A r \in Times : status'[r] = status[r] /\ born'[r] = born[r]
        /\ \A a \in Actors : place'[a] = "create" => place[a] = "create" /\ work'[a] = work[a]
    BY <1>0, <1>4 DEF DispatchNow, InsertRun, Goto, userVars
  <2>2. \A a \in Actors : place[a] = "create" => work[a] \in Times
    BY DEF Base, ActorsKnow, InLoop
  <2> QED BY <2>1, <2>2 DEF Dated, CatchesUpOnce
<1>5. ASSUME NEW a \in Actors, Release(a)
      PROVE  Dated' /\ CatchesUpOnce'
  <2>0. Done(a) # "create"
    BY <1>0 DEF Base, TasksTypeOK, Done, Actors
  <2>1. /\ UNCHANGED <<now, status, born, edited>>
        /\ \A b \in Actors : place'[b] = "create" => place[b] = "create" /\ work'[b] = work[b]
    BY <1>0, <1>5, <2>0 DEF Release, Leave, Goto, userVars
  <2>2. CASE job' = job
    BY <2>1, <2>2 DEF Dated, CatchesUpOnce
  <2>3. CASE job' # job
    <3>1. /\ job.next = work[a] /\ status[work[a]] # "absent"
          /\ job'.next \in (Nat \ {0}) \cup {Nil} /\ (job'.next # Nil => job'.next > now)
      BY <1>5, <2>3, ReleaseMovesOn
    <3>2. \A r \in Times : status[r] # "absent" =>
             job'.next = Nil \/ job'.next > born[r]
      BY <1>0, <3>1 DEF Dated
    <3>3. edited = {} => \A b \in Actors : ~(place[b] = "create" /\ status[work[b]] = "absent")
      BY <3>1 DEF Dated
    <3> QED BY <2>1, <3>2, <3>3 DEF Dated, CatchesUpOnce
  <2> QED BY <2>2, <2>3
<1>6. CASE EditRead
  BY <1>6 DEF EditRead, rowsVars, actorVars, Dated, CatchesUpOnce
<1>7. CASE EditWrite
  <2>1. edited' = edited \cup {now} /\ UNCHANGED <<now, status, born>>
    BY <1>7 DEF EditWrite
  <2> QED BY <1>0, <2>1 DEF Dated, CatchesUpOnce
<1>8. CASE Tick
  BY <1>0, <1>8 DEF Tick, rowsVars, actorVars, observerVars, userVars, Dated, CatchesUpOnce
<1> QED BY <1>1, <1>2, <1>3, <1>4, <1>5, <1>6, <1>7, <1>8 DEF Scheduling

\* As long as nobody edits the job, no two of its runs are created at the same
\* time: of the times that were missed one is caught up (repository.py:235-262).
THEOREM OneMissedTimeIsCaughtUp == TasksSpec => []CatchesUpOnce
<1>1. TasksInit => Dated /\ CatchesUpOnce
  BY NilIsNoTimeOrActor DEF TasksInit, Dated, CatchesUpOnce, Actors, Times, Runs
<1>2. Base /\ Base' /\ Ordered /\ Dated /\ CatchesUpOnce /\ [TasksNext]_tasksVars
      => Dated' /\ CatchesUpOnce'
  BY EveryStepSchedules, DatesAreKept
<1> QED BY <1>1, <1>2, BaseInvariant, ScheduleIsOrdered, PTL DEF TasksSpec

-----------------------------------------------------------------------------
\* An enabled job has a due time; a job that is off keeps one that is taken only
\* from an edit made in that very unit of time, and so does an edit that read
\* "off" while the job is on.
Switched ==
    /\ EnabledIsScheduled
    /\ job.exists /\ ~job.enabled /\ job.next # Nil /\ job.next \in Times /\ Coming(job.next)
          => job.next \in edited
    /\ draft # Nil /\ job.exists /\ ~draft.enabled /\ job.enabled => EditedWhenDue

\* No release or edit, however stale, leaves an enabled job without a due time.
LEMMA SwitchIsKept ==
    ASSUME Base, Base', Ordered, Switched, Scheduling
    PROVE  Switched'
<1>0. /\ now \in Nat /\ job \in JobRow /\ status \in [Runs -> RunStatus]
      /\ draft \in Copies \cup {Nil} /\ edited \subseteq Nat
      /\ place \in [Actors -> Places] /\ work \in [Actors -> Runs \cup {Nil}]
      /\ Workers \subseteq Actors /\ Manuals \subseteq Actors
      /\ Times \subseteq Runs /\ Times \subseteq Nat /\ Manuals \cap Times = {}
  BY NilIsNoTimeOrActor, ClockAndMishapsAreBounded DEF Base, TasksTypeOK, Times, Runs, Actors
<1>s. ASSUME edited \subseteq edited', \A r \in Times : status[r] # "absent" => status'[r] # "absent"
      PROVE  EditedWhenDue => EditedWhenDue'
  BY <1>s DEF EditedWhenDue
<1>k. ASSUME edited' = edited, \A r \in Times : status[r] # "absent" => status'[r] # "absent",
             job'.next = job.next, job'.enabled = job.enabled, job'.exists => job.exists,
             \A r \in Times : Coming(r)' => Coming(r) \/ (r = job.next /\ job.enabled),
             draft' = draft \/ draft' = Nil
      PROVE  Switched'
  BY <1>s, <1>k DEF Switched, EnabledIsScheduled
<1>1. CASE Keeping
  <2>1. \A r \in Times : Coming(r)' => Coming(r)
    BY <1>0, <1>1 DEF Keeping, Coming
  <2> QED BY <1>0, <1>1, <1>k, <2>1 DEF Keeping
<1>2. ASSUME NEW w \in Workers, ClaimDue(w)
      PROVE  Switched'
  <2>1. \A r \in Times : Coming(r)' => Coming(r) \/ (r = job.next /\ job.enabled)
    BY <1>0, <1>2 DEF ClaimDue, Due, Goto, Coming
  <2>2. job'.next = job.next /\ job'.enabled = job.enabled /\ job'.exists = job.exists
    BY <1>0, <1>2 DEF ClaimDue, JobRow
  <2> QED BY <1>2, <1>k, <2>1, <2>2 DEF ClaimDue, userVars
<1>3. ASSUME NEW w \in Workers, CreateRun(w)
      PROVE  Switched'
  <2>1. \A r \in Times : Coming(r)' => Coming(r)
    BY <1>0, <1>3 DEF CreateRun, InsertRun, Goto, Coming
  <2>2. \A r \in Times : status[r] # "absent" => status'[r] # "absent"
    BY <1>0, <1>3 DEF CreateRun, InsertRun
  <2> QED BY <1>3, <1>k, <2>1, <2>2 DEF CreateRun, userVars
<1>4. ASSUME NEW w \in Workers, NEW m \in Manuals, DispatchNow(w, m)
      PROVE  Switched'
  <2>1. \A r \in Times : Coming(r)' => Coming(r)
    BY <1>0, <1>4 DEF DispatchNow, InsertRun, Goto, Coming
  <2>2. \A r \in Times : status[r] # "absent" => status'[r] # "absent"
    BY <1>0, <1>4 DEF DispatchNow, InsertRun
  <2> QED BY <1>4, <1>k, <2>1, <2>2 DEF DispatchNow, userVars
<1>5. ASSUME NEW a \in Actors, Release(a)
      PROVE  Switched'
  <2>0. Done(a) # "create"
    BY <1>0 DEF Base, TasksTypeOK, Done, Actors
  <2>1. UNCHANGED <<now, status, edited, draft>> /\ \A r \in Times : Coming(r)' => Coming(r)
    BY <1>0, <1>5, <2>0 DEF Release, Leave, Goto, Coming, userVars
  <2>2. CASE job' = job
    BY <1>k, <2>1, <2>2
  <2>3. CASE job' # job
    <3>1. /\ job.next = work[a] /\ work[a] \in Times /\ status[work[a]] # "absent"
          /\ job'.next # Nil => job'.next > now
          /\ job'.next \in (Nat \ {0}) \cup {Nil}
          /\ job'.enabled => job'.next # Nil
          /\ job'.exists = job.exists
      BY <1>5, <2>3, ReleaseMovesOn
    <3>2. job'.next \in Times => ~Coming(job.next)'
      <4> SUFFICES ASSUME NEW r \in Times, r = job'.next, Coming(r)'
                   PROVE  FALSE
        BY DEF Coming
      <4>1. r <= now
        BY <2>1 DEF Ordered
      <4>2. r > now
        BY <1>0, <3>1, NilIsNoTimeOrActor
      <4> QED BY <1>0, <4>1, <4>2
    <3>3. ASSUME draft # Nil, job.exists, ~draft.enabled
          PROVE  EditedWhenDue
      <4>1. CASE job.enabled
        BY <3>3, <4>1 DEF Switched
      <4>2. CASE ~job.enabled
        <5>1. job.next # Nil /\ job.next \in Times /\ Coming(job.next)
          BY <3>1, NilIsNoTimeOrActor, <1>0 DEF Coming
        <5>2. job.next \in edited
          BY <3>3, <4>2, <5>1 DEF Switched
        <5> QED BY <3>1, <5>1, <5>2 DEF EditedWhenDue
      <4> QED BY <4>1, <4>2
    <3>4. EditedWhenDue => EditedWhenDue'
      BY <1>s, <2>1
    <3>5. EnabledIsScheduled'
      BY <3>1 DEF EnabledIsScheduled
    <3>6. draft' # Nil /\ job'.exists /\ ~draft'.enabled => EditedWhenDue'
      BY <2>1, <3>1, <3>3, <3>4
    <3> QED BY <3>2, <3>5, <3>6 DEF Switched
  <2> QED BY <2>2, <2>3
<1>6. CASE EditRead
  <2>1. draft'.enabled = job.enabled /\ UNCHANGED <<job, status, edited, place, work>>
    BY <1>6 DEF EditRead, Known, rowsVars, actorVars
  <2>2. EditedWhenDue' <=> EditedWhenDue
    BY <2>1 DEF EditedWhenDue
  <2> QED BY <2>1, <2>2 DEF Switched, EnabledIsScheduled, Coming
<1>7. CASE EditWrite
  <2>1. /\ edited' = edited \cup {now} /\ draft # Nil /\ draft' = Nil
        /\ UNCHANGED <<now, status, place, work>>
    BY <1>7 DEF EditWrite, actorVars
  <2>2. EditedWhenDue => EditedWhenDue'
    BY <1>s, <2>1
  <2>3. \A r \in Times : Coming(r)' <=> Coming(r)
    BY <2>1 DEF Coming
  <2>4. CASE job' = job
    BY <2>1, <2>2, <2>3, <2>4 DEF Switched, EnabledIsScheduled
  <2>5. CASE job' # job
    <3>1. /\ job'.next \in (Nat \ {0}) \cup {Nil} /\ (job'.next # Nil => job'.next >= now)
          /\ job'.exists /\ job.exists
          /\ \/ job'.enabled /\ job'.next # Nil
             \/ ~job'.enabled /\ job'.next = Nil
             \/ job'.enabled = job.enabled /\ (job'.next # Nil <=> draft.enabled)
      BY <1>7, <2>5, EditWrites
    <3>2. job'.enabled /\ job'.next = Nil => EditedWhenDue
      BY <2>1, <3>1 DEF Switched
    <3>3. job'.next # Nil /\ job'.next \in Times /\ Coming(job.next)' => job'.next = now
      <4> SUFFICES ASSUME NEW r \in Times, r = job'.next, Coming(r)', r # Nil
                   PROVE  r = now
        BY DEF Coming
      <4>1. r <= now
        BY <2>3 DEF Ordered
      <4>2. r >= now
        BY <3>1
      <4> QED BY <1>0, <4>1, <4>2
    <3>4. EnabledIsScheduled'
      BY <2>2, <3>2 DEF EnabledIsScheduled
    <3>5. job'.next # Nil /\ job'.next \in Times /\ Coming(job.next)' => job'.next \in edited'
      BY <2>1, <3>3
    <3> QED BY <2>1, <3>4, <3>5 DEF Switched
  <2> QED BY <2>4, <2>5
<1>8. CASE Tick
  <2>1. \A r \in Times : Coming(r)' => Coming(r)
    BY <1>8 DEF Tick, Coming, rowsVars, actorVars
  <2> QED BY <1>8, <1>k, <2>1 DEF Tick, rowsVars, userVars
<1> QED BY <1>1, <1>2, <1>3, <1>4, <1>5, <1>6, <1>7, <1>8 DEF Scheduling

\* An enabled job has a due time, whatever releases and edits computed from
\* stale rows are written over each other, unless an edit was written in the
\* very unit of time for which there is a run (repository.py:84-122, 228-296).
THEOREM EnabledJobsAreScheduled == TasksSpec => []EnabledIsScheduled
<1>1. TasksInit => Switched
  <2> SUFFICES ASSUME TasksInit PROVE Switched
    OBVIOUS
  <2> PICK s \in Schedules :
         job = [exists |-> TRUE, enabled |-> TRUE, schedule |-> s,
                next |-> NextAfter(s, 0), owner |-> Nil, leased |-> FALSE]
    BY DEF TasksInit
  <2>1. NextAfter(s, 0) # Nil
    <3>1. s \in SUBSET (Nat \ {0}) /\ s # {}
      BY SchedulesAreTimes
    <3> DEFINE later == {x \in s : x > 0}
    <3>2. later # {} /\ later \in SUBSET Nat
      <4>1. PICK x \in s : TRUE
        BY <3>1
      <4>2. x \in Nat /\ x > 0
        BY <3>1
      <4> QED BY <3>1, <4>2
    <3>3. Min(later) \in Nat
      BY <3>2, MinOfTimes
    <3> QED BY <3>2, <3>3, NilIsNoTimeOrActor DEF NextAfter
  <2> QED BY <2>1 DEF TasksInit, Switched, EnabledIsScheduled
<1>2. Base /\ Base' /\ Ordered /\ Switched /\ [TasksNext]_tasksVars => Switched'
  BY EveryStepSchedules, SwitchIsKept
<1>3. Switched => EnabledIsScheduled
  BY DEF Switched
<1> QED BY <1>1, <1>2, <1>3, BaseInvariant, ScheduleIsOrdered, PTL DEF TasksSpec

-----------------------------------------------------------------------------
\* How an actor comes to have prepared a turn, and to release its job.
Arrivals ==
    /\ \A a \in Actors : place'[a] = "prepared" =>
          work'[a] = work[a] /\ (place[a] = "prepared" \/ Preparing(a))
    /\ \A a \in Actors : place'[a] = "release" =>
          /\ work'[a] = work[a]
          /\ \/ place[a] = "release"
             \/ place[a] = "existing" /\ status[work[a]] \notin Pending
             \/ Mark(work[a], "failed")
             \/ Mark(work[a], "running") /\ place[a] = "prepared"
    /\ \A r \in Runs : status'[r] = "running" /\ status[r] # "running" =>
          \E a \in Actors : place[a] = "prepared" /\ work[a] = r
    /\ job'.next # job.next =>
          \/ \E a \in Actors : Release(a)
          \/ EditWrite

\* They come there in no other way.
LEMMA EveryArrival ==
    ASSUME Base, [TasksNext]_tasksVars
    PROVE  Arrivals
<1> USE DEF rowsVars, actorVars, observerVars, userVars, Goto, Leave
<1>0. /\ place \in [Actors -> Places] /\ work \in [Actors -> Runs \cup {Nil}]
      /\ status \in [Runs -> RunStatus] /\ Workers \subseteq Actors /\ Manuals \subseteq Actors
  BY DEF Base, TasksTypeOK, Actors
<1>a. ASSUME NEW a \in Actors, place[a] \notin Idle
      PROVE  work[a] \in Runs
  BY <1>a DEF Base, ActorsKnow
<1>b. ASSUME NEW a \in Actors
      PROVE  Done(a) \notin {"prepared", "release"} /\ Raised(a) \notin {"prepared", "release"}
  BY <1>0 DEF Base, TasksTypeOK, Done, Raised, Actors
<1>j. job \in JobRow
  BY DEF Base, TasksTypeOK
<1>1. ASSUME NEW w \in Workers, RecoverClaim(w)
      PROVE  Arrivals
  BY <1>0, <1>1 DEF RecoverClaim, ClaimRun, Arrivals
<1>2. ASSUME NEW w \in Workers, RecoverJob(w)
      PROVE  Arrivals
  BY <1>0, <1>a, <1>b, <1>j, <1>2 DEF RecoverJob, Arrivals, Mark
<1>3. ASSUME NEW w \in Workers, RecoverNone(w)
      PROVE  Arrivals
  BY <1>0, <1>a, <1>b, <1>j, <1>3 DEF RecoverNone, Arrivals, Mark
<1>4. ASSUME NEW w \in Workers, ClaimDue(w)
      PROVE  Arrivals
  BY <1>0, <1>b, <1>j, <1>4 DEF ClaimDue, JobRow, Arrivals
<1>5. ASSUME NEW w \in Workers, DueNone(w)
      PROVE  Arrivals
  BY <1>0, <1>a, <1>b, <1>j, <1>5 DEF DueNone, Arrivals, Mark
<1>6. ASSUME NEW w \in Workers, CreateRun(w)
      PROVE  Arrivals
  BY <1>0, <1>6 DEF CreateRun, InsertRun, Arrivals
<1>7. ASSUME NEW w \in Workers, ReadRun(w)
      PROVE  Arrivals
  BY <1>0, <1>7 DEF ReadRun, Arrivals
<1>8. ASSUME NEW a \in Actors, ClaimOwn(a)
      PROVE  Arrivals
  BY <1>0, <1>a, <1>b, <1>8 DEF ClaimOwn, ClaimRun, Arrivals
<1>9. ASSUME NEW a \in Actors, Prepare(a)
      PROVE  Arrivals
  <2>1. Preparing(a)
    BY <1>0, <1>a, <1>9 DEF Prepare, Preparing, Others, Idle
  <2> QED BY <1>0, <1>j, <2>1, <1>9 DEF Prepare, Arrivals
<1>10. ASSUME NEW a \in Actors, Refuse(a)
      PROVE  Arrivals
  BY <1>0, <1>a, <1>b, <1>j, <1>10 DEF Refuse, Arrivals, Mark
<1>11. ASSUME NEW a \in Actors, MarkStarted(a)
      PROVE  Arrivals
  <2>0. work[a] \in Runs
    BY <1>a, <1>11 DEF MarkStarted, Idle
  <2> QED BY <1>0, <1>b, <1>j, <2>0, <1>11 DEF MarkStarted, AfterStart, Arrivals, Mark
<1>12. ASSUME NEW a \in Actors, FailBeforeStart(a)
      PROVE  Arrivals
  <2>0. work[a] \in Runs
    BY <1>a, <1>12 DEF FailBeforeStart, Idle
  <2> QED BY <1>0, <1>b, <1>j, <2>0, <1>12 DEF FailBeforeStart, AfterStart, Arrivals, Mark
<1>13. ASSUME NEW a \in Actors, Release(a)
      PROVE  Arrivals
  BY <1>0, <1>a, <1>b, <1>j, <1>13 DEF Release, Arrivals, Mark
<1>14. ASSUME NEW a \in Actors, Unlease(a)
      PROVE  Arrivals
  BY <1>0, <1>b, <1>j, <1>14 DEF Unlease, JobRow, Arrivals
<1>15. ASSUME NEW a \in Actors, MarkRaises(a)
      PROVE  Arrivals
  BY <1>0, <1>a, <1>b, <1>j, <1>15 DEF MarkRaises, Arrivals, Mark
<1>16. ASSUME NEW a \in Actors, StoreRaises(a)
      PROVE  Arrivals
  BY <1>0, <1>a, <1>b, <1>j, <1>16 DEF StoreRaises, Arrivals, Mark
<1>17. ASSUME NEW w \in Workers, Crash(w)
      PROVE  Arrivals
  BY <1>0, <1>a, <1>b, <1>j, <1>17 DEF Crash, Arrivals, Mark
<1>18. ASSUME NEW w \in Workers, NEW r \in Runs, ObserverRaises(w, r)
      PROVE  Arrivals
  BY <1>0, <1>18 DEF ObserverRaises, Arrivals, Mark, Settled
<1>19. ASSUME NEW w \in Workers, NEW r \in Runs, Observe(w, r)
      PROVE  Arrivals
  BY <1>0, <1>19 DEF Observe, Arrivals, Mark, Settled
<1>29. ASSUME NEW w \in Workers, NEW r \in Runs, ObserverGivesUp(w, r)
      PROVE  Arrivals
  BY <1>0, <1>29 DEF ObserverGivesUp, Arrivals
<1>30. ASSUME NEW w \in Workers, NEW r \in Runs, ObserverFails(w, r)
      PROVE  Arrivals
  BY <1>0, <1>30 DEF ObserverFails, Arrivals, Mark
<1>31. ASSUME NEW w \in Workers, NEW r \in Runs, ObserverCancelled(w, r)
      PROVE  Arrivals
  BY <1>0, <1>31 DEF ObserverCancelled, Arrivals
<1>20. ASSUME NEW w \in Workers, NEW m \in Manuals, DispatchNow(w, m)
      PROVE  Arrivals
  BY <1>0, <1>20 DEF DispatchNow, InsertRun, Arrivals
<1>21. CASE EditRead
  BY <1>0, <1>a, <1>b, <1>j, <1>21 DEF EditRead, Arrivals, Mark
<1>22. CASE EditWrite
  BY <1>0, <1>a, <1>b, <1>j, <1>22 DEF EditWrite, Arrivals, Mark
<1>23. CASE EditRefused
  BY <1>0, <1>a, <1>b, <1>j, <1>23 DEF EditRefused, Arrivals, Mark
<1>24. CASE DeleteJob
  BY <1>0, <1>b, <1>j, <1>24 DEF DeleteJob, JobRow, Arrivals
<1>25. ASSUME NEW r \in Runs, RunLeaseExpires(r)
      PROVE  Arrivals
  BY <1>0, <1>a, <1>b, <1>j, <1>25 DEF RunLeaseExpires, Arrivals, Mark
<1>26. CASE JobLeaseExpires
  BY <1>0, <1>b, <1>j, <1>26 DEF JobLeaseExpires, JobRow, Arrivals
<1>27. CASE Tick
  BY <1>0, <1>a, <1>b, <1>j, <1>27 DEF Tick, Arrivals, Mark
<1>28. CASE UNCHANGED tasksVars
  BY <1>28 DEF tasksVars, Arrivals
<1> QED
  BY <1>1, <1>2, <1>3, <1>4, <1>5, <1>6, <1>7, <1>8, <1>9, <1>10, <1>11, <1>12, <1>13, <1>14,
     <1>15, <1>16, <1>17, <1>18, <1>19, <1>20, <1>21, <1>22, <1>23, <1>24, <1>25, <1>26, <1>27,
     <1>28, <1>29, <1>30, <1>31
  DEF TasksNext, LoopStep, RunStep, ObserverStep, MishapStep, UserStep

\* Whose run was started, or settled without that.
Served(r) == turns[r] > 0 \/ status[r] \in Settled

Started ==
    /\ \A r \in Runs : status[r] = "running" => turns[r] > 0
    /\ \A a \in Actors : place[a] = "prepared" => turns[work[a]] > 0
    /\ \A a \in Actors : place[a] = "release" => Served(work[a])

\* Whoever releases the job comes from a run that has its turn or is settled.
LEMMA StartsAreKept ==
    ASSUME Base, Base', Started, OfAKind, Arrivals
    PROVE  Started'
<1>0. /\ status \in [Runs -> RunStatus] /\ turns \in [Runs -> Nat]
      /\ \A a \in Actors : place[a] \in {"start", "prepared", "release", "existing"} =>
            work[a] \in Runs
      /\ \A a \in Actors : place[a] = "existing" => status[work[a]] # "absent"
  BY DEF Base, TasksTypeOK, ActorsKnow, TakenUp, Idle
<1>1. \A r \in Runs : turns[r] > 0 => turns'[r] > 0
  BY <1>0 DEF OfAKind, Quiet, Inserting, Expiring, Preparing, HalfMarking, Marking, Claiming,
     Observing, Raising, Overwriting
<1>2. ASSUME NEW r \in Runs, status[r] \in Settled
      PROVE  status'[r] \in Settled \cup {"running"}
  BY <1>0, <1>2 DEF OfAKind, Quiet, Inserting, Expiring, Preparing, HalfMarking, Marking,
     Claiming,
     Observing, Raising, Overwriting, Mark, Claimable, Pending, Settled
<1>3. ASSUME NEW r \in Runs, status'[r] = "running"
      PROVE  turns'[r] > 0
  <2>1. CASE status[r] = "running"
    BY <1>1, <2>1 DEF Started
  <2>2. CASE status[r] # "running"
    <3>1. PICK a \in Actors : place[a] = "prepared" /\ work[a] = r
      BY <1>3, <2>2 DEF Arrivals
    <3> QED BY <1>1, <3>1 DEF Started
  <2> QED BY <2>1, <2>2
<1>4. ASSUME NEW a \in Actors, place'[a] = "prepared"
      PROVE  turns'[work'[a]] > 0
  <2>1. work'[a] = work[a]
    BY <1>4 DEF Arrivals
  <2>2. CASE place[a] = "prepared"
    BY <1>0, <1>1, <2>1, <2>2 DEF Started
  <2>3. CASE Preparing(a)
    BY <1>0, <2>1, <2>3 DEF Preparing
  <2> QED BY <1>4, <2>2, <2>3 DEF Arrivals
<1>5. ASSUME NEW r \in Runs, Served(r)
      PROVE  Served(r)'
  BY <1>1, <1>2, <1>3, <1>5 DEF Served
<1>6. ASSUME NEW a \in Actors, place'[a] = "release"
      PROVE  Served(work[a])' /\ work'[a] = work[a]
  <2>0. work'[a] = work[a]
    BY <1>6 DEF Arrivals
  <2>1. CASE place[a] = "release"
    <3>1. Served(work[a]) /\ work[a] \in Runs
      BY <1>0, <2>1 DEF Started
    <3> QED BY <1>5, <2>0, <3>1 DEF Served
  <2>2. CASE place[a] = "existing" /\ status[work[a]] \notin Pending
    <3>1. work[a] \in Runs /\ status[work[a]] \in {"running"} \cup Settled
      BY <1>0, <2>2 DEF RunStatus
    <3>2. Served(work[a])
      BY <3>1 DEF Served, Started
    <3> QED BY <1>5, <2>0, <3>1, <3>2 DEF Served
  <2>3. ASSUME Mark(work[a], "failed"), work[a] \in Runs
        PROVE  Served(work[a])'
    BY <1>0, <2>0, <2>3 DEF Mark, Served, Settled
  <2>4. CASE Mark(work[a], "running") /\ place[a] = "prepared"
    BY <1>0, <1>1, <2>0, <2>4 DEF Served, Started
  <2>5. work[a] \in Runs
    BY <1>6, <2>0 DEF Base, ActorsKnow, Idle
  <2> QED BY <1>6, <2>0, <2>1, <2>2, <2>3, <2>4, <2>5 DEF Arrivals
<1> QED BY <1>3, <1>4, <1>6 DEF Started, Served

\* The schedule leaves a due time behind only when the run for it got a turn or
\* is settled, or by an edit (scheduler.py:99-150, repository.py:228-296).
THEOREM NoDueTimeIsSkipped == TasksSpec => AdvancesAfterStart
<1>1. TasksInit => Started
  BY DEF TasksInit, Started, Actors
<1>2. Base /\ Base' /\ Started /\ [TasksNext]_tasksVars => Started'
  BY EveryStepIsOfAKind, EveryArrival, StartsAreKept
<1>3. TasksSpec => []Started
  BY <1>1, <1>2, BaseInvariant, PTL DEF TasksSpec
<1>4. Base /\ Ordered /\ Started /\ [TasksNext]_tasksVars
      => [job'.next # job.next /\ draft' = draft
             => \/ turns[job.next] > 0
                \/ status[job.next] \in Settled]_tasksVars
  <2> SUFFICES ASSUME Base, Ordered, Started, [TasksNext]_tasksVars,
                      job'.next # job.next, draft' = draft
               PROVE  turns[job.next] > 0 \/ status[job.next] \in Settled
    OBVIOUS
  <2>1. CASE EditWrite
    BY <2>1 DEF EditWrite
  <2>2. ASSUME NEW a \in Actors, Release(a)
        PROVE  turns[job.next] > 0 \/ status[job.next] \in Settled
    <3>1. job.next = work[a]
      BY <2>2, ReleaseMovesOn
    <3>2. Served(work[a])
      BY <2>2 DEF Started, Release
    <3> QED BY <3>1, <3>2 DEF Served
  <2> QED BY <2>1, <2>2, EveryArrival DEF Arrivals
<1> QED BY <1>3, <1>4, BaseInvariant, ScheduleIsOrdered, PTL DEF TasksSpec, AdvancesAfterStart

=============================================================================
