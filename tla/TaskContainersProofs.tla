------------------------ MODULE TaskContainersProofs ------------------------
(* Proofs about TaskContainers, for any tasks, containers and calls, any    *)
(* limits and any of the faults.                                            *)
EXTENDS TaskContainers, FiniteSetTheorems, TLAPS

Idle == {"new", "over"}
Making == {"create", "cleanup", "cleanupNet", "register", "save"}
Owning == Making \cup {"slot", "lock", "exec", "running", "finally",
                       "freezeLock", "freezing", "marking", "freezeSave"}
Targeting == {"remove", "unnet", "unnetRaise", "pop", "popSave"}

\* What a call knows by the place it is at.
CallsKnow == \A k \in Calls :
    /\ at[k] \in Idle => for[k] = NoBox /\ mine[k] = NoBox
    /\ at[k] \notin Idle => for[k] \in Tasks
    /\ at[k] \in Owning => mine[k] \in Boxes
    /\ IF at[k] \in Targeting THEN target[k] \in Boxes ELSE target[k] = NoBox

\* Who has the table's lock: one call, until it has saved or has failed.
Guarded == \A k \in Calls :
    guard = k <=> at[k] \in Making \cup {"network", "popSave"}

\* A container carries the name of a task as soon as there is anything of it,
\* and whoever makes one makes it for its own task.
BoxesAreKnown ==
    /\ \A c \in Boxes : boxTask[c] = NoBox => box[c] = "absent" /\ c \notin nets
    /\ \A k \in Calls :
          /\ at[k] \in Making => boxTask[mine[k]] = for[k]
          /\ at[k] = "create" => box[mine[k]] = "absent"

Holders == {k \in Calls : HoldsSlot(k)}

Base == BoxesTypeOK /\ CallsKnow /\ Guarded /\ BoxesAreKnown /\ SlotsAreKept

-----------------------------------------------------------------------------
\* The calls that hold a slot can be counted.
LEMMA HoldersAreFinite == IsFiniteSet(Holders) /\ Cardinality(Holders) \in Nat
<1>1. Holders \subseteq Calls
  BY DEF Holders
<1> QED BY <1>1, CallsAreFinite, FS_Subset, FS_CardinalityType

\* Whoever holds a slot is counted.
LEMMA AHeldSlotIsNotFree ==
    ASSUME BoxesTypeOK, SlotsAreKept, NEW k \in Calls, HoldsSlot(k)
    PROVE  slots < MaxConcurrent
<1>1. Cardinality(Holders) \in Nat /\ IsFiniteSet(Holders) /\ k \in Holders
  BY HoldersAreFinite DEF Holders
<1>2. Cardinality(Holders) # 0
  BY <1>1, FS_EmptySet
<1> QED BY <1>1, <1>2, LimitsArePositive DEF SlotsAreKept, Holders, BoxesTypeOK

\* Every step keeps the types.
LEMMA TypesAreKept ==
    ASSUME Base, [BoxesNext]_boxVars
    PROVE  BoxesTypeOK'
<1>k. ASSUME NEW k \in Calls
      PROVE  /\ at[k] \notin {"new", "over"} => for[k] \in Tasks
             /\ at[k] \in {"create", "cleanup", "cleanupNet", "register", "save", "slot",
                           "lock", "exec", "running", "finally", "freezeLock", "freezing",
                           "marking", "freezeSave"}
                  => mine[k] \in Boxes
  BY DEF Base, CallsKnow, Idle, Owning, Making
<1>b. /\ \A c \in Boxes : box[c] # "absent" => boxTask[c] \in Tasks
      /\ \A k \in Calls : at[k] \in Making => boxTask[mine[k]] \in Tasks
  <2>1. \A k \in Calls : at[k] \in Making => for[k] \in Tasks
    BY DEF Base, CallsKnow, Idle, Making
  <2>2. boxTask \in [Boxes -> Tasks \cup {NoBox}]
    BY DEF Base, BoxesTypeOK
  <2> QED BY <2>1, <2>2 DEF Base, BoxesAreKnown
<1> USE NoBoxIsNoBox, LimitsArePositive
<1> USE DEF BoxesTypeOK, engineVars, tableVars, historyVars, sealVars, Step, Over, Disposed, Free, Guard, Unguard,
            LockLease, UnlockLease, CallPlaces, Locked, BoxStates, RemovedBox, Killed
<1>0. BoxesTypeOK /\ \A k \in Calls : /\ at[k] \notin Idle => for[k] \in Tasks
                                      /\ at[k] \in Owning => mine[k] \in Boxes
                                      /\ at[k] \in Targeting => target[k] \in Boxes
  BY DEF Base, CallsKnow
<1> USE DEF Idle, Owning, Making, Targeting
<1>s. Save => file' \in [lease : [Tasks -> Boxes \cup {NoBox}], frozen : SUBSET Boxes]
  BY <1>0 DEF Save
<1>1. ASSUME NEW k \in Calls, NEW t \in Tasks, ExecuteNew(k, t)
      PROVE  BoxesTypeOK'
  BY <1>0, <1>1 DEF ExecuteNew
<1>2. ASSUME NEW k \in Calls, NEW t \in Tasks, ExecuteAgain(k, t)
      PROVE  BoxesTypeOK'
  BY <1>0, <1>2 DEF ExecuteAgain
<1>3. ASSUME NEW k \in Calls, NEW t \in Tasks, DisposeNew(k, t)
      PROVE  BoxesTypeOK'
  BY <1>0, <1>3 DEF DisposeNew
<1>4. ASSUME NEW k \in Calls, NEW t \in Tasks, FreezeRead(k, t)
      PROVE  BoxesTypeOK'
  BY <1>0, <1>4 DEF FreezeRead
<1>5. ASSUME NEW k \in Calls, CreateNetwork(k)
      PROVE  BoxesTypeOK'
  BY <1>0, <1>5 DEF CreateNetwork
<1>6. ASSUME NEW k \in Calls, CreateNetworkRaises(k)
      PROVE  BoxesTypeOK'
  BY <1>0, <1>6 DEF CreateNetworkRaises
<1>7. ASSUME NEW k \in Calls, CreateBox(k)
      PROVE  BoxesTypeOK'
  BY <1>0, <1>7 DEF CreateBox
<1>8. ASSUME NEW k \in Calls, CreateBoxRaises(k)
      PROVE  BoxesTypeOK'
  BY <1>0, <1>8 DEF CreateBoxRaises
<1>32. ASSUME NEW k \in Calls, StartRaises(k)
      PROVE  BoxesTypeOK'
  BY <1>0, <1>32 DEF StartRaises
<1>9. ASSUME NEW k \in Calls, CleanupBox(k)
      PROVE  BoxesTypeOK'
  <2>0. at[k] = "cleanup"
    BY <1>9 DEF CleanupBox
  <2>1. mine[k] \in Boxes /\ for[k] \in Tasks
    BY <1>k, <2>0
  <2>2. RemovedBox(mine[k]) \in [Boxes -> BoxStates]
    BY <1>0, <2>1
  <2>3. box' \in [Boxes -> BoxStates] /\ nets' \in SUBSET Boxes /\ excused' \in SUBSET Tasks
    BY <1>0, <2>1, <2>2, <1>9 DEF CleanupBox
  <2> QED BY <1>0, <2>3, <1>9 DEF CleanupBox
<1>33. ASSUME NEW k \in Calls, CleanupNetwork(k)
      PROVE  BoxesTypeOK'
  BY <1>0, <1>33 DEF CleanupNetwork
<1>10. ASSUME NEW k \in Calls, Register(k)
      PROVE  BoxesTypeOK'
  BY <1>0, <1>10 DEF Register
<1>11. ASSUME NEW k \in Calls, RegisterSave(k)
      PROVE  BoxesTypeOK'
  BY <1>0, <1>s, <1>11 DEF RegisterSave
<1>12. ASSUME NEW k \in Calls, AcquireSlot(k)
      PROVE  BoxesTypeOK'
  BY <1>0, <1>12 DEF AcquireSlot
<1>13. ASSUME NEW k \in Calls, SlotTimesOut(k)
      PROVE  BoxesTypeOK'
  BY <1>0, <1>13 DEF SlotTimesOut
<1>14. ASSUME NEW k \in Calls, ExecuteLocks(k)
      PROVE  BoxesTypeOK'
  BY <1>0, <1>14 DEF ExecuteLocks
<1>15. ASSUME NEW k \in Calls, ScriptStarts(k)
      PROVE  BoxesTypeOK'
  BY <1>0, <1>15 DEF ScriptStarts
<1>16. ASSUME NEW k \in Calls, ScriptIsRefused(k)
      PROVE  BoxesTypeOK'
  BY <1>0, <1>16 DEF ScriptIsRefused
<1>17. ASSUME NEW k \in Calls, ScriptEnds(k)
      PROVE  BoxesTypeOK'
  BY <1>0, <1>17 DEF ScriptEnds
<1>18. ASSUME NEW k \in Calls, ScriptRaises(k)
      PROVE  BoxesTypeOK'
  BY <1>0, <1>18 DEF ScriptRaises
<1>19. ASSUME NEW k \in Calls, Finally(k)
      PROVE  BoxesTypeOK'
  <2>0. at[k] = "finally"
    BY <1>19 DEF Finally
  <2>1. HoldsSlot(k) /\ mine[k] \in Boxes
    BY <1>k, <2>0 DEF HoldsSlot
  <2>2. slots < MaxConcurrent
    BY <2>1, AHeldSlotIsNotFree DEF Base
  <2> QED BY <1>0, <2>1, <2>2, <1>19 DEF Finally
<1>20. ASSUME NEW k \in Calls, DisposeRead(k)
      PROVE  BoxesTypeOK'
  <2>1. CASE lease[for[k]] = NoBox
    BY <1>0, <2>1, <1>20 DEF DisposeRead
  <2>2. CASE lease[for[k]] # NoBox
    <3>0. at[k] = "disposing"
      BY <1>20 DEF DisposeRead
    <3>1. for[k] \in Tasks /\ lease[for[k]] \in Boxes
      BY <1>0, <1>k, <2>2, <3>0
    <3> QED BY <1>0, <2>2, <3>1, <1>20 DEF DisposeRead
  <2> QED BY <2>1, <2>2
<1>21. ASSUME NEW k \in Calls, DisposeBox(k)
      PROVE  BoxesTypeOK'
  BY <1>0, <1>21 DEF DisposeBox
<1>22. ASSUME NEW k \in Calls, DisposeNetwork(k)
      PROVE  BoxesTypeOK'
  BY <1>0, <1>22 DEF DisposeNetwork
<1>23. ASSUME NEW k \in Calls, DisposeRaises(k)
      PROVE  BoxesTypeOK'
  BY <1>0, <1>23 DEF DisposeRaises
<1>24. ASSUME NEW k \in Calls, DisposePop(k)
      PROVE  BoxesTypeOK'
  BY <1>0, <1>24 DEF DisposePop
<1>25. ASSUME NEW k \in Calls, DisposeSave(k)
      PROVE  BoxesTypeOK'
  BY <1>0, <1>s, <1>25 DEF DisposeSave
<1>26. ASSUME NEW k \in Calls, FreezeLocks(k)
      PROVE  BoxesTypeOK'
  BY <1>0, <1>26 DEF FreezeLocks
<1>34. ASSUME NEW k \in Calls, Kill(k)
      PROVE  BoxesTypeOK'
  BY <1>0, <1>34 DEF Kill
<1>27. ASSUME NEW k \in Calls, Freeze(k)
      PROVE  BoxesTypeOK'
  BY <1>0, <1>27 DEF Freeze
<1>28. ASSUME NEW k \in Calls, KillRaises(k)
      PROVE  BoxesTypeOK'
  BY <1>0, <1>28 DEF KillRaises
<1>29. ASSUME NEW k \in Calls, FreezeSave(k)
      PROVE  BoxesTypeOK'
  BY <1>0, <1>s, <1>29 DEF FreezeSave
<1>30. CASE Restart
  <2> PICK known \in SUBSET Alive :
         LET kept == [t \in Tasks |-> IF file.lease[t] \in known THEN file.lease[t] ELSE NoBox]
         IN /\ lease' = kept
            /\ frozen' = file.frozen \cap known
            /\ file' = [lease |-> kept, frozen |-> frozen']
            /\ excused' = excused \cup {boxTask[c] : c \in Creating \cup (Alive \ known)}
    BY <1>30 DEF Restart
  <2>1. known \subseteq Boxes
    BY DEF Alive
  <2>2. lease' \in [Tasks -> Boxes \cup {NoBox}] /\ frozen' \in SUBSET Boxes
    BY <1>0, <2>1
  <2>3. file' \in [lease : [Tasks -> Boxes \cup {NoBox}], frozen : SUBSET Boxes]
    BY <2>2
  <2>4. \A c \in Creating \cup (Alive \ known) : boxTask[c] \in Tasks
    BY <1>b DEF Alive, Creating
  <2>5. excused' \in SUBSET Tasks
    BY <1>0, <2>4
  <2>6. at' \in [Calls -> CallPlaces]
    BY <1>0, <1>30 DEF Restart
  <2> QED BY <1>0, <2>2, <2>3, <2>5, <2>6, <1>30 DEF Restart
<1>31. CASE UNCHANGED boxVars
  BY <1>0, <1>31 DEF boxVars
<1> QED
  BY <1>1, <1>2, <1>3, <1>4, <1>5, <1>6, <1>7, <1>8, <1>9, <1>10, <1>11, <1>12, <1>13, <1>14,
     <1>15, <1>16, <1>17, <1>18, <1>19, <1>20, <1>21, <1>22, <1>23, <1>24, <1>25, <1>26, <1>27,
     <1>28, <1>29, <1>30, <1>31, <1>32, <1>33, <1>34
  DEF BoxesNext, CallStep, Request

\* Every step leaves each call with what its next place needs.
LEMMA KnowledgeIsKept ==
    ASSUME Base, [BoxesNext]_boxVars
    PROVE  CallsKnow'
<1> USE NoBoxIsNoBox
<1> USE DEF Base, BoxesTypeOK, engineVars, tableVars, historyVars, sealVars, Step, Over, Disposed, Free, Guard, Unguard,
            Idle, Owning, Making, Targeting, CallsKnow
<1>1. ASSUME NEW k \in Calls, NEW t \in Tasks, ExecuteNew(k, t)
      PROVE  CallsKnow'
  BY <1>1 DEF ExecuteNew
<1>2. ASSUME NEW k \in Calls, NEW t \in Tasks, ExecuteAgain(k, t)
      PROVE  CallsKnow'
  BY <1>2 DEF ExecuteAgain
<1>3. ASSUME NEW k \in Calls, NEW t \in Tasks, DisposeNew(k, t)
      PROVE  CallsKnow'
  BY <1>3 DEF DisposeNew
<1>4. ASSUME NEW k \in Calls, NEW t \in Tasks, FreezeRead(k, t)
      PROVE  CallsKnow'
  BY <1>4 DEF FreezeRead
<1>5. ASSUME NEW k \in Calls, CreateNetwork(k)
      PROVE  CallsKnow'
  BY <1>5 DEF CreateNetwork
<1>6. ASSUME NEW k \in Calls, CreateNetworkRaises(k)
      PROVE  CallsKnow'
  BY <1>6 DEF CreateNetworkRaises
<1>7. ASSUME NEW k \in Calls, CreateBox(k)
      PROVE  CallsKnow'
  BY <1>7 DEF CreateBox
<1>8. ASSUME NEW k \in Calls, CreateBoxRaises(k)
      PROVE  CallsKnow'
  BY <1>8 DEF CreateBoxRaises
<1>32. ASSUME NEW k \in Calls, StartRaises(k)
      PROVE  CallsKnow'
  BY <1>32 DEF StartRaises
<1>9. ASSUME NEW k \in Calls, CleanupBox(k)
      PROVE  CallsKnow'
  BY <1>9 DEF CleanupBox
<1>33. ASSUME NEW k \in Calls, CleanupNetwork(k)
      PROVE  CallsKnow'
  BY <1>33 DEF CleanupNetwork
<1>10. ASSUME NEW k \in Calls, Register(k)
      PROVE  CallsKnow'
  BY <1>10 DEF Register
<1>11. ASSUME NEW k \in Calls, RegisterSave(k)
      PROVE  CallsKnow'
  BY <1>11 DEF RegisterSave
<1>12. ASSUME NEW k \in Calls, AcquireSlot(k)
      PROVE  CallsKnow'
  BY <1>12 DEF AcquireSlot
<1>13. ASSUME NEW k \in Calls, SlotTimesOut(k)
      PROVE  CallsKnow'
  BY <1>13 DEF SlotTimesOut
<1>14. ASSUME NEW k \in Calls, ExecuteLocks(k)
      PROVE  CallsKnow'
  BY <1>14 DEF ExecuteLocks
<1>15. ASSUME NEW k \in Calls, ScriptStarts(k)
      PROVE  CallsKnow'
  BY <1>15 DEF ScriptStarts
<1>16. ASSUME NEW k \in Calls, ScriptIsRefused(k)
      PROVE  CallsKnow'
  BY <1>16 DEF ScriptIsRefused
<1>17. ASSUME NEW k \in Calls, ScriptEnds(k)
      PROVE  CallsKnow'
  BY <1>17 DEF ScriptEnds
<1>18. ASSUME NEW k \in Calls, ScriptRaises(k)
      PROVE  CallsKnow'
  BY <1>18 DEF ScriptRaises
<1>19. ASSUME NEW k \in Calls, Finally(k)
      PROVE  CallsKnow'
  BY <1>19 DEF Finally
<1>20. ASSUME NEW k \in Calls, DisposeRead(k)
      PROVE  CallsKnow'
  BY <1>20 DEF DisposeRead
<1>21. ASSUME NEW k \in Calls, DisposeBox(k)
      PROVE  CallsKnow'
  BY <1>21 DEF DisposeBox
<1>22. ASSUME NEW k \in Calls, DisposeNetwork(k)
      PROVE  CallsKnow'
  BY <1>22 DEF DisposeNetwork
<1>23. ASSUME NEW k \in Calls, DisposeRaises(k)
      PROVE  CallsKnow'
  BY <1>23 DEF DisposeRaises
<1>24. ASSUME NEW k \in Calls, DisposePop(k)
      PROVE  CallsKnow'
  BY <1>24 DEF DisposePop
<1>25. ASSUME NEW k \in Calls, DisposeSave(k)
      PROVE  CallsKnow'
  BY <1>25 DEF DisposeSave
<1>26. ASSUME NEW k \in Calls, FreezeLocks(k)
      PROVE  CallsKnow'
  BY <1>26 DEF FreezeLocks
<1>34. ASSUME NEW k \in Calls, Kill(k)
      PROVE  CallsKnow'
  BY <1>34 DEF Kill
<1>27. ASSUME NEW k \in Calls, Freeze(k)
      PROVE  CallsKnow'
  BY <1>27 DEF Freeze
<1>28. ASSUME NEW k \in Calls, KillRaises(k)
      PROVE  CallsKnow'
  BY <1>28 DEF KillRaises
<1>29. ASSUME NEW k \in Calls, FreezeSave(k)
      PROVE  CallsKnow'
  BY <1>29 DEF FreezeSave
<1>30. CASE Restart
  BY <1>30 DEF Restart
<1>31. CASE UNCHANGED boxVars
  BY <1>31 DEF boxVars
<1> QED
  BY <1>1, <1>2, <1>3, <1>4, <1>5, <1>6, <1>7, <1>8, <1>9, <1>10, <1>11, <1>12, <1>13, <1>14,
     <1>15, <1>16, <1>17, <1>18, <1>19, <1>20, <1>21, <1>22, <1>23, <1>24, <1>25, <1>26, <1>27,
     <1>28, <1>29, <1>30, <1>31, <1>32, <1>33, <1>34
  DEF BoxesNext, CallStep, Request

\* The table's lock is with one call at a time.
LEMMA GuardIsKept ==
    ASSUME Base, [BoxesNext]_boxVars
    PROVE  Guarded'
<1> USE NoBoxIsNoBox
<1> USE DEF Base, BoxesTypeOK, engineVars, tableVars, historyVars, sealVars, Step, Over, Disposed, Free, Guard, Unguard,
            Idle, Owning, Making, Targeting, CallsKnow, Guarded
<1>1. ASSUME NEW k \in Calls, NEW t \in Tasks, ExecuteNew(k, t)
      PROVE  Guarded'
  BY <1>1 DEF ExecuteNew
<1>2. ASSUME NEW k \in Calls, NEW t \in Tasks, ExecuteAgain(k, t)
      PROVE  Guarded'
  BY <1>2 DEF ExecuteAgain
<1>3. ASSUME NEW k \in Calls, NEW t \in Tasks, DisposeNew(k, t)
      PROVE  Guarded'
  BY <1>3 DEF DisposeNew
<1>4. ASSUME NEW k \in Calls, NEW t \in Tasks, FreezeRead(k, t)
      PROVE  Guarded'
  BY <1>4 DEF FreezeRead
<1>5. ASSUME NEW k \in Calls, CreateNetwork(k)
      PROVE  Guarded'
  BY <1>5 DEF CreateNetwork
<1>6. ASSUME NEW k \in Calls, CreateNetworkRaises(k)
      PROVE  Guarded'
  BY <1>6 DEF CreateNetworkRaises
<1>7. ASSUME NEW k \in Calls, CreateBox(k)
      PROVE  Guarded'
  BY <1>7 DEF CreateBox
<1>8. ASSUME NEW k \in Calls, CreateBoxRaises(k)
      PROVE  Guarded'
  BY <1>8 DEF CreateBoxRaises
<1>32. ASSUME NEW k \in Calls, StartRaises(k)
      PROVE  Guarded'
  BY <1>32 DEF StartRaises
<1>9. ASSUME NEW k \in Calls, CleanupBox(k)
      PROVE  Guarded'
  BY <1>9 DEF CleanupBox
<1>33. ASSUME NEW k \in Calls, CleanupNetwork(k)
      PROVE  Guarded'
  BY <1>33 DEF CleanupNetwork
<1>10. ASSUME NEW k \in Calls, Register(k)
      PROVE  Guarded'
  BY <1>10 DEF Register
<1>11. ASSUME NEW k \in Calls, RegisterSave(k)
      PROVE  Guarded'
  BY <1>11 DEF RegisterSave
<1>12. ASSUME NEW k \in Calls, AcquireSlot(k)
      PROVE  Guarded'
  BY <1>12 DEF AcquireSlot
<1>13. ASSUME NEW k \in Calls, SlotTimesOut(k)
      PROVE  Guarded'
  BY <1>13 DEF SlotTimesOut
<1>14. ASSUME NEW k \in Calls, ExecuteLocks(k)
      PROVE  Guarded'
  BY <1>14 DEF ExecuteLocks
<1>15. ASSUME NEW k \in Calls, ScriptStarts(k)
      PROVE  Guarded'
  BY <1>15 DEF ScriptStarts
<1>16. ASSUME NEW k \in Calls, ScriptIsRefused(k)
      PROVE  Guarded'
  BY <1>16 DEF ScriptIsRefused
<1>17. ASSUME NEW k \in Calls, ScriptEnds(k)
      PROVE  Guarded'
  BY <1>17 DEF ScriptEnds
<1>18. ASSUME NEW k \in Calls, ScriptRaises(k)
      PROVE  Guarded'
  BY <1>18 DEF ScriptRaises
<1>19. ASSUME NEW k \in Calls, Finally(k)
      PROVE  Guarded'
  BY <1>19 DEF Finally
<1>20. ASSUME NEW k \in Calls, DisposeRead(k)
      PROVE  Guarded'
  BY <1>20 DEF DisposeRead
<1>21. ASSUME NEW k \in Calls, DisposeBox(k)
      PROVE  Guarded'
  BY <1>21 DEF DisposeBox
<1>22. ASSUME NEW k \in Calls, DisposeNetwork(k)
      PROVE  Guarded'
  BY <1>22 DEF DisposeNetwork
<1>23. ASSUME NEW k \in Calls, DisposeRaises(k)
      PROVE  Guarded'
  BY <1>23 DEF DisposeRaises
<1>24. ASSUME NEW k \in Calls, DisposePop(k)
      PROVE  Guarded'
  BY <1>24 DEF DisposePop
<1>25. ASSUME NEW k \in Calls, DisposeSave(k)
      PROVE  Guarded'
  BY <1>25 DEF DisposeSave
<1>26. ASSUME NEW k \in Calls, FreezeLocks(k)
      PROVE  Guarded'
  BY <1>26 DEF FreezeLocks
<1>34. ASSUME NEW k \in Calls, Kill(k)
      PROVE  Guarded'
  BY <1>34 DEF Kill
<1>27. ASSUME NEW k \in Calls, Freeze(k)
      PROVE  Guarded'
  BY <1>27 DEF Freeze
<1>28. ASSUME NEW k \in Calls, KillRaises(k)
      PROVE  Guarded'
  BY <1>28 DEF KillRaises
<1>29. ASSUME NEW k \in Calls, FreezeSave(k)
      PROVE  Guarded'
  BY <1>29 DEF FreezeSave
<1>30. CASE Restart
  BY <1>30 DEF Restart
<1>31. CASE UNCHANGED boxVars
  BY <1>31 DEF boxVars
<1> QED
  BY <1>1, <1>2, <1>3, <1>4, <1>5, <1>6, <1>7, <1>8, <1>9, <1>10, <1>11, <1>12, <1>13, <1>14,
     <1>15, <1>16, <1>17, <1>18, <1>19, <1>20, <1>21, <1>22, <1>23, <1>24, <1>25, <1>26, <1>27,
     <1>28, <1>29, <1>30, <1>31, <1>32, <1>33, <1>34
  DEF BoxesNext, CallStep, Request

\* A container is made once, and keeps its name.
LEMMA NamesAreKept ==
    ASSUME Base, [BoxesNext]_boxVars
    PROVE  BoxesAreKnown'
<1> USE NoBoxIsNoBox
<1> USE DEF Base, BoxesTypeOK, engineVars, tableVars, historyVars, sealVars, Step, Over, Disposed, Free, Guard, Unguard,
            Idle, Owning, Making, Targeting, CallsKnow, BoxesAreKnown, Guarded, RemovedBox
<1>1. ASSUME NEW k \in Calls, NEW t \in Tasks, ExecuteNew(k, t)
      PROVE  BoxesAreKnown'
  BY <1>1 DEF ExecuteNew
<1>2. ASSUME NEW k \in Calls, NEW t \in Tasks, ExecuteAgain(k, t)
      PROVE  BoxesAreKnown'
  BY <1>2 DEF ExecuteAgain
<1>3. ASSUME NEW k \in Calls, NEW t \in Tasks, DisposeNew(k, t)
      PROVE  BoxesAreKnown'
  BY <1>3 DEF DisposeNew
<1>4. ASSUME NEW k \in Calls, NEW t \in Tasks, FreezeRead(k, t)
      PROVE  BoxesAreKnown'
  BY <1>4 DEF FreezeRead
<1>5. ASSUME NEW k \in Calls, CreateNetwork(k)
      PROVE  BoxesAreKnown'
  BY <1>5 DEF CreateNetwork
<1>6. ASSUME NEW k \in Calls, CreateNetworkRaises(k)
      PROVE  BoxesAreKnown'
  BY <1>6 DEF CreateNetworkRaises
<1>7. ASSUME NEW k \in Calls, CreateBox(k)
      PROVE  BoxesAreKnown'
  BY <1>7 DEF CreateBox
<1>8. ASSUME NEW k \in Calls, CreateBoxRaises(k)
      PROVE  BoxesAreKnown'
  BY <1>8 DEF CreateBoxRaises
<1>32. ASSUME NEW k \in Calls, StartRaises(k)
      PROVE  BoxesAreKnown'
  BY <1>32 DEF StartRaises
<1>9. ASSUME NEW k \in Calls, CleanupBox(k)
      PROVE  BoxesAreKnown'
  BY <1>9 DEF CleanupBox
<1>33. ASSUME NEW k \in Calls, CleanupNetwork(k)
      PROVE  BoxesAreKnown'
  BY <1>33 DEF CleanupNetwork
<1>10. ASSUME NEW k \in Calls, Register(k)
      PROVE  BoxesAreKnown'
  BY <1>10 DEF Register
<1>11. ASSUME NEW k \in Calls, RegisterSave(k)
      PROVE  BoxesAreKnown'
  BY <1>11 DEF RegisterSave
<1>12. ASSUME NEW k \in Calls, AcquireSlot(k)
      PROVE  BoxesAreKnown'
  BY <1>12 DEF AcquireSlot
<1>13. ASSUME NEW k \in Calls, SlotTimesOut(k)
      PROVE  BoxesAreKnown'
  BY <1>13 DEF SlotTimesOut
<1>14. ASSUME NEW k \in Calls, ExecuteLocks(k)
      PROVE  BoxesAreKnown'
  BY <1>14 DEF ExecuteLocks
<1>15. ASSUME NEW k \in Calls, ScriptStarts(k)
      PROVE  BoxesAreKnown'
  BY <1>15 DEF ScriptStarts
<1>16. ASSUME NEW k \in Calls, ScriptIsRefused(k)
      PROVE  BoxesAreKnown'
  BY <1>16 DEF ScriptIsRefused
<1>17. ASSUME NEW k \in Calls, ScriptEnds(k)
      PROVE  BoxesAreKnown'
  BY <1>17 DEF ScriptEnds
<1>18. ASSUME NEW k \in Calls, ScriptRaises(k)
      PROVE  BoxesAreKnown'
  BY <1>18 DEF ScriptRaises
<1>19. ASSUME NEW k \in Calls, Finally(k)
      PROVE  BoxesAreKnown'
  BY <1>19 DEF Finally
<1>20. ASSUME NEW k \in Calls, DisposeRead(k)
      PROVE  BoxesAreKnown'
  BY <1>20 DEF DisposeRead
<1>21. ASSUME NEW k \in Calls, DisposeBox(k)
      PROVE  BoxesAreKnown'
  <2>0. at[k] = "remove" /\ target[k] \in Boxes
    BY <1>21 DEF DisposeBox
  <2>1. \A c \in Boxes : (box'[c] = "absent" <=> box[c] = "absent")
    BY <2>0, <1>21 DEF DisposeBox, Alive
  <2>2. UNCHANGED <<boxTask, for, mine, nets>> /\ \A j \in Calls : at'[j] \in Making => at'[j] = at[j]
    BY <1>21 DEF DisposeBox
  <2> QED BY <2>1, <2>2
<1>22. ASSUME NEW k \in Calls, DisposeNetwork(k)
      PROVE  BoxesAreKnown'
  BY <1>22 DEF DisposeNetwork
<1>23. ASSUME NEW k \in Calls, DisposeRaises(k)
      PROVE  BoxesAreKnown'
  BY <1>23 DEF DisposeRaises
<1>24. ASSUME NEW k \in Calls, DisposePop(k)
      PROVE  BoxesAreKnown'
  BY <1>24 DEF DisposePop
<1>25. ASSUME NEW k \in Calls, DisposeSave(k)
      PROVE  BoxesAreKnown'
  BY <1>25 DEF DisposeSave
<1>26. ASSUME NEW k \in Calls, FreezeLocks(k)
      PROVE  BoxesAreKnown'
  BY <1>26 DEF FreezeLocks
<1>34. ASSUME NEW k \in Calls, Kill(k)
      PROVE  BoxesAreKnown'
  BY <1>34 DEF Kill, Killed
<1>27. ASSUME NEW k \in Calls, Freeze(k)
      PROVE  BoxesAreKnown'
  BY <1>27 DEF Freeze
<1>28. ASSUME NEW k \in Calls, KillRaises(k)
      PROVE  BoxesAreKnown'
  BY <1>28 DEF KillRaises, Killed
<1>29. ASSUME NEW k \in Calls, FreezeSave(k)
      PROVE  BoxesAreKnown'
  BY <1>29 DEF FreezeSave
<1>30. CASE Restart
  BY <1>30 DEF Restart
<1>31. CASE UNCHANGED boxVars
  BY <1>31 DEF boxVars
<1> QED
  BY <1>1, <1>2, <1>3, <1>4, <1>5, <1>6, <1>7, <1>8, <1>9, <1>10, <1>11, <1>12, <1>13, <1>14,
     <1>15, <1>16, <1>17, <1>18, <1>19, <1>20, <1>21, <1>22, <1>23, <1>24, <1>25, <1>26, <1>27,
     <1>28, <1>29, <1>30, <1>31, <1>32, <1>33, <1>34
  DEF BoxesNext, CallStep, Request

\* A slot is taken by a call that comes to hold one, and given back by one that
\* ceases to.
LEMMA SlotsAreKeptByAll ==
    ASSUME Base, [BoxesNext]_boxVars
    PROVE  SlotsAreKept'
<1>c. SlotsAreKept <=> slots + Cardinality(Holders) = MaxConcurrent /\ slots \in Nat
  BY DEF Base, BoxesTypeOK, SlotsAreKept, Holders
<1>d. SlotsAreKept' <=> slots' + Cardinality(Holders') = MaxConcurrent
  BY DEF SlotsAreKept, Holders
<1>q. ASSUME Holders' = Holders, slots' = slots
      PROVE  SlotsAreKept'
  BY <1>c, <1>d, <1>q DEF Base
<1>0. /\ at \in [Calls -> CallPlaces] /\ mine \in [Calls -> Boxes \cup {NoBox}]
      /\ lease \in [Tasks -> Boxes \cup {NoBox}]
      /\ for \in [Calls -> Tasks \cup {NoBox}] /\ CallsKnow
  BY DEF Base, BoxesTypeOK
<1> USE NoBoxIsNoBox
<1> USE DEF tableVars, engineVars, historyVars, sealVars, Step, Over, Disposed, Guard, Holders, HoldsSlot, Locked,
            Idle, Owning, Making, Targeting, CallsKnow
<1>1. ASSUME NEW k \in Calls, NEW t \in Tasks, ExecuteNew(k, t)
      PROVE  SlotsAreKept'
  <2>1. Holders' = Holders /\ slots' = slots
    BY <1>0, <1>1 DEF ExecuteNew
  <2> QED BY <2>1, <1>q
<1>2. ASSUME NEW k \in Calls, NEW t \in Tasks, ExecuteAgain(k, t)
      PROVE  SlotsAreKept'
  <2>1. Holders' = Holders /\ slots' = slots
    BY <1>0, <1>2 DEF ExecuteAgain
  <2> QED BY <2>1, <1>q
<1>3. ASSUME NEW k \in Calls, NEW t \in Tasks, DisposeNew(k, t)
      PROVE  SlotsAreKept'
  <2>1. Holders' = Holders /\ slots' = slots
    BY <1>0, <1>3 DEF DisposeNew
  <2> QED BY <2>1, <1>q
<1>4. ASSUME NEW k \in Calls, NEW t \in Tasks, FreezeRead(k, t)
      PROVE  SlotsAreKept'
  <2>1. Holders' = Holders /\ slots' = slots
    BY <1>0, <1>4 DEF FreezeRead
  <2> QED BY <2>1, <1>q
<1>5. ASSUME NEW k \in Calls, CreateNetwork(k)
      PROVE  SlotsAreKept'
  <2>1. Holders' = Holders /\ slots' = slots
    BY <1>0, <1>5 DEF CreateNetwork
  <2> QED BY <2>1, <1>q
<1>6. ASSUME NEW k \in Calls, CreateNetworkRaises(k)
      PROVE  SlotsAreKept'
  <2>1. Holders' = Holders /\ slots' = slots
    BY <1>0, <1>6 DEF CreateNetworkRaises
  <2> QED BY <2>1, <1>q
<1>7. ASSUME NEW k \in Calls, CreateBox(k)
      PROVE  SlotsAreKept'
  <2>1. Holders' = Holders /\ slots' = slots
    BY <1>0, <1>7 DEF CreateBox
  <2> QED BY <2>1, <1>q
<1>8. ASSUME NEW k \in Calls, CreateBoxRaises(k)
      PROVE  SlotsAreKept'
  <2>1. Holders' = Holders /\ slots' = slots
    BY <1>0, <1>8 DEF CreateBoxRaises
  <2> QED BY <2>1, <1>q
<1>32. ASSUME NEW k \in Calls, StartRaises(k)
      PROVE  SlotsAreKept'
  <2>1. Holders' = Holders /\ slots' = slots
    BY <1>0, <1>32 DEF StartRaises
  <2> QED BY <2>1, <1>q
<1>9. ASSUME NEW k \in Calls, CleanupBox(k)
      PROVE  SlotsAreKept'
  <2>1. Holders' = Holders /\ slots' = slots
    BY <1>0, <1>9 DEF CleanupBox
  <2> QED BY <2>1, <1>q
<1>33. ASSUME NEW k \in Calls, CleanupNetwork(k)
      PROVE  SlotsAreKept'
  <2>1. Holders' = Holders /\ slots' = slots
    BY <1>0, <1>33 DEF CleanupNetwork
  <2> QED BY <2>1, <1>q
<1>10. ASSUME NEW k \in Calls, Register(k)
      PROVE  SlotsAreKept'
  <2>1. Holders' = Holders /\ slots' = slots
    BY <1>0, <1>10 DEF Register
  <2> QED BY <2>1, <1>q
<1>11. ASSUME NEW k \in Calls, RegisterSave(k)
      PROVE  SlotsAreKept'
  <2>1. Holders' = Holders /\ slots' = slots
    BY <1>0, <1>11 DEF RegisterSave
  <2> QED BY <2>1, <1>q
<1>12. ASSUME NEW k \in Calls, AcquireSlot(k)
      PROVE  SlotsAreKept'
  <2>1. Holders' = Holders \cup {k} /\ k \notin Holders /\ slots' = slots - 1 /\ slots > 0
    BY <1>0, <1>12 DEF AcquireSlot
  <2>2. Cardinality(Holders') = Cardinality(Holders) + 1
    BY <2>1, HoldersAreFinite, FS_AddElement
  <2> QED BY <1>c, <1>d, <2>1, <2>2, HoldersAreFinite DEF Base
<1>13. ASSUME NEW k \in Calls, SlotTimesOut(k)
      PROVE  SlotsAreKept'
  <2>1. Holders' = Holders /\ slots' = slots
    BY <1>0, <1>13 DEF SlotTimesOut
  <2> QED BY <2>1, <1>q
<1>14. ASSUME NEW k \in Calls, ExecuteLocks(k)
      PROVE  SlotsAreKept'
  <2>1. Holders' = Holders /\ slots' = slots
    BY <1>0, <1>14 DEF ExecuteLocks
  <2> QED BY <2>1, <1>q
<1>15. ASSUME NEW k \in Calls, ScriptStarts(k)
      PROVE  SlotsAreKept'
  <2>1. Holders' = Holders /\ slots' = slots
    BY <1>0, <1>15 DEF ScriptStarts
  <2> QED BY <2>1, <1>q
<1>16. ASSUME NEW k \in Calls, ScriptIsRefused(k)
      PROVE  SlotsAreKept'
  <2>1. Holders' = Holders /\ slots' = slots
    BY <1>0, <1>16 DEF ScriptIsRefused
  <2> QED BY <2>1, <1>q
<1>17. ASSUME NEW k \in Calls, ScriptEnds(k)
      PROVE  SlotsAreKept'
  <2>1. Holders' = Holders /\ slots' = slots
    BY <1>0, <1>17 DEF ScriptEnds
  <2> QED BY <2>1, <1>q
<1>18. ASSUME NEW k \in Calls, ScriptRaises(k)
      PROVE  SlotsAreKept'
  <2>1. Holders' = Holders /\ slots' = slots
    BY <1>0, <1>18 DEF ScriptRaises
  <2> QED BY <2>1, <1>q
<1>19. ASSUME NEW k \in Calls, Finally(k)
      PROVE  SlotsAreKept'
  <2>1. Holders' = Holders \ {k} /\ k \in Holders /\ slots' = slots + 1
    BY <1>0, <1>19 DEF Finally
  <2>2. Cardinality(Holders') = Cardinality(Holders) - 1
    BY <2>1, HoldersAreFinite, FS_RemoveElement
  <2> QED BY <1>c, <1>d, <2>1, <2>2, HoldersAreFinite DEF Base
<1>20. ASSUME NEW k \in Calls, DisposeRead(k)
      PROVE  SlotsAreKept'
  <2>1. Holders' = Holders /\ slots' = slots
    BY <1>0, <1>20 DEF DisposeRead
  <2> QED BY <2>1, <1>q
<1>21. ASSUME NEW k \in Calls, DisposeBox(k)
      PROVE  SlotsAreKept'
  <2>1. Holders' = Holders /\ slots' = slots
    BY <1>0, <1>21 DEF DisposeBox
  <2> QED BY <2>1, <1>q
<1>22. ASSUME NEW k \in Calls, DisposeNetwork(k)
      PROVE  SlotsAreKept'
  <2>1. Holders' = Holders /\ slots' = slots
    BY <1>0, <1>22 DEF DisposeNetwork
  <2> QED BY <2>1, <1>q
<1>23. ASSUME NEW k \in Calls, DisposeRaises(k)
      PROVE  SlotsAreKept'
  <2>1. Holders' = Holders /\ slots' = slots
    BY <1>0, <1>23 DEF DisposeRaises
  <2> QED BY <2>1, <1>q
<1>24. ASSUME NEW k \in Calls, DisposePop(k)
      PROVE  SlotsAreKept'
  <2>1. Holders' = Holders /\ slots' = slots
    BY <1>0, <1>24 DEF DisposePop
  <2> QED BY <2>1, <1>q
<1>25. ASSUME NEW k \in Calls, DisposeSave(k)
      PROVE  SlotsAreKept'
  <2>1. Holders' = Holders /\ slots' = slots
    BY <1>0, <1>25 DEF DisposeSave
  <2> QED BY <2>1, <1>q
<1>26. ASSUME NEW k \in Calls, FreezeLocks(k)
      PROVE  SlotsAreKept'
  <2>1. Holders' = Holders /\ slots' = slots
    BY <1>0, <1>26 DEF FreezeLocks
  <2> QED BY <2>1, <1>q
<1>34. ASSUME NEW k \in Calls, Kill(k)
      PROVE  SlotsAreKept'
  <2>1. Holders' = Holders /\ slots' = slots
    BY <1>0, <1>34 DEF Kill
  <2> QED BY <2>1, <1>q
<1>27. ASSUME NEW k \in Calls, Freeze(k)
      PROVE  SlotsAreKept'
  <2>1. Holders' = Holders /\ slots' = slots
    BY <1>0, <1>27 DEF Freeze
  <2> QED BY <2>1, <1>q
<1>28. ASSUME NEW k \in Calls, KillRaises(k)
      PROVE  SlotsAreKept'
  <2>1. Holders' = Holders /\ slots' = slots
    BY <1>0, <1>28 DEF KillRaises
  <2> QED BY <2>1, <1>q
<1>29. ASSUME NEW k \in Calls, FreezeSave(k)
      PROVE  SlotsAreKept'
  <2>1. Holders' = Holders /\ slots' = slots
    BY <1>0, <1>29 DEF FreezeSave
  <2> QED BY <2>1, <1>q
<1>30. CASE Restart
  <2>1. \A k \in Calls : at'[k] \in {"new", "over"}
    BY <1>30 DEF Restart
  <2>2. Holders' = {} /\ slots' = MaxConcurrent
    BY <2>1, <1>30 DEF Restart, Holders, HoldsSlot, Locked
  <2>3. Cardinality(Holders') = 0
    BY <2>2, FS_EmptySet
  <2> QED BY <2>2, <2>3, LimitsArePositive DEF SlotsAreKept, Holders
<1>31. CASE UNCHANGED boxVars
  <2>1. Holders' = Holders /\ slots' = slots
    BY <1>0, <1>31 DEF boxVars, HoldsSlot
  <2> QED BY <2>1, <1>q
<1> QED
  BY <1>1, <1>2, <1>3, <1>4, <1>5, <1>6, <1>7, <1>8, <1>9, <1>10, <1>11, <1>12, <1>13, <1>14,
     <1>15, <1>16, <1>17, <1>18, <1>19, <1>20, <1>21, <1>22, <1>23, <1>24, <1>25, <1>26, <1>27,
     <1>28, <1>29, <1>30, <1>31, <1>32, <1>33, <1>34
  DEF BoxesNext, CallStep, Request

\* What each call knows, the lock of the table, and the count of slots.
THEOREM BaseInvariant == BoxesSpec => []Base
<1>1. BoxesInit => Base
  <2> SUFFICES ASSUME BoxesInit PROVE Base
    OBVIOUS
  <2> USE NoBoxIsNoBox, LimitsArePositive DEF BoxesInit
  <2>1. Holders = {}
    BY DEF Holders, HoldsSlot, Locked
  <2>2. Cardinality(Holders) = 0
    BY <2>1, FS_EmptySet
  <2>3. SlotsAreKept
    BY <2>2 DEF SlotsAreKept, Holders
  <2>4. BoxesTypeOK
    BY DEF BoxesTypeOK, BoxStates, CallPlaces
  <2>5. CallsKnow /\ BoxesAreKnown /\ Guarded
    BY DEF CallsKnow, BoxesAreKnown, Guarded, Idle, Owning, Making, Targeting
  <2> QED BY <2>3, <2>4, <2>5 DEF Base
<1>2. Base /\ [BoxesNext]_boxVars => Base'
  BY TypesAreKept, KnowledgeIsKept, GuardIsKept, NamesAreKept, SlotsAreKeptByAll DEF Base
<1> QED BY <1>1, <1>2, PTL DEF BoxesSpec

\* The types hold in every reachable state.
THEOREM TypeCorrect == BoxesSpec => []BoxesTypeOK
BY BaseInvariant, PTL DEF Base

\* No path through execute, however it fails, keeps a slot (task_containers.py:
\* 70-83): every slot is free or with a call that will give it back.
THEOREM SlotsComeBack == BoxesSpec => []SlotsAreKept
BY BaseInvariant, PTL DEF Base

-----------------------------------------------------------------------------
\* A container that is not there yet is known to nobody but its maker, and one
\* that is being made is in no table and of no other call.
Unmade ==
    /\ \A c \in Boxes : box[c] = "absent" =>
          /\ c \notin Leased \cup frozen \cup file.frozen
          /\ \A k \in Calls : /\ mine[k] = c => at[k] \in {"create", "cleanup", "cleanupNet"}
                              /\ target[k] # c
    /\ \A k \in Calls : at[k] \in {"create", "cleanup", "cleanupNet", "register"} =>
          /\ mine[k] \notin Leased \cup frozen \cup file.frozen
          /\ \A j \in Calls : /\ j # k => mine[j] # mine[k]
                              /\ target[j] # mine[k]

\* No step makes a container known before its maker has registered it.
LEMMA UnmadeIsKept ==
    ASSUME Base, Unmade, [BoxesNext]_boxVars
    PROVE  Unmade'
<1>0. /\ lease \in [Tasks -> Boxes \cup {NoBox}] /\ frozen \subseteq Boxes
      /\ file \in [lease : [Tasks -> Boxes \cup {NoBox}], frozen : SUBSET Boxes]
      /\ box \in [Boxes -> BoxStates] /\ at \in [Calls -> CallPlaces]
      /\ boxTask \in [Boxes -> Tasks \cup {NoBox}]
      /\ for \in [Calls -> Tasks \cup {NoBox}] /\ mine \in [Calls -> Boxes \cup {NoBox}]
      /\ target \in [Calls -> Boxes \cup {NoBox}]
  BY DEF Base, BoxesTypeOK
<1>k. CallsKnow /\ Guarded /\ BoxesAreKnown
  BY DEF Base

<1> USE NoBoxIsNoBox
<1> USE DEF engineVars, tableVars, historyVars, sealVars, Step, Over, Disposed, Free, Guard, Unguard, Leased,
            Idle, Owning, Making, Targeting, CallsKnow, Guarded, BoxesAreKnown, Unmade
<1>1. ASSUME NEW k \in Calls, NEW t \in Tasks, ExecuteNew(k, t)
      PROVE  Unmade'
  BY <1>0, <1>k, <1>1 DEF ExecuteNew
<1>2. ASSUME NEW k \in Calls, NEW t \in Tasks, ExecuteAgain(k, t)
      PROVE  Unmade'
  BY <1>0, <1>k, <1>2 DEF ExecuteAgain
<1>3. ASSUME NEW k \in Calls, NEW t \in Tasks, DisposeNew(k, t)
      PROVE  Unmade'
  BY <1>0, <1>k, <1>3 DEF DisposeNew
<1>4. ASSUME NEW k \in Calls, NEW t \in Tasks, FreezeRead(k, t)
      PROVE  Unmade'
  BY <1>0, <1>k, <1>4 DEF FreezeRead
<1>5. ASSUME NEW k \in Calls, CreateNetwork(k)
      PROVE  Unmade'
  BY <1>0, <1>k, <1>5 DEF CreateNetwork
<1>6. ASSUME NEW k \in Calls, CreateNetworkRaises(k)
      PROVE  Unmade'
  BY <1>0, <1>k, <1>6 DEF CreateNetworkRaises
<1>7. ASSUME NEW k \in Calls, CreateBox(k)
      PROVE  Unmade'
  BY <1>0, <1>k, <1>7 DEF CreateBox
<1>8. ASSUME NEW k \in Calls, CreateBoxRaises(k)
      PROVE  Unmade'
  BY <1>0, <1>k, <1>8 DEF CreateBoxRaises
<1>32. ASSUME NEW k \in Calls, StartRaises(k)
      PROVE  Unmade'
  BY <1>0, <1>k, <1>32 DEF StartRaises
<1>9. ASSUME NEW k \in Calls, CleanupBox(k)
      PROVE  Unmade'
  <2>0. at[k] = "cleanup" /\ mine[k] \in Boxes
    BY <1>0, <1>k, <1>9 DEF CleanupBox
  <2>1. \A c \in Boxes : box'[c] = "absent" <=> box[c] = "absent"
    BY <1>0, <2>0, <1>9 DEF CleanupBox, RemovedBox, Alive
  <2>2. /\ UNCHANGED <<lease, frozen, file>>
        /\ \A j \in Calls : j # k => at'[j] = at[j] /\ mine'[j] = mine[j] /\ target'[j] = target[j]
    BY <1>0, <1>9 DEF CleanupBox
  <2>3. \/ at'[k] = "over" /\ mine'[k] = NoBox /\ target'[k] = NoBox
        \/ at'[k] = "cleanupNet" /\ mine'[k] = mine[k] /\ target'[k] = target[k]
    BY <1>0, <1>9 DEF CleanupBox
  <2>4. ASSUME NEW c \in Boxes, box[c] = "absent"
        PROVE  /\ c \notin Leased' \cup frozen' \cup file'.frozen
               /\ \A j \in Calls : /\ mine'[j] = c => at'[j] \in {"create", "cleanup", "cleanupNet"}
                                  /\ target'[j] # c
    BY <2>0, <2>2, <2>3, <2>4
  <2>5. ASSUME NEW j \in Calls, at'[j] \in {"create", "cleanup", "cleanupNet", "register"}
        PROVE  /\ mine'[j] \notin Leased' \cup frozen' \cup file'.frozen
               /\ \A i \in Calls : /\ i # j => mine'[i] # mine'[j]
                                  /\ target'[i] # mine'[j]
    <3>1. /\ mine'[j] = mine[j] /\ mine[j] \in Boxes
          /\ at[j] \in {"create", "cleanup", "cleanupNet", "register"}
      BY <1>k, <2>0, <2>2, <2>3, <2>5
    <3>2. \A i \in Calls : mine'[i] \in {mine[i], NoBox} /\ target'[i] \in {target[i], NoBox}
      BY <2>2, <2>3
    <3> QED BY <2>2, <3>1, <3>2
  <2> QED BY <2>1, <2>4, <2>5
<1>33. ASSUME NEW k \in Calls, CleanupNetwork(k)
      PROVE  Unmade'
  BY <1>0, <1>k, <1>33 DEF CleanupNetwork
<1>10. ASSUME NEW k \in Calls, Register(k)
      PROVE  Unmade'
  BY <1>0, <1>k, <1>10 DEF Register
<1>11. ASSUME NEW k \in Calls, RegisterSave(k)
      PROVE  Unmade'
  <2>1. file'.frozen = frozen \cap Leased
    BY <1>11 DEF RegisterSave, Save
  <2> QED BY <1>0, <1>k, <2>1, <1>11 DEF RegisterSave
<1>12. ASSUME NEW k \in Calls, AcquireSlot(k)
      PROVE  Unmade'
  BY <1>0, <1>k, <1>12 DEF AcquireSlot
<1>13. ASSUME NEW k \in Calls, SlotTimesOut(k)
      PROVE  Unmade'
  BY <1>0, <1>k, <1>13 DEF SlotTimesOut
<1>14. ASSUME NEW k \in Calls, ExecuteLocks(k)
      PROVE  Unmade'
  BY <1>0, <1>k, <1>14 DEF ExecuteLocks
<1>15. ASSUME NEW k \in Calls, ScriptStarts(k)
      PROVE  Unmade'
  BY <1>0, <1>k, <1>15 DEF ScriptStarts
<1>16. ASSUME NEW k \in Calls, ScriptIsRefused(k)
      PROVE  Unmade'
  BY <1>0, <1>k, <1>16 DEF ScriptIsRefused
<1>17. ASSUME NEW k \in Calls, ScriptEnds(k)
      PROVE  Unmade'
  BY <1>0, <1>k, <1>17 DEF ScriptEnds
<1>18. ASSUME NEW k \in Calls, ScriptRaises(k)
      PROVE  Unmade'
  BY <1>0, <1>k, <1>18 DEF ScriptRaises
<1>19. ASSUME NEW k \in Calls, Finally(k)
      PROVE  Unmade'
  BY <1>0, <1>k, <1>19 DEF Finally
<1>20. ASSUME NEW k \in Calls, DisposeRead(k)
      PROVE  Unmade'
  BY <1>0, <1>k, <1>20 DEF DisposeRead
<1>21. ASSUME NEW k \in Calls, DisposeBox(k)
      PROVE  Unmade'
  <2>0. target[k] \in Boxes
    BY <1>k, <1>21 DEF DisposeBox
  <2>1. \A c \in Boxes : box'[c] = "absent" <=> box[c] = "absent"
    BY <1>0, <2>0, <1>21 DEF DisposeBox, RemovedBox, Alive
  <2>2. /\ UNCHANGED <<lease, frozen, file, mine, target>>
        /\ at[k] = "remove" /\ at'[k] \in {"unnet", "unnetRaise"}
        /\ \A j \in Calls : j # k => at'[j] = at[j]
    BY <1>0, <1>21 DEF DisposeBox
  <2> QED BY <2>0, <2>1, <2>2
<1>22. ASSUME NEW k \in Calls, DisposeNetwork(k)
      PROVE  Unmade'
  BY <1>0, <1>k, <1>22 DEF DisposeNetwork
<1>23. ASSUME NEW k \in Calls, DisposeRaises(k)
      PROVE  Unmade'
  BY <1>0, <1>k, <1>23 DEF DisposeRaises
<1>24. ASSUME NEW k \in Calls, DisposePop(k)
      PROVE  Unmade'
  BY <1>0, <1>k, <1>24 DEF DisposePop
<1>25. ASSUME NEW k \in Calls, DisposeSave(k)
      PROVE  Unmade'
  <2>1. file'.frozen = frozen \cap Leased
    BY <1>25 DEF DisposeSave, Save
  <2> QED BY <1>0, <1>k, <2>1, <1>25 DEF DisposeSave
<1>26. ASSUME NEW k \in Calls, FreezeLocks(k)
      PROVE  Unmade'
  BY <1>0, <1>k, <1>26 DEF FreezeLocks
<1>34. ASSUME NEW k \in Calls, Kill(k)
      PROVE  Unmade'
  <2>0. at[k] = "freezing" /\ mine[k] \in Boxes /\ at'[k] = "marking"
    BY <1>0, <1>k, <1>34 DEF Kill
  <2>1. \A c \in Boxes : box'[c] = "absent" <=> box[c] = "absent"
    BY <1>0, <2>0, <1>34 DEF Kill, Killed
  <2>2. /\ UNCHANGED <<lease, frozen, file, mine, target>>
        /\ \A j \in Calls : j # k => at'[j] = at[j]
    BY <1>0, <1>34 DEF Kill
  <2> QED BY <2>0, <2>1, <2>2
<1>27. ASSUME NEW k \in Calls, Freeze(k)
      PROVE  Unmade'
  <2>0. at[k] = "marking" /\ mine[k] \in Boxes /\ at'[k] = "freezeSave" /\ frozen' = frozen \cup {mine[k]}
    BY <1>0, <1>k, <1>27 DEF Freeze
  <2>2. /\ UNCHANGED <<lease, file, mine, target, box>>
        /\ \A j \in Calls : j # k => at'[j] = at[j]
    BY <1>0, <1>27 DEF Freeze
  <2>3. box[mine[k]] # "absent"
    BY <2>0
  <2> QED BY <2>0, <2>2, <2>3
<1>28. ASSUME NEW k \in Calls, KillRaises(k)
      PROVE  Unmade'
  <2>1. \A c \in Boxes : box'[c] = "absent" <=> box[c] = "absent"
    BY <1>0, <1>k, <1>28 DEF KillRaises, Killed
  <2>2. /\ UNCHANGED <<lease, frozen, file>>
        /\ at'[k] = "over" /\ mine'[k] = NoBox /\ target'[k] = NoBox
        /\ \A j \in Calls : j # k => at'[j] = at[j] /\ mine'[j] = mine[j] /\ target'[j] = target[j]
    BY <1>0, <1>28 DEF KillRaises
  <2> QED BY <1>0, <1>k, <2>1, <2>2
<1>29. ASSUME NEW k \in Calls, FreezeSave(k)
      PROVE  Unmade'
  <2>1. file'.frozen = frozen \cap Leased
    BY <1>29 DEF FreezeSave, Save
  <2> QED BY <1>0, <1>k, <2>1, <1>29 DEF FreezeSave
<1>30. CASE Restart
  <2>1. \A j \in Calls : at'[j] \in {"new", "over"} /\ mine'[j] = NoBox /\ target'[j] = NoBox
    BY <1>30 DEF Restart
  <2>2. box' = box /\ frozen' \subseteq file.frozen /\ file'.frozen \subseteq file.frozen
    BY <1>30 DEF Restart
  <2>3. PICK known \in SUBSET Alive :
           lease' = [t \in Tasks |-> IF file.lease[t] \in known THEN file.lease[t] ELSE NoBox]
    BY <1>30 DEF Restart
  <2>4. \A c \in Leased' : box[c] # "absent"
    BY <2>3 DEF Alive
  <2> QED BY <2>1, <2>2, <2>4
<1>31. CASE UNCHANGED boxVars
  BY <1>31 DEF boxVars
<1> QED
  BY <1>1, <1>2, <1>3, <1>4, <1>5, <1>6, <1>7, <1>8, <1>9, <1>10, <1>11, <1>12, <1>13, <1>14,
     <1>15, <1>16, <1>17, <1>18, <1>19, <1>20, <1>21, <1>22, <1>23, <1>24, <1>25, <1>26, <1>27,
     <1>28, <1>29, <1>30, <1>31, <1>32, <1>33, <1>34
  DEF BoxesNext, CallStep, Request

\* A container that is marked, or about to be, was killed.
MarkedIsDead ==
    /\ \A c \in frozen \cup file.frozen : box[c] # "running"
    /\ \A k \in Calls : at[k] = "marking" => box[mine[k]] # "running"
    /\ \A k \in Calls : at[k] = "freezeSave" => mine[k] \in frozen

\* Nothing is started but what is being made.
LEMMA FrozenIsKept ==
    ASSUME Base, Unmade, MarkedIsDead, [BoxesNext]_boxVars
    PROVE  MarkedIsDead'
<1>0. /\ lease \in [Tasks -> Boxes \cup {NoBox}] /\ frozen \subseteq Boxes
      /\ file \in [lease : [Tasks -> Boxes \cup {NoBox}], frozen : SUBSET Boxes]
      /\ box \in [Boxes -> BoxStates] /\ at \in [Calls -> CallPlaces]
      /\ boxTask \in [Boxes -> Tasks \cup {NoBox}]
      /\ for \in [Calls -> Tasks \cup {NoBox}] /\ mine \in [Calls -> Boxes \cup {NoBox}]
      /\ target \in [Calls -> Boxes \cup {NoBox}]
  BY DEF Base, BoxesTypeOK
<1>k. CallsKnow /\ Guarded /\ BoxesAreKnown
  BY DEF Base

<1> USE NoBoxIsNoBox
<1> USE DEF engineVars, tableVars, historyVars, sealVars, Step, Over, Disposed, Free, Guard, Unguard, Leased,
            Idle, Owning, Making, Targeting, CallsKnow, Guarded, BoxesAreKnown, Unmade, MarkedIsDead, RemovedBox, Killed, Save
<1>1. ASSUME NEW k \in Calls, NEW t \in Tasks, ExecuteNew(k, t)
      PROVE  MarkedIsDead'
  BY <1>0, <1>k, <1>1 DEF ExecuteNew
<1>2. ASSUME NEW k \in Calls, NEW t \in Tasks, ExecuteAgain(k, t)
      PROVE  MarkedIsDead'
  BY <1>0, <1>k, <1>2 DEF ExecuteAgain
<1>3. ASSUME NEW k \in Calls, NEW t \in Tasks, DisposeNew(k, t)
      PROVE  MarkedIsDead'
  BY <1>0, <1>k, <1>3 DEF DisposeNew
<1>4. ASSUME NEW k \in Calls, NEW t \in Tasks, FreezeRead(k, t)
      PROVE  MarkedIsDead'
  BY <1>0, <1>k, <1>4 DEF FreezeRead
<1>5. ASSUME NEW k \in Calls, CreateNetwork(k)
      PROVE  MarkedIsDead'
  BY <1>0, <1>k, <1>5 DEF CreateNetwork
<1>6. ASSUME NEW k \in Calls, CreateNetworkRaises(k)
      PROVE  MarkedIsDead'
  BY <1>0, <1>k, <1>6 DEF CreateNetworkRaises
<1>7. ASSUME NEW k \in Calls, CreateBox(k)
      PROVE  MarkedIsDead'
  BY <1>0, <1>k, <1>7 DEF CreateBox
<1>8. ASSUME NEW k \in Calls, CreateBoxRaises(k)
      PROVE  MarkedIsDead'
  BY <1>0, <1>k, <1>8 DEF CreateBoxRaises
<1>32. ASSUME NEW k \in Calls, StartRaises(k)
      PROVE  MarkedIsDead'
  BY <1>0, <1>k, <1>32 DEF StartRaises
<1>9. ASSUME NEW k \in Calls, CleanupBox(k)
      PROVE  MarkedIsDead'
  BY <1>0, <1>k, <1>9 DEF CleanupBox
<1>33. ASSUME NEW k \in Calls, CleanupNetwork(k)
      PROVE  MarkedIsDead'
  BY <1>0, <1>k, <1>33 DEF CleanupNetwork
<1>10. ASSUME NEW k \in Calls, Register(k)
      PROVE  MarkedIsDead'
  BY <1>0, <1>k, <1>10 DEF Register
<1>11. ASSUME NEW k \in Calls, RegisterSave(k)
      PROVE  MarkedIsDead'
  BY <1>0, <1>k, <1>11 DEF RegisterSave
<1>12. ASSUME NEW k \in Calls, AcquireSlot(k)
      PROVE  MarkedIsDead'
  BY <1>0, <1>k, <1>12 DEF AcquireSlot
<1>13. ASSUME NEW k \in Calls, SlotTimesOut(k)
      PROVE  MarkedIsDead'
  BY <1>0, <1>k, <1>13 DEF SlotTimesOut
<1>14. ASSUME NEW k \in Calls, ExecuteLocks(k)
      PROVE  MarkedIsDead'
  BY <1>0, <1>k, <1>14 DEF ExecuteLocks
<1>15. ASSUME NEW k \in Calls, ScriptStarts(k)
      PROVE  MarkedIsDead'
  BY <1>0, <1>k, <1>15 DEF ScriptStarts
<1>16. ASSUME NEW k \in Calls, ScriptIsRefused(k)
      PROVE  MarkedIsDead'
  BY <1>0, <1>k, <1>16 DEF ScriptIsRefused
<1>17. ASSUME NEW k \in Calls, ScriptEnds(k)
      PROVE  MarkedIsDead'
  BY <1>0, <1>k, <1>17 DEF ScriptEnds
<1>18. ASSUME NEW k \in Calls, ScriptRaises(k)
      PROVE  MarkedIsDead'
  BY <1>0, <1>k, <1>18 DEF ScriptRaises
<1>19. ASSUME NEW k \in Calls, Finally(k)
      PROVE  MarkedIsDead'
  BY <1>0, <1>k, <1>19 DEF Finally
<1>20. ASSUME NEW k \in Calls, DisposeRead(k)
      PROVE  MarkedIsDead'
  BY <1>0, <1>k, <1>20 DEF DisposeRead
<1>21. ASSUME NEW k \in Calls, DisposeBox(k)
      PROVE  MarkedIsDead'
  BY <1>0, <1>k, <1>21 DEF DisposeBox
<1>22. ASSUME NEW k \in Calls, DisposeNetwork(k)
      PROVE  MarkedIsDead'
  BY <1>0, <1>k, <1>22 DEF DisposeNetwork
<1>23. ASSUME NEW k \in Calls, DisposeRaises(k)
      PROVE  MarkedIsDead'
  BY <1>0, <1>k, <1>23 DEF DisposeRaises
<1>24. ASSUME NEW k \in Calls, DisposePop(k)
      PROVE  MarkedIsDead'
  BY <1>0, <1>k, <1>24 DEF DisposePop
<1>25. ASSUME NEW k \in Calls, DisposeSave(k)
      PROVE  MarkedIsDead'
  BY <1>0, <1>k, <1>25 DEF DisposeSave
<1>26. ASSUME NEW k \in Calls, FreezeLocks(k)
      PROVE  MarkedIsDead'
  BY <1>0, <1>k, <1>26 DEF FreezeLocks
<1>34. ASSUME NEW k \in Calls, Kill(k)
      PROVE  MarkedIsDead'
  BY <1>0, <1>k, <1>34 DEF Kill
<1>27. ASSUME NEW k \in Calls, Freeze(k)
      PROVE  MarkedIsDead'
  BY <1>0, <1>k, <1>27 DEF Freeze
<1>28. ASSUME NEW k \in Calls, KillRaises(k)
      PROVE  MarkedIsDead'
  BY <1>0, <1>k, <1>28 DEF KillRaises
<1>29. ASSUME NEW k \in Calls, FreezeSave(k)
      PROVE  MarkedIsDead'
  BY <1>0, <1>k, <1>29 DEF FreezeSave
<1>30. CASE Restart
  BY <1>0, <1>k, <1>30 DEF Restart
<1>31. CASE UNCHANGED boxVars
  BY <1>31 DEF boxVars
<1> QED
  BY <1>1, <1>2, <1>3, <1>4, <1>5, <1>6, <1>7, <1>8, <1>9, <1>10, <1>11, <1>12, <1>13, <1>14,
     <1>15, <1>16, <1>17, <1>18, <1>19, <1>20, <1>21, <1>22, <1>23, <1>24, <1>25, <1>26, <1>27,
     <1>28, <1>29, <1>30, <1>31, <1>32, <1>33, <1>34
  DEF BoxesNext, CallStep, Request

\* What is being made is known to nobody else, in every reachable state.
THEOREM MakersAreAlone == BoxesSpec => []Unmade
<1>1. BoxesInit => Unmade
  BY NoBoxIsNoBox DEF BoxesInit, Unmade, Leased
<1> QED BY <1>1, UnmadeIsKept, BaseInvariant, PTL DEF BoxesSpec

LEMMA MarkedStaysDead == BoxesSpec => []MarkedIsDead
<1>1. BoxesInit => MarkedIsDead
  BY DEF BoxesInit, MarkedIsDead
<1> QED BY <1>1, FrozenIsKept, BaseInvariant, MakersAreAlone, PTL DEF BoxesSpec

-----------------------------------------------------------------------------
\* Where the saved table may differ from the table, and for which marks.
Current ==
    /\ \A t \in Tasks : file.lease[t] # lease[t] => \E k \in Calls :
          /\ for[k] = t
          /\ \/ at[k] = "save" /\ lease[t] = mine[k]
             \/ at[k] = "popSave" /\ lease[t] = NoBox
    /\ \A c \in (frozen \cap Leased) \ file.frozen :
          \E k \in Calls : mine[k] = c /\ at[k] = "freezeSave"

\* Every step that changes the table or a mark goes on to save it.
LEMMA CurrentIsKept ==
    ASSUME Base, Unmade, Current, [BoxesNext]_boxVars
    PROVE  Current'
<1>0. /\ lease \in [Tasks -> Boxes \cup {NoBox}] /\ frozen \subseteq Boxes
      /\ file \in [lease : [Tasks -> Boxes \cup {NoBox}], frozen : SUBSET Boxes]
      /\ box \in [Boxes -> BoxStates] /\ at \in [Calls -> CallPlaces]
      /\ boxTask \in [Boxes -> Tasks \cup {NoBox}]
      /\ for \in [Calls -> Tasks \cup {NoBox}] /\ mine \in [Calls -> Boxes \cup {NoBox}]
      /\ target \in [Calls -> Boxes \cup {NoBox}]
  BY DEF Base, BoxesTypeOK
<1>k. CallsKnow /\ Guarded /\ BoxesAreKnown
  BY DEF Base

<1> USE NoBoxIsNoBox
<1> USE DEF engineVars, tableVars, historyVars, sealVars, Step, Over, Disposed, Free, Guard, Unguard, Leased,
            Idle, Owning, Making, Targeting, CallsKnow, Guarded, Unmade, Current
<1>1. ASSUME NEW k \in Calls, NEW t \in Tasks, ExecuteNew(k, t)
      PROVE  Current'
  BY <1>0, <1>k, <1>1 DEF ExecuteNew
<1>2. ASSUME NEW k \in Calls, NEW t \in Tasks, ExecuteAgain(k, t)
      PROVE  Current'
  BY <1>0, <1>k, <1>2 DEF ExecuteAgain
<1>3. ASSUME NEW k \in Calls, NEW t \in Tasks, DisposeNew(k, t)
      PROVE  Current'
  BY <1>0, <1>k, <1>3 DEF DisposeNew
<1>4. ASSUME NEW k \in Calls, NEW t \in Tasks, FreezeRead(k, t)
      PROVE  Current'
  BY <1>0, <1>k, <1>4 DEF FreezeRead
<1>5. ASSUME NEW k \in Calls, CreateNetwork(k)
      PROVE  Current'
  BY <1>0, <1>k, <1>5 DEF CreateNetwork
<1>6. ASSUME NEW k \in Calls, CreateNetworkRaises(k)
      PROVE  Current'
  BY <1>0, <1>k, <1>6 DEF CreateNetworkRaises
<1>7. ASSUME NEW k \in Calls, CreateBox(k)
      PROVE  Current'
  BY <1>0, <1>k, <1>7 DEF CreateBox
<1>8. ASSUME NEW k \in Calls, CreateBoxRaises(k)
      PROVE  Current'
  BY <1>0, <1>k, <1>8 DEF CreateBoxRaises
<1>32. ASSUME NEW k \in Calls, StartRaises(k)
      PROVE  Current'
  BY <1>0, <1>k, <1>32 DEF StartRaises
<1>9. ASSUME NEW k \in Calls, CleanupBox(k)
      PROVE  Current'
  BY <1>0, <1>k, <1>9 DEF CleanupBox
<1>33. ASSUME NEW k \in Calls, CleanupNetwork(k)
      PROVE  Current'
  BY <1>0, <1>k, <1>33 DEF CleanupNetwork
<1>10. ASSUME NEW k \in Calls, Register(k)
      PROVE  Current'
  BY <1>0, <1>k, <1>10 DEF Register
<1>11. ASSUME NEW k \in Calls, RegisterSave(k)
      PROVE  Current'
  <2>1. file'.frozen = frozen \cap Leased /\ file'.lease = lease
    BY <1>11 DEF RegisterSave, Save
  <2> QED BY <1>0, <1>k, <2>1, <1>11 DEF RegisterSave
<1>12. ASSUME NEW k \in Calls, AcquireSlot(k)
      PROVE  Current'
  BY <1>0, <1>k, <1>12 DEF AcquireSlot
<1>13. ASSUME NEW k \in Calls, SlotTimesOut(k)
      PROVE  Current'
  BY <1>0, <1>k, <1>13 DEF SlotTimesOut
<1>14. ASSUME NEW k \in Calls, ExecuteLocks(k)
      PROVE  Current'
  BY <1>0, <1>k, <1>14 DEF ExecuteLocks
<1>15. ASSUME NEW k \in Calls, ScriptStarts(k)
      PROVE  Current'
  BY <1>0, <1>k, <1>15 DEF ScriptStarts
<1>16. ASSUME NEW k \in Calls, ScriptIsRefused(k)
      PROVE  Current'
  BY <1>0, <1>k, <1>16 DEF ScriptIsRefused
<1>17. ASSUME NEW k \in Calls, ScriptEnds(k)
      PROVE  Current'
  BY <1>0, <1>k, <1>17 DEF ScriptEnds
<1>18. ASSUME NEW k \in Calls, ScriptRaises(k)
      PROVE  Current'
  BY <1>0, <1>k, <1>18 DEF ScriptRaises
<1>19. ASSUME NEW k \in Calls, Finally(k)
      PROVE  Current'
  BY <1>0, <1>k, <1>19 DEF Finally
<1>20. ASSUME NEW k \in Calls, DisposeRead(k)
      PROVE  Current'
  BY <1>0, <1>k, <1>20 DEF DisposeRead
<1>21. ASSUME NEW k \in Calls, DisposeBox(k)
      PROVE  Current'
  BY <1>0, <1>k, <1>21 DEF DisposeBox
<1>22. ASSUME NEW k \in Calls, DisposeNetwork(k)
      PROVE  Current'
  BY <1>0, <1>k, <1>22 DEF DisposeNetwork
<1>23. ASSUME NEW k \in Calls, DisposeRaises(k)
      PROVE  Current'
  BY <1>0, <1>k, <1>23 DEF DisposeRaises
<1>24. ASSUME NEW k \in Calls, DisposePop(k)
      PROVE  Current'
  BY <1>0, <1>k, <1>24 DEF DisposePop
<1>25. ASSUME NEW k \in Calls, DisposeSave(k)
      PROVE  Current'
  <2>1. file'.frozen = frozen \cap Leased /\ file'.lease = lease
    BY <1>25 DEF DisposeSave, Save
  <2> QED BY <1>0, <1>k, <2>1, <1>25 DEF DisposeSave
<1>26. ASSUME NEW k \in Calls, FreezeLocks(k)
      PROVE  Current'
  BY <1>0, <1>k, <1>26 DEF FreezeLocks
<1>34. ASSUME NEW k \in Calls, Kill(k)
      PROVE  Current'
  BY <1>0, <1>k, <1>34 DEF Kill
<1>27. ASSUME NEW k \in Calls, Freeze(k)
      PROVE  Current'
  BY <1>0, <1>k, <1>27 DEF Freeze
<1>28. ASSUME NEW k \in Calls, KillRaises(k)
      PROVE  Current'
  BY <1>0, <1>k, <1>28 DEF KillRaises
<1>29. ASSUME NEW k \in Calls, FreezeSave(k)
      PROVE  Current'
  <2>1. file'.frozen = frozen \cap Leased /\ file'.lease = lease
    BY <1>29 DEF FreezeSave, Save
  <2> QED BY <1>0, <1>k, <2>1, <1>29 DEF FreezeSave
<1>30. CASE Restart
  BY <1>0, <1>k, <1>30 DEF Restart
<1>31. CASE UNCHANGED boxVars
  BY <1>31 DEF boxVars
<1> QED
  BY <1>1, <1>2, <1>3, <1>4, <1>5, <1>6, <1>7, <1>8, <1>9, <1>10, <1>11, <1>12, <1>13, <1>14,
     <1>15, <1>16, <1>17, <1>18, <1>19, <1>20, <1>21, <1>22, <1>23, <1>24, <1>25, <1>26, <1>27,
     <1>28, <1>29, <1>30, <1>31, <1>32, <1>33, <1>34
  DEF BoxesNext, CallStep, Request

-----------------------------------------------------------------------------
\* A call that disposes of a container, unless another one does at the same
\* time, knows the lease the task has; it pops it only when the container is gone.
Left ==
    /\ NothingLeftBehind
    /\ \A k \in Calls :
          /\ at[k] \in {"network", "create", "cleanup", "cleanupNet", "register"} => lease[for[k]] = NoBox
          /\ at[k] = "save" => lease[for[k]] = mine[k]
          /\ at[k] \in {"remove", "unnet", "unnetRaise", "pop"} /\ for[k] \notin excused
                => lease[for[k]] = target[k]
          /\ at[k] \in {"unnet", "pop"} => target[k] \notin Alive
          /\ \A j \in Calls :
                j # k /\ for[j] = for[k] /\ target[j] # NoBox /\ target[k] # NoBox
                   => for[k] \in excused

\* No step lets go of a container that is alive, but for the four cases.
LEMMA LeftIsKept ==
    ASSUME Base, Unmade, Current, Left, [BoxesNext]_boxVars
    PROVE  Left'
<1>0. /\ lease \in [Tasks -> Boxes \cup {NoBox}] /\ frozen \subseteq Boxes
      /\ file \in [lease : [Tasks -> Boxes \cup {NoBox}], frozen : SUBSET Boxes]
      /\ box \in [Boxes -> BoxStates] /\ at \in [Calls -> CallPlaces]
      /\ boxTask \in [Boxes -> Tasks \cup {NoBox}]
      /\ for \in [Calls -> Tasks \cup {NoBox}] /\ mine \in [Calls -> Boxes \cup {NoBox}]
      /\ target \in [Calls -> Boxes \cup {NoBox}]
  BY DEF Base, BoxesTypeOK
<1>k. CallsKnow /\ Guarded /\ BoxesAreKnown
  BY DEF Base

<1> USE NoBoxIsNoBox
<1> USE DEF engineVars, tableVars, historyVars, sealVars, Step, Over, Disposed, Free, Guard, Unguard, 
            Idle, Owning, Making, Targeting, CallsKnow, Guarded, BoxesAreKnown, Unmade, NothingLeftBehind, Left, Alive, Creating
<1>1. ASSUME NEW k \in Calls, NEW t \in Tasks, ExecuteNew(k, t)
      PROVE  Left'
  BY <1>0, <1>k, <1>1 DEF ExecuteNew
<1>2. ASSUME NEW k \in Calls, NEW t \in Tasks, ExecuteAgain(k, t)
      PROVE  Left'
  BY <1>0, <1>k, <1>2 DEF ExecuteAgain
<1>3. ASSUME NEW k \in Calls, NEW t \in Tasks, DisposeNew(k, t)
      PROVE  Left'
  BY <1>0, <1>k, <1>3 DEF DisposeNew
<1>4. ASSUME NEW k \in Calls, NEW t \in Tasks, FreezeRead(k, t)
      PROVE  Left'
  BY <1>0, <1>k, <1>4 DEF FreezeRead
<1>5. ASSUME NEW k \in Calls, CreateNetwork(k)
      PROVE  Left'
  BY <1>0, <1>k, <1>5 DEF CreateNetwork
<1>6. ASSUME NEW k \in Calls, CreateNetworkRaises(k)
      PROVE  Left'
  BY <1>0, <1>k, <1>6 DEF CreateNetworkRaises
<1>7. ASSUME NEW k \in Calls, CreateBox(k)
      PROVE  Left'
  BY <1>0, <1>k, <1>7 DEF CreateBox
<1>8. ASSUME NEW k \in Calls, CreateBoxRaises(k)
      PROVE  Left'
  BY <1>0, <1>k, <1>8 DEF CreateBoxRaises
<1>32. ASSUME NEW k \in Calls, StartRaises(k)
      PROVE  Left'
  BY <1>0, <1>k, <1>32 DEF StartRaises
<1>9. ASSUME NEW k \in Calls, CleanupBox(k)
      PROVE  Left'
  <2>0. at[k] = "cleanup" /\ mine[k] \in Boxes /\ boxTask[mine[k]] = for[k]
    BY <1>0, <1>k, <1>9 DEF CleanupBox
  <2>1. /\ Alive' \subseteq Alive /\ (mine[k] \in Alive' => for[k] \in excused')
        /\ excused \subseteq excused' /\ UNCHANGED <<lease, boxTask>>
    BY <1>0, <2>0, <1>9 DEF CleanupBox, RemovedBox
  <2>2. /\ \/ at'[k] = "over" /\ target'[k] = NoBox
           \/ /\ at'[k] = "cleanupNet" /\ mine'[k] = mine[k] /\ for'[k] = for[k]
              /\ target'[k] = target[k]
        /\ \A j \in Calls : j # k => /\ at'[j] = at[j] /\ mine'[j] = mine[j] /\ for'[j] = for[j]
                                     /\ target'[j] = target[j]
    BY <1>0, <1>9 DEF CleanupBox
  <2>3. NothingLeftBehind'
    <3> SUFFICES ASSUME NEW c \in Alive'
                 PROVE  lease[boxTask[c]] = c \/ c \in Creating' \/ boxTask[c] \in excused'
      BY <2>1
    <3>1. c \in Alive /\ (lease[boxTask[c]] = c \/ c \in Creating \/ boxTask[c] \in excused)
      BY <2>1
    <3>2. c \in Creating => c \in Creating' \/ c = mine[k]
      BY <2>0, <2>2
    <3> QED BY <2>0, <2>1, <3>1, <3>2
  <2>4. ASSUME NEW i \in Calls
        PROVE  /\ at'[i] \in {"network", "create", "cleanup", "cleanupNet", "register"} => lease'[for'[i]] = NoBox
               /\ at'[i] = "save" => lease'[for'[i]] = mine'[i]
               /\ at'[i] \in {"remove", "unnet", "unnetRaise", "pop"} /\ for'[i] \notin excused'
                     => lease'[for'[i]] = target'[i]
               /\ at'[i] \in {"unnet", "pop"} => target'[i] \notin Alive'
               /\ \A j \in Calls :
                     j # i /\ for'[j] = for'[i] /\ target'[j] # NoBox /\ target'[i] # NoBox
                        => for'[i] \in excused'
    <3>1. CASE i = k
      BY <1>k, <2>0, <2>1, <2>2, <3>1
    <3>2. CASE i # k
      <4>1. at'[i] = at[i] /\ mine'[i] = mine[i] /\ for'[i] = for[i] /\ target'[i] = target[i]
        BY <2>2, <3>2
      <4>2. \A j \in Calls : target'[j] # NoBox => target'[j] = target[j] /\ for'[j] = for[j]
        BY <2>2
      <4> QED BY <2>1, <4>1, <4>2
    <3> QED BY <3>1, <3>2
  <2> HIDE DEF NothingLeftBehind
  <2> QED BY <2>3, <2>4
<1>33. ASSUME NEW k \in Calls, CleanupNetwork(k)
      PROVE  Left'
  BY <1>0, <1>k, <1>33 DEF CleanupNetwork
<1>10. ASSUME NEW k \in Calls, Register(k)
      PROVE  Left'
  BY <1>0, <1>k, <1>10 DEF Register
<1>11. ASSUME NEW k \in Calls, RegisterSave(k)
      PROVE  Left'
  BY <1>0, <1>k, <1>11 DEF RegisterSave
<1>12. ASSUME NEW k \in Calls, AcquireSlot(k)
      PROVE  Left'
  BY <1>0, <1>k, <1>12 DEF AcquireSlot
<1>13. ASSUME NEW k \in Calls, SlotTimesOut(k)
      PROVE  Left'
  BY <1>0, <1>k, <1>13 DEF SlotTimesOut
<1>14. ASSUME NEW k \in Calls, ExecuteLocks(k)
      PROVE  Left'
  BY <1>0, <1>k, <1>14 DEF ExecuteLocks
<1>15. ASSUME NEW k \in Calls, ScriptStarts(k)
      PROVE  Left'
  BY <1>0, <1>k, <1>15 DEF ScriptStarts
<1>16. ASSUME NEW k \in Calls, ScriptIsRefused(k)
      PROVE  Left'
  BY <1>0, <1>k, <1>16 DEF ScriptIsRefused
<1>17. ASSUME NEW k \in Calls, ScriptEnds(k)
      PROVE  Left'
  BY <1>0, <1>k, <1>17 DEF ScriptEnds
<1>18. ASSUME NEW k \in Calls, ScriptRaises(k)
      PROVE  Left'
  BY <1>0, <1>k, <1>18 DEF ScriptRaises
<1>19. ASSUME NEW k \in Calls, Finally(k)
      PROVE  Left'
  BY <1>0, <1>k, <1>19 DEF Finally
<1>20. ASSUME NEW k \in Calls, DisposeRead(k)
      PROVE  Left'
  <2>0. at[k] = "disposing" /\ guard = NoBox /\ UNCHANGED <<lease, box, boxTask>>
    BY <1>20 DEF DisposeRead
  <2>n. \A j \in Calls : at[j] \notin Making \cup {"network", "popSave"}
    BY <1>k, <2>0
  <2>1. CASE lease[for[k]] = NoBox
    BY <1>0, <1>k, <2>0, <2>1, <1>20 DEF DisposeRead
  <2>2. CASE lease[for[k]] # NoBox
    <3>1. /\ at' = [at EXCEPT ![k] = "remove"] /\ target' = [target EXCEPT ![k] = lease[for[k]]]
          /\ excused' = IF Overlaps(k) THEN excused \cup {for[k]} ELSE excused
          /\ UNCHANGED <<for, mine>>
      BY <2>2, <1>20 DEF DisposeRead
    <3>2. \A j \in Calls : j # k /\ for[j] = for[k] /\ target[j] # NoBox => for[k] \in excused'
      BY <3>1 DEF Overlaps
    <3> QED BY <1>0, <2>0, <2>n, <3>1, <3>2
  <2> QED BY <2>1, <2>2
<1>21. ASSUME NEW k \in Calls, DisposeBox(k)
      PROVE  Left'
  <2>0. at[k] = "remove" /\ target[k] \in Boxes
    BY <1>k, <1>21 DEF DisposeBox
  <2>1. Alive' \subseteq Alive /\ (at'[k] = "unnet" => target[k] \notin Alive')
    BY <1>0, <2>0, <1>21 DEF DisposeBox, RemovedBox
  <2>2. /\ UNCHANGED <<lease, boxTask, for, mine, target, excused>>
        /\ at'[k] \in {"unnet", "unnetRaise"} /\ \A j \in Calls : j # k => at'[j] = at[j]
    BY <1>0, <1>21 DEF DisposeBox
  <2> QED BY <2>0, <2>1, <2>2
<1>22. ASSUME NEW k \in Calls, DisposeNetwork(k)
      PROVE  Left'
  BY <1>0, <1>k, <1>22 DEF DisposeNetwork
<1>23. ASSUME NEW k \in Calls, DisposeRaises(k)
      PROVE  Left'
  BY <1>0, <1>k, <1>23 DEF DisposeRaises
<1>24. ASSUME NEW k \in Calls, DisposePop(k)
      PROVE  Left'
  BY <1>0, <1>k, <1>24 DEF DisposePop
<1>25. ASSUME NEW k \in Calls, DisposeSave(k)
      PROVE  Left'
  BY <1>0, <1>k, <1>25 DEF DisposeSave
<1>26. ASSUME NEW k \in Calls, FreezeLocks(k)
      PROVE  Left'
  BY <1>0, <1>k, <1>26 DEF FreezeLocks
<1>34. ASSUME NEW k \in Calls, Kill(k)
      PROVE  Left'
  <2>0. at[k] = "freezing" /\ at'[k] = "marking" /\ mine[k] \in Boxes
    BY <1>0, <1>k, <1>34 DEF Kill
  <2>1. Alive' = Alive
    BY <1>0, <2>0, <1>34 DEF Kill, Killed
  <2>2. /\ UNCHANGED <<lease, boxTask, for, mine, target, excused>>
        /\ \A j \in Calls : j # k => at'[j] = at[j]
    BY <1>0, <1>34 DEF Kill
  <2> QED BY <2>0, <2>1, <2>2
<1>27. ASSUME NEW k \in Calls, Freeze(k)
      PROVE  Left'
  BY <1>0, <1>k, <1>27 DEF Freeze
<1>28. ASSUME NEW k \in Calls, KillRaises(k)
      PROVE  Left'
  <2>0. at[k] = "freezing" /\ at'[k] = "over" /\ mine[k] \in Boxes /\ target'[k] = NoBox
    BY <1>0, <1>k, <1>28 DEF KillRaises
  <2>1. Alive' = Alive
    BY <1>0, <2>0, <1>28 DEF KillRaises, Killed
  <2>2. /\ UNCHANGED <<lease, boxTask, excused>>
        /\ \A j \in Calls : j # k => /\ at'[j] = at[j] /\ mine'[j] = mine[j] /\ for'[j] = for[j]
                                     /\ target'[j] = target[j]
    BY <1>0, <1>28 DEF KillRaises
  <2> QED BY <2>0, <2>1, <2>2
<1>29. ASSUME NEW k \in Calls, FreezeSave(k)
      PROVE  Left'
  BY <1>0, <1>k, <1>29 DEF FreezeSave
<1>30. CASE Restart
  <2>1. \A j \in Calls : at'[j] \in {"new", "over"} /\ target'[j] = NoBox
    BY <1>30 DEF Restart
  <2>2. PICK known \in SUBSET Alive :
           /\ lease' = [t \in Tasks |-> IF file.lease[t] \in known THEN file.lease[t] ELSE NoBox]
           /\ excused' = excused \cup {boxTask[c] : c \in Creating \cup (Alive \ known)}
    BY <1>30 DEF Restart
  <2>3. box' = box /\ boxTask' = boxTask
    BY <1>30 DEF Restart
  <2>4. NothingLeftBehind'
    <3> SUFFICES ASSUME NEW c \in Alive, boxTask[c] \notin excused'
                 PROVE  lease'[boxTask[c]] = c
      BY <2>3
    <3> DEFINE t == boxTask[c]
    <3>1. c \in known /\ c \notin Creating /\ t \in Tasks
      BY <1>0, <1>k, <2>2
    <3>2. lease[t] = c
      BY <2>2, <3>1
    <3>3. file.lease[t] = c
      BY <3>1, <3>2 DEF Current
    <3> QED BY <2>2, <3>1, <3>3
  <2> HIDE DEF NothingLeftBehind
  <2> QED BY <2>1, <2>4
<1>31. CASE UNCHANGED boxVars
  BY <1>31 DEF boxVars
<1> QED
  BY <1>1, <1>2, <1>3, <1>4, <1>5, <1>6, <1>7, <1>8, <1>9, <1>10, <1>11, <1>12, <1>13, <1>14,
     <1>15, <1>16, <1>17, <1>18, <1>19, <1>20, <1>21, <1>22, <1>23, <1>24, <1>25, <1>26, <1>27,
     <1>28, <1>29, <1>30, <1>31, <1>32, <1>33, <1>34
  DEF BoxesNext, CallStep, Request

\* The saved table is the table whenever nobody is changing it, and a mark that
\* is not saved is about to be: a manager that dies finds its leases and their
\* marks again (task_containers.py:185-222, task_lease_store.py).
THEOREM TableIsSaved == BoxesSpec => []FileIsCurrent
<1>1. BoxesInit => Current
  BY DEF BoxesInit, Current
<1>2. Base /\ Current => FileIsCurrent
  <2> SUFFICES ASSUME Base, Current, guard = NoBox
               PROVE  /\ file.lease = lease
                      /\ \A c \in (frozen \cap Leased) \ file.frozen :
                            \E k \in Calls : mine[k] = c /\ at[k] = "freezeSave"
    BY DEF FileIsCurrent
  <2>1. \A k \in Calls : at[k] \notin {"save", "popSave"}
    BY NoBoxIsNoBox DEF Base, Guarded, Making
  <2>2. /\ lease \in [Tasks -> Boxes \cup {NoBox}]
        /\ file.lease \in [Tasks -> Boxes \cup {NoBox}]
    BY DEF Base, BoxesTypeOK
  <2>3. \A t \in Tasks : file.lease[t] = lease[t]
    BY <2>1 DEF Current
  <2> QED BY <2>2, <2>3 DEF Current
<1> QED BY <1>1, <1>2, CurrentIsKept, BaseInvariant, MakersAreAlone, PTL DEF BoxesSpec

LEMMA NothingIsLetGo == BoxesSpec => []Left
<1>1. BoxesInit => Current /\ Left
  BY DEF BoxesInit, Current, Left, NothingLeftBehind, Alive
<1>2. BoxesSpec => []Current
  BY <1>1, CurrentIsKept, BaseInvariant, MakersAreAlone, PTL DEF BoxesSpec
<1> QED BY <1>1, <1>2, LeftIsKept, BaseInvariant, MakersAreAlone, PTL DEF BoxesSpec

\* A container outlives its lease only when the manager died while making it or
\* the engine did not answer its successor, the answer to its creation was lost,
\* its removal after a failed start raised, or two disposals of one task
\* overlapped (task_containers.py:46-105, 141-183, 224-312).
THEOREM NoContainerIsLost == BoxesSpec => []NothingLeftBehind
<1>1. Left => NothingLeftBehind
  BY DEF Left
<1> QED BY <1>1, NothingIsLetGo, PTL

-----------------------------------------------------------------------------
\* The engine refuses a second container of a name, so a task has at most one
\* that is alive, and if it has a lease it is the lease's.
Named ==
    /\ \A b, c \in Alive : boxTask[b] = boxTask[c] => b = c
    /\ \A t \in Tasks : /\ lease[t] # NoBox => boxTask[lease[t]] = t
                        /\ file.lease[t] # NoBox => boxTask[file.lease[t]] = t
    /\ \A t \in Tasks, b \in Alive : lease[t] # NoBox /\ boxTask[b] = t => b = lease[t]
    /\ \A k \in Calls : at[k] = "register" => mine[k] \in Alive

\* Most steps make no container and give no lease.
NamesQuiet ==
    /\ Alive' \subseteq Alive
    /\ \A c \in Boxes : boxTask[c] = NoBox \/ boxTask'[c] = boxTask[c]
    /\ \A t \in Tasks : /\ lease'[t] \in {lease[t], NoBox}
                        /\ file'.lease[t] \in {file.lease[t], lease[t]}
    /\ \A k \in Calls : at'[k] = "register"
          => at[k] = "register" /\ mine'[k] = mine[k] /\ mine[k] \in Alive'

LEMMA QuietKeepsNames ==
    ASSUME Base, Named, NamesQuiet
    PROVE  Named'
<1>0. /\ lease \in [Tasks -> Boxes \cup {NoBox}] /\ boxTask \in [Boxes -> Tasks \cup {NoBox}]
      /\ file.lease \in [Tasks -> Boxes \cup {NoBox}] /\ Alive \subseteq Boxes
      /\ \A c \in Alive : boxTask[c] # NoBox
      /\ NoBox \notin Tasks
  BY NoBoxIsNoBox DEF Base, BoxesTypeOK, BoxesAreKnown, Alive
<1>1. \A c \in Alive' : c \in Alive /\ boxTask'[c] = boxTask[c]
  BY <1>0 DEF NamesQuiet
<1>2. \A b, c \in Alive' : boxTask'[b] = boxTask'[c] => b = c
  BY <1>1 DEF Named
<1>3. ASSUME NEW t \in Tasks
      PROVE  /\ lease'[t] # NoBox => boxTask'[lease'[t]] = t
             /\ file'.lease[t] # NoBox => boxTask'[file'.lease[t]] = t
  <2>1. ASSUME NEW c \in Boxes, boxTask[c] = t
        PROVE  boxTask'[c] = t
    BY <1>0, <2>1 DEF NamesQuiet
  <2>2. /\ lease'[t] # NoBox => lease'[t] \in Boxes /\ boxTask[lease'[t]] = t
        /\ file'.lease[t] # NoBox => file'.lease[t] \in Boxes /\ boxTask[file'.lease[t]] = t
    BY <1>0 DEF NamesQuiet, Named
  <2> QED BY <2>1, <2>2
<1>4. ASSUME NEW t \in Tasks, NEW b \in Alive', lease'[t] # NoBox, boxTask'[b] = t
      PROVE  b = lease'[t]
  BY <1>1, <1>4 DEF NamesQuiet, Named
<1>5. ASSUME NEW k \in Calls, at'[k] = "register"
      PROVE  mine'[k] \in Alive'
  BY <1>5 DEF NamesQuiet
<1> QED BY <1>2, <1>3, <1>4, <1>5 DEF Named

\* A container is made only under a free name for a task without a lease.
LEMMA MakingKeepsNames ==
    ASSUME Base, Unmade, Named, NEW k \in Calls, at[k] = "create", lease[for[k]] = NoBox,
           ~BoxNamed(for[k]), Alive' = Alive \cup {mine[k]},
           UNCHANGED <<boxTask, lease, file, mine>>,
           \A j \in Calls : j # k => at'[j] = at[j]
    PROVE  Named'
<1>0. /\ lease \in [Tasks -> Boxes \cup {NoBox}] /\ mine[k] \in Boxes /\ for[k] \in Tasks
      /\ boxTask[mine[k]] = for[k] /\ Alive \subseteq Boxes
  BY DEF Base, BoxesTypeOK, CallsKnow, Owning, Making, Idle, BoxesAreKnown, Alive
<1>1. \A c \in Alive : boxTask[c] # for[k]
  BY DEF BoxNamed
<1>2. ASSUME NEW b \in Alive', NEW c \in Alive', boxTask[b] = boxTask[c]
      PROVE  b = c
  BY <1>0, <1>1, <1>2 DEF Named
<1>3. ASSUME NEW t \in Tasks, NEW b \in Alive', lease[t] # NoBox, boxTask[b] = t
      PROVE  b = lease[t]
  BY <1>0, <1>3 DEF Named
<1>4. ASSUME NEW j \in Calls, at'[j] = "register"
      PROVE  mine[j] \in Alive'
  BY <1>4 DEF Named
<1> QED BY <1>2, <1>3, <1>4 DEF Named

LEMMA NamedIsKept ==
    ASSUME Base, Unmade, Left, Named, [BoxesNext]_boxVars
    PROVE  Named'
<1>0. /\ lease \in [Tasks -> Boxes \cup {NoBox}] /\ file.lease \in [Tasks -> Boxes \cup {NoBox}]
      /\ box \in [Boxes -> BoxStates] /\ at \in [Calls -> CallPlaces]
      /\ boxTask \in [Boxes -> Tasks \cup {NoBox}] /\ for \in [Calls -> Tasks \cup {NoBox}]
      /\ mine \in [Calls -> Boxes \cup {NoBox}]
  BY DEF Base, BoxesTypeOK
<1>1. \A k \in Calls : at[k] = "register" => mine[k] \in Alive
  BY DEF Named
<1> USE DEF engineVars, tableVars, Step, Over, Disposed, Save
<1>2. ASSUME NEW k \in Calls, NEW t \in Tasks, ExecuteNew(k, t)
      PROVE  Named'
  <2>1. NamesQuiet
    BY <1>0, <1>1, <1>2 DEF ExecuteNew, NamesQuiet, Alive
  <2> QED BY <2>1, QuietKeepsNames
<1>3. ASSUME NEW k \in Calls, NEW t \in Tasks, ExecuteAgain(k, t)
      PROVE  Named'
  <2>1. NamesQuiet
    BY <1>0, <1>1, <1>3 DEF ExecuteAgain, NamesQuiet, Alive
  <2> QED BY <2>1, QuietKeepsNames
<1>4. ASSUME NEW k \in Calls, NEW t \in Tasks, DisposeNew(k, t)
      PROVE  Named'
  <2>1. NamesQuiet
    BY <1>0, <1>1, <1>4 DEF DisposeNew, NamesQuiet, Alive
  <2> QED BY <2>1, QuietKeepsNames
<1>5. ASSUME NEW k \in Calls, NEW t \in Tasks, FreezeRead(k, t)
      PROVE  Named'
  <2>1. NamesQuiet
    BY <1>0, <1>1, <1>5 DEF FreezeRead, NamesQuiet, Alive
  <2> QED BY <2>1, QuietKeepsNames
<1>6. ASSUME NEW k \in Calls, CreateNetwork(k)
      PROVE  Named'
  <2>1. NamesQuiet
    BY <1>0, <1>1, <1>6 DEF CreateNetwork, NamesQuiet, Alive
  <2> QED BY <2>1, QuietKeepsNames
<1>7. ASSUME NEW k \in Calls, CreateNetworkRaises(k)
      PROVE  Named'
  <2>1. NamesQuiet
    BY <1>0, <1>1, <1>7 DEF CreateNetworkRaises, NamesQuiet, Alive
  <2> QED BY <2>1, QuietKeepsNames
<1>8. ASSUME NEW k \in Calls, CreateBox(k)
      PROVE  Named'
  <2>1. /\ at[k] = "create" /\ ~BoxNamed(for[k]) /\ UNCHANGED <<boxTask, lease, file, mine>>
        /\ \A j \in Calls : j # k => at'[j] = at[j]
    BY <1>0, <1>8 DEF CreateBox
  <2>2. lease[for[k]] = NoBox /\ mine[k] \in Boxes
    BY <2>1 DEF Left, Base, CallsKnow, Owning, Making
  <2>3. Alive' = Alive \cup {mine[k]}
    BY <1>0, <2>2, <1>8 DEF CreateBox, Alive
  <2> QED BY <2>1, <2>2, <2>3, MakingKeepsNames
<1>9. ASSUME NEW k \in Calls, CreateBoxRaises(k)
      PROVE  Named'
  <2>1. CASE UNCHANGED box
    <3>1. NamesQuiet
      BY <1>0, <1>1, <1>9, <2>1 DEF CreateBoxRaises, NamesQuiet, Alive
    <3> QED BY <3>1, QuietKeepsNames
  <2>2. CASE ~BoxNamed(for[k]) /\ box' = [box EXCEPT ![mine[k]] = "created"]
    <3>1. /\ at[k] = "create" /\ UNCHANGED <<boxTask, lease, file, mine>>
          /\ \A j \in Calls : j # k => at'[j] = at[j]
      BY <1>0, <1>9 DEF CreateBoxRaises
    <3>2. lease[for[k]] = NoBox /\ mine[k] \in Boxes
      BY <3>1 DEF Left, Base, CallsKnow, Owning, Making
    <3>3. Alive' = Alive \cup {mine[k]}
      BY <1>0, <2>2, <3>2 DEF Alive
    <3> QED BY <2>2, <3>1, <3>2, <3>3, MakingKeepsNames
  <2> QED BY <1>9, <2>1, <2>2 DEF CreateBoxRaises
<1>10. ASSUME NEW k \in Calls, StartRaises(k)
      PROVE  Named'
  <2>1. /\ at[k] = "create" /\ ~BoxNamed(for[k]) /\ UNCHANGED <<boxTask, lease, file, mine>>
        /\ \A j \in Calls : j # k => at'[j] = at[j]
    BY <1>0, <1>10 DEF StartRaises
  <2>2. lease[for[k]] = NoBox /\ mine[k] \in Boxes
    BY <2>1 DEF Left, Base, CallsKnow, Owning, Making
  <2>3. Alive' = Alive \cup {mine[k]}
    BY <1>0, <2>2, <1>10 DEF StartRaises, Alive
  <2> QED BY <2>1, <2>2, <2>3, MakingKeepsNames
<1>11. ASSUME NEW k \in Calls, CleanupBox(k)
      PROVE  Named'
  <2>1. at[k] = "cleanup" /\ mine[k] \in Boxes
    BY <1>11 DEF CleanupBox, Base, CallsKnow, Owning, Making
  <2>2. \A j \in Calls : at[j] # "register"
    BY <2>1 DEF Base, Guarded, Making
  <2>3. Alive' \subseteq Alive
    BY <1>0, <2>1, <1>11 DEF CleanupBox, RemovedBox, Alive
  <2>4. NamesQuiet
    BY <1>0, <2>2, <2>3, <1>11 DEF CleanupBox, NamesQuiet
  <2> QED BY <2>4, QuietKeepsNames
<1>12. ASSUME NEW k \in Calls, CleanupNetwork(k)
      PROVE  Named'
  <2>1. NamesQuiet
    BY <1>0, <1>1, <1>12 DEF CleanupNetwork, NamesQuiet, Alive
  <2> QED BY <2>1, QuietKeepsNames
<1>13. ASSUME NEW k \in Calls, Register(k)
      PROVE  Named'
  <2>1. /\ at[k] = "register" /\ for[k] \in Tasks /\ mine[k] \in Boxes
        /\ boxTask[mine[k]] = for[k] /\ mine[k] \in Alive
        /\ lease' = [lease EXCEPT ![for[k]] = mine[k]]
        /\ UNCHANGED <<box, boxTask, file, mine>>
        /\ \A j \in Calls : at'[j] = "register" => at[j] = "register"
    BY <1>0, <1>1, <1>13 DEF Register, Base, CallsKnow, Owning, Making, Idle, BoxesAreKnown
  <2>2. Alive' = Alive
    BY <2>1 DEF Alive
  <2>3. ASSUME NEW t \in Tasks, NEW b \in Alive', lease'[t] # NoBox, boxTask[b] = t
        PROVE  b = lease'[t]
    <3>1. CASE t = for[k]
      BY <1>0, <2>1, <2>2, <2>3, <3>1 DEF Named
    <3>2. CASE t # for[k]
      <4>1. lease'[t] = lease[t] /\ b \in Alive
        BY <1>0, <2>1, <2>2, <2>3, <3>2
      <4> QED BY <2>3, <4>1 DEF Named
    <3> QED BY <3>1, <3>2
  <2>4. \A t \in Tasks : lease'[t] # NoBox => boxTask[lease'[t]] = t
    BY <1>0, <2>1 DEF Named
  <2>5. /\ \A b, c \in Alive' : boxTask'[b] = boxTask'[c] => b = c
        /\ \A t \in Tasks : file'.lease[t] # NoBox => boxTask'[file'.lease[t]] = t
        /\ \A j \in Calls : at'[j] = "register" => mine'[j] \in Alive'
    BY <1>1, <2>1, <2>2 DEF Named
  <2> QED BY <2>1, <2>2, <2>3, <2>4, <2>5 DEF Named
<1>14. ASSUME NEW k \in Calls, RegisterSave(k)
      PROVE  Named'
  <2>1. NamesQuiet
    BY <1>0, <1>1, <1>14 DEF RegisterSave, NamesQuiet, Alive
  <2> QED BY <2>1, QuietKeepsNames
<1>15. ASSUME NEW k \in Calls, AcquireSlot(k)
      PROVE  Named'
  <2>1. NamesQuiet
    BY <1>0, <1>1, <1>15 DEF AcquireSlot, NamesQuiet, Alive
  <2> QED BY <2>1, QuietKeepsNames
<1>16. ASSUME NEW k \in Calls, SlotTimesOut(k)
      PROVE  Named'
  <2>1. NamesQuiet
    BY <1>0, <1>1, <1>16 DEF SlotTimesOut, NamesQuiet, Alive
  <2> QED BY <2>1, QuietKeepsNames
<1>17. ASSUME NEW k \in Calls, ExecuteLocks(k)
      PROVE  Named'
  <2>1. NamesQuiet
    BY <1>0, <1>1, <1>17 DEF ExecuteLocks, NamesQuiet, Alive
  <2> QED BY <2>1, QuietKeepsNames
<1>18. ASSUME NEW k \in Calls, ScriptStarts(k)
      PROVE  Named'
  <2>1. NamesQuiet
    BY <1>0, <1>1, <1>18 DEF ScriptStarts, NamesQuiet, Alive
  <2> QED BY <2>1, QuietKeepsNames
<1>19. ASSUME NEW k \in Calls, ScriptIsRefused(k)
      PROVE  Named'
  <2>1. NamesQuiet
    BY <1>0, <1>1, <1>19 DEF ScriptIsRefused, NamesQuiet, Alive
  <2> QED BY <2>1, QuietKeepsNames
<1>20. ASSUME NEW k \in Calls, ScriptEnds(k)
      PROVE  Named'
  <2>1. NamesQuiet
    BY <1>0, <1>1, <1>20 DEF ScriptEnds, NamesQuiet, Alive
  <2> QED BY <2>1, QuietKeepsNames
<1>21. ASSUME NEW k \in Calls, ScriptRaises(k)
      PROVE  Named'
  <2>1. NamesQuiet
    BY <1>0, <1>1, <1>21 DEF ScriptRaises, NamesQuiet, Alive
  <2> QED BY <2>1, QuietKeepsNames
<1>22. ASSUME NEW k \in Calls, Finally(k)
      PROVE  Named'
  <2>1. NamesQuiet
    BY <1>0, <1>1, <1>22 DEF Finally, NamesQuiet, Alive
  <2> QED BY <2>1, QuietKeepsNames
<1>23. ASSUME NEW k \in Calls, DisposeRead(k)
      PROVE  Named'
  <2>1. NamesQuiet
    BY <1>0, <1>1, <1>23 DEF DisposeRead, NamesQuiet, Alive
  <2> QED BY <2>1, QuietKeepsNames
<1>24. ASSUME NEW k \in Calls, DisposeBox(k)
      PROVE  Named'
  <2>1. at[k] = "remove" /\ target[k] \in Boxes
    BY <1>24 DEF DisposeBox, Base, CallsKnow, Targeting
  <2>2. Alive' \subseteq Alive /\ Alive \ Alive' \subseteq {target[k]}
    BY <1>0, <2>1, <1>24 DEF DisposeBox, RemovedBox, Alive
  <2>3. \A j \in Calls : at[j] = "register" => mine[j] \in Alive'
    BY <1>1, <2>2 DEF Unmade
  <2>4. NamesQuiet
    BY <1>0, <2>2, <2>3, <1>24 DEF DisposeBox, NamesQuiet
  <2> QED BY <2>4, QuietKeepsNames
<1>25. ASSUME NEW k \in Calls, DisposeNetwork(k)
      PROVE  Named'
  <2>1. NamesQuiet
    BY <1>0, <1>1, <1>25 DEF DisposeNetwork, NamesQuiet, Alive
  <2> QED BY <2>1, QuietKeepsNames
<1>26. ASSUME NEW k \in Calls, DisposeRaises(k)
      PROVE  Named'
  <2>1. NamesQuiet
    BY <1>0, <1>1, <1>26 DEF DisposeRaises, NamesQuiet, Alive
  <2> QED BY <2>1, QuietKeepsNames
<1>27. ASSUME NEW k \in Calls, DisposePop(k)
      PROVE  Named'
  <2>1. NamesQuiet
    BY <1>0, <1>1, <1>27 DEF DisposePop, NamesQuiet, Alive
  <2> QED BY <2>1, QuietKeepsNames
<1>28. ASSUME NEW k \in Calls, DisposeSave(k)
      PROVE  Named'
  <2>1. NamesQuiet
    BY <1>0, <1>1, <1>28 DEF DisposeSave, NamesQuiet, Alive
  <2> QED BY <2>1, QuietKeepsNames
<1>29. ASSUME NEW k \in Calls, FreezeLocks(k)
      PROVE  Named'
  <2>1. NamesQuiet
    BY <1>0, <1>1, <1>29 DEF FreezeLocks, NamesQuiet, Alive
  <2> QED BY <2>1, QuietKeepsNames
<1>30. ASSUME NEW k \in Calls, Kill(k)
      PROVE  Named'
  <2>1. mine[k] \in Boxes
    BY <1>30 DEF Kill, Base, CallsKnow, Owning
  <2>2. Alive' = Alive
    BY <1>0, <2>1, <1>30 DEF Kill, Killed, Alive
  <2>3. NamesQuiet
    BY <1>0, <1>1, <2>2, <1>30 DEF Kill, NamesQuiet
  <2> QED BY <2>3, QuietKeepsNames
<1>31. ASSUME NEW k \in Calls, KillRaises(k)
      PROVE  Named'
  <2>1. mine[k] \in Boxes
    BY <1>31 DEF KillRaises, Base, CallsKnow, Owning
  <2>2. Alive' = Alive
    BY <1>0, <2>1, <1>31 DEF KillRaises, Killed, Alive
  <2>3. NamesQuiet
    BY <1>0, <1>1, <2>2, <1>31 DEF KillRaises, NamesQuiet
  <2> QED BY <2>3, QuietKeepsNames
<1>32. ASSUME NEW k \in Calls, Freeze(k)
      PROVE  Named'
  <2>1. NamesQuiet
    BY <1>0, <1>1, <1>32 DEF Freeze, NamesQuiet, Alive
  <2> QED BY <2>1, QuietKeepsNames
<1>33. ASSUME NEW k \in Calls, FreezeSave(k)
      PROVE  Named'
  <2>1. NamesQuiet
    BY <1>0, <1>1, <1>33 DEF FreezeSave, NamesQuiet, Alive
  <2> QED BY <2>1, QuietKeepsNames
<1>34. CASE Restart
  <2> PICK known \in SUBSET Alive :
         /\ lease' = [t \in Tasks |-> IF file.lease[t] \in known THEN file.lease[t] ELSE NoBox]
         /\ file'.lease = lease'
    BY <1>34 DEF Restart
  <2>1. Alive' = Alive /\ boxTask' = boxTask /\ \A k \in Calls : at'[k] # "register"
    BY <1>34 DEF Restart, Alive
  <2>2. \A t \in Tasks : lease'[t] # NoBox => lease'[t] \in Alive /\ boxTask[lease'[t]] = t
    <3> SUFFICES ASSUME NEW t \in Tasks, lease'[t] # NoBox
                 PROVE  lease'[t] \in Alive /\ boxTask[lease'[t]] = t
      OBVIOUS
    <3>1. lease'[t] = file.lease[t] /\ file.lease[t] \in known
      OBVIOUS
    <3>2. file.lease[t] # NoBox
      BY <3>1, NoBoxIsNoBox DEF Alive
    <3> QED BY <3>1, <3>2 DEF Named
  <2>3. \A b, c \in Alive' : boxTask'[b] = boxTask'[c] => b = c
    BY <2>1 DEF Named
  <2>4. ASSUME NEW t \in Tasks, NEW b \in Alive', lease'[t] # NoBox, boxTask'[b] = t
        PROVE  b = lease'[t]
    BY <2>1, <2>2, <2>3, <2>4
  <2> QED BY <2>1, <2>2, <2>3, <2>4 DEF Named
<1>35. CASE UNCHANGED boxVars
  <2>1. NamesQuiet
    BY <1>1, <1>35 DEF boxVars, NamesQuiet, Alive
  <2> QED BY <2>1, QuietKeepsNames
<1> QED
  BY <1>2, <1>3, <1>4, <1>5, <1>6, <1>7, <1>8, <1>9, <1>10, <1>11, <1>12, <1>13, <1>14,
     <1>15, <1>16, <1>17, <1>18, <1>19, <1>20, <1>21, <1>22, <1>23, <1>24, <1>25, <1>26,
     <1>27, <1>28, <1>29, <1>30, <1>31, <1>32, <1>33, <1>34, <1>35
  DEF BoxesNext, CallStep, Request

LEMMA NamesAreUnique == BoxesSpec => []Named
<1>1. BoxesInit => Named
  BY DEF BoxesInit, Named, Alive
<1> QED BY <1>1, NamedIsKept, NothingIsLetGo, BaseInvariant, MakersAreAlone, PTL DEF BoxesSpec

-----------------------------------------------------------------------------
\* A call that may still be under way for a task that is frozen: another freeze, a
\* client's disposal, and an execute that was admitted before.
Allowed(k) ==
    \/ at[k] \in {"freezeLock", "freezing", "marking", "freezeSave"}
    \/ at[k] = "disposing" /\ mine[k] = NoBox
    \/ k \in early /\ at[k] \in {"slot", "lock", "exec", "running", "disposing", "finally"}

\* What a frozen task keeps, in the table and as saved, until it is disposed of.
SealedOf(t) ==
    /\ lease[t] \in frozen
    /\ file.lease[t] = lease[t] /\ lease[t] \in file.frozen
    /\ \A k \in Calls : for[k] = t => Allowed(k)
    /\ \A c \in Boxes : boxTask[c] = t => box[c] # "running"

Sealing == \A t \in sealed : SealedOf(t)

\* A step of call k that leaves such a task as it is.
Keeps(t, k) ==
    /\ \A j \in Calls : j # k => at'[j] = at[j] /\ for'[j] = for[j] /\ mine'[j] = mine[j]
    /\ early \subseteq early'
    /\ for'[k] = t => Allowed(k)'
    /\ lease'[t] = lease[t] /\ frozen \subseteq frozen'
    /\ \/ file' = file
       \/ file'.lease = lease' /\ file'.frozen = frozen' \cap Leased'
    /\ \A c \in Boxes : boxTask'[c] = t /\ box'[c] = "running"
                           => boxTask[c] = t /\ box[c] = "running"

LEMMA KeepsSeal ==
    ASSUME Base, NEW t \in Tasks, NEW k \in Calls, SealedOf(t), Keeps(t, k)
    PROVE  SealedOf(t)'
<1>1. lease[t] # NoBox /\ lease'[t] = lease[t] /\ lease'[t] \in frozen'
  BY NoBoxIsNoBox DEF Base, BoxesTypeOK, SealedOf, Keeps
<1>2. lease'[t] \in Leased'
  BY <1>1 DEF Leased
<1>3. file'.lease[t] = lease'[t] /\ lease'[t] \in file'.frozen
  BY <1>1, <1>2 DEF SealedOf, Keeps
<1>4. ASSUME NEW j \in Calls, for'[j] = t
      PROVE  Allowed(j)'
  BY <1>4 DEF SealedOf, Keeps, Allowed
<1>5. \A c \in Boxes : boxTask'[c] = t => box'[c] # "running"
  BY DEF SealedOf, Keeps
<1> QED BY <1>1, <1>3, <1>4, <1>5 DEF SealedOf

\* Only a disposal can start on a frozen task, and it ends what is said of it.
LEMMA SealingIsKept ==
    ASSUME Base, Unmade, Named, MarkedIsDead, Sealing, [BoxesNext]_boxVars
    PROVE  Sealing'
<1>0. /\ lease \in [Tasks -> Boxes \cup {NoBox}] /\ frozen \subseteq Boxes
      /\ box \in [Boxes -> BoxStates] /\ at \in [Calls -> CallPlaces]
      /\ boxTask \in [Boxes -> Tasks \cup {NoBox}] /\ for \in [Calls -> Tasks \cup {NoBox}]
      /\ mine \in [Calls -> Boxes \cup {NoBox}] /\ sealed \subseteq Tasks
  BY DEF Base, BoxesTypeOK
<1>k. CallsKnow
  BY DEF Base
<1>s. \A t \in sealed : SealedOf(t) /\ t \in Tasks
  BY <1>0 DEF Sealing
<1>t. ASSUME NEW k \in Calls, sealed' = sealed, \A t \in sealed : Keeps(t, k)
      PROVE  Sealing'
  BY <1>s, <1>t, KeepsSeal DEF Sealing
<1> USE NoBoxIsNoBox
<1> USE DEF engineVars, tableVars, historyVars, sealVars, Step, Over, Disposed, Save,
            SealedOf, Keeps, Allowed
<1>1. ASSUME NEW k \in Calls, NEW t \in Tasks, ExecuteNew(k, t)
      PROVE  Sealing'
  <2>1. ASSUME NEW u \in sealed
        PROVE  Keeps(u, k)
    BY <1>0, <1>s, <1>k, <1>1 DEF ExecuteNew, CallsKnow, Idle
  <2>2. sealed' = sealed
    BY <1>1 DEF ExecuteNew
  <2> HIDE DEF Keeps
  <2> QED BY <1>t, <2>1, <2>2
<1>2. ASSUME NEW k \in Calls, NEW t \in Tasks, ExecuteAgain(k, t)
      PROVE  Sealing'
  <2>1. ASSUME NEW u \in sealed
        PROVE  Keeps(u, k)
    BY <1>0, <1>s, <1>k, <1>2 DEF ExecuteAgain, CallsKnow, Idle
  <2>2. sealed' = sealed
    BY <1>2 DEF ExecuteAgain
  <2> HIDE DEF Keeps
  <2> QED BY <1>t, <2>1, <2>2
<1>3. ASSUME NEW k \in Calls, NEW t \in Tasks, DisposeNew(k, t)
      PROVE  Sealing'
  <2>1. ASSUME NEW u \in sealed
        PROVE  Keeps(u, k)
    BY <1>0, <1>s, <1>k, <1>3 DEF DisposeNew, CallsKnow, Idle
  <2>2. sealed' = sealed
    BY <1>3 DEF DisposeNew
  <2> HIDE DEF Keeps
  <2> QED BY <1>t, <2>1, <2>2
<1>4. ASSUME NEW k \in Calls, NEW t \in Tasks, FreezeRead(k, t)
      PROVE  Sealing'
  <2>1. ASSUME NEW u \in sealed
        PROVE  Keeps(u, k)
    BY <1>0, <1>s, <1>k, <1>4 DEF FreezeRead, CallsKnow, Idle
  <2>2. sealed' = sealed
    BY <1>4 DEF FreezeRead
  <2> HIDE DEF Keeps
  <2> QED BY <1>t, <2>1, <2>2
<1>5. ASSUME NEW k \in Calls, CreateNetwork(k)
      PROVE  Sealing'
  <2>1. ASSUME NEW t \in sealed
        PROVE  Keeps(t, k)
    BY <1>0, <1>s, <1>5 DEF CreateNetwork
  <2>2. sealed' = sealed
    BY <1>5 DEF CreateNetwork
  <2> HIDE DEF Keeps
  <2> QED BY <1>t, <2>1, <2>2
<1>6. ASSUME NEW k \in Calls, CreateNetworkRaises(k)
      PROVE  Sealing'
  <2>1. ASSUME NEW t \in sealed
        PROVE  Keeps(t, k)
    BY <1>0, <1>s, <1>6 DEF CreateNetworkRaises
  <2>2. sealed' = sealed
    BY <1>6 DEF CreateNetworkRaises
  <2> HIDE DEF Keeps
  <2> QED BY <1>t, <2>1, <2>2
<1>7. ASSUME NEW k \in Calls, CreateBox(k)
      PROVE  Sealing'
  <2>1. ASSUME NEW t \in sealed
        PROVE  Keeps(t, k)
    BY <1>0, <1>s, <1>7 DEF CreateBox, Base, BoxesAreKnown, Making, CallsKnow, Owning, Targeting, Idle
  <2>2. sealed' = sealed
    BY <1>7 DEF CreateBox
  <2> HIDE DEF Keeps
  <2> QED BY <1>t, <2>1, <2>2
<1>8. ASSUME NEW k \in Calls, CreateBoxRaises(k)
      PROVE  Sealing'
  <2>1. ASSUME NEW t \in sealed
        PROVE  Keeps(t, k)
    BY <1>0, <1>s, <1>8 DEF CreateBoxRaises, Base, BoxesAreKnown, Making, CallsKnow, Owning, Targeting, Idle
  <2>2. sealed' = sealed
    BY <1>8 DEF CreateBoxRaises
  <2> HIDE DEF Keeps
  <2> QED BY <1>t, <2>1, <2>2
<1>9. ASSUME NEW k \in Calls, StartRaises(k)
      PROVE  Sealing'
  <2>1. ASSUME NEW t \in sealed
        PROVE  Keeps(t, k)
    BY <1>0, <1>s, <1>9 DEF StartRaises, Base, BoxesAreKnown, Making, CallsKnow, Owning, Targeting, Idle
  <2>2. sealed' = sealed
    BY <1>9 DEF StartRaises
  <2> HIDE DEF Keeps
  <2> QED BY <1>t, <2>1, <2>2
<1>10. ASSUME NEW k \in Calls, CleanupBox(k)
      PROVE  Sealing'
  <2>1. ASSUME NEW t \in sealed
        PROVE  Keeps(t, k)
    BY <1>0, <1>s, <1>10 DEF CleanupBox, RemovedBox, Base, BoxesAreKnown, Making, CallsKnow, Owning, Targeting, Idle
  <2>2. sealed' = sealed
    BY <1>10 DEF CleanupBox
  <2> HIDE DEF Keeps
  <2> QED BY <1>t, <2>1, <2>2
<1>11. ASSUME NEW k \in Calls, CleanupNetwork(k)
      PROVE  Sealing'
  <2>1. ASSUME NEW t \in sealed
        PROVE  Keeps(t, k)
    BY <1>0, <1>s, <1>11 DEF CleanupNetwork
  <2>2. sealed' = sealed
    BY <1>11 DEF CleanupNetwork
  <2> HIDE DEF Keeps
  <2> QED BY <1>t, <2>1, <2>2
<1>12. ASSUME NEW k \in Calls, Register(k)
      PROVE  Sealing'
  <2>1. ASSUME NEW t \in sealed
        PROVE  Keeps(t, k)
    BY <1>0, <1>s, <1>12 DEF Register, Base, BoxesAreKnown, Making, CallsKnow, Owning, Targeting, Idle
  <2>2. sealed' = sealed
    BY <1>12 DEF Register
  <2> HIDE DEF Keeps
  <2> QED BY <1>t, <2>1, <2>2
<1>13. ASSUME NEW k \in Calls, RegisterSave(k)
      PROVE  Sealing'
  <2>1. ASSUME NEW t \in sealed
        PROVE  Keeps(t, k)
    <3>1. /\ UNCHANGED <<lease, frozen, box, boxTask, early>>
          /\ file'.lease = lease /\ file'.frozen = frozen \cap Leased
          /\ \A j \in Calls : j # k => at'[j] = at[j] /\ for'[j] = for[j] /\ mine'[j] = mine[j]
      BY <1>0, <1>13 DEF RegisterSave
    <3>2. Leased' = Leased
      BY <3>1 DEF Leased
    <3>3. for'[k] = t => Allowed(k)'
      BY <1>0, <1>s, <1>13 DEF RegisterSave
    <3> QED BY <3>1, <3>2, <3>3
  <2>2. sealed' = sealed
    BY <1>13 DEF RegisterSave
  <2> HIDE DEF Keeps
  <2> QED BY <1>t, <2>1, <2>2
<1>14. ASSUME NEW k \in Calls, AcquireSlot(k)
      PROVE  Sealing'
  <2>1. ASSUME NEW t \in sealed
        PROVE  Keeps(t, k)
    BY <1>0, <1>s, <1>14 DEF AcquireSlot
  <2>2. sealed' = sealed
    BY <1>14 DEF AcquireSlot
  <2> HIDE DEF Keeps
  <2> QED BY <1>t, <2>1, <2>2
<1>15. ASSUME NEW k \in Calls, SlotTimesOut(k)
      PROVE  Sealing'
  <2>1. ASSUME NEW t \in sealed
        PROVE  Keeps(t, k)
    BY <1>0, <1>s, <1>15 DEF SlotTimesOut
  <2>2. sealed' = sealed
    BY <1>15 DEF SlotTimesOut
  <2> HIDE DEF Keeps
  <2> QED BY <1>t, <2>1, <2>2
<1>16. ASSUME NEW k \in Calls, ExecuteLocks(k)
      PROVE  Sealing'
  <2>1. ASSUME NEW t \in sealed
        PROVE  Keeps(t, k)
    BY <1>0, <1>s, <1>16 DEF ExecuteLocks
  <2>2. sealed' = sealed
    BY <1>16 DEF ExecuteLocks
  <2> HIDE DEF Keeps
  <2> QED BY <1>t, <2>1, <2>2
<1>17. ASSUME NEW k \in Calls, ScriptStarts(k)
      PROVE  Sealing'
  <2>1. ASSUME NEW t \in sealed
        PROVE  Keeps(t, k)
    BY <1>0, <1>s, <1>17 DEF ScriptStarts
  <2>2. sealed' = sealed
    BY <1>17 DEF ScriptStarts
  <2> HIDE DEF Keeps
  <2> QED BY <1>t, <2>1, <2>2
<1>18. ASSUME NEW k \in Calls, ScriptIsRefused(k)
      PROVE  Sealing'
  <2>1. ASSUME NEW t \in sealed
        PROVE  Keeps(t, k)
    BY <1>0, <1>s, <1>18 DEF ScriptIsRefused
  <2>2. sealed' = sealed
    BY <1>18 DEF ScriptIsRefused
  <2> HIDE DEF Keeps
  <2> QED BY <1>t, <2>1, <2>2
<1>19. ASSUME NEW k \in Calls, ScriptEnds(k)
      PROVE  Sealing'
  <2>1. ASSUME NEW t \in sealed
        PROVE  Keeps(t, k)
    BY <1>0, <1>s, <1>19 DEF ScriptEnds
  <2>2. sealed' = sealed
    BY <1>19 DEF ScriptEnds
  <2> HIDE DEF Keeps
  <2> QED BY <1>t, <2>1, <2>2
<1>20. ASSUME NEW k \in Calls, ScriptRaises(k)
      PROVE  Sealing'
  <2>1. ASSUME NEW t \in sealed
        PROVE  Keeps(t, k)
    BY <1>0, <1>s, <1>20 DEF ScriptRaises
  <2>2. sealed' = sealed
    BY <1>20 DEF ScriptRaises
  <2> HIDE DEF Keeps
  <2> QED BY <1>t, <2>1, <2>2
<1>21. ASSUME NEW k \in Calls, Finally(k)
      PROVE  Sealing'
  <2>1. ASSUME NEW t \in sealed
        PROVE  Keeps(t, k)
    BY <1>0, <1>s, <1>21 DEF Finally
  <2>2. sealed' = sealed
    BY <1>21 DEF Finally
  <2> HIDE DEF Keeps
  <2> QED BY <1>t, <2>1, <2>2
<1>22. ASSUME NEW k \in Calls, DisposeRead(k)
      PROVE  Sealing'
  <2>0. at[k] = "disposing" /\ sealed' = (IF Unseals(k) THEN sealed \ {for[k]} ELSE sealed)
    BY <1>22 DEF DisposeRead
  <2>1. ASSUME NEW t \in sealed'
        PROVE  SealedOf(t)'
    <3>1. t \in sealed /\ for[k] # t
      <4>1. t \in sealed /\ (for[k] = t => ~Unseals(k))
        BY <2>0
      <4>2. for[k] = t => Unseals(k)
        BY <1>s, <2>0, <4>1 DEF Unseals
      <4> QED BY <4>1, <4>2
    <3>2. Keeps(t, k)
      BY <1>0, <1>s, <3>1, <1>22 DEF DisposeRead
    <3> HIDE DEF SealedOf, Keeps
    <3> QED BY <1>s, <3>1, <3>2, KeepsSeal
  <2> HIDE DEF SealedOf
  <2> QED BY <2>1 DEF Sealing
<1>23. ASSUME NEW k \in Calls, DisposeBox(k)
      PROVE  Sealing'
  <2>1. ASSUME NEW t \in sealed
        PROVE  Keeps(t, k)
    BY <1>0, <1>s, <1>23 DEF DisposeBox, RemovedBox, Base, BoxesAreKnown, Making, CallsKnow, Owning, Targeting, Idle
  <2>2. sealed' = sealed
    BY <1>23 DEF DisposeBox
  <2> HIDE DEF Keeps
  <2> QED BY <1>t, <2>1, <2>2
<1>24. ASSUME NEW k \in Calls, DisposeNetwork(k)
      PROVE  Sealing'
  <2>1. ASSUME NEW t \in sealed
        PROVE  Keeps(t, k)
    BY <1>0, <1>s, <1>24 DEF DisposeNetwork
  <2>2. sealed' = sealed
    BY <1>24 DEF DisposeNetwork
  <2> HIDE DEF Keeps
  <2> QED BY <1>t, <2>1, <2>2
<1>25. ASSUME NEW k \in Calls, DisposeRaises(k)
      PROVE  Sealing'
  <2>1. ASSUME NEW t \in sealed
        PROVE  Keeps(t, k)
    BY <1>0, <1>s, <1>25 DEF DisposeRaises
  <2>2. sealed' = sealed
    BY <1>25 DEF DisposeRaises
  <2> HIDE DEF Keeps
  <2> QED BY <1>t, <2>1, <2>2
<1>26. ASSUME NEW k \in Calls, DisposePop(k)
      PROVE  Sealing'
  <2>1. ASSUME NEW t \in sealed
        PROVE  Keeps(t, k)
    BY <1>0, <1>s, <1>26 DEF DisposePop
  <2>2. sealed' = sealed
    BY <1>26 DEF DisposePop
  <2> HIDE DEF Keeps
  <2> QED BY <1>t, <2>1, <2>2
<1>27. ASSUME NEW k \in Calls, DisposeSave(k)
      PROVE  Sealing'
  <2>1. ASSUME NEW t \in sealed
        PROVE  Keeps(t, k)
    <3>1. /\ UNCHANGED <<lease, frozen, box, boxTask, early>>
          /\ file'.lease = lease /\ file'.frozen = frozen \cap Leased
          /\ \A j \in Calls : j # k => at'[j] = at[j] /\ for'[j] = for[j] /\ mine'[j] = mine[j]
      BY <1>0, <1>27 DEF DisposeSave
    <3>2. Leased' = Leased
      BY <3>1 DEF Leased
    <3>3. for'[k] = t => Allowed(k)'
      BY <1>0, <1>s, <1>27 DEF DisposeSave
    <3> QED BY <3>1, <3>2, <3>3
  <2>2. sealed' = sealed
    BY <1>27 DEF DisposeSave
  <2> HIDE DEF Keeps
  <2> QED BY <1>t, <2>1, <2>2
<1>28. ASSUME NEW k \in Calls, FreezeLocks(k)
      PROVE  Sealing'
  <2>1. ASSUME NEW t \in sealed
        PROVE  Keeps(t, k)
    BY <1>0, <1>s, <1>28 DEF FreezeLocks
  <2>2. sealed' = sealed
    BY <1>28 DEF FreezeLocks
  <2> HIDE DEF Keeps
  <2> QED BY <1>t, <2>1, <2>2
<1>29. ASSUME NEW k \in Calls, Kill(k)
      PROVE  Sealing'
  <2>1. ASSUME NEW t \in sealed
        PROVE  Keeps(t, k)
    BY <1>0, <1>s, <1>29 DEF Kill, Killed, Base, BoxesAreKnown, Making, CallsKnow, Owning, Targeting, Idle
  <2>2. sealed' = sealed
    BY <1>29 DEF Kill
  <2> HIDE DEF Keeps
  <2> QED BY <1>t, <2>1, <2>2
<1>30. ASSUME NEW k \in Calls, KillRaises(k)
      PROVE  Sealing'
  <2>1. ASSUME NEW t \in sealed
        PROVE  Keeps(t, k)
    BY <1>0, <1>s, <1>30 DEF KillRaises, Killed, Base, BoxesAreKnown, Making, CallsKnow, Owning, Targeting, Idle
  <2>2. sealed' = sealed
    BY <1>30 DEF KillRaises
  <2> HIDE DEF Keeps
  <2> QED BY <1>t, <2>1, <2>2
<1>31. ASSUME NEW k \in Calls, Freeze(k)
      PROVE  Sealing'
  <2>1. ASSUME NEW t \in sealed
        PROVE  Keeps(t, k)
    BY <1>0, <1>s, <1>31 DEF Freeze
  <2>2. sealed' = sealed
    BY <1>31 DEF Freeze
  <2> HIDE DEF Keeps
  <2> QED BY <1>t, <2>1, <2>2
<1>32. ASSUME NEW k \in Calls, FreezeSave(k)
      PROVE  Sealing'
  <2>0. /\ at[k] = "freezeSave" /\ guard = NoBox /\ mine[k] \in frozen /\ for[k] \in Tasks
        /\ file'.lease = lease /\ file'.frozen = frozen \cap Leased
        /\ UNCHANGED <<lease, frozen, box, boxTask>> /\ for'[k] = NoBox
        /\ \A j \in Calls : j # k => at'[j] = at[j] /\ for'[j] = for[j] /\ mine'[j] = mine[j]
    BY <1>0, <1>k, <1>32 DEF FreezeSave, Free, MarkedIsDead, CallsKnow, Idle
  <2>1. ASSUME NEW t \in sealed
        PROVE  SealedOf(t)'
    <3>1. early \subseteq early'
      BY <1>32 DEF FreezeSave
    <3>2. Leased' = Leased
      BY <2>0 DEF Leased
    <3>3. Keeps(t, k)
      BY <1>0, <1>s, <2>0, <3>1, <3>2
    <3> HIDE DEF SealedOf, Keeps
    <3> QED BY <1>s, <3>3, KeepsSeal
  <2>2. ASSUME NEW t \in Tasks, t = for[k], lease[t] = mine[k], ~Disposing(t),
               early' = early \cup {j \in Calls \ {k} : for[j] = t}
        PROVE  SealedOf(t)'
    <3>1. lease[t] \in frozen /\ lease[t] \in Leased /\ lease[t] # NoBox
      BY <1>0, <2>0, <2>2 DEF Leased
    <3>2. ASSUME NEW j \in Calls, for'[j] = t
          PROVE  Allowed(j)'
      <4>1. j # k /\ at'[j] = at[j] /\ mine'[j] = mine[j] /\ for[j] = t /\ j \in early'
        BY <2>0, <2>2, <3>2
      <4>2. at[j] \notin Making \cup {"network", "popSave"}
        BY <2>0 DEF Base, Guarded
      <4>3. at[j] \notin Targeting /\ at[j] \notin Idle
        BY <1>k, <2>0, <2>2, <4>1 DEF Disposing, CallsKnow
      <4>4. at[j] \in {"slot", "lock", "exec", "running", "disposing", "finally",
                       "freezeLock", "freezing", "marking", "freezeSave"}
        BY <1>0, <4>2, <4>3 DEF CallPlaces, Locked, Making, Targeting, Idle
      <4> QED BY <4>1, <4>4
    <3>3. ASSUME NEW c \in Boxes, boxTask[c] = t, box[c] = "running"
          PROVE  FALSE
      <4>1. c \in Alive
        BY <3>3 DEF Alive
      <4>2. c = lease[t]
        BY <2>0, <3>1, <3>3, <4>1 DEF Named
      <4> QED BY <3>1, <3>3, <4>2 DEF MarkedIsDead
    <3>4. /\ lease'[t] \in frozen' /\ file'.lease[t] = lease'[t] /\ lease'[t] \in file'.frozen
          /\ \A c \in Boxes : boxTask'[c] = t => box'[c] # "running"
      BY <2>0, <3>1, <3>3
    <3>5. \A j \in Calls : for'[j] = t => Allowed(j)'
      BY <3>2
    <3> HIDE DEF Allowed
    <3> QED BY <3>4, <3>5
  <2>3. CASE sealed' = sealed
    BY <2>1, <2>3 DEF Sealing
  <2>4. CASE lease[for[k]] = mine[k] /\ ~Disposing(for[k])
    <3>1. /\ sealed' = sealed \cup {for[k]}
          /\ early' = early \cup {j \in Calls \ {k} : for[j] = for[k]}
      BY <2>4, <1>32 DEF FreezeSave
    <3> HIDE DEF SealedOf
    <3>2. ASSUME NEW t \in sealed'
          PROVE  SealedOf(t)'
      BY <1>0, <2>0, <2>1, <2>2, <2>4, <3>1, <3>2
    <3> QED BY <3>2 DEF Sealing
  <2> QED BY <2>3, <2>4, <1>32 DEF FreezeSave
<1>33. CASE Restart
  <2> PICK known \in SUBSET Alive :
         /\ lease' = [t \in Tasks |-> IF file.lease[t] \in known THEN file.lease[t] ELSE NoBox]
         /\ frozen' = file.frozen \cap known
         /\ file' = [lease |-> lease', frozen |-> frozen']
         /\ sealed' = {t \in sealed : lease[t] \in known}
    BY <1>33 DEF Restart
  <2>1. box' = box /\ boxTask' = boxTask /\ \A k \in Calls : for'[k] = NoBox
    BY <1>33 DEF Restart
  <2>2. ASSUME NEW t \in sealed'
        PROVE  SealedOf(t)'
    <3>1. t \in Tasks /\ t # NoBox /\ SealedOf(t) /\ file.lease[t] \in known
      BY <1>0, <1>s
    <3>2. lease'[t] = lease[t] /\ lease'[t] \in frozen'
      BY <3>1
    <3> QED BY <2>1, <3>1, <3>2
  <2> HIDE DEF SealedOf
  <2> QED BY <2>2 DEF Sealing
<1>34. CASE UNCHANGED boxVars
  BY <1>34 DEF boxVars, Sealing
<1> QED
  BY <1>1, <1>2, <1>3, <1>4, <1>5, <1>6, <1>7, <1>8, <1>9, <1>10, <1>11, <1>12, <1>13, <1>14, <1>15,
     <1>16, <1>17, <1>18, <1>19, <1>20, <1>21, <1>22, <1>23, <1>24, <1>25, <1>26, <1>27, <1>28, <1>29, <1>30,
     <1>31, <1>32, <1>33, <1>34
  DEF BoxesNext, CallStep, Request

\* Once a freeze has been answered, the task stays as it is archived, across
\* restarts too, until it is disposed of by a client or by an execute that was
\* admitted before the freeze (task_containers.py:107-126, 185-222).
THEOREM FrozenTasksStayQuiet == BoxesSpec => []SealedStaysQuiet
<1>1. BoxesInit => Sealing
  BY DEF BoxesInit, Sealing
<1>2. Sealing => SealedStaysQuiet
  BY DEF Sealing, SealedOf, SealedStaysQuiet
<1> QED
  BY <1>1, <1>2, SealingIsKept, BaseInvariant, MakersAreAlone, NamesAreUnique,
     MarkedStaysDead, PTL DEF BoxesSpec

-----------------------------------------------------------------------------
(* Who waits for whom.  A call waits for a slot without any lock, then for the *)
(* lock of its lease, and under that for the table's.                          *)

WaitsForLease == {"lock", "freezeLock"}
WaitsForTable == {"disposing", "pop", "freezeSave"}
WaitsFor(k, j) ==
    \/ at[k] = "slot" /\ slots = 0 /\ HoldsSlot(j)
    \/ at[k] \in WaitsForLease /\ lockedBy[mine[k]] = j
    \/ at[k] \in WaitsForTable /\ guard = j

\* While calls are under way, one of them waits for no other.
SomeCallGoesOn ==
    (\E k \in Calls : at[k] \notin Idle) =>
        \E k \in Calls : at[k] \notin Idle /\ \A j \in Calls : ~WaitsFor(k, j)

\* A lease's lock is held by the call that is inside its with statement.
LockPlaces == Locked \cup {"finally", "freezing", "marking", "freezeSave"}
LeaseLocked == \A k \in Calls, c \in Boxes :
    lockedBy[c] = k <=> mine[k] = c /\ at[k] \in LockPlaces

\* Every step that locks a lease goes to such a place, and the way out of it unlocks.
LEMMA LeaseLockedIsKept ==
    ASSUME Base, LeaseLocked, [BoxesNext]_boxVars
    PROVE  LeaseLocked'
<1>0. /\ at \in [Calls -> CallPlaces] /\ mine \in [Calls -> Boxes \cup {NoBox}]
      /\ for \in [Calls -> Tasks \cup {NoBox}] /\ target \in [Calls -> Boxes \cup {NoBox}]
      /\ lockedBy \in [Boxes -> Calls \cup {NoBox}] /\ CallsKnow
      /\ lease \in [Tasks -> Boxes \cup {NoBox}]
  BY DEF Base, BoxesTypeOK
<1> USE NoBoxIsNoBox
<1> USE DEF Step, Over, Disposed, LockLease, UnlockLease, LockPlaces, Locked,
            Idle, Owning, Making, Targeting, CallsKnow, LeaseLocked
<1>1. ASSUME NEW k \in Calls, NEW t \in Tasks, ExecuteNew(k, t)
      PROVE  LeaseLocked'
  BY <1>0, <1>1 DEF ExecuteNew
<1>2. ASSUME NEW k \in Calls, NEW t \in Tasks, ExecuteAgain(k, t)
      PROVE  LeaseLocked'
  BY <1>0, <1>2 DEF ExecuteAgain
<1>3. ASSUME NEW k \in Calls, NEW t \in Tasks, DisposeNew(k, t)
      PROVE  LeaseLocked'
  BY <1>0, <1>3 DEF DisposeNew
<1>4. ASSUME NEW k \in Calls, NEW t \in Tasks, FreezeRead(k, t)
      PROVE  LeaseLocked'
  BY <1>0, <1>4 DEF FreezeRead
<1>5. ASSUME NEW k \in Calls, CreateNetwork(k)
      PROVE  LeaseLocked'
  BY <1>0, <1>5 DEF CreateNetwork
<1>6. ASSUME NEW k \in Calls, CreateNetworkRaises(k)
      PROVE  LeaseLocked'
  BY <1>0, <1>6 DEF CreateNetworkRaises
<1>7. ASSUME NEW k \in Calls, CreateBox(k)
      PROVE  LeaseLocked'
  BY <1>0, <1>7 DEF CreateBox
<1>8. ASSUME NEW k \in Calls, CreateBoxRaises(k)
      PROVE  LeaseLocked'
  BY <1>0, <1>8 DEF CreateBoxRaises
<1>32. ASSUME NEW k \in Calls, StartRaises(k)
      PROVE  LeaseLocked'
  BY <1>0, <1>32 DEF StartRaises
<1>9. ASSUME NEW k \in Calls, CleanupBox(k)
      PROVE  LeaseLocked'
  BY <1>0, <1>9 DEF CleanupBox
<1>33. ASSUME NEW k \in Calls, CleanupNetwork(k)
      PROVE  LeaseLocked'
  BY <1>0, <1>33 DEF CleanupNetwork
<1>10. ASSUME NEW k \in Calls, Register(k)
      PROVE  LeaseLocked'
  BY <1>0, <1>10 DEF Register
<1>11. ASSUME NEW k \in Calls, RegisterSave(k)
      PROVE  LeaseLocked'
  BY <1>0, <1>11 DEF RegisterSave
<1>12. ASSUME NEW k \in Calls, AcquireSlot(k)
      PROVE  LeaseLocked'
  BY <1>0, <1>12 DEF AcquireSlot
<1>13. ASSUME NEW k \in Calls, SlotTimesOut(k)
      PROVE  LeaseLocked'
  BY <1>0, <1>13 DEF SlotTimesOut
<1>14. ASSUME NEW k \in Calls, ExecuteLocks(k)
      PROVE  LeaseLocked'
  BY <1>0, <1>14 DEF ExecuteLocks
<1>15. ASSUME NEW k \in Calls, ScriptStarts(k)
      PROVE  LeaseLocked'
  BY <1>0, <1>15 DEF ScriptStarts
<1>16. ASSUME NEW k \in Calls, ScriptIsRefused(k)
      PROVE  LeaseLocked'
  BY <1>0, <1>16 DEF ScriptIsRefused
<1>17. ASSUME NEW k \in Calls, ScriptEnds(k)
      PROVE  LeaseLocked'
  BY <1>0, <1>17 DEF ScriptEnds
<1>18. ASSUME NEW k \in Calls, ScriptRaises(k)
      PROVE  LeaseLocked'
  BY <1>0, <1>18 DEF ScriptRaises
<1>19. ASSUME NEW k \in Calls, Finally(k)
      PROVE  LeaseLocked'
  BY <1>0, <1>19 DEF Finally
<1>20. ASSUME NEW k \in Calls, DisposeRead(k)
      PROVE  LeaseLocked'
  BY <1>0, <1>20 DEF DisposeRead
<1>21. ASSUME NEW k \in Calls, DisposeBox(k)
      PROVE  LeaseLocked'
  BY <1>0, <1>21 DEF DisposeBox
<1>22. ASSUME NEW k \in Calls, DisposeNetwork(k)
      PROVE  LeaseLocked'
  BY <1>0, <1>22 DEF DisposeNetwork
<1>23. ASSUME NEW k \in Calls, DisposeRaises(k)
      PROVE  LeaseLocked'
  BY <1>0, <1>23 DEF DisposeRaises
<1>24. ASSUME NEW k \in Calls, DisposePop(k)
      PROVE  LeaseLocked'
  BY <1>0, <1>24 DEF DisposePop
<1>25. ASSUME NEW k \in Calls, DisposeSave(k)
      PROVE  LeaseLocked'
  BY <1>0, <1>25 DEF DisposeSave
<1>26. ASSUME NEW k \in Calls, FreezeLocks(k)
      PROVE  LeaseLocked'
  BY <1>0, <1>26 DEF FreezeLocks
<1>34. ASSUME NEW k \in Calls, Kill(k)
      PROVE  LeaseLocked'
  BY <1>0, <1>34 DEF Kill
<1>27. ASSUME NEW k \in Calls, Freeze(k)
      PROVE  LeaseLocked'
  BY <1>0, <1>27 DEF Freeze
<1>28. ASSUME NEW k \in Calls, KillRaises(k)
      PROVE  LeaseLocked'
  BY <1>0, <1>28 DEF KillRaises
<1>29. ASSUME NEW k \in Calls, FreezeSave(k)
      PROVE  LeaseLocked'
  BY <1>0, <1>29 DEF FreezeSave
<1>30. CASE Restart
  BY <1>0, <1>30 DEF Restart
<1>31. CASE UNCHANGED boxVars
  BY <1>31 DEF boxVars
<1> QED
  BY <1>1, <1>2, <1>3, <1>4, <1>5, <1>6, <1>7, <1>8, <1>9, <1>10, <1>11, <1>12, <1>13, <1>14,
     <1>15, <1>16, <1>17, <1>18, <1>19, <1>20, <1>21, <1>22, <1>23, <1>24, <1>25, <1>26, <1>27,
     <1>28, <1>29, <1>30, <1>31, <1>32, <1>33, <1>34
  DEF BoxesNext, CallStep, Request

\* Calls never wait for each other in a circle: whoever has a slot waits at most for a
\* lease, whoever has a lease at most for the table, and whoever has the table for nobody
\* (the with statements of task_containers.py:46-133).
THEOREM NoCircularWait == BoxesSpec => []SomeCallGoesOn
<1>1. BoxesInit => LeaseLocked
  BY NoBoxIsNoBox DEF BoxesInit, LeaseLocked, LockPlaces, Locked
<1>2. Base /\ LeaseLocked => SomeCallGoesOn
  <2> SUFFICES ASSUME Base, LeaseLocked, NEW k \in Calls, at[k] \notin Idle,
                      \A i \in Calls : at[i] \notin Idle => \E j \in Calls : WaitsFor(i, j)
               PROVE  FALSE
    BY DEF SomeCallGoesOn
  <2> DEFINE Waiting == {"slot"} \cup WaitsForLease \cup WaitsForTable
  <2>1. \A i \in Calls : at[i] \notin Idle => at[i] \in Waiting
    BY DEF WaitsFor
  \* Nobody has the table, so nobody waits for it, ...
  <2>2. \A i \in Calls : guard # i
    BY <2>1 DEF Base, Guarded, Making, Idle, WaitsForLease, WaitsForTable
  <2>3. \A i \in Calls : at[i] \notin WaitsForTable
    BY <2>2 DEF WaitsFor, WaitsForLease, WaitsForTable, Idle
  \* ... so nobody has a lease, ...
  <2>4. \A i \in Calls, c \in Boxes : lockedBy[c] # i
    BY <2>1, <2>3 DEF LeaseLocked, LockPlaces, Locked, Idle, WaitsForLease, WaitsForTable
  <2>5. \A i \in Calls : at[i] \in WaitsForLease => mine[i] \in Boxes
    BY DEF Base, CallsKnow, Owning, WaitsForLease
  <2>6. \A i \in Calls : at[i] \notin WaitsForLease
    BY <2>4, <2>5 DEF WaitsFor, WaitsForLease, WaitsForTable, Idle
  \* ... so nobody has a slot.
  <2>7. \A i \in Calls : ~HoldsSlot(i)
    BY <2>1, <2>3, <2>6 DEF HoldsSlot, Locked, Idle, WaitsForLease, WaitsForTable
  <2> QED BY <2>1, <2>3, <2>6, <2>7 DEF WaitsFor, WaitsForLease, WaitsForTable
<1> QED BY <1>1, <1>2, LeaseLockedIsKept, BaseInvariant, PTL DEF BoxesSpec

=============================================================================
