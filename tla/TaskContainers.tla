--------------------------- MODULE TaskContainers ---------------------------
(***************************************************************************)
(* The script containers of the sandbox manager, one per assistant turn    *)
(* (sandbox-manager/app/task_containers.py).  A call of execute, dispose   *)
(* or freeze runs in a thread of its own; calls share the table of leases, *)
(* guarded by one lock, a lock per lease, a pool of slots for running      *)
(* scripts, and the container engine, which is a separate process that     *)
(* survives the manager.  The table is written to a file, from which a     *)
(* restarted manager takes its leases.                                     *)
(*                                                                         *)
(* Left out: the Skill image of a task (a call with another digest is      *)
(* refused before it does anything) and the checks of a call's input files.*)
(***************************************************************************)
EXTENDS Naturals, FiniteSets

CONSTANTS
    Tasks,          \* task ids
    Boxes,          \* container ids the engine gives out, each with a network
    Calls,          \* requests, each with a thread of its own
    Capacity,       \* at most so many leases
    MaxConcurrent,  \* at most so many scripts run at a time
    BoxFaults,      \* which of the faults below may happen
    NoBox

BoxFaultKinds ==
    {"engine",   \* a call of the container engine raises, its work done or not
     "script",   \* a script runs into its time limit
     "restart"}  \* the manager dies and is started again

ASSUME NoBoxIsNoBox == NoBox \notin Boxes \cup Tasks \cup Calls
ASSUME LimitsArePositive == Capacity \in Nat \ {0} /\ MaxConcurrent \in Nat \ {0}
ASSUME BoxFaultsAreKnown == BoxFaults \subseteq BoxFaultKinds
ASSUME CallsAreFinite == IsFiniteSet(Calls) /\ IsFiniteSet(Tasks)

VARIABLES
    lease,     \* _leases: the container of a task
    frozen,    \* containers whose lease object is marked frozen
    file,      \* the table and its marks as they were saved last
    box,       \* the engine's containers
    nets,      \* containers whose network exists
    boxTask,   \* the task whose name a container and its network carry
    guard,     \* the thread that holds _lock
    lockedBy,  \* the thread that holds a lease's lock
    slots,     \* free slots
    at,        \* where a call is
    for,       \* the call's task
    mine,      \* the lease it read or made
    target,    \* the lease it disposes of
    excused,   \* history: tasks for which a container may be left behind
    sealed,    \* history: tasks frozen since their last disposal
    early      \* history: executes admitted before their task was frozen

engineVars == <<box, nets, boxTask>>
tableVars == <<lease, frozen, file>>
callVars == <<at, for, mine, target>>
sealVars == <<sealed, early>>
historyVars == <<excused, sealed, early>>
boxVars == <<lease, frozen, file, box, nets, boxTask, guard, lockedBy, slots,
             at, for, mine, target, excused, sealed, early>>

BoxStates == {"absent", "created", "running", "killed", "gone"}
\* Where a call that executes a script holds its lease's lock.
Locked == {"exec", "running", "disposing", "remove", "unnet", "unnetRaise", "pop", "popSave"}
CallPlaces == Locked \cup
    {"new", "network", "create", "cleanup", "cleanupNet", "register", "save", "slot",
     "lock", "freezeLock", "freezing", "marking", "freezeSave", "finally", "over"}

BoxesTypeOK ==
    /\ lease \in [Tasks -> Boxes \cup {NoBox}]
    /\ frozen \in SUBSET Boxes
    /\ file \in [lease : [Tasks -> Boxes \cup {NoBox}], frozen : SUBSET Boxes]
    /\ box \in [Boxes -> BoxStates]
    /\ nets \in SUBSET Boxes
    /\ boxTask \in [Boxes -> Tasks \cup {NoBox}]
    /\ guard \in Calls \cup {NoBox}
    /\ lockedBy \in [Boxes -> Calls \cup {NoBox}]
    /\ slots \in 0 .. MaxConcurrent
    /\ at \in [Calls -> CallPlaces]
    /\ for \in [Calls -> Tasks \cup {NoBox}]
    /\ mine \in [Calls -> Boxes \cup {NoBox}]
    /\ target \in [Calls -> Boxes \cup {NoBox}]
    /\ excused \in SUBSET Tasks
    /\ sealed \in SUBSET Tasks
    /\ early \in SUBSET Calls

-----------------------------------------------------------------------------
Leased == {lease[t] : t \in Tasks} \ {NoBox}
Alive == {c \in Boxes : box[c] \in {"created", "running", "killed"}}
BoxNamed(t) == \E c \in Alive : boxTask[c] = t
NetNamed(t) == \E c \in nets : boxTask[c] = t

BoxesInit ==
    /\ lease = [t \in Tasks |-> NoBox]
    /\ frozen = {}
    /\ file = [lease |-> lease, frozen |-> {}]
    /\ box = [c \in Boxes |-> "absent"]
    /\ nets = {}
    /\ boxTask = [c \in Boxes |-> NoBox]
    /\ guard = NoBox
    /\ lockedBy = [c \in Boxes |-> NoBox]
    /\ slots = MaxConcurrent
    /\ at = [k \in Calls |-> "new"]
    /\ for = [k \in Calls |-> NoBox]
    /\ mine = [k \in Calls |-> NoBox]
    /\ target = [k \in Calls |-> NoBox]
    /\ excused = {}
    /\ sealed = {}
    /\ early = {}

Step(k, from, to) == at[k] = from /\ at' = [at EXCEPT ![k] = to]

\* A call returns or raises: what it has read is forgotten.
Over(k) ==
    /\ at' = [at EXCEPT ![k] = "over"]
    /\ for' = [for EXCEPT ![k] = NoBox]
    /\ mine' = [mine EXCEPT ![k] = NoBox]
    /\ target' = [target EXCEPT ![k] = NoBox]

Free == guard = NoBox
Guard(k) == Free /\ guard' = k
Unguard(k) == guard' = NoBox

\* _save: the table as it is now, with the marks of the leases in it.
Save == file' = [lease |-> lease, frozen |-> frozen \cap Leased]

Raises == "engine" \in BoxFaults

-----------------------------------------------------------------------------
Room == Cardinality(Leased) < Capacity

\* execute without a lease: the table stays locked until the container is made.
ExecuteNew(k, t) ==
    /\ Step(k, "new", "network")
    /\ Guard(k)
    /\ lease[t] = NoBox
    /\ Room
    /\ for' = [for EXCEPT ![k] = t]
    /\ UNCHANGED <<tableVars, engineVars, lockedBy, slots, mine, target, historyVars>>

MutExecuteAgain(k, t) ==
    /\ Step(k, "new", "slot")
    /\ Free
    /\ lease[t] # NoBox
    /\ for' = [for EXCEPT ![k] = t]
    /\ mine' = [mine EXCEPT ![k] = lease[t]]
    /\ UNCHANGED <<tableVars, engineVars, guard, lockedBy, slots, target, historyVars>>

\* execute with a lease; a task that is being finalized is refused.
ExecuteAgain(k, t) ==
    /\ Step(k, "new", "slot")
    /\ Free
    /\ lease[t] \notin frozen \cup {NoBox}
    /\ for' = [for EXCEPT ![k] = t]
    /\ mine' = [mine EXCEPT ![k] = lease[t]]
    /\ UNCHANGED <<tableVars, engineVars, guard, lockedBy, slots, target, historyVars>>

\* _create: the network first, under the task's name, ...
CreateNetwork(k) ==
    /\ Step(k, "network", "create")
    /\ ~NetNamed(for[k])
    /\ \E c \in Boxes :
          /\ boxTask[c] = NoBox
          /\ boxTask' = [boxTask EXCEPT ![c] = for[k]]
          /\ nets' = nets \cup {c}
          /\ mine' = [mine EXCEPT ![k] = c]
    /\ UNCHANGED <<tableVars, box, guard, lockedBy, slots, for, target, historyVars>>

\* ... which nothing tidies up after when it fails, also when the engine has made
\* the network and only its answer is lost, ...
CreateNetworkRaises(k) ==
    /\ at[k] = "network"
    /\ \/ (Raises \/ NetNamed(for[k])) /\ UNCHANGED <<nets, boxTask>>
       \/ /\ Raises /\ ~NetNamed(for[k])
          /\ \E c \in Boxes :
                /\ boxTask[c] = NoBox
                /\ boxTask' = [boxTask EXCEPT ![c] = for[k]]
                /\ nets' = nets \cup {c}
    /\ Unguard(k)
    /\ Over(k)
    /\ UNCHANGED <<tableVars, box, lockedBy, slots, historyVars>>

\* ... then the container, connected, created and started, ...
CreateBox(k) ==
    /\ Step(k, "create", "register")
    /\ ~BoxNamed(for[k])
    /\ box' = [box EXCEPT ![mine[k]] = "running"]
    /\ UNCHANGED <<tableVars, nets, boxTask, guard, lockedBy, slots, for, mine, target, historyVars>>

\* The network cannot be connected or the container not be created, or it is
\* created and the answer lost: container_id stays None ...
CreateBoxRaises(k) ==
    /\ Step(k, "create", "cleanupNet")
    /\ \/ (Raises \/ BoxNamed(for[k])) /\ UNCHANGED <<box, excused>>
       \/ /\ Raises /\ ~BoxNamed(for[k])
          /\ box' = [box EXCEPT ![mine[k]] = "created"]
          /\ excused' = excused \cup {for[k]}
    /\ UNCHANGED <<tableVars, nets, boxTask, guard, lockedBy, slots, for, mine, target, sealVars>>

\* ... or its start raises, when its id is known.
StartRaises(k) ==
    /\ Step(k, "create", "cleanup")
    /\ Raises /\ ~BoxNamed(for[k])
    /\ \E s \in {"created", "running"} : box' = [box EXCEPT ![mine[k]] = s]
    /\ UNCHANGED <<tableVars, nets, boxTask, guard, lockedBy, slots, for, mine, target, historyVars>>

RemovedBox(c) == IF c \in Alive THEN [box EXCEPT ![c] = "gone"] ELSE box

\* ... and removed again if that raises, the container only if its id is known,
\* the network only if the container's removal did not raise.
CleanupBox(k) ==
    /\ at[k] = "cleanup"
    /\ \/ /\ box' = RemovedBox(mine[k])
          /\ at' = [at EXCEPT ![k] = "cleanupNet"]
          /\ UNCHANGED <<guard, for, mine, target, excused>>
       \/ /\ Raises
          /\ \/ box' = RemovedBox(mine[k]) /\ UNCHANGED excused
             \/ UNCHANGED box /\ excused' = excused \cup {for[k]}
          /\ Unguard(k)
          /\ Over(k)
    /\ UNCHANGED <<tableVars, nets, boxTask, lockedBy, slots, sealVars>>

CleanupNetwork(k) ==
    /\ at[k] = "cleanupNet"
    /\ nets' = nets \ {mine[k]} \/ (Raises /\ UNCHANGED nets)
    /\ Unguard(k)
    /\ Over(k)
    /\ UNCHANGED <<tableVars, box, boxTask, lockedBy, slots, historyVars>>

Register(k) ==
    /\ Step(k, "register", "save")
    /\ lease' = [lease EXCEPT ![for[k]] = mine[k]]
    /\ UNCHANGED <<frozen, file, engineVars, guard, lockedBy, slots, for, mine, target, historyVars>>

RegisterSave(k) ==
    /\ Step(k, "save", "slot")
    /\ Save
    /\ Unguard(k)
    /\ UNCHANGED <<lease, frozen, engineVars, lockedBy, slots, for, mine, target, historyVars>>

\* A slot is waited for without any lock, for twenty seconds.
AcquireSlot(k) ==
    /\ Step(k, "slot", "lock")
    /\ slots > 0
    /\ slots' = slots - 1
    /\ UNCHANGED <<tableVars, engineVars, guard, lockedBy, for, mine, target, historyVars>>

MutSlotTimesOut(k) ==
    /\ at[k] = "slot"
    /\ slots = 0
    /\ slots' = slots + 1
    /\ Over(k)
    /\ UNCHANGED <<tableVars, engineVars, guard, lockedBy, historyVars>>

SlotTimesOut(k) ==
    /\ at[k] = "slot"
    /\ slots = 0
    /\ Over(k)
    /\ UNCHANGED <<tableVars, engineVars, guard, lockedBy, slots, historyVars>>

LockLease(k, c) == lockedBy[c] = NoBox /\ lockedBy' = [lockedBy EXCEPT ![c] = k]
UnlockLease(k) == lockedBy' = [lockedBy EXCEPT ![mine[k]] = NoBox]

ExecuteLocks(k) ==
    /\ Step(k, "lock", "exec")
    /\ LockLease(k, mine[k])
    /\ UNCHANGED <<tableVars, engineVars, guard, slots, for, mine, target, historyVars>>

ScriptStarts(k) ==
    /\ Step(k, "exec", "running")
    /\ box[mine[k]] = "running"
    /\ UNCHANGED <<tableVars, engineVars, guard, lockedBy, slots, for, mine, target, historyVars>>

\* The engine runs nothing in a container that is killed or gone.
ScriptIsRefused(k) ==
    /\ Step(k, "exec", "disposing")
    /\ Raises \/ box[mine[k]] # "running"
    /\ UNCHANGED <<tableVars, engineVars, guard, lockedBy, slots, for, mine, target, historyVars>>

ScriptEnds(k) ==
    /\ Step(k, "running", "finally")
    /\ UNCHANGED <<tableVars, engineVars, guard, lockedBy, slots, for, mine, target, historyVars>>

\* The time limit, the engine, or the end of the container under the script.
ScriptRaises(k) ==
    /\ Step(k, "running", "disposing")
    /\ Raises \/ "script" \in BoxFaults \/ box[mine[k]] # "running"
    /\ UNCHANGED <<tableVars, engineVars, guard, lockedBy, slots, for, mine, target, historyVars>>

\* The two with statements and the finally of execute.
Finally(k) ==
    /\ at[k] = "finally"
    /\ UnlockLease(k)
    /\ slots' = slots + 1
    /\ Over(k)
    /\ UNCHANGED <<tableVars, engineVars, guard, historyVars>>

-----------------------------------------------------------------------------
DisposeNew(k, t) ==
    /\ Step(k, "new", "disposing")
    /\ for' = [for EXCEPT ![k] = t]
    /\ UNCHANGED <<tableVars, engineVars, guard, lockedBy, slots, mine, target, historyVars>>

MutDisposed(k) == Over(k)

\* dispose returns or raises: to its client, or into the execute that called it.
Disposed(k) ==
    IF mine[k] = NoBox
    THEN Over(k)
    ELSE /\ at' = [at EXCEPT ![k] = "finally"]
         /\ target' = [target EXCEPT ![k] = NoBox]
         /\ UNCHANGED <<for, mine>>

\* Another call is disposing of the same task's container.
Overlaps(k) == \E j \in Calls \ {k} : for[j] = for[k] /\ target[j] # NoBox

MutDisposeRead(k) ==
    /\ at[k] = "disposing"
    /\ Free
    /\ lease[for[k]] # NoBox
    /\ lockedBy[lease[for[k]]] = NoBox
    /\ at' = [at EXCEPT ![k] = "remove"]
    /\ target' = [target EXCEPT ![k] = lease[for[k]]]
    /\ UNCHANGED <<tableVars, engineVars, guard, lockedBy, slots, for, mine, historyVars>>

\* A client disposes of the task, or an execute that was admitted before the task
\* was frozen and failed in the killed container.
Unseals(k) == mine[k] = NoBox \/ k \in early

\* dispose reads the lease the task has now, under the table's lock only.
DisposeRead(k) ==
    /\ at[k] = "disposing"
    /\ Free
    /\ IF lease[for[k]] = NoBox
       THEN Disposed(k) /\ UNCHANGED excused
       ELSE /\ at' = [at EXCEPT ![k] = "remove"]
            /\ target' = [target EXCEPT ![k] = lease[for[k]]]
            /\ excused' = IF Overlaps(k) THEN excused \cup {for[k]} ELSE excused
            /\ UNCHANGED <<for, mine>>
    /\ sealed' = IF Unseals(k) THEN sealed \ {for[k]} ELSE sealed
    /\ UNCHANGED <<tableVars, engineVars, guard, lockedBy, slots, early>>

MutDisposeBox(k) ==
    /\ Step(k, "remove", "unnet")
    /\ box' = RemovedBox(target[k]) \/ (Raises /\ UNCHANGED box)
    /\ UNCHANGED <<tableVars, nets, boxTask, guard, lockedBy, slots, for, mine, target, historyVars>>

DisposeBox(k) ==
    /\ at[k] = "remove"
    /\ \/ box' = RemovedBox(target[k]) /\ at' = [at EXCEPT ![k] = "unnet"]
       \/ /\ Raises
          /\ box' \in {box, RemovedBox(target[k])}
          /\ at' = [at EXCEPT ![k] = "unnetRaise"]
    /\ UNCHANGED <<tableVars, nets, boxTask, guard, lockedBy, slots, for, mine, target, historyVars>>

\* The network goes whether or not the container did; only if both went is the
\* lease taken from the table.
DisposeNetwork(k) ==
    /\ at[k] = "unnet"
    /\ nets' = nets \ {target[k]}
    /\ at' = [at EXCEPT ![k] = "pop"]
    /\ UNCHANGED <<tableVars, box, boxTask, guard, lockedBy, slots, for, mine, target, historyVars>>

DisposeRaises(k) ==
    /\ \/ at[k] = "unnetRaise"
       \/ at[k] = "unnet" /\ Raises
    /\ nets' = nets \ {target[k]} \/ (Raises /\ UNCHANGED nets)
    /\ Disposed(k)
    /\ UNCHANGED <<tableVars, box, boxTask, guard, lockedBy, slots, historyVars>>

\* The lease is popped by its task id, whichever lease that is by now.
DisposePop(k) ==
    /\ Step(k, "pop", "popSave")
    /\ Guard(k)
    /\ lease' = [lease EXCEPT ![for[k]] = NoBox]
    /\ UNCHANGED <<frozen, file, engineVars, lockedBy, slots, for, mine, target, historyVars>>

MutDisposeSave(k) ==
    /\ at[k] = "popSave"
    /\ Unguard(k)
    /\ Disposed(k)
    /\ UNCHANGED <<tableVars, engineVars, lockedBy, slots, historyVars>>

DisposeSave(k) ==
    /\ at[k] = "popSave"
    /\ Save
    /\ Unguard(k)
    /\ Disposed(k)
    /\ UNCHANGED <<lease, frozen, engineVars, lockedBy, slots, historyVars>>

-----------------------------------------------------------------------------
FreezeRead(k, t) ==
    /\ Step(k, "new", "freezeLock")
    /\ Free
    /\ lease[t] # NoBox
    /\ for' = [for EXCEPT ![k] = t]
    /\ mine' = [mine EXCEPT ![k] = lease[t]]
    /\ UNCHANGED <<tableVars, engineVars, guard, lockedBy, slots, target, historyVars>>

FreezeLocks(k) ==
    /\ Step(k, "freezeLock", "freezing")
    /\ LockLease(k, mine[k])
    /\ UNCHANGED <<tableVars, engineVars, guard, slots, for, mine, target, historyVars>>

Killed(c) == IF box[c] = "running" THEN [box EXCEPT ![c] = "killed"] ELSE box

\* kill takes a container that does not run, or is gone, for killed; ...
Kill(k) ==
    /\ Step(k, "freezing", "marking")
    /\ box' = Killed(mine[k])
    /\ UNCHANGED <<tableVars, nets, boxTask, guard, lockedBy, slots, for, mine, target, historyVars>>

KillRaises(k) ==
    /\ at[k] = "freezing"
    /\ Raises
    /\ box' \in {box, Killed(mine[k])}
    /\ UnlockLease(k)
    /\ Over(k)
    /\ UNCHANGED <<tableVars, nets, boxTask, guard, slots, historyVars>>

\* ... the lease object is marked, which the table's lock does not guard, ...
Freeze(k) ==
    /\ Step(k, "marking", "freezeSave")
    /\ frozen' = frozen \cup {mine[k]}
    /\ UNCHANGED <<lease, file, engineVars, guard, lockedBy, slots, for, mine, target, historyVars>>

\* A disposal of the task has read a lease, which it may pop.
Disposing(t) == \E k \in Calls : for[k] = t /\ target[k] # NoBox

\* ... and the table is saved, whether or not it still has that lease.
FreezeSave(k) ==
    /\ at[k] = "freezeSave"
    /\ Free
    /\ Save
    /\ UnlockLease(k)
    /\ Over(k)
    /\ IF lease[for[k]] = mine[k] /\ ~Disposing(for[k])
       THEN /\ sealed' = sealed \cup {for[k]}
            /\ early' = early \cup {j \in Calls \ {k} : for[j] = for[k]}
       ELSE UNCHANGED sealVars
    /\ UNCHANGED <<lease, frozen, engineVars, guard, slots, excused>>

-----------------------------------------------------------------------------
Creating == {mine[k] : k \in {j \in Calls : at[j] \in {"create", "cleanup", "register", "save"}}}

\* The manager dies and is started again: its threads are gone, and the new
\* one's _restore keeps the saved leases whose container the engine still knows.
Restart ==
    /\ "restart" \in BoxFaults
    /\ \E known \in SUBSET Alive :
          LET kept == [t \in Tasks |-> IF file.lease[t] \in known THEN file.lease[t] ELSE NoBox]
          IN /\ Raises \/ known = Alive
             /\ lease' = kept
             /\ frozen' = file.frozen \cap known
             /\ file' = [lease |-> kept, frozen |-> frozen']
             /\ excused' = excused \cup {boxTask[c] : c \in Creating \cup (Alive \ known)}
             /\ sealed' = {t \in sealed : lease[t] \in known}
    /\ early' = {}
    /\ guard' = NoBox
    /\ lockedBy' = [c \in Boxes |-> NoBox]
    /\ slots' = MaxConcurrent
    /\ at' = [k \in Calls |-> IF at[k] = "new" THEN "new" ELSE "over"]
    /\ for' = [k \in Calls |-> NoBox]
    /\ mine' = [k \in Calls |-> NoBox]
    /\ target' = [k \in Calls |-> NoBox]
    /\ UNCHANGED engineVars

CallStep(k) ==
    \/ CreateNetwork(k)
    \/ CreateNetworkRaises(k)
    \/ CreateBox(k)
    \/ CreateBoxRaises(k)
    \/ StartRaises(k)
    \/ CleanupBox(k)
    \/ CleanupNetwork(k)
    \/ Register(k)
    \/ RegisterSave(k)
    \/ AcquireSlot(k)
    \/ SlotTimesOut(k)
    \/ ExecuteLocks(k)
    \/ ScriptStarts(k)
    \/ ScriptIsRefused(k)
    \/ ScriptEnds(k)
    \/ ScriptRaises(k)
    \/ Finally(k)
    \/ DisposeRead(k)
    \/ DisposeBox(k)
    \/ DisposeNetwork(k)
    \/ DisposeRaises(k)
    \/ DisposePop(k)
    \/ DisposeSave(k)
    \/ FreezeLocks(k)
    \/ Kill(k)
    \/ KillRaises(k)
    \/ Freeze(k)
    \/ FreezeSave(k)

Request(k, t) ==
    \/ ExecuteNew(k, t)
    \/ ExecuteAgain(k, t)
    \/ DisposeNew(k, t)
    \/ FreezeRead(k, t)

BoxesNext ==
    \/ \E k \in Calls : CallStep(k) \/ \E t \in Tasks : Request(k, t)
    \/ Restart

BoxesSpec == BoxesInit /\ [][BoxesNext]_boxVars

\* Threads run on and the engine answers; requests and restarts need not come.
BoxesFairness == \A k \in Calls : WF_boxVars(CallStep(k))
BoxesFairSpec == BoxesSpec /\ BoxesFairness

-----------------------------------------------------------------------------
\* A task whose freeze was answered stays as it is archived after that
\* (task_audit.py:72-77), across restarts too: its lease is the frozen one, which
\* execute refuses, and no container of it runs.  It ends when a client disposes
\* of the task, or when an execute admitted before the freeze fails.
SealedStaysQuiet ==
    \A t \in sealed :
        /\ lease[t] \in frozen
        /\ \A c \in Boxes : boxTask[c] = t => box[c] # "running"

\* The saved table is the table whenever nobody is changing it, and a lost mark
\* is one that a freeze is about to save: a manager that dies finds every lease
\* again ("Crash-safe metadata", task_lease_store.py:1).
FileIsCurrent ==
    guard = NoBox =>
        /\ file.lease = lease
        /\ \A c \in (frozen \cap Leased) \ file.frozen :
              \E k \in Calls : mine[k] = c /\ at[k] = "freezeSave"

\* A container outlives its lease in four cases only: the manager died while it
\* was being made or the engine did not answer its successor, the engine's answer
\* to its creation was lost, its removal after a failed start raised, or two
\* disposals of one task overlapped, of which the later one pops the lease of a
\* container made in between.
NothingLeftBehind ==
    \A c \in Alive :
        \/ lease[boxTask[c]] = c
        \/ c \in Creating
        \/ boxTask[c] \in excused

\* Calls that hold a slot: between acquire and the finally of execute.
HoldsSlot(k) == mine[k] # NoBox /\ at[k] \in Locked \cup {"lock", "finally"}

\* Every slot is free or with a call: no path of execute keeps one.
SlotsAreKept == slots + Cardinality({k \in Calls : HoldsSlot(k)}) = MaxConcurrent

\* Every call returns, whatever calls of other threads wait for the table, a
\* lease or a slot: freeze and execute take a lease's lock before the table's,
\* and the dispose inside execute takes no lease's lock.
CallsEnd == \A k \in Calls : at[k] # "new" ~> at[k] = "over"
=============================================================================
