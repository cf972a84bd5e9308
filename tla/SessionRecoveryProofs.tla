----------------------- MODULE SessionRecoveryProofs -----------------------
(* Proofs about SessionRecovery, for any sets of rows, sessions, turns and  *)
(* callers, any set of faults and any number of them.                      *)
EXTENDS SessionRecovery, KernelBindingProofs

\* A caller that creates the first binding; every other one works for a row.
CreatesFirst(r) == r.at \in {"session", "bind", "discard"} /\ r.kind = "first"
HasRow(r) == r.at # "idle" /\ ~CreatesFirst(r)

\* How a caller's place and variables r go with its place st in bindings.create
\* and with the binding sn it replaces there: which row it works for, and which
\* session it has made and not yet bound or disposed of.
CallOK(r, st, sn) ==
    /\ r \in Calls
    /\ HasRow(r) => r.row \in Bindings
    /\ CreatesFirst(r) => r.why = "turn"
    /\ st # "idle" => r.at = "bind"
    /\ r.at = "bind" /\ r.kind = "first" => st \in {"idle", "insert"} /\ sn = None
    /\ r.at = "bind" /\ r.kind # "first" /\ st # "idle" => sn # None
    /\ r.at = "bind" /\ r.kind # "first" /\ st \notin {"idle", "supersede"} => sn = r.row
    /\ r.at = "bind" => (r.made = None <=> st = "supersede")
    /\ r.at = "discard" => r.made # None
    /\ r.at \notin {"bind", "discard"} => r.made = None

CallsOK == /\ call \in [Creators -> Calls]
           /\ \A c \in Creators : CallOK(call[c], step[c], seen[c])

\* A row has a session from its insert on, and a caller's row exists.
RowsHaveSessions ==
    /\ \A b \in Bindings : Exists(b) <=> session[b] # None
    /\ \A c \in Creators : HasRow(call[c]) => Exists(call[c].row)

\* The types of the host's side and of the history.
StoreTypes ==
    /\ session \in [Bindings -> Sessions \cup {None}]
    /\ place \in [Sessions -> Places]
    /\ knows \in [Sessions -> SUBSET Messages]
    /\ fate \in [Sessions -> {"kept", "disposed", "unanswered"}]
    /\ late \subseteq Messages
    /\ mishaps \in 0 .. MaxMishaps

\* The base of every induction below: the rows are right, callers and rows name
\* what there is, and every variable has its type.
Base == RowInv /\ CallsOK /\ RowsHaveSessions /\ StoreTypes

-----------------------------------------------------------------------------
\* Every host request and every store call of the coordinator is a step of the
\* rows or leaves them alone, since a caller names only rows that there are.
LEMMA StepIsRowStep ==
    ASSUME CallsOK, [RecoveryNext]_allVars
    PROVE  [Next]_vars
<1> USE DEF CallsOK, CallOK, HasRow, CreatesFirst, Binding
<1>1. ASSUME NEW c \in Creators, Starts(c) PROVE UNCHANGED vars
  BY <1>1 DEF Starts, StartFirst, StartRestore
<1>2. ASSUME NEW c \in Creators, Proceeds(c) PROVE [Next]_vars
  <2>1. CASE \/ ResumeAnswered(c) \/ ResumeRaises(c) \/ ResumeGarbled(c) \/ Export(c)
             \/ (\E s \in Sessions : SessionCreated(c, s)) \/ SessionRaises(c)
             \/ DisposeAnswered(c) \/ DisposeRaises(c)
    BY <2>1 DEF ResumeAnswered, ResumeRaises, ResumeGarbled, Export, SessionCreated,
                SessionRaises, DisposeAnswered, DisposeRaises
  <2>2. CASE BindBegins(c)
    BY <2>2 DEF BindBegins, Next, CreateStep
  <2>3. CASE BindConflicts(c)
    BY <2>3 DEF BindConflicts, Next, CreateStep
  <2>4. CASE \E b \in Bindings : BindInserts(c, b)
    BY <2>4 DEF BindInserts, Next, CreateStep
  <2>5. CASE BindInsertRaises(c) \/ BindChecks(c) \/ BindPutsBack(c) \/ BindSupersedes(c)
    BY <2>5 DEF BindInsertRaises, BindChecks, BindPutsBack, BindSupersedes, Next, CreateStep
  <2>6. CASE MarkRow(c)
    <3>1. call[c].row \in Bindings /\ (call[c].at = "pending") \in BOOLEAN
      BY <2>6 DEF MarkRow
    <3>2. TurnStep(call[c].row)
      BY <2>6, <3>1 DEF MarkRow, TurnStep
    <3> QED BY <3>1, <3>2 DEF Next
  <2> QED BY <1>2, <2>1, <2>2, <2>3, <2>4, <2>5, <2>6 DEF Proceeds
<1>3. ASSUME NEW c \in Creators, CallerFails(c) PROVE Next
  BY <1>3 DEF CallerFails, Next, CreateStep
<1>4. ASSUME NEW b \in Bindings, NEW m \in Messages, TurnMoves(b, m) PROVE Next
  <2>1. TurnStep(b)
    BY <1>4 DEF TurnMoves, TurnClaimed, TurnFinished, TurnStep
  <2> QED BY <2>1 DEF Next
<1>5. CASE HostRestarts \/ (\E s \in Sessions : HostLoses(s)) \/ UNCHANGED allVars
  BY <1>5 DEF HostRestarts, HostLoses, allVars
<1>6. CASE RecoveryNext
  <2>1. CASE \E c \in Creators : Starts(c) \/ Proceeds(c) \/ CallerFails(c)
    BY <1>1, <1>2, <1>3, <2>1
  <2>2. CASE \E b \in Bindings, m \in Messages : TurnMoves(b, m)
    BY <1>4, <2>2
  <2> QED BY <1>5, <1>6, <2>1, <2>2 DEF RecoveryNext
<1> QED BY <1>5, <1>6

-----------------------------------------------------------------------------
\* Places a caller moves to outside bindings.create.
OutsideOK(r) == CallOK(r, "idle", None)

LEMMA OutsidePlaces ==
    ASSUME NEW r, OutsideOK(r)
    PROVE  /\ OutsideOK(NoCall)
           /\ r.at # "idle" => OutsideOK(Raised(r))
           /\ \A b \in Bindings : \A q \in Restored(r, b) : OutsideOK(q)
<1> USE NoSessionIsNone
<1> USE DEF OutsideOK, CallOK, Calls, HasRow, CreatesFirst, Phases, Kinds
<1>1. OutsideOK(NoCall)
  BY DEF NoCall
<1>2. ASSUME r.at # "idle" PROVE OutsideOK(Raised(r))
  <2>1. CASE r.why = "delete"
    BY <1>2, <2>1 DEF Raised, NoCall
  <2>2. CASE r.why # "delete"
    BY <1>1, <2>2 DEF Raised
  <2> QED BY <2>1, <2>2
<1>3. ASSUME NEW b \in Bindings, NEW q \in Restored(r, b) PROVE OutsideOK(q)
  <2>1. OutsideOK([at |-> "dispose", why |-> "delete", kind |-> "first", row |-> b,
                   made |-> None, sealed |-> FALSE, seed |-> {}])
    OBVIOUS
  <2>2. OutsideOK([at |-> "session", why |-> "turn", kind |-> "rotate", row |-> b,
                   made |-> None, sealed |-> FALSE, seed |-> {}])
    OBVIOUS
  <2> HIDE DEF OutsideOK
  <2>3. \/ q = NoCall
        \/ q = [NoCall EXCEPT !.at = "session", !.kind = "rotate", !.row = b]
        \/ q = [NoCall EXCEPT !.at = "dispose", !.why = "delete", !.row = b]
    BY <1>3 DEF Restored
  <2> QED BY <1>1, <2>1, <2>2, <2>3 DEF NoCall
<1> QED BY <1>1, <1>2, <1>3

\* A caller that moves leaves the others where they are.
LEMMA OneCallMoves ==
    ASSUME CallsOK, NEW c \in Creators, NEW r, Become(c, r),
           CallOK(r, step'[c], seen'[c]),
           \A d \in Creators : d # c => step'[d] = step[d] /\ seen'[d] = seen[d]
    PROVE  CallsOK'
<1>1. call' \in [Creators -> Calls]
  BY DEF CallsOK, CallOK, Become
<1>2. \A d \in Creators : call'[d] = IF d = c THEN r ELSE call[d]
  BY DEF CallsOK, Become
<1>3. \A d \in Creators : CallOK(call'[d], step'[d], seen'[d])
  BY <1>2 DEF CallsOK
<1> QED BY <1>1, <1>3 DEF CallsOK, CallOK, HasRow, CreatesFirst

LEMMA OneStepMoves ==
    ASSUME CallsOK, NEW c \in Creators, UNCHANGED call,
           CallOK(call[c], step'[c], seen'[c]),
           \A d \in Creators : d # c => step'[d] = step[d] /\ seen'[d] = seen[d]
    PROVE  CallsOK'
<1>1. \A d \in Creators : CallOK(call[d], step'[d], seen'[d])
  BY DEF CallsOK
<1> QED BY <1>1 DEF CallsOK, CallOK, HasRow, CreatesFirst

\* Outside bindings.create a caller has no step there and replaces no binding.
LEMMA NotBinding ==
    ASSUME Base, NEW c \in Creators, call[c].at # "bind" \/ step[c] = "idle"
    PROVE  step[c] = "idle" /\ seen[c] = None /\ CallOK(call[c], "idle", None)
<1>1. CallOK(call[c], step[c], seen[c])
  BY DEF Base, CallsOK
<1>2. step[c] = "idle"
  BY <1>1 DEF CallOK
<1>3. seen[c] = None
  BY <1>2 DEF Base, RowInv, SuccessionInv
<1> QED BY <1>1, <1>2, <1>3

\* A caller outside bindings.create that moves to a place of its own.
LEMMA OutsideMove ==
    ASSUME Base, NEW c \in Creators, NEW r, Become(c, r), OutsideOK(r),
           call[c].at # "bind" \/ step[c] = "idle", UNCHANGED <<step, seen>>
    PROVE  CallsOK'
<1>1. step'[c] = "idle" /\ seen'[c] = None
  BY NotBinding
<1>2. CallOK(r, step'[c], seen'[c])
  BY <1>1 DEF OutsideOK
<1> QED BY <1>2, OneCallMoves DEF Base

LEMMA StartsKeepCalls ==
    ASSUME Base, NEW c \in Creators, Starts(c)
    PROVE  CallsOK'
<1> USE NoSessionIsNone
<1>1. ASSUME StartFirst(c) PROVE CallsOK'
  <2>1. OutsideOK([NoCall EXCEPT !.at = "session"])
    BY DEF OutsideOK, CallOK, Calls, NoCall, Kinds, Phases, HasRow, CreatesFirst
  <2>2. /\ call[c].at # "bind"
        /\ Become(c, [NoCall EXCEPT !.at = "session"])
        /\ UNCHANGED <<step, seen>>
    BY <1>1 DEF StartFirst, vars
  <2> QED BY <2>1, <2>2, OutsideMove
<1>2. ASSUME NEW b \in Bindings, NEW why \in {"turn", "delete"}, StartRestore(c, b, why)
      PROVE  CallsOK'
  <2>1. OutsideOK([NoCall EXCEPT !.at = "resume", !.why = why, !.row = b])
    BY DEF OutsideOK, CallOK, Calls, NoCall, Kinds, Phases, HasRow, CreatesFirst
  <2>2. /\ call[c].at # "bind"
        /\ Become(c, [NoCall EXCEPT !.at = "resume", !.why = why, !.row = b])
        /\ UNCHANGED <<step, seen>>
    BY <1>2 DEF StartRestore, vars
  <2> QED BY <2>1, <2>2, OutsideMove
<1> QED BY <1>1, <1>2 DEF Starts

\* The session of a caller's row is there.
LEMMA RowSession ==
    ASSUME Base, NEW c \in Creators, HasRow(call[c])
    PROVE  call[c].row \in Bindings /\ SessionOf(c) \in Sessions
BY DEF Base, CallsOK, CallOK, RowsHaveSessions, StoreTypes, SessionOf

LEMMA HostRequestsKeepCalls ==
    ASSUME Base, NEW c \in Creators,
           \/ ResumeAnswered(c) \/ ResumeRaises(c) \/ ResumeGarbled(c) \/ Export(c)
           \/ (\E s \in Sessions : SessionCreated(c, s)) \/ SessionRaises(c)
           \/ DisposeAnswered(c) \/ DisposeRaises(c) \/ MarkRow(c)
    PROVE  CallsOK'
<1> USE NoSessionIsNone
<1> DEFINE r == call[c]
<1>1. r.at # "bind" /\ r.at # "idle" /\ UNCHANGED <<step, seen>>
  BY DEF ResumeAnswered, ResumeRaises, ResumeGarbled, Export, SessionCreated, SessionRaises,
         DisposeAnswered, DisposeRaises, MarkRow, MarkDisposed, Disposing, vars
<1>2. OutsideOK(r)
  BY <1>1, NotBinding DEF OutsideOK
<1>3. OutsideOK(NoCall) /\ OutsideOK(Raised(r)) /\ \A b \in Bindings : \A q \in Restored(r, b) : OutsideOK(q)
  BY <1>1, <1>2, OutsidePlaces
<1>4. SUFFICES \E q : Become(c, q) /\ OutsideOK(q)
  BY <1>1, OutsideMove
<1>5. CASE ResumeAnswered(c)
  <2>1. r.row \in Bindings
    BY <1>5, RowSession DEF ResumeAnswered, HasRow, CreatesFirst
  <2> QED BY <1>3, <1>5, <2>1 DEF ResumeAnswered
<1>6. CASE ResumeRaises(c)
  BY <1>3, <1>6 DEF ResumeRaises
<1>7. CASE ResumeGarbled(c)
  <2>1. OutsideOK([r EXCEPT !.at = "export"])
    BY <1>2, <1>7 DEF ResumeGarbled, OutsideOK, CallOK, Calls, Kinds, Phases, HasRow, CreatesFirst
  <2> QED BY <1>7, <2>1 DEF ResumeGarbled, Move
<1>8. CASE Export(c)
  <2>1. knows[SessionOf(c)] \in SUBSET Messages
    BY <1>8, RowSession DEF Export, HasRow, CreatesFirst, Base, StoreTypes
  <2>2. OutsideOK([r EXCEPT !.at = "session", !.kind = "rebuild", !.sealed = TRUE,
                            !.seed = knows[SessionOf(c)]])
    BY <1>2, <1>8, <2>1 DEF Export, OutsideOK, CallOK, Calls, Kinds, Phases, HasRow, CreatesFirst
  <2>3. OutsideOK([r EXCEPT !.at = "session", !.kind = "rebuild"])
    BY <1>2, <1>8 DEF Export, OutsideOK, CallOK, Calls, Kinds, Phases, HasRow, CreatesFirst
  <2> QED BY <1>8, <2>2, <2>3 DEF Export
<1>9. ASSUME NEW s \in Sessions, SessionCreated(c, s)
      PROVE  \E q : Become(c, q) /\ OutsideOK(q)
  <2>1. OutsideOK([r EXCEPT !.at = "bind", !.made = s, !.sealed = FALSE, !.seed = {}])
    BY <1>2, <1>9 DEF SessionCreated, OutsideOK, CallOK, Calls, Kinds, Phases, HasRow, CreatesFirst
  <2> QED BY <1>9, <2>1 DEF SessionCreated
<1>10. CASE SessionRaises(c)
  BY <1>3, <1>10 DEF SessionRaises
<1>11. CASE DisposeAnswered(c) \/ DisposeRaises(c)
  <2>1. PICK answered \in BOOLEAN : Become(c, AfterDispose(r, answered))
    BY <1>11 DEF DisposeAnswered, DisposeRaises
  <2>2. r.at \in {"discard", "retire", "dispose"}
    BY <1>11 DEF DisposeAnswered, DisposeRaises, Disposing
  <2>3. CASE r.at = "dispose"
    <3> DEFINE q == [r EXCEPT !.at = IF answered THEN "mark" ELSE "pending"]
    <3>1. OutsideOK(q)
      BY <1>2, <2>3 DEF OutsideOK, CallOK, Calls, Kinds, Phases, HasRow, CreatesFirst
    <3>2. Become(c, q)
      BY <2>1, <2>3 DEF AfterDispose
    <3> QED BY <3>1, <3>2
  <2>4. CASE r.at # "dispose"
    BY <1>3, <2>1, <2>4 DEF AfterDispose
  <2> QED BY <2>3, <2>4
<1>12. CASE MarkRow(c)
  BY <1>3, <1>12 DEF MarkRow
<1> QED BY <1>5, <1>6, <1>7, <1>8, <1>9, <1>10, <1>11, <1>12

\* The steps of bindings.create and of its handler.
LEMMA BindStepsKeepCalls ==
    ASSUME Base, NEW c \in Creators,
           \/ BindBegins(c) \/ BindConflicts(c) \/ (\E b \in Bindings : BindInserts(c, b))
           \/ BindInsertRaises(c) \/ BindChecks(c) \/ BindPutsBack(c) \/ BindSupersedes(c)
    PROVE  CallsOK'
<1> USE NoSessionIsNone, ConstantsAreDistinct
<1> DEFINE r == call[c]
<1>1. r.at = "bind" /\ CallOK(r, step[c], seen[c]) /\ step[c] \in Steps /\ r \in Calls
  BY DEF BindBegins, BindConflicts, BindInserts, BindInsertRaises, BindChecks, BindPutsBack,
         BindSupersedes, Binding, Base, CallsOK, CallOK, RowInv, LockInv, TypeOK
<1>2. /\ step \in [Creators -> Steps] /\ seen \in [Creators -> Bindings \cup {None}]
      /\ step[c] = "idle" => seen[c] = None
      /\ step[c] \in {"check", "restore", "supersede"} => seen[c] # None
      /\ CallsOK
  BY DEF Base, RowInv, LockInv, TypeOK, SuccessionInv
<1>3. CASE BindBegins(c)
  <2>1. CASE r.kind = "first"
    <3>1. UNCHANGED call /\ step' = [step EXCEPT ![c] = "insert"] /\ UNCHANGED seen /\ step[c] = "idle"
      BY <1>3, <2>1 DEF BindBegins, BeginFirst, Goto, recoveryVars
    <3>2. CallOK(r, step'[c], seen'[c])
      BY <1>1, <1>2, <2>1, <3>1 DEF CallOK
    <3> QED BY <1>2, <3>1, <3>2, OneStepMoves
  <2>2. CASE r.kind # "first"
    <3>1. /\ UNCHANGED call
          /\ step' = [step EXCEPT ![c] = "insert"]
          /\ seen' = [seen EXCEPT ![c] = r.row]
          /\ step[c] = "idle"
      BY <1>3, <2>2 DEF BindBegins, ClaimReplacement, recoveryVars
    <3>2. r.row \in Bindings
      BY <1>1, <2>2 DEF CallOK, HasRow, CreatesFirst
    <3>3. CallOK(r, step'[c], seen'[c])
      BY <1>1, <1>2, <2>2, <3>1, <3>2 DEF CallOK
    <3> QED BY <1>2, <3>1, <3>3, OneStepMoves
  <2> QED BY <2>1, <2>2
<1>4. ASSUME Move(c, "discard"), step'[c] = "idle", step[c] # "supersede",
             \A d \in Creators : d # c => step'[d] = step[d] /\ seen'[d] = seen[d]
      PROVE  CallsOK'
  <2>1. CallOK([r EXCEPT !.at = "discard"], step'[c], seen'[c])
    BY <1>1, <1>4 DEF CallOK, Calls, Phases, HasRow, CreatesFirst
  <2> QED BY <1>2, <1>4, <2>1, OneCallMoves DEF Move
<1>5. CASE BindConflicts(c)
  BY <1>2, <1>4, <1>5 DEF BindConflicts, ReplacementConflict, vars, AfterFailedCreate
<1>6. ASSUME NEW b \in Bindings, BindInserts(c, b) PROVE CallsOK'
  <2>1. CASE r.kind = "first"
    <3>1. Become(c, NoCall) /\ step' = [step EXCEPT ![c] = "idle"] /\ seen' = [seen EXCEPT ![c] = None]
      BY <1>1, <1>6, <2>1 DEF BindInserts, Insert, Goto, CallOK
    <3>2. CallOK(NoCall, step'[c], seen'[c])
      BY <1>2, <3>1 DEF CallOK, NoCall, Calls, Phases, Kinds, HasRow, CreatesFirst
    <3> QED BY <1>2, <3>1, <3>2, OneCallMoves
  <2>2. CASE r.kind # "first"
    <3> DEFINE q == [r EXCEPT !.made = None, !.row = b]
    <3>1. step[c] = "insert" /\ seen[c] # None
      BY <1>1, <1>6, <2>2 DEF BindInserts, Insert, CallOK
    <3>2. Become(c, q) /\ step' = [step EXCEPT ![c] = "supersede"] /\ UNCHANGED seen
      BY <1>1, <1>6, <2>2, <3>1 DEF BindInserts, Insert, Goto
    <3>3. CallOK(q, step'[c], seen'[c])
      BY <1>1, <1>2, <2>2, <3>1, <3>2 DEF CallOK, Calls, HasRow, CreatesFirst, Kinds
    <3> QED BY <1>2, <3>2, <3>3, OneCallMoves
  <2> QED BY <2>1, <2>2
<1>7. CASE BindInsertRaises(c)
  <2>1. CASE r.kind = "first"
    <3>1. Move(c, "discard") /\ step[c] = "insert" /\ seen[c] = None
      BY <1>1, <1>7, <2>1 DEF BindInsertRaises, AfterFailedCreate, InsertRaises, CallOK
    <3>2. step' = [step EXCEPT ![c] = "idle"] /\ seen' = [seen EXCEPT ![c] = None]
      BY <1>7, <3>1 DEF BindInsertRaises, InsertRaises, AfterFailedInsert, Goto
    <3> QED BY <1>2, <1>4, <3>1, <3>2
  <2>2. CASE r.kind # "first"
    <3>1. UNCHANGED call /\ step[c] = "insert"
      BY <1>7, <2>2 DEF BindInsertRaises, InsertRaises
    <3>2. seen[c] # None
      BY <1>1, <2>2, <3>1 DEF CallOK
    <3>3. step' = [step EXCEPT ![c] = "check"] /\ UNCHANGED seen
      BY <1>7, <3>2 DEF BindInsertRaises, InsertRaises, AfterFailedInsert, Goto
    <3>4. CallOK(r, step'[c], seen'[c])
      BY <1>1, <1>2, <2>2, <3>1, <3>3 DEF CallOK
    <3> QED BY <1>2, <3>1, <3>3, <3>4, OneStepMoves
  <2> QED BY <2>1, <2>2
<1>8. CASE BindChecks(c)
  <2>1. step[c] = "check"
    BY <1>8 DEF BindChecks, CheckCurrent
  <2>2. CASE NoCurrent
    <3>1. UNCHANGED call /\ step' = [step EXCEPT ![c] = "restore"] /\ UNCHANGED seen
      BY <1>8, <2>2 DEF BindChecks, CheckCurrent, Goto
    <3>2. CallOK(r, step'[c], seen'[c])
      BY <1>1, <1>2, <2>1, <3>1 DEF CallOK
    <3> QED BY <1>2, <3>1, <3>2, OneStepMoves
  <2>3. CASE ~NoCurrent
    BY <1>2, <1>4, <1>8, <2>1, <2>3 DEF BindChecks, CheckCurrent, Goto, AfterFailedCreate
  <2> QED BY <2>2, <2>3
<1>9. CASE BindPutsBack(c)
  BY <1>2, <1>4, <1>9 DEF BindPutsBack, RestoreReplaced, Goto, AfterFailedCreate
<1>10. CASE BindSupersedes(c)
  <2>1. step[c] = "supersede" /\ step' = [step EXCEPT ![c] = "idle"] /\ seen' = [seen EXCEPT ![c] = None]
    BY <1>10 DEF BindSupersedes, SupersedeReplaced, Goto
  <2>2. /\ r.made = None /\ r.kind \in {"rebuild", "rotate"} /\ r.row \in Bindings
        /\ step'[c] = "idle" /\ seen'[c] = None
    BY <1>1, <1>2, <2>1 DEF CallOK, HasRow, CreatesFirst, Calls, Kinds
  <2>3. PICK q : Become(c, q) /\ (q = [r EXCEPT !.at = "retire", !.row = seen[c]] \/ q \in Restored(r, r.row))
    BY <1>10 DEF BindSupersedes
  <2>4. CallOK([r EXCEPT !.at = "retire", !.row = seen[c]], "idle", None)
    <3>1. seen[c] \in Bindings
      BY <1>1, <1>2, <2>1
    <3> QED BY <1>1, <2>2, <3>1 DEF CallOK, Calls, Phases, HasRow, CreatesFirst
  <2>5. Restored(r, r.row) = Restored([r EXCEPT !.at = "retire", !.row = seen[c]], r.row)
    BY <1>1 DEF Restored, Calls
  <2>6. CallOK(q, "idle", None)
    BY <2>2, <2>3, <2>4, <2>5, OutsidePlaces DEF OutsideOK
  <2> QED BY <1>2, <2>1, <2>2, <2>3, <2>6, OneCallMoves
<1> QED BY <1>3, <1>5, <1>6, <1>7, <1>8, <1>9, <1>10

\* A caller that dies or whose store call raises.
LEMMA FailuresKeepCalls ==
    ASSUME Base, NEW c \in Creators, CallerFails(c)
    PROVE  CallsOK'
<1> USE NoSessionIsNone
<1>1. /\ step' = [step EXCEPT ![c] = "idle"] /\ seen' = [seen EXCEPT ![c] = None]
      /\ step \in [Creators -> Steps] /\ seen \in [Creators -> Bindings \cup {None}]
      /\ CallOK(call[c], step[c], seen[c])
  BY DEF CallerFails, Abandon, Goto, Base, RowInv, LockInv, TypeOK, CallsOK
<1>2. CASE Become(c, NoCall)
  <2>1. CallOK(NoCall, step'[c], seen'[c])
    BY <1>1 DEF CallOK, NoCall, Calls, Phases, Kinds, HasRow, CreatesFirst
  <2> QED BY <1>1, <1>2, <2>1, OneCallMoves DEF Base
<1>3. CASE Binding(c) /\ call[c].made # None /\ Move(c, "discard")
  <2>1. CallOK([call[c] EXCEPT !.at = "discard"], step'[c], seen'[c])
    BY <1>1, <1>3 DEF Binding, CallOK, Calls, Phases, HasRow, CreatesFirst
  <2> QED BY <1>1, <1>3, <2>1, OneCallMoves DEF Move, Base
<1>4. ASSUME step[c] = "supersede",
             Become(c, [call[c] EXCEPT !.at = "discard", !.made = SessionOf(c), !.row = seen[c]])
      PROVE  CallsOK'
  <2> DEFINE q == [call[c] EXCEPT !.at = "discard", !.made = SessionOf(c), !.row = seen[c]]
  <2>1. /\ call[c].at = "bind" /\ call[c].kind # "first"
        /\ seen[c] \in Bindings
    BY <1>1, <1>4 DEF CallOK
  <2>2. SessionOf(c) \in Sessions
    BY <2>1, RowSession DEF HasRow, CreatesFirst
  <2>3. CallOK(q, "idle", None)
    BY <1>1, <2>1, <2>2 DEF CallOK, Calls, Phases, HasRow, CreatesFirst
  <2>4. step'[c] = "idle" /\ seen'[c] = None
    BY <1>1
  <2> HIDE DEF q
  <2> QED BY <1>1, <1>4, <2>3, <2>4, OneCallMoves DEF Base, q
<1> QED BY <1>2, <1>3, <1>4 DEF CallerFails, AfterFailedCreate

\* A step of a turn or of the host, or none, leaves every caller where it is.
LEMMA OthersKeepCalls ==
    ASSUME CallsOK,
           \/ \E b \in Bindings, m \in Messages : TurnMoves(b, m)
           \/ HostRestarts \/ (\E s \in Sessions : HostLoses(s)) \/ UNCHANGED allVars
    PROVE  CallsOK'
<1>1. UNCHANGED <<call, step, seen>>
  BY DEF TurnMoves, TurnClaimed, TurnFinished, ClaimTurn, FinishTurn, HostRestarts, HostLoses,
         allVars, vars, recoveryVars
<1> QED BY <1>1 DEF CallsOK, CallOK, HasRow, CreatesFirst

LEMMA CallsStep ==
    ASSUME Base, [RecoveryNext]_allVars
    PROVE  CallsOK'
<1>1. ASSUME NEW c \in Creators, Starts(c) PROVE CallsOK'
  BY <1>1, StartsKeepCalls
<1>2. ASSUME NEW c \in Creators, Proceeds(c) PROVE CallsOK'
  BY <1>2, HostRequestsKeepCalls, BindStepsKeepCalls DEF Proceeds
<1>3. ASSUME NEW c \in Creators, CallerFails(c) PROVE CallsOK'
  BY <1>3, FailuresKeepCalls
<1> QED BY <1>1, <1>2, <1>3, OthersKeepCalls DEF RecoveryNext, Base

-----------------------------------------------------------------------------
\* Caller c's insert of row b is committed, which binds the session it made.
Binds(c, b) ==
    /\ Binding(c) /\ step[c] = "insert"
    /\ InsertRow(b, seen[c])
    /\ session' = [session EXCEPT ![b] = call[c].made]
    /\ UNCHANGED <<place, knows, fate, late>>
    /\ \/ BindInserts(c, b)
       \/ BindInsertRaises(c) /\ happened' = happened \cup {"lost_ack"}

SameRows == UNCHANGED session /\ \A b \in Bindings : Exists(b)' <=> Exists(b)

\* A step inserts one row and binds it, or it changes no row's existence or session.
LEMMA WhoBinds ==
    ASSUME Base, [RecoveryNext]_allVars
    PROVE  SameRows \/ \E c \in Creators, b \in Bindings : Binds(c, b)
<1> USE DEF SameRows, Exists
<1>0. /\ status \in [Bindings -> RowStatus] /\ seen \in [Creators -> Bindings \cup {None}]
      /\ session \in [Bindings -> Sessions \cup {None}]
      /\ \A b \in Bindings : current[b] => status[b] # "absent"
      /\ \A c \in Creators : seen[c] # None => seen[c] \in Bindings /\ status[seen[c]] # "absent"
      /\ \A c \in Creators : HasRow(call[c]) => call[c].row \in Bindings
  <2>1. \A c \in Creators : HasRow(call[c]) => call[c].row \in Bindings
    BY DEF Base, CallsOK, CallOK
  <2> QED BY <2>1 DEF Base, RowInv, LockInv, TypeOK, SuccessionInv, StoreTypes
<1>1. ASSUME NEW c \in Creators, Starts(c) PROVE SameRows
  BY <1>1 DEF Starts, StartFirst, StartRestore, vars
<1>2. ASSUME NEW c \in Creators, Proceeds(c)
      PROVE  SameRows \/ \E d \in Creators, b \in Bindings : Binds(d, b)
  <2>1. CASE \/ ResumeAnswered(c) \/ ResumeRaises(c) \/ ResumeGarbled(c) \/ Export(c)
             \/ (\E s \in Sessions : SessionCreated(c, s)) \/ SessionRaises(c)
             \/ DisposeAnswered(c) \/ DisposeRaises(c)
    BY <2>1 DEF ResumeAnswered, ResumeRaises, ResumeGarbled, Export, SessionCreated,
                SessionRaises, DisposeAnswered, DisposeRaises, vars
  <2>2. CASE BindBegins(c)
    BY <1>0, <2>2 DEF BindBegins, BeginFirst, ClaimReplacement, Claimable, SetRow, rowVars, recoveryVars
  <2>3. CASE BindConflicts(c)
    BY <2>3 DEF BindConflicts, ReplacementConflict, vars
  <2>4. ASSUME NEW b \in Bindings, InsertRow(b, seen[c]), BindsSession(c)
        PROVE  session' = [session EXCEPT ![b] = call[c].made]
    BY <1>0, <2>4 DEF InsertRow, SetRow, BindsSession
  <2>5. ASSUME NEW b \in Bindings, BindInserts(c, b) PROVE Binds(c, b)
    <3>1. InsertRow(b, seen[c]) /\ BindsSession(c)
      BY <2>5 DEF BindInserts, Insert
    <3> QED BY <2>4, <2>5, <3>1 DEF Binds, BindInserts, Insert, hostVars, historyVars
  <2>6. CASE BindInsertRaises(c)
    <3>1. CASE UNCHANGED rowVars
      BY <1>0, <2>6, <3>1 DEF BindInsertRaises, BindsSession, rowVars
    <3>2. CASE /\ \E b \in Bindings : InsertRow(b, seen[c])
               /\ happened' = happened \cup {"lost_ack"}
      BY <2>4, <2>6, <3>2 DEF Binds, BindInsertRaises, InsertRaises, hostVars, historyVars
    <3> QED BY <2>6, <3>1, <3>2 DEF BindInsertRaises, InsertRaises, rowVars
  <2>7. CASE BindChecks(c)
    BY <2>7 DEF BindChecks, CheckCurrent, rowVars
  <2>8. CASE BindPutsBack(c)
    BY <1>0, <2>8 DEF BindPutsBack, RestoreReplaced, Restorable, SetRow
  <2>9. CASE BindSupersedes(c)
    BY <1>0, <2>9 DEF BindSupersedes, SupersedeReplaced
  <2>10. CASE MarkRow(c)
    BY <1>0, <2>10 DEF MarkRow, MarkDisposed, SetRow, HasRow, CreatesFirst
  <2> QED BY <1>2, <2>1, <2>2, <2>3, <2>5, <2>6, <2>7, <2>8, <2>9, <2>10 DEF Proceeds
<1>3. ASSUME NEW c \in Creators, CallerFails(c) PROVE SameRows
  BY <1>3 DEF CallerFails, Abandon, rowVars
<1>4. ASSUME NEW b \in Bindings, NEW m \in Messages, TurnMoves(b, m) PROVE SameRows
  <2>1. CASE TurnClaimed(b, m)
    BY <1>0, <2>1 DEF TurnClaimed, ClaimTurn, recoveryVars
  <2>2. ASSUME NEW s \in TerminalStatus, TurnFinished(b, m, s) PROVE SameRows
    <3>1. IdleOr(s) # "absent"
      BY DEF IdleOr, TerminalStatus
    <3>2. active[b].status = "running"
      BY <2>2 DEF TurnFinished, FinishTurn
    <3>3. Exists(b)
      BY <1>0, <3>2 DEF Base, RowInv, LockInv, RunningIsCurrent
    <3> QED BY <1>0, <2>2, <3>1, <3>3 DEF TurnFinished, FinishTurn
  <2> QED BY <1>4, <2>1, <2>2 DEF TurnMoves
<1>5. CASE HostRestarts \/ (\E s \in Sessions : HostLoses(s)) \/ UNCHANGED allVars
  BY <1>5 DEF HostRestarts, HostLoses, allVars, vars, recoveryVars
<1> QED BY <1>1, <1>2, <1>3, <1>4, <1>5 DEF RecoveryNext

\* A caller's row after its step: it works for none, goes on with its row, takes
\* one that is current, the one it inserted, or the one that this one replaces.
RowAfter(c) ==
    \/ ~HasRow(call'[c])
    \/ HasRow(call[c]) /\ call'[c].row = call[c].row
    \/ call'[c].row \in Bindings /\ current[call'[c].row]
    \/ \E b \in Bindings : BindInserts(c, b) /\ call'[c].row = b
    \/ step[c] = "supersede" /\ call'[c].row = seen[c]

LEMMA RowOfMover ==
    ASSUME CallsOK, NEW c \in Creators, Starts(c) \/ Proceeds(c) \/ CallerFails(c)
    PROVE  RowAfter(c) /\ \A d \in Creators : d # c => call'[d] = call[d]
<1>0. /\ call \in [Creators -> Calls]
      /\ call[c] \in Calls
      /\ CreatesFirst(call[c]) => call[c].why = "turn"
      /\ ~CreatesFirst(call[c]) /\ call[c].at # "idle" => HasRow(call[c])
      /\ \A d \in Creators : CallOK(call[d], step[d], seen[d])
  BY DEF CallsOK, CallOK, HasRow
<1>1. ASSUME NEW r, Become(c, r)
      PROVE  call'[c] = r /\ \A d \in Creators : d # c => call'[d] = call[d]
  BY <1>0, <1>1 DEF Become
<1>2. ASSUME UNCHANGED call
      PROVE  RowAfter(c) /\ \A d \in Creators : d # c => call'[d] = call[d]
  BY <1>2 DEF RowAfter
<1>3. ASSUME NEW at, Move(c, at), HasRow([call[c] EXCEPT !.at = at]) => HasRow(call[c])
      PROVE  RowAfter(c) /\ \A d \in Creators : d # c => call'[d] = call[d]
  <2>1. call'[c] = [call[c] EXCEPT !.at = at] /\ \A d \in Creators : d # c => call'[d] = call[d]
    BY <1>0, <1>3, <1>1 DEF Move
  <2>2. call'[c].row = call[c].row
    BY <1>0, <2>1 DEF Calls
  <2> QED BY <1>3, <2>1, <2>2 DEF RowAfter
<1>4. ~HasRow(NoCall)
  BY DEF HasRow, NoCall
<1>5. Become(c, NoCall) => RowAfter(c)
  BY <1>1, <1>4 DEF RowAfter
<1>6. ASSUME Become(c, Raised(call[c])), call[c].at # "idle" PROVE RowAfter(c)
  <2>1. CASE call[c].why = "delete"
    <3>1. Raised(call[c]).row = call[c].row
      BY <2>1 DEF Raised, NoCall
    <3>2. call'[c].row = call[c].row
      BY <1>1, <1>6, <3>1
    <3> QED BY <1>0, <1>6, <2>1, <3>2 DEF RowAfter
  <2>2. CASE call[c].why # "delete"
    BY <1>5, <1>6, <2>2 DEF Raised
  <2> QED BY <2>1, <2>2
<1>7. ASSUME NEW r \in Restored(call[c], call[c].row), Become(c, r), HasRow(call[c]) PROVE RowAfter(c)
  <2>1. CASE r = NoCall
    BY <1>5, <1>7, <2>1
  <2>2. CASE r # NoCall
    <3>1. r.row = call[c].row
      BY <1>7, <2>2 DEF Restored, NoCall
    <3>2. call'[c].row = call[c].row
      BY <1>1, <1>7, <3>1
    <3> QED BY <1>7, <3>2 DEF RowAfter
  <2> QED BY <2>1, <2>2
<1>8. CASE StartFirst(c)
  <2>1. call'[c] = [NoCall EXCEPT !.at = "session"]
    BY <1>1, <1>8 DEF StartFirst
  <2>2. ~HasRow(call'[c])
    BY <2>1 DEF HasRow, CreatesFirst, NoCall
  <2> QED BY <1>1, <1>8, <2>2 DEF StartFirst, RowAfter
<1>9. ASSUME NEW b \in Bindings, NEW why, StartRestore(c, b, why)
      PROVE  RowAfter(c) /\ \A d \in Creators : d # c => call'[d] = call[d]
  <2>1. PICK r : Become(c, r) /\ r = [NoCall EXCEPT !.at = "resume", !.why = why, !.row = b]
    BY <1>9 DEF StartRestore
  <2>2. r.row = b
    BY <2>1 DEF NoCall
  <2>3. call'[c].row = b /\ \A d \in Creators : d # c => call'[d] = call[d]
    BY <1>1, <2>1, <2>2
  <2> QED BY <1>9, <2>3 DEF StartRestore, RowAfter
<1>10. CASE ResumeAnswered(c)
  <2>1. HasRow(call[c])
    BY <1>0, <1>10 DEF ResumeAnswered, CreatesFirst
  <2> QED BY <1>1, <1>7, <1>10, <2>1 DEF ResumeAnswered
<1>11. CASE ResumeRaises(c) \/ SessionRaises(c)
  BY <1>1, <1>6, <1>11 DEF ResumeRaises, SessionRaises
<1>12. CASE ResumeGarbled(c)
  <2>1. HasRow(call[c])
    BY <1>0, <1>12 DEF ResumeGarbled, CreatesFirst
  <2> QED BY <1>3, <1>12, <2>1 DEF ResumeGarbled
<1>13. CASE Export(c)
  <2>1. \E r : Become(c, r) /\ r.row = call[c].row
    <3>1. CASE Become(c, [call[c] EXCEPT !.at = "session", !.kind = "rebuild"])
      <4> DEFINE r == [call[c] EXCEPT !.at = "session", !.kind = "rebuild"]
      <4>1. Become(c, r)
        BY <3>1
      <4>2. r.row = call[c].row
        BY <1>0 DEF Calls
      <4> HIDE DEF r
      <4> QED BY <4>1, <4>2
    <3>2. CASE Become(c, [call[c] EXCEPT !.at = "session", !.kind = "rebuild",
                                         !.sealed = TRUE, !.seed = knows[SessionOf(c)]])
      <4> DEFINE r == [call[c] EXCEPT !.at = "session", !.kind = "rebuild",
                                      !.sealed = TRUE, !.seed = knows[SessionOf(c)]]
      <4>1. Become(c, r)
        BY <3>2
      <4>2. r.row = call[c].row
        BY <1>0 DEF Calls
      <4> HIDE DEF r
      <4> QED BY <4>1, <4>2
    <3> QED BY <1>13, <3>1, <3>2 DEF Export
  <2>2. HasRow(call[c])
    BY <1>0, <1>13 DEF Export, CreatesFirst
  <2> QED BY <1>1, <2>1, <2>2 DEF RowAfter
<1>14. ASSUME NEW s \in Sessions, SessionCreated(c, s)
       PROVE  RowAfter(c) /\ \A d \in Creators : d # c => call'[d] = call[d]
  <2>1. call'[c] = [call[c] EXCEPT !.at = "bind", !.made = s, !.sealed = FALSE, !.seed = {}]
    BY <1>1, <1>14 DEF SessionCreated
  <2>2. call'[c].row = call[c].row /\ call'[c].kind = call[c].kind /\ call'[c].at = "bind"
    BY <1>0, <2>1 DEF Calls
  <2>3. HasRow(call'[c]) => HasRow(call[c])
    BY <1>14, <2>2 DEF SessionCreated, HasRow, CreatesFirst
  <2> QED BY <1>1, <1>14, <2>2, <2>3 DEF SessionCreated, RowAfter
<1>15. CASE BindBegins(c)
  BY <1>2, <1>15 DEF BindBegins, recoveryVars
<1>16. CASE BindConflicts(c) \/ BindPutsBack(c)
  <2>1. HasRow(call[c])
    BY <1>0, <1>16 DEF BindConflicts, BindPutsBack, RestoreReplaced, Binding, CreatesFirst, CallOK
  <2> QED BY <1>3, <1>16, <2>1 DEF BindConflicts, BindPutsBack
<1>17. ASSUME NEW b \in Bindings, BindInserts(c, b)
       PROVE  RowAfter(c) /\ \A d \in Creators : d # c => call'[d] = call[d]
  <2>1. CASE call[c].kind = "first"
    BY <1>1, <1>5, <1>17, <2>1 DEF BindInserts
  <2>2. CASE call[c].kind # "first"
    <3> DEFINE r == [call[c] EXCEPT !.made = None, !.row = b]
    <3>1. Become(c, r) /\ r.row = b
      BY <1>0, <1>17, <2>2 DEF BindInserts, Calls
    <3> HIDE DEF r
    <3>2. call'[c].row = b /\ \A d \in Creators : d # c => call'[d] = call[d]
      BY <1>1, <3>1
    <3> QED BY <1>17, <3>2 DEF RowAfter
  <2> QED BY <2>1, <2>2
<1>18. CASE BindInsertRaises(c)
  <2>1. CASE call[c].kind = "first"
    <3>1. call'[c] = [call[c] EXCEPT !.at = AfterFailedCreate]
      BY <1>1, <1>18, <2>1 DEF BindInsertRaises, Move
    <3>2. ~HasRow(call'[c])
      BY <1>0, <2>1, <3>1 DEF HasRow, CreatesFirst, AfterFailedCreate, Calls
    <3> QED BY <1>1, <1>18, <2>1, <3>2 DEF BindInsertRaises, Move, RowAfter
  <2> QED BY <1>2, <1>18, <2>1 DEF BindInsertRaises
<1>19. CASE BindChecks(c)
  <2>1. HasRow(call[c])
    BY <1>0, <1>19 DEF BindChecks, CheckCurrent, Binding, CreatesFirst, CallOK
  <2> QED BY <1>2, <1>3, <1>19, <2>1 DEF BindChecks
<1>20. CASE BindSupersedes(c)
  <2>1. HasRow(call[c])
    BY <1>0, <1>20 DEF BindSupersedes, SupersedeReplaced, Binding, CreatesFirst, CallOK
  <2>2. CASE Become(c, [call[c] EXCEPT !.at = "retire", !.row = seen[c]])
    <3> DEFINE r == [call[c] EXCEPT !.at = "retire", !.row = seen[c]]
    <3>1. Become(c, r) /\ r.row = seen[c]
      BY <1>0, <2>2 DEF Calls
    <3> HIDE DEF r
    <3>2. call'[c].row = seen[c]
      BY <1>1, <3>1
    <3> QED BY <1>1, <1>20, <3>1, <3>2 DEF BindSupersedes, SupersedeReplaced, RowAfter
  <2> QED BY <1>1, <1>7, <1>20, <2>1, <2>2 DEF BindSupersedes
<1>21. CASE DisposeAnswered(c) \/ DisposeRaises(c)
  <2>1. PICK answered \in BOOLEAN : Become(c, AfterDispose(call[c], answered)) /\ Disposing(c)
    BY <1>21 DEF DisposeAnswered, DisposeRaises
  <2>2. CASE call[c].at = "dispose"
    <3>1. call'[c].row = call[c].row
      BY <1>0, <1>1, <2>1, <2>2 DEF AfterDispose, Calls
    <3> QED BY <1>0, <1>1, <2>1, <2>2, <3>1 DEF RowAfter, CreatesFirst
  <2>3. CASE call[c].at = "discard"
    BY <1>1, <1>6, <2>1, <2>3 DEF AfterDispose
  <2>4. CASE call[c].at = "retire"
    BY <1>1, <1>5, <2>1, <2>4 DEF AfterDispose
  <2> QED BY <2>1, <2>2, <2>3, <2>4 DEF Disposing
<1>22. CASE MarkRow(c)
  BY <1>1, <1>5, <1>22 DEF MarkRow
<1>23. CASE CallerFails(c)
  <2>1. CASE Become(c, NoCall)
    BY <1>1, <1>5, <2>1
  <2>2. CASE Binding(c) /\ Move(c, AfterFailedCreate)
    <3>1. HasRow([call[c] EXCEPT !.at = AfterFailedCreate]) => HasRow(call[c])
      BY <1>0, <2>2 DEF HasRow, CreatesFirst, AfterFailedCreate, Binding, Calls
    <3> QED BY <1>3, <2>2, <3>1
  <2>3. CASE /\ step[c] = "supersede"
             /\ Become(c, [call[c] EXCEPT !.at = AfterFailedCreate, !.made = SessionOf(c), !.row = seen[c]])
    <3> DEFINE r == [call[c] EXCEPT !.at = AfterFailedCreate, !.made = SessionOf(c), !.row = seen[c]]
    <3>1. Become(c, r) /\ r.row = seen[c]
      BY <1>0, <2>3 DEF Calls
    <3> HIDE DEF r
    <3>2. call'[c].row = seen[c]
      BY <1>1, <3>1
    <3> QED BY <1>1, <2>3, <3>1, <3>2 DEF RowAfter
  <2> QED BY <1>23, <2>1, <2>2, <2>3 DEF CallerFails
<1> QED BY <1>8, <1>9, <1>10, <1>11, <1>12, <1>13, <1>14, <1>15, <1>16, <1>17, <1>18, <1>19, <1>20,
           <1>21, <1>22, <1>23 DEF Starts, Proceeds

LEMMA WhichRow ==
    ASSUME CallsOK, [RecoveryNext]_allVars, NEW c \in Creators
    PROVE  RowAfter(c)
<1>1. ASSUME NEW d \in Creators, Starts(d) \/ Proceeds(d) \/ CallerFails(d) PROVE RowAfter(c)
  BY <1>1, RowOfMover DEF RowAfter, HasRow, CreatesFirst
<1>2. CASE UNCHANGED call
  BY <1>2 DEF RowAfter, HasRow, CreatesFirst
<1>3. CASE \/ \E b \in Bindings, m \in Messages : TurnMoves(b, m)
           \/ HostRestarts \/ (\E s \in Sessions : HostLoses(s)) \/ UNCHANGED allVars
  BY <1>2, <1>3 DEF TurnMoves, TurnClaimed, TurnFinished, HostRestarts, HostLoses, allVars, recoveryVars
<1> QED BY <1>1, <1>3 DEF RecoveryNext

LEMMA RowsStep ==
    ASSUME Base, [RecoveryNext]_allVars
    PROVE  RowsHaveSessions'
<1>0. /\ \A b \in Bindings : status[b] # "absent" <=> session[b] # None
      /\ \A b \in Bindings : current[b] => status[b] # "absent"
      /\ status \in [Bindings -> RowStatus]
      /\ current \in [Bindings -> BOOLEAN]
      /\ session \in [Bindings -> Sessions \cup {None}]
  BY DEF Base, RowsHaveSessions, RowInv, LockInv, TypeOK, SuccessionInv, StoreTypes, Exists
<1>1. /\ \A b \in Bindings : status'[b] # "absent" <=> session'[b] # None
      /\ \A b \in Bindings : status[b] # "absent" => status'[b] # "absent"
  <2>1. CASE SameRows
    BY <1>0, <2>1 DEF SameRows, Exists
  <2>2. ASSUME NEW c \in Creators, NEW b \in Bindings, Binds(c, b)
        PROVE  /\ \A a \in Bindings : status'[a] # "absent" <=> session'[a] # None
               /\ \A a \in Bindings : status[a] # "absent" => status'[a] # "absent"
    <3>1. call[c].made # None
      BY <2>2 DEF Binds, Binding, Base, CallsOK, CallOK
    <3>2. /\ status' = [status EXCEPT ![b] = "idle"]
          /\ session' = [session EXCEPT ![b] = call[c].made]
      BY <2>2 DEF Binds, InsertRow, SetRow
    <3> QED BY <1>0, <3>1, <3>2
  <2> QED BY <2>1, <2>2, WhoBinds
<1>2. ASSUME NEW c \in Creators, HasRow(call'[c]) PROVE status'[call'[c].row] # "absent"
  <2>0. CallsOK
    BY DEF Base
  <2>1. CASE HasRow(call[c]) /\ call'[c].row = call[c].row
    BY <1>1, <2>1 DEF Base, RowsHaveSessions, CallsOK, CallOK, Exists
  <2>2. CASE call'[c].row \in Bindings /\ current[call'[c].row]
    BY <1>0, <1>1, <2>2
  <2>3. ASSUME NEW b \in Bindings, BindInserts(c, b), call'[c].row = b PROVE status'[call'[c].row] # "absent"
    BY <1>0, <2>3 DEF BindInserts, Insert, InsertRow, SetRow
  <2>4. CASE step[c] = "supersede" /\ call'[c].row = seen[c]
    <3>1. seen[c] \in Bindings /\ Exists(seen[c])
      BY <2>4 DEF Base, RowInv, LockInv, TypeOK, SuccessionInv
    <3> QED BY <1>1, <2>4, <3>1 DEF Exists
  <2> QED BY <1>2, <2>0, <2>1, <2>2, <2>3, <2>4, WhichRow DEF RowAfter
<1> QED BY <1>1, <1>2 DEF RowsHaveSessions, HasRow, CreatesFirst, Exists

LEMMA StoreStep ==
    ASSUME Base, [RecoveryNext]_allVars
    PROVE  StoreTypes'
<1> USE DEF Base, StoreTypes, Places
<1>1. session' \in [Bindings -> Sessions \cup {None}]
  <2>1. ASSUME NEW c \in Creators, NEW b \in Bindings, Binds(c, b)
        PROVE  session' \in [Bindings -> Sessions \cup {None}]
    <3>1. call[c].made \in Sessions \cup {None}
      BY DEF CallsOK, Calls
    <3>2. session' = [session EXCEPT ![b] = call[c].made]
      BY <2>1 DEF Binds
    <3> QED BY <3>1, <3>2
  <2> QED BY <2>1, WhoBinds DEF SameRows
<1>2. \A c \in Creators : /\ call[c].seed \subseteq Messages
                          /\ HasRow(call[c]) => call[c].row \in Bindings
                          /\ call[c].at = "discard" => call[c].made # None
                          /\ call[c].made \in Sessions \cup {None}
  BY DEF CallsOK, CallOK, Calls
<1>3. \A c \in Creators : HasRow(call[c]) => SessionOf(c) \in Sessions
  BY <1>2 DEF RowsHaveSessions, SessionOf
<1>4. /\ AnyMishap \/ NoMishap => mishaps' \in 0 .. MaxMishaps
      /\ Mishap("refuse") \/ Mishap("lost_answer") \/ Mishap("page") \/ Mishap("restart") \/ Mishap("wipe")
            => AnyMishap
  BY MaxMishapsIsNatural DEF AnyMishap, NoMishap, Mishap
<1>5. \A s \in Sessions :
         HostResumes(s) \/ HostDisposes(s) => place' \in [Sessions -> Places] /\ UNCHANGED knows
  BY DEF HostResumes, HostDisposes
<1>6. ASSUME NEW c \in Creators, call[c].at = "session",
             NEW s \in Sessions, HostCreates(s, call[c])
      PROVE  place' \in [Sessions -> Places] /\ knows' \in [Sessions -> SUBSET Messages]
  <2>1. Seed(call[c]) \in SUBSET Messages
    <3>1. CASE call[c].kind = "first" \/ call[c].sealed
      BY <1>2, <3>1 DEF Seed
    <3>2. CASE call[c].kind # "first" /\ ~call[c].sealed
      <4>1. HasRow(call[c])
        BY <1>6, <3>2 DEF HasRow, CreatesFirst
      <4>2. knows[SessionOf(c)] \in SUBSET Messages
        BY <1>3, <4>1
      <4>3. Seed(call[c]) = knows[SessionOf(c)]
        BY <3>2 DEF Seed, SessionOf
      <4> QED BY <4>2, <4>3
    <3> QED BY <3>1, <3>2
  <2> QED BY <1>6, <2>1 DEF HostCreates
<1> DEFINE HostOK == /\ place' \in [Sessions -> Places] /\ knows' \in [Sessions -> SUBSET Messages]
                    /\ fate' \in [Sessions -> {"kept", "disposed", "unanswered"}]
                    /\ late' \subseteq Messages /\ mishaps' \in 0 .. MaxMishaps
<1> USE DEF hostVars, historyVars
<1>7. ASSUME NEW c \in Creators, Starts(c) PROVE HostOK
  BY <1>4, <1>7 DEF Starts, StartFirst, StartRestore
<1>8. ASSUME NEW c \in Creators, Proceeds(c) PROVE HostOK
  <2>1. CASE ResumeAnswered(c) \/ ResumeRaises(c) \/ ResumeGarbled(c)
    <3>1. SessionOf(c) \in Sessions
      BY <1>3, <2>1 DEF ResumeAnswered, ResumeRaises, ResumeGarbled, HasRow, CreatesFirst
    <3> QED BY <1>4, <1>5, <2>1, <3>1 DEF ResumeAnswered, ResumeRaises, ResumeGarbled
  <2>2. CASE Export(c)
    BY <1>4, <2>2 DEF Export
  <2>3. CASE \E s \in Sessions : SessionCreated(c, s)
    BY <1>4, <1>6, <2>3 DEF SessionCreated
  <2>4. CASE SessionRaises(c)
    BY <1>4, <1>6, <2>4 DEF SessionRaises
  <2>5. CASE BindBegins(c) \/ BindConflicts(c)
    BY <1>4, <2>5 DEF BindBegins, BindConflicts, recoveryVars
  <2>6. CASE (\E b \in Bindings : BindInserts(c, b)) \/ BindInsertRaises(c)
    BY <1>4, <2>6 DEF BindInserts, BindInsertRaises
  <2>7. CASE BindChecks(c) \/ BindPutsBack(c) \/ BindSupersedes(c)
    BY <1>4, <2>7 DEF BindChecks, BindPutsBack, BindSupersedes
  <2>8. CASE DisposeAnswered(c) \/ DisposeRaises(c)
    <3>1. Target(c) \in Sessions
      BY <1>2, <1>3, <2>8 DEF DisposeAnswered, DisposeRaises, Disposing, Target, HasRow, CreatesFirst
    <3> QED BY <1>4, <1>5, <2>8, <3>1 DEF DisposeAnswered, DisposeRaises
  <2>9. CASE MarkRow(c)
    BY <1>4, <2>9 DEF MarkRow
  <2> QED BY <1>8, <2>1, <2>2, <2>3, <2>4, <2>5, <2>6, <2>7, <2>8, <2>9 DEF Proceeds
<1>9. ASSUME NEW c \in Creators, CallerFails(c) PROVE HostOK
  BY <1>4, <1>9 DEF CallerFails
<1>10. ASSUME NEW b \in Bindings, NEW m \in Messages, TurnMoves(b, m) PROVE HostOK
  BY <1>4, <1>10 DEF TurnMoves, TurnClaimed, TurnFinished, recoveryVars
<1>11. CASE HostRestarts \/ (\E s \in Sessions : HostLoses(s))
  BY <1>4, <1>11 DEF HostRestarts, HostLoses
<1>12. CASE UNCHANGED allVars
  BY <1>12 DEF allVars, recoveryVars
<1> QED BY <1>1, <1>7, <1>8, <1>9, <1>10, <1>11, <1>12 DEF RecoveryNext

\* The rows are right, and callers and rows name what there is.
LEMMA BaseInvariant == RecoverySpec => []Base
<1>1. RecoveryInit => Base
  <2>1. ASSUME RecoveryInit PROVE RowInv
    BY <2>1, RowsAtStart DEF RecoveryInit
  <2>2. ASSUME RecoveryInit PROVE CallsOK /\ RowsHaveSessions
    <3>1. NoCall \in Calls
      BY NoSessionIsNone DEF NoCall, Calls, Phases, Kinds
    <3>2. ~HasRow(NoCall) /\ ~CreatesFirst(NoCall)
      BY DEF HasRow, CreatesFirst, NoCall
    <3> QED BY <2>2, <3>1, <3>2 DEF RecoveryInit, Init, CallsOK, CallOK, RowsHaveSessions, Exists, NoCall
  <2>3. ASSUME RecoveryInit PROVE StoreTypes
    BY <2>3, MaxMishapsIsNatural DEF RecoveryInit, StoreTypes, Places
  <2> QED BY <2>1, <2>2, <2>3 DEF Base
<1>2. Base /\ [RecoveryNext]_allVars => Base'
  <2> SUFFICES ASSUME Base, [RecoveryNext]_allVars PROVE Base'
    OBVIOUS
  <2>1. CallsOK /\ RowInv
    BY DEF Base
  <2>2. RowInv'
    BY <2>1, StepIsRowStep, RowStep
  <2> QED BY <2>1, <2>2, CallsStep, RowsStep, StoreStep DEF Base
<1> QED BY <1>1, <1>2, PTL DEF RecoverySpec

-----------------------------------------------------------------------------
\* Restores, rebuilds, rotations and disposals are the creates, turns and
\* disposals of KernelBinding: whatever is proved of the rows there holds here,
\* among it RunningIsCurrent, PredecessorRetired and RetiredForever.
THEOREM RecoveryImplementsBindings == RecoverySpec => Spec
<1>1. RecoveryInit => Init
  BY DEF RecoveryInit
<1>2. Base /\ [RecoveryNext]_allVars => [Next]_vars
  BY StepIsRowStep DEF Base
<1> QED BY <1>1, <1>2, BaseInvariant, PTL DEF RecoverySpec, Spec

\* Rows, sessions and callers have their types.
THEOREM RecoveryTypeCorrect == RecoverySpec => []RecoveryTypeOK
<1>1. Base => RecoveryTypeOK
  BY DEF Base, RowInv, LockInv, CallsOK, StoreTypes, RecoveryTypeOK, SessionTypes
<1> QED BY <1>1, BaseInvariant, PTL

-----------------------------------------------------------------------------
\* A step may make, give up or keep the session of caller c, which goes on with
\* its row; a caller that is still before its insert was there before the step,
\* and the insert did not go wrong.  A caller whose row is bound and whose next
\* store call raises has the row's session again, to dispose of it.
MadeAfter(c) ==
    \/ call'[c].made = None
    \/ \E s \in Sessions : SessionCreated(c, s)
    \/ /\ call'[c].made = call[c].made
       /\ call'[c].kind = call[c].kind /\ call'[c].row = call[c].row
       /\ call'[c].at = "bind" /\ step'[c] \in {"idle", "insert"}
              => Binding(c) /\ step[c] \in {"idle", "insert"} /\ ~BindInsertRaises(c)
    \/ /\ call'[c].at = "discard" /\ "crash" \in happened'
       /\ \E b \in Bindings : session[b] = call'[c].made

\* A caller without its session has bound it, disposed of it, or crashed.
MadeGoes(c) ==
    call[c].made # None /\ call'[c].made = None
        => \/ \E b \in Bindings : BindInserts(c, b)
           \/ call[c].at = "discard" /\ (DisposeAnswered(c) \/ DisposeRaises(c))
           \/ "crash" \in happened'

\* A caller that inserts its row hands its session over to it.
LEMMA InsertBinds ==
    ASSUME Base, NEW c \in Creators, NEW b \in Bindings, BindInserts(c, b)
    PROVE  call'[c].made = None /\ session'[b] = call[c].made
<1>1. call \in [Creators -> Calls] /\ call[c] \in Calls
  BY DEF Base, CallsOK
<1>2. ASSUME call[c].kind = "first" PROVE call'[c].made = None
  <2>1. call'[c] = NoCall
    BY <1>1, <1>2 DEF BindInserts, Become
  <2> QED BY <2>1 DEF NoCall
<1>3. ASSUME call[c].kind # "first" PROVE call'[c].made = None
  <2>1. call'[c] = [call[c] EXCEPT !.made = None, !.row = b]
    BY <1>1, <1>3 DEF BindInserts, Become
  <2> QED BY <1>1, <2>1 DEF Calls
<1>4. session'[b] = call[c].made
  BY DEF BindInserts, Insert, InsertRow, SetRow, BindsSession, Exists, Base, RowInv, LockInv, TypeOK
<1> QED BY <1>2, <1>3, <1>4

\* A caller that disposes of a session has none afterwards.
LEMMA DisposalEnds ==
    ASSUME Base, NEW c \in Creators, DisposeAnswered(c) \/ DisposeRaises(c)
    PROVE  call'[c].made = None
<1>1. /\ call \in [Creators -> Calls] /\ call[c] \in Calls
      /\ CallOK(call[c], step[c], seen[c])
  BY DEF Base, CallsOK
<1>2. PICK answered \in BOOLEAN : Become(c, AfterDispose(call[c], answered)) /\ Disposing(c)
  BY DEF DisposeAnswered, DisposeRaises
<1>3. CASE call[c].at = "dispose"
  <2>1. call'[c] = [call[c] EXCEPT !.at = IF answered THEN "mark" ELSE "pending"]
    BY <1>1, <1>2, <1>3 DEF AfterDispose, Become
  <2> QED BY <1>1, <1>3, <2>1 DEF CallOK, Calls
<1>4. CASE call[c].at # "dispose"
  <2>1. call'[c] = Raised(call[c]) \/ call'[c] = NoCall
    BY <1>1, <1>2, <1>4 DEF AfterDispose, Become
  <2>2. Raised(call[c]).made = None /\ NoCall.made = None
    BY DEF Raised, NoCall
  <2> QED BY <2>1, <2>2
<1> QED BY <1>3, <1>4

LEMMA MadeOfMover ==
    ASSUME Base, NEW c \in Creators, Starts(c) \/ Proceeds(c) \/ CallerFails(c)
    PROVE  /\ MadeAfter(c) /\ MadeGoes(c)
           /\ \A d \in Creators : d # c => call'[d] = call[d] /\ step'[d] = step[d]
<1>0. /\ call \in [Creators -> Calls] /\ call[c] \in Calls
      /\ step \in [Creators -> Steps] /\ seen \in [Creators -> Bindings \cup {None}]
      /\ CallOK(call[c], step[c], seen[c])
      /\ CallsOK
  BY DEF Base, CallsOK, RowInv, LockInv, TypeOK
<1>1. ASSUME NEW r, Become(c, r) PROVE call'[c] = r
  BY <1>0, <1>1 DEF Become
<1>2. \A d \in Creators : d # c => call'[d] = call[d]
  BY <1>0, RowOfMover
<1> USE DEF Binding
<1>4. ASSUME call[c].at # "bind", call'[c].made = None, UNCHANGED step
      PROVE  /\ MadeAfter(c)
             /\ call[c].at # "discard" => MadeGoes(c)
             /\ \A d \in Creators : d # c => call'[d] = call[d] /\ step'[d] = step[d]
  BY <1>0, <1>2, <1>4 DEF MadeAfter, MadeGoes, CallOK
<1>3. ASSUME NEW b, NEW q \in Restored(call[c], b) PROVE q.made = None
  <2>1. /\ NoCall.made = None
        /\ [NoCall EXCEPT !.at = "session", !.kind = "rotate", !.row = b].made = None
        /\ [NoCall EXCEPT !.at = "dispose", !.why = "delete", !.row = b].made = None
    BY DEF NoCall
  <2> QED BY <1>3, <2>1 DEF Restored
<1>5. \A b : \A q \in Restored(call[c], b) : q.made = None
  BY <1>3
<1>6. Raised(call[c]).made = None /\ NoCall.made = None
  BY DEF Raised, NoCall
<1>7. CASE Starts(c)
  <2>1. call'[c].made = None
    <3>1. CASE StartFirst(c)
      <4>1. call'[c] = [NoCall EXCEPT !.at = "session"]
        BY <1>1, <3>1 DEF StartFirst
      <4> QED BY <4>1 DEF NoCall
    <3>2. ASSUME NEW b \in Bindings, NEW why, StartRestore(c, b, why) PROVE call'[c].made = None
      <4>1. call'[c] = [NoCall EXCEPT !.at = "resume", !.why = why, !.row = b]
        BY <1>1, <3>2 DEF StartRestore
      <4> QED BY <4>1 DEF NoCall
    <3> QED BY <1>7, <3>1, <3>2 DEF Starts
  <2> QED BY <1>4, <1>7, <2>1 DEF Starts, StartFirst, StartRestore, vars
<1>8. CASE ResumeAnswered(c) \/ ResumeRaises(c) \/ SessionRaises(c) \/ MarkRow(c)
  <2>1. call'[c].made = None
    BY <1>1, <1>5, <1>6, <1>8 DEF ResumeAnswered, ResumeRaises, SessionRaises, MarkRow
  <2> QED BY <1>4, <1>8, <2>1 DEF ResumeAnswered, ResumeRaises, SessionRaises, MarkRow, MarkDisposed, vars
<1>9. CASE ResumeGarbled(c) \/ Export(c)
  <2>1. call[c].made = None
    BY <1>0, <1>9 DEF ResumeGarbled, Export, CallOK
  <2>2. \A r \in Calls : /\ [r EXCEPT !.at = "export"].made = r.made
                         /\ [r EXCEPT !.at = "session", !.kind = "rebuild"].made = r.made
    BY DEF Calls
  <2>3. call'[c].made = None
    <3>1. CASE ResumeGarbled(c)
      BY <1>0, <1>1, <2>1, <2>2, <3>1 DEF ResumeGarbled, Move
    <3>2. CASE Become(c, [call[c] EXCEPT !.at = "session", !.kind = "rebuild"])
      BY <1>0, <1>1, <2>1, <2>2, <3>2
    <3>3. CASE Become(c, [call[c] EXCEPT !.at = "session", !.kind = "rebuild",
                                         !.sealed = TRUE, !.seed = knows[SessionOf(c)]])
      <4>1. call'[c] = [call[c] EXCEPT !.at = "session", !.kind = "rebuild",
                                       !.sealed = TRUE, !.seed = knows[SessionOf(c)]]
        BY <1>1, <3>3
      <4> QED BY <1>0, <2>1, <4>1 DEF Calls
    <3> QED BY <1>9, <3>1, <3>2, <3>3 DEF Export
  <2> QED BY <1>4, <1>9, <2>3 DEF ResumeGarbled, Export, vars
<1>10. CASE \E s \in Sessions : SessionCreated(c, s)
  <2>1. UNCHANGED step /\ call[c].made = None
    BY <1>0, <1>10 DEF SessionCreated, vars, CallOK
  <2> QED BY <1>0, <1>2, <1>10, <2>1 DEF MadeAfter, MadeGoes
<1>11. CASE DisposeAnswered(c) \/ DisposeRaises(c)
  <2>1. call[c].at # "bind" /\ UNCHANGED step
    BY <1>11 DEF DisposeAnswered, DisposeRaises, Disposing, vars
  <2> QED BY <1>4, <1>11, <2>1, DisposalEnds DEF MadeGoes
<1>12. CASE BindBegins(c)
  <2>1. UNCHANGED call /\ step[c] = "idle" /\ \A d \in Creators : d # c => step'[d] = step[d]
    BY <1>0, <1>12 DEF BindBegins, BeginFirst, ClaimReplacement, Goto, recoveryVars
  <2>2. ~BindInsertRaises(c)
    BY <2>1 DEF BindInsertRaises, InsertRaises
  <2> QED BY <1>12, <2>1, <2>2 DEF BindBegins, MadeAfter, MadeGoes
<1>13. ASSUME Move(c, "discard"), \A d \in Creators : d # c => step'[d] = step[d]
       PROVE  /\ MadeAfter(c) /\ MadeGoes(c)
              /\ \A d \in Creators : d # c => call'[d] = call[d] /\ step'[d] = step[d]
  <2>1. /\ call'[c].made = call[c].made /\ call'[c].at = "discard"
        /\ call'[c].kind = call[c].kind /\ call'[c].row = call[c].row
    BY <1>0, <1>1, <1>13 DEF Move, Calls
  <2> QED BY <1>2, <1>13, <2>1 DEF MadeAfter, MadeGoes
<1> USE DEF AfterFailedCreate
<1>14. CASE BindConflicts(c) \/ BindPutsBack(c)
  BY <1>0, <1>13, <1>14 DEF BindConflicts, BindPutsBack, ReplacementConflict, RestoreReplaced, Goto, vars
<1>15. ASSUME NEW b \in Bindings, BindInserts(c, b) PROVE MadeAfter(c) /\ MadeGoes(c)
  BY <1>15, InsertBinds DEF MadeAfter, MadeGoes
<1>16. ASSUME NEW b \in Bindings, BindInserts(c, b)
       PROVE  \A d \in Creators : d # c => step'[d] = step[d]
  BY <1>0, <1>16 DEF BindInserts, Insert, Goto
<1>17. CASE BindInsertRaises(c)
  <2>1. CASE call[c].kind = "first"
    BY <1>0, <1>13, <1>17, <2>1 DEF BindInsertRaises, InsertRaises, Goto
  <2>2. CASE call[c].kind # "first"
    <3>1. UNCHANGED call /\ step[c] = "insert"
      BY <1>17, <2>2 DEF BindInsertRaises, InsertRaises
    <3>2. seen[c] # None
      BY <1>0, <1>17, <2>2, <3>1 DEF BindInsertRaises, CallOK
    <3>3. step' = [step EXCEPT ![c] = "check"]
      BY <1>17, <3>2 DEF BindInsertRaises, InsertRaises, AfterFailedInsert, Goto
    <3> QED BY <1>0, <3>1, <3>3 DEF MadeAfter, MadeGoes
  <2> QED BY <2>1, <2>2
<1>18. CASE BindChecks(c)
  <2>1. step' = [step EXCEPT ![c] = IF NoCurrent THEN "restore" ELSE "idle"]
    BY <1>18 DEF BindChecks, CheckCurrent, Goto
  <2>2. CASE NoCurrent
    BY <1>0, <1>18, <2>1, <2>2 DEF BindChecks, MadeAfter, MadeGoes
  <2>3. CASE ~NoCurrent
    BY <1>0, <1>13, <1>18, <2>1, <2>3 DEF BindChecks
  <2> QED BY <2>2, <2>3
<1>19. CASE BindSupersedes(c)
  <2>1. call[c].made = None /\ \A d \in Creators : d # c => step'[d] = step[d]
    BY <1>0, <1>19 DEF BindSupersedes, SupersedeReplaced, CallOK, Goto
  <2>2. PICK q : /\ Become(c, q)
                 /\ \/ q = [call[c] EXCEPT !.at = "retire", !.row = seen[c]]
                    \/ q \in Restored(call[c], call[c].row)
    BY <1>19 DEF BindSupersedes
  <2>3. q.made = None
    BY <1>0, <1>5, <2>1, <2>2 DEF Calls
  <2>4. call'[c].made = None
    BY <1>1, <2>2, <2>3
  <2> QED BY <1>2, <2>1, <2>4 DEF MadeAfter, MadeGoes
<1>20. CASE CallerFails(c)
  <2>1. "crash" \in happened' /\ \A d \in Creators : d # c => step'[d] = step[d]
    BY <1>0, <1>20 DEF CallerFails, Abandon, Goto
  <2>2. CASE Become(c, NoCall)
    BY <1>1, <1>2, <1>6, <2>1, <2>2 DEF MadeAfter, MadeGoes
  <2>3. CASE Move(c, "discard")
    BY <1>13, <2>1, <2>3
  <2>4. ASSUME step[c] = "supersede",
               Become(c, [call[c] EXCEPT !.at = "discard", !.made = SessionOf(c), !.row = seen[c]])
        PROVE  MadeAfter(c) /\ MadeGoes(c)
    <3>1. call'[c].at = "discard" /\ call'[c].made = SessionOf(c)
      BY <1>0, <1>1, <2>4 DEF Calls
    <3>2. call[c].row \in Bindings
      BY <1>0, <2>4 DEF CallOK, HasRow, CreatesFirst
    <3>3. SessionOf(c) = session[call[c].row]
      BY DEF SessionOf
    <3> QED BY <2>1, <3>1, <3>2, <3>3 DEF MadeAfter, MadeGoes
  <2> QED BY <1>2, <1>20, <2>1, <2>2, <2>3, <2>4 DEF CallerFails
<1> QED BY <1>2, <1>7, <1>8, <1>9, <1>10, <1>11, <1>12, <1>14, <1>15, <1>16, <1>17, <1>18, <1>19, <1>20
        DEF Proceeds

LEMMA MadeMoves ==
    ASSUME Base, [RecoveryNext]_allVars, NEW c \in Creators
    PROVE  MadeAfter(c) /\ MadeGoes(c)
<1>1. ASSUME call'[c] = call[c], step'[c] = step[c] PROVE MadeAfter(c) /\ MadeGoes(c)
  <2>1. BindInsertRaises(c) => step'[c] # "insert" /\ step[c] = "insert"
    BY DEF BindInsertRaises, InsertRaises, Goto, AfterFailedInsert, Base, RowInv, LockInv, TypeOK
  <2> QED BY <1>1, <2>1 DEF MadeAfter, MadeGoes, Binding
<1>2. ASSUME NEW d \in Creators, Starts(d) \/ Proceeds(d) \/ CallerFails(d)
      PROVE  MadeAfter(c) /\ MadeGoes(c)
  BY <1>1, <1>2, MadeOfMover
<1>3. CASE \/ \E b \in Bindings, m \in Messages : TurnMoves(b, m)
           \/ HostRestarts \/ (\E s \in Sessions : HostLoses(s)) \/ UNCHANGED allVars
  BY <1>1, <1>3 DEF TurnMoves, TurnClaimed, TurnFinished, ClaimTurn, FinishTurn, HostRestarts, HostLoses,
                    allVars, vars, recoveryVars
<1> QED BY <1>2, <1>3 DEF RecoveryNext

-----------------------------------------------------------------------------
\* A session id names one session: an unused one is nobody's, two rows never have
\* the same, nor two callers unless it is a row's, and a caller's is no row's
\* before its insert, or at all until a crash or a failing store.
Fresh ==
    /\ \A s \in Sessions : place[s] = "unused" =>
           /\ fate[s] = "kept"
           /\ \A b \in Bindings : session[b] # s
           /\ \A c \in Creators : call[c].made # s
    /\ \A c, d \in Creators : call[c].made = call[d].made /\ call[c].made # None
           => c = d \/ \E b \in Bindings : session[b] = call[c].made
    /\ \A a, b \in Bindings : session[a] = session[b] /\ session[a] # None => a = b
    /\ \A c \in Creators, b \in Bindings :
           /\ call[c].made # None
           /\ happened = {} \/ (Binding(c) /\ step[c] \in {"idle", "insert"})
           => session[b] # call[c].made

\* What a step does to the sessions, and who does it.
QuietStep ==
    /\ UNCHANGED <<session, knows, fate, late>>
    /\ \A s \in Sessions :
           /\ place'[s] = "unused" <=> place[s] = "unused"
           /\ place'[s] = "live" => place[s] = "live" \/ \E b \in Bindings : session[b] = s
Leaks(c, s) ==
    /\ call[c].at = "session"
    /\ HostCreates(s, call[c])
    /\ fate' = [fate EXCEPT ![s] = "unanswered"]
    /\ UNCHANGED <<session, late>>
Disposes(c) == DisposeAnswered(c) \/ DisposeRaises(c)
Completes(b, m) == TurnFinished(b, m, "completed")

LEMMA SessionMoves ==
    ASSUME Base, Fresh, [RecoveryNext]_allVars
    PROVE  \/ QuietStep
           \/ \E c \in Creators, s \in Sessions : SessionCreated(c, s) \/ Leaks(c, s)
           \/ \E c \in Creators, b \in Bindings : Binds(c, b)
           \/ \E c \in Creators : Disposes(c)
           \/ \E b \in Bindings, m \in Messages : Completes(b, m)
<1> USE DEF hostVars, historyVars
<1>0. place \in [Sessions -> Places]
  BY DEF Base, StoreTypes
<1>1. UNCHANGED <<session, place, knows, fate, late>> => QuietStep
  BY DEF QuietStep
<1>2. ASSUME NEW c \in Creators, Proceeds(c), UNCHANGED session
      PROVE  QuietStep \/ (\E s \in Sessions : SessionCreated(c, s) \/ Leaks(c, s)) \/ Disposes(c)
  <2>1. CASE ResumeAnswered(c) \/ ResumeRaises(c) \/ ResumeGarbled(c)
    <3>1. call[c].at = "resume"
      BY <2>1 DEF ResumeAnswered, ResumeRaises, ResumeGarbled
    <3>2. call[c].row \in Bindings /\ SessionOf(c) \in Sessions
      BY <3>1, RowSession DEF HasRow, CreatesFirst
    <3>3. place[SessionOf(c)] # "unused"
      BY <3>2 DEF Fresh, SessionOf
    <3>4. ASSUME HostResumes(SessionOf(c)), UNCHANGED <<session, fate, late>> PROVE QuietStep
      BY <1>0, <3>2, <3>3, <3>4 DEF HostResumes, QuietStep, SessionOf
    <3> QED BY <1>1, <2>1, <3>4 DEF ResumeAnswered, ResumeRaises, ResumeGarbled
  <2>2. CASE Export(c)
    BY <1>1, <2>2 DEF Export
  <2>3. CASE SessionRaises(c)
    BY <1>1, <2>3 DEF SessionRaises, Leaks
  <2>4. CASE BindBegins(c) \/ BindConflicts(c) \/ BindChecks(c) \/ BindPutsBack(c)
             \/ BindSupersedes(c) \/ MarkRow(c)
    BY <1>1, <2>4 DEF BindBegins, BindConflicts, BindChecks, BindPutsBack, BindSupersedes, MarkRow,
                      recoveryVars
  <2>5. ASSUME NEW b \in Bindings, BindInserts(c, b) PROVE QuietStep
    BY <1>1, <1>2, <2>5 DEF BindInserts
  <2>6. CASE BindInsertRaises(c)
    BY <1>1, <1>2, <2>6 DEF BindInsertRaises
  <2> QED BY <1>2, <2>1, <2>2, <2>3, <2>4, <2>5, <2>6 DEF Proceeds, Disposes
<1>3. ASSUME NEW c \in Creators, Starts(c) \/ CallerFails(c) PROVE QuietStep
  BY <1>1, <1>3 DEF Starts, StartFirst, StartRestore, CallerFails
<1>4. ASSUME NEW b \in Bindings, NEW m \in Messages, TurnMoves(b, m) PROVE QuietStep \/ Completes(b, m)
  BY <1>1, <1>4 DEF TurnMoves, TurnClaimed, TurnFinished, Completes, recoveryVars
<1>5. CASE HostRestarts \/ (\E s \in Sessions : HostLoses(s))
  BY <1>0, <1>5 DEF HostRestarts, HostLoses, QuietStep
<1>6. CASE UNCHANGED allVars
  BY <1>1, <1>6 DEF allVars, recoveryVars
<1> QED BY <1>2, <1>3, <1>4, <1>5, <1>6, WhoBinds DEF RecoveryNext, SameRows

\* The faults that have happened have happened.
LEMMA HappenedGrows ==
    ASSUME [Next]_vars
    PROVE  happened \subseteq happened'
BY DEF Next, CreateStep, TurnStep, BeginFirst, ClaimReplacement, ReplacementConflict, Insert, InsertRaises,
       CheckCurrent, RestoreReplaced, SupersedeReplaced, Abandon, ClaimTurn, FinishTurn, MarkDisposed, vars

\* A caller disposes of the session it made or of that of its row.
LEMMA DisposalTarget ==
    ASSUME Base, NEW c \in Creators, Disposes(c)
    PROVE  /\ Target(c) \in Sessions
           /\ \/ call[c].at = "discard" /\ Target(c) = call[c].made
              \/ /\ call[c].at \in {"retire", "dispose"}
                 /\ call[c].row \in Bindings /\ Target(c) = session[call[c].row]
           /\ place' = place \/ HostDisposes(Target(c))
           /\ \A s \in Sessions : s # Target(c) => fate'[s] = fate[s]
           /\ UNCHANGED <<session, knows, late>>
<1>1. Disposing(c)
  BY DEF Disposes, DisposeAnswered, DisposeRaises
<1>2. CASE call[c].at = "discard"
  <2>1. call[c].made \in Sessions
    BY <1>2 DEF Base, CallsOK, CallOK, Calls
  <2> QED BY <1>2, <2>1 DEF Target, Disposes, DisposeAnswered, DisposeRaises, HostDisposes, hostVars,
                            Base, StoreTypes
<1>3. CASE call[c].at \in {"retire", "dispose"}
  <2>1. call[c].row \in Bindings /\ SessionOf(c) \in Sessions
    BY <1>3, RowSession DEF HasRow, CreatesFirst
  <2> QED BY <1>3, <2>1 DEF Target, SessionOf, Disposes, DisposeAnswered, DisposeRaises, HostDisposes,
                            hostVars, Base, StoreTypes
<1> QED BY <1>1, <1>2, <1>3 DEF Disposing

\* No row loses its session.
LEMMA SessionsStay ==
    ASSUME Base, [RecoveryNext]_allVars, NEW b \in Bindings, session[b] \in Sessions
    PROVE  session'[b] = session[b]
<1>1. ASSUME NEW c \in Creators, NEW a \in Bindings, Binds(c, a) PROVE session'[b] = session[b]
  <2>1. ~Exists(a) /\ session' = [session EXCEPT ![a] = call[c].made]
    BY <1>1 DEF Binds, InsertRow
  <2>2. a # b
    BY <2>1, NoSessionIsNone DEF Base, RowsHaveSessions
  <2> QED BY <2>1, <2>2 DEF Base, StoreTypes
<1> QED BY <1>1, WhoBinds DEF SameRows

LEMMA FreshStep ==
    ASSUME Base, Fresh, [RecoveryNext]_allVars
    PROVE  Fresh'
<1>0. /\ call \in [Creators -> Calls] /\ place \in [Sessions -> Places]
      /\ session \in [Bindings -> Sessions \cup {None}]
      /\ fate \in [Sessions -> {"kept", "disposed", "unanswered"}]
      /\ \A c \in Creators : call[c].made \in Sessions \cup {None}
      /\ None \notin Sessions
  BY NoSessionIsNone DEF Base, CallsOK, Calls, StoreTypes
<1>1. happened' = {} => happened = {}
  BY HappenedGrows, StepIsRowStep DEF Base
<1>2. \A c \in Creators : MadeAfter(c)
  BY MadeMoves
<1> DEFINE Created(c) == \E s \in Sessions : SessionCreated(c, s)
           Kept(c) == \/ call'[c].made = call[c].made
                      \/ /\ call'[c].at = "discard" /\ happened' # {}
                         /\ \E b \in Bindings : session[b] = call'[c].made
<1>11. ASSUME NEW c \in Creators, ~Created(c), call'[c].made # None PROVE Kept(c)
  BY <1>2, <1>11 DEF MadeAfter
<1>3. ASSUME \A c \in Creators : ~Created(c)
      PROVE  \A c, d \in Creators : call'[c].made = call'[d].made /\ call'[c].made # None
                 => c = d \/ \E b \in Bindings : session'[b] = call'[c].made
  <2> SUFFICES ASSUME NEW c \in Creators, NEW d \in Creators, call'[c].made = call'[d].made,
                      call'[c].made # None, c # d
               PROVE  \E b \in Bindings : session'[b] = call'[c].made
    OBVIOUS
  <2>1. ASSUME NEW b \in Bindings, session[b] = call'[c].made PROVE session'[b] = call'[c].made
    BY <1>0, <2>1, SessionsStay
  <2>2. \/ \E b \in Bindings : session[b] = call'[c].made
        \/ call'[c].made = call[c].made /\ call'[d].made = call[d].made
    <3>1. call'[d].made # None
      OBVIOUS
    <3> QED BY <1>3, <1>11, <3>1
  <2> QED BY <2>1, <2>2 DEF Fresh
<1>4. ASSUME \A c \in Creators : ~Created(c), UNCHANGED session
      PROVE  Fresh' \/ ~(\A s \in Sessions : place'[s] = "unused" => place[s] = "unused" /\ fate'[s] = fate[s])
  <2> SUFFICES ASSUME \A s \in Sessions : place'[s] = "unused" => place[s] = "unused" /\ fate'[s] = fate[s]
               PROVE  Fresh'
    OBVIOUS
  <2>1. \A c \in Creators : call'[c].made # None => Kept(c)
    BY <1>4, <1>11
  <2>2. ASSUME NEW c \in Creators, NEW b \in Bindings, call'[c].made # None,
               happened' = {} \/ (call'[c].at = "bind" /\ step'[c] \in {"idle", "insert"})
        PROVE  session'[b] # call'[c].made
    <3>1. happened = {} \/ (Binding(c) /\ step[c] \in {"idle", "insert"})
      BY <1>1, <1>2, <1>4, <2>2 DEF MadeAfter
    <3>2. call'[c].made = call[c].made
      BY <2>1, <2>2
    <3> QED BY <1>4, <2>2, <3>1, <3>2 DEF Fresh
  <2>3. \A s \in Sessions : place'[s] = "unused" =>
           /\ fate'[s] = "kept"
           /\ \A b \in Bindings : session'[b] # s
           /\ \A c \in Creators : call'[c].made # s
    BY <1>0, <1>4, <2>1 DEF Fresh
  <2>4. \A a, b \in Bindings : session'[a] = session'[b] /\ session'[a] # None => a = b
    BY <1>4 DEF Fresh
  <2> QED BY <1>3, <1>4, <2>2, <2>3, <2>4 DEF Fresh, Binding
<1>5. CASE QuietStep /\ \A c \in Creators : ~Created(c)
  BY <1>4, <1>5 DEF QuietStep
<1>6. ASSUME NEW c \in Creators, NEW s \in Sessions, SessionCreated(c, s) PROVE Fresh'
  <2>1. /\ UNCHANGED <<session, fate, step, happened>>
        /\ place[s] = "unused" /\ place' = [place EXCEPT ![s] = "live"]
        /\ call[c].at = "session"
    BY <1>6 DEF SessionCreated, HostCreates, vars, historyVars
  <2>2. /\ call'[c].made = s
        /\ \A d \in Creators : d # c => call'[d] = call[d]
    BY <1>0, <1>6 DEF SessionCreated, Become, Calls
  <2> QED BY <1>0, <2>1, <2>2 DEF Fresh, Binding
<1>7. ASSUME NEW c \in Creators, NEW s \in Sessions, Leaks(c, s), \A d \in Creators : ~Created(d) PROVE Fresh'
  <2>1. \A t \in Sessions : place'[t] = "unused" => place[t] = "unused" /\ fate'[t] = fate[t]
    BY <1>0, <1>7 DEF Leaks, HostCreates
  <2> QED BY <1>4, <1>7, <2>1 DEF Leaks
<1>8. ASSUME NEW c \in Creators, Disposes(c), \A d \in Creators : ~Created(d) PROVE Fresh'
  <2>1. \A t \in Sessions : place'[t] = "unused" => place[t] = "unused"
    BY <1>0, <1>8, DisposalTarget DEF HostDisposes
  <2>2. place[Target(c)] # "unused"
    BY <1>0, <1>8, DisposalTarget DEF Fresh
  <2> QED BY <1>4, <1>8, <2>1, <2>2, DisposalTarget
<1>9. ASSUME NEW b \in Bindings, NEW m \in Messages, Completes(b, m), \A d \in Creators : ~Created(d)
      PROVE  Fresh'
  BY <1>4, <1>9 DEF Completes, TurnFinished
<1>10. ASSUME NEW c \in Creators, NEW b \in Bindings, Binds(c, b), \A d \in Creators : ~Created(d)
       PROVE  Fresh'
  <2>1. /\ call[c].made # None /\ session' = [session EXCEPT ![b] = call[c].made]
        /\ UNCHANGED <<place, fate>> /\ Binding(c) /\ step[c] = "insert"
    BY <1>10 DEF Binds, Binding, Base, CallsOK, CallOK
  <2>2. \A a \in Bindings : session[a] # call[c].made
    BY <2>1 DEF Fresh
  <2>3. \A d \in Creators : call'[d].made # None => Kept(d)
    BY <1>10, <1>11
  <2>4. ASSUME NEW d \in Creators, NEW a \in Bindings, call'[d].made # None,
               happened' = {} \/ (call'[d].at = "bind" /\ step'[d] \in {"idle", "insert"})
        PROVE  session'[a] # call'[d].made
    <3>1. CASE d = c
      <4>1. "lost_ack" \in happened' /\ BindInsertRaises(c)
        BY <1>10, <2>4, <3>1, InsertBinds DEF Binds
      <4> QED BY <1>2, <1>10, <2>4, <3>1, <4>1 DEF MadeAfter
    <3>2. CASE d # c
      <4>0. call'[d].made = call[d].made
        BY <2>3, <2>4
      <4>1. call[d].made # call[c].made
        BY <2>1, <2>2, <2>4, <3>2, <4>0 DEF Fresh
      <4>2. happened = {} \/ (Binding(d) /\ step[d] \in {"idle", "insert"})
        BY <1>1, <1>2, <1>10, <2>4 DEF MadeAfter
      <4>3. session[a] # call[d].made
        BY <2>4, <4>0, <4>2 DEF Fresh
      <4> QED BY <1>0, <2>1, <2>4, <4>0, <4>1, <4>3
    <3> QED BY <3>1, <3>2
  <2>5. \A s \in Sessions : place'[s] = "unused" =>
           /\ fate'[s] = "kept"
           /\ \A a \in Bindings : session'[a] # s
           /\ \A d \in Creators : call'[d].made # s
    BY <1>0, <2>1, <2>3 DEF Fresh
  <2>6. \A a, e \in Bindings : session'[a] = session'[e] /\ session'[a] # None => a = e
    BY <1>0, <2>1, <2>2 DEF Fresh
  <2> QED BY <1>3, <1>10, <2>4, <2>5, <2>6 DEF Fresh, Binding
<1> QED BY <1>5, <1>6, <1>7, <1>8, <1>9, <1>10, SessionMoves

LEMMA FreshInvariant == RecoverySpec => []Fresh
<1>1. RecoveryInit => Fresh
  BY NoSessionIsNone DEF RecoveryInit, Fresh, NoCall
<1>2. Base /\ Fresh /\ [RecoveryNext]_allVars => Fresh'
  BY FreshStep
<1> QED BY <1>1, <1>2, BaseInvariant, PTL DEF RecoverySpec

-----------------------------------------------------------------------------
\* A caller's session is as it was made, or a row has it; and until a caller
\* crashes, every session in the host's memory is a caller's or a row's.
Owned ==
    /\ \A c \in Creators : call[c].made # None =>
           fate[call[c].made] = "kept" \/ \E b \in Bindings : session[b] = call[c].made
    /\ SessionsHaveRows

LEMMA OwnedStep ==
    ASSUME Base, Fresh, Owned, [RecoveryNext]_allVars
    PROVE  Owned'
<1>0. /\ call \in [Creators -> Calls] /\ place \in [Sessions -> Places]
      /\ session \in [Bindings -> Sessions \cup {None}]
      /\ fate \in [Sessions -> {"kept", "disposed", "unanswered"}]
      /\ \A c \in Creators : call[c].made \in Sessions \cup {None}
      /\ None \notin Sessions
      /\ happened \subseteq happened'
  BY NoSessionIsNone, HappenedGrows, StepIsRowStep DEF Base, CallsOK, Calls, StoreTypes
<1>1. \A c \in Creators : MadeAfter(c) /\ MadeGoes(c)
  BY MadeMoves
<1> DEFINE Created(c) == \E s \in Sessions : SessionCreated(c, s)
<1>2. \A b \in Bindings, s \in Sessions : session[b] = s => session'[b] = s
  BY SessionsStay
\* Who gives up a session that a caller has.
<1>3. ASSUME NEW c \in Creators, call'[c].made = call[c].made, call[c].made # None,
             fate'[call[c].made] # fate[call[c].made]
      PROVE  \E b \in Bindings : session[b] = call[c].made
  <2>1. place[call[c].made] # "unused"
    BY <1>0, <1>3 DEF Fresh
  <2>2. ASSUME NEW d \in Creators, NEW s \in Sessions, Leaks(d, s) PROVE FALSE
    BY <1>0, <1>3, <2>1, <2>2 DEF Leaks, HostCreates
  <2>3. ASSUME NEW d \in Creators, Disposes(d) PROVE \E b \in Bindings : session[b] = call[c].made
    <3>1. Target(d) = call[c].made
      BY <1>0, <1>3, <2>3, DisposalTarget
    <3>2. CASE call[d].at = "discard"
      <4>1. call[d].made = call[c].made /\ d # c
        BY <1>3, <2>3, <3>1, <3>2, DisposalTarget, DisposalEnds DEF Disposes
      <4> QED BY <1>3, <4>1 DEF Fresh
    <3> QED BY <2>3, <3>1, <3>2, DisposalTarget
  <2> QED BY <1>3, <2>2, <2>3, SessionMoves
          DEF QuietStep, SessionCreated, historyVars, Binds, Completes, TurnFinished
<1>4. ASSUME NEW c \in Creators, call'[c].made # None
      PROVE  fate'[call'[c].made] = "kept" \/ \E b \in Bindings : session'[b] = call'[c].made
  <2>1. CASE Created(c)
    <3>1. PICK s \in Sessions : SessionCreated(c, s)
      BY <2>1
    <3>2. call'[c].made = s /\ place[s] = "unused" /\ UNCHANGED fate
      BY <1>0, <3>1 DEF SessionCreated, Become, Calls, HostCreates, historyVars
    <3> QED BY <3>2 DEF Fresh
  <2>2. CASE ~Created(c)
    BY <1>0, <1>1, <1>2, <1>3, <1>4, <2>2 DEF Owned, MadeAfter
  <2> QED BY <2>1, <2>2
<1>5. ASSUME "crash" \notin happened', NEW s \in Sessions, place'[s] = "live", fate'[s] # "unanswered"
      PROVE  \/ \E b \in Bindings : session'[b] = s
             \/ \E c \in Creators : call'[c].made = s
  <2>1. CASE \E b \in Bindings : session[b] = s
    BY <1>2, <2>1
  <2>2. CASE \A b \in Bindings : session[b] # s
    <3>1. ASSUME NEW c \in Creators, call[c].made = s, call'[c].made # s
          PROVE  \E b \in Bindings : session'[b] = s
      <4>1. call'[c].made = None
        <5>1. ~Created(c)
          BY <1>0, <3>1 DEF SessionCreated, Base, CallsOK, CallOK
        <5> QED BY <1>1, <1>5, <3>1, <5>1 DEF MadeAfter
      <4>2. fate[s] = "kept"
        BY <1>0, <2>2, <3>1 DEF Owned
      <4>3. ASSUME call[c].at = "discard", DisposeAnswered(c) \/ DisposeRaises(c) PROVE FALSE
        <5>1. Target(c) = s
          BY <3>1, <4>3 DEF Target
        <5> QED BY <1>0, <1>5, <4>2, <4>3, <5>1 DEF DisposeAnswered, DisposeRaises, HostDisposes
      <4> QED BY <1>0, <1>1, <1>5, <3>1, <4>1, <4>3, InsertBinds DEF MadeGoes
    <3>2. ASSUME place[s] = "live", fate[s] # "unanswered"
          PROVE  \/ \E b \in Bindings : session'[b] = s
                 \/ \E c \in Creators : call'[c].made = s
      BY <1>0, <1>5, <2>2, <3>1, <3>2 DEF Owned, SessionsHaveRows
    <3>3. CASE QuietStep
      BY <1>5, <2>2, <3>2, <3>3 DEF QuietStep
    <3>4. ASSUME NEW c \in Creators, NEW t \in Sessions, SessionCreated(c, t)
          PROVE  (place[s] = "live" /\ fate[s] # "unanswered") \/ call'[c].made = s
      <4>1. call'[c].made = t
        BY <1>0, <3>4 DEF SessionCreated, Become, Calls
      <4> QED BY <1>0, <1>5, <3>4, <4>1 DEF SessionCreated, HostCreates, historyVars
    <3>5. ASSUME NEW c \in Creators, NEW t \in Sessions, Leaks(c, t)
          PROVE  place[s] = "live" /\ fate[s] # "unanswered"
      BY <1>0, <1>5, <3>5 DEF Leaks, HostCreates
    <3>6. ASSUME NEW c \in Creators, Disposes(c), Target(c) # s
          PROVE  place[s] = "live" /\ fate[s] # "unanswered"
      BY <1>0, <1>5, <3>6, DisposalTarget DEF HostDisposes
    <3>7. ASSUME NEW c \in Creators, Disposes(c), Target(c) = s
          PROVE  place[s] = "live" /\ fate[s] # "unanswered"
      <4>1. call[c].at = "discard" /\ call[c].made = s
        BY <2>2, <3>7, DisposalTarget
      <4>2. fate[s] = "kept"
        BY <1>0, <2>2, <4>1 DEF Owned
      <4> QED BY <1>0, <1>5, <3>7, <4>2 DEF Disposes, DisposeAnswered, DisposeRaises, HostDisposes, hostVars
    <3>8. CASE \/ \E c \in Creators, b \in Bindings : Binds(c, b)
               \/ \E b \in Bindings, m \in Messages : Completes(b, m)
      BY <1>5, <3>2, <3>8 DEF Binds, Completes, TurnFinished
    <3> QED BY <3>2, <3>3, <3>4, <3>5, <3>6, <3>7, <3>8, SessionMoves
  <2> QED BY <2>1, <2>2
<1> QED BY <1>4, <1>5 DEF Owned, SessionsHaveRows

LEMMA OwnedInvariant == RecoverySpec => []Owned
<1>1. RecoveryInit => Owned
  BY DEF RecoveryInit, Owned, SessionsHaveRows, NoCall
<1>2. Base /\ Fresh /\ Owned /\ [RecoveryNext]_allVars => Owned'
  BY OwnedStep
<1> QED BY <1>1, <1>2, BaseInvariant, FreshInvariant, PTL DEF RecoverySpec

\* Until a caller crashes, rebuilds, rotations and first creates that lose to each
\* other leave no session in the host's memory that no row is bound to.
THEOREM SessionsAreOwned == RecoverySpec => []SessionsHaveRows
BY OwnedInvariant, PTL DEF Owned

-----------------------------------------------------------------------------
\* A row that was superseded or disposed of stays so.
LEMMA RetiredStays ==
    ASSUME RowInv, [Next]_vars, NEW b \in Bindings, Retired(b)
    PROVE  Retired(b)'
<1> USE DEF Retired
<1>1. /\ status \in [Bindings -> RowStatus] /\ ~current[b] /\ active[b].status # "running"
      /\ Exists(b)
  BY DEF RowInv, LockInv, TypeOK, RunningIsCurrent, RetiredInv, Exists
<1>2. ASSUME NEW c \in Creators, CreateStep(c) PROVE Retired(b)'
  BY <1>1, <1>2 DEF CreateStep, BeginFirst, ClaimReplacement, Claimable, ReplacementConflict, Insert,
     InsertRaises, InsertRow, CheckCurrent, RestoreReplaced, Restorable, SupersedeReplaced, Abandon,
     SetRow, rowVars, vars
<1>3. ASSUME NEW a \in Bindings, TurnStep(a) PROVE Retired(b)'
  BY <1>1, <1>3 DEF TurnStep, ClaimTurn, Claimable, FinishTurn, MarkDisposed, SetRow
<1> QED BY <1>2, <1>3 DEF Next, vars

\* Only a rotation that has superseded its row goes on to retire its session.
LEMMA RetiresSuperseded ==
    ASSUME CallsOK, NEW c \in Creators, Starts(c) \/ Proceeds(c) \/ CallerFails(c),
           call'[c].at = "retire"
    PROVE  BindSupersedes(c) /\ call'[c].row = seen[c]
<1>0. call \in [Creators -> Calls] /\ call[c] \in Calls
  BY DEF CallsOK
<1>1. ASSUME NEW r, Become(c, r) PROVE r.at = "retire"
  BY <1>0, <1>1 DEF Become
<1>2. /\ NoCall.at # "retire" /\ Raised(call[c]).at # "retire"
      /\ \A b : [NoCall EXCEPT !.at = "session", !.kind = "rotate", !.row = b].at # "retire"
      /\ \A b : [NoCall EXCEPT !.at = "dispose", !.why = "delete", !.row = b].at # "retire"
  BY DEF NoCall, Raised
<1>3. \A b : \A q \in Restored(call[c], b) : q.at # "retire"
  BY <1>2 DEF Restored
<1>4. ASSUME NEW at, Move(c, at) PROVE at = "retire"
  BY <1>0, <1>1, <1>4 DEF Move, Calls
<1>5. ~Starts(c)
  <2>1. ~StartFirst(c)
    <3>1. [NoCall EXCEPT !.at = "session"].at # "retire"
      BY DEF NoCall
    <3> QED BY <1>1, <3>1 DEF StartFirst
  <2>2. ASSUME NEW b \in Bindings, NEW why, StartRestore(c, b, why) PROVE FALSE
    <3>1. [NoCall EXCEPT !.at = "resume", !.why = why, !.row = b].at # "retire"
      BY DEF NoCall
    <3> QED BY <1>1, <2>2, <3>1 DEF StartRestore
  <2> QED BY <2>1, <2>2 DEF Starts
<1>6. ~(ResumeAnswered(c) \/ ResumeRaises(c) \/ ResumeGarbled(c) \/ SessionRaises(c) \/ MarkRow(c))
  BY <1>1, <1>2, <1>3, <1>4 DEF ResumeAnswered, ResumeRaises, ResumeGarbled, SessionRaises, MarkRow
<1>7. ~Export(c) /\ \A s \in Sessions : ~SessionCreated(c, s)
  <2>1. [call[c] EXCEPT !.at = "session", !.kind = "rebuild"].at # "retire"
    BY <1>0 DEF Calls
  <2>2. [call[c] EXCEPT !.at = "session", !.kind = "rebuild", !.sealed = TRUE,
                        !.seed = knows[SessionOf(c)]].at # "retire"
    BY <1>0 DEF Calls
  <2>3. \A s : [call[c] EXCEPT !.at = "bind", !.made = s, !.sealed = FALSE, !.seed = {}].at # "retire"
    BY <1>0 DEF Calls
  <2> QED BY <1>1, <2>1, <2>2, <2>3 DEF Export, SessionCreated
<1>8. ~(BindBegins(c) \/ BindConflicts(c) \/ BindInsertRaises(c) \/ BindChecks(c) \/ BindPutsBack(c))
  BY <1>4 DEF BindBegins, BindConflicts, BindInsertRaises, BindChecks, BindPutsBack, Binding,
              AfterFailedCreate, recoveryVars
<1>9. \A b \in Bindings : ~BindInserts(c, b)
  <2>1. \A k : call[c].at = "bind" => [call[c] EXCEPT !.made = None, !.row = k].at # "retire"
    BY <1>0 DEF Calls
  <2> QED BY <1>1, <1>2, <2>1 DEF BindInserts, Binding
<1>10. ~(DisposeAnswered(c) \/ DisposeRaises(c))
  <2>1. ASSUME NEW answered \in BOOLEAN, Disposing(c) PROVE AfterDispose(call[c], answered).at # "retire"
    BY <1>0, <1>2, <2>1 DEF AfterDispose, Disposing, Calls
  <2> QED BY <1>1, <2>1 DEF DisposeAnswered, DisposeRaises
<1>11. ~CallerFails(c)
  <2>1. \A s, b : [call[c] EXCEPT !.at = "discard", !.made = s, !.row = b].at # "retire"
    BY <1>0 DEF Calls
  <2> QED BY <1>1, <1>2, <1>4, <2>1 DEF CallerFails, AfterFailedCreate
<1>12. BindSupersedes(c)
  BY <1>5, <1>6, <1>7, <1>8, <1>9, <1>10, <1>11 DEF Proceeds
<1>13. Become(c, [call[c] EXCEPT !.at = "retire", !.row = seen[c]])
  BY <1>1, <1>3, <1>12 DEF BindSupersedes
<1>14. call'[c].row = seen[c]
  BY <1>0, <1>13 DEF Become, Calls
<1> QED BY <1>12, <1>14

\* Sessions are given up behind their rows: the session of a row is disposed of
\* when the row is retired, or just before a deletion marks it.
DisposalInv ==
    /\ \A c \in Creators : call[c].at = "retire" => Retired(call[c].row)
    /\ happened = {} =>
           \A b \in Bindings, s \in Sessions :
               session[b] = s /\ fate[s] = "disposed"
                   => \/ Retired(b)
                      \/ \E c \in Creators : call[c].at = "mark" /\ call[c].row = b

LEMMA DisposalStep ==
    ASSUME Base, Fresh, Owned, DisposalInv, [RecoveryNext]_allVars
    PROVE  DisposalInv'
<1>0. /\ call \in [Creators -> Calls]
      /\ session \in [Bindings -> Sessions \cup {None}]
      /\ fate \in [Sessions -> {"kept", "disposed", "unanswered"}]
      /\ \A c \in Creators : call[c].made \in Sessions \cup {None} /\ CallOK(call[c], step[c], seen[c])
      /\ None \notin Sessions
      /\ happened \subseteq happened'
      /\ CallsOK /\ RowInv /\ [Next]_vars
  BY NoSessionIsNone, HappenedGrows, StepIsRowStep DEF Base, CallsOK, Calls, StoreTypes
<1>1. \A b \in Bindings : Retired(b) => Retired(b)'
  BY <1>0, RetiredStays
<1>2. ASSUME NEW c \in Creators, call'[c] # call[c]
      PROVE  Starts(c) \/ Proceeds(c) \/ CallerFails(c)
  <2>1. ASSUME NEW d \in Creators, Starts(d) \/ Proceeds(d) \/ CallerFails(d) PROVE d = c
    BY <1>0, <1>2, <2>1, RowOfMover
  <2> QED BY <1>2, <2>1 DEF RecoveryNext, TurnMoves, TurnClaimed, TurnFinished, HostRestarts, HostLoses,
                            allVars, recoveryVars
<1>3. ASSUME NEW c \in Creators, call'[c].at = "retire" PROVE Retired(call[c].row)'
  <2>1. CASE call'[c] = call[c]
    <3>1. call[c].row \in Bindings /\ Retired(call[c].row)
      BY <1>0, <1>3, <2>1 DEF CallOK, HasRow, CreatesFirst, DisposalInv
    <3> QED BY <1>1, <2>1, <3>1 DEF Retired
  <2>2. CASE call'[c] # call[c]
    <3>1. BindSupersedes(c) /\ call'[c].row = seen[c]
      BY <1>0, <1>2, <1>3, <2>2, RetiresSuperseded
    <3>2. step[c] = "supersede" /\ call[c].at = "bind"
      BY <3>1 DEF BindSupersedes, SupersedeReplaced, Binding
    <3>3. seen[c] \in Bindings /\ seen[c] # None
      BY <3>2, ConstantsAreDistinct DEF Base, RowInv, LockInv, TypeOK, SuccessionInv
    <3>4. status[seen[c]] = "replacing" \/ Retired(seen[c])
      BY <3>2, <3>3 DEF Base, RowInv, HoldersInv, Holds, Disposed, Retired
    <3>5. status'[seen[c]] \in {"superseded", "disposed", "disposal_pending"}
      BY <3>1, <3>3, <3>4 DEF BindSupersedes, SupersedeReplaced, Retired, RowInv, LockInv, TypeOK, Base
    <3> QED BY <3>1, <3>3, <3>5 DEF Retired
  <2> QED BY <2>1, <2>2
<1>4. ASSUME happened' = {}, NEW b \in Bindings, NEW s \in Sessions, session'[b] = s, fate'[s] = "disposed"
      PROVE  Retired(b)' \/ \E c \in Creators : call'[c].at = "mark" /\ call'[c].row = b
  <2>0. happened = {}
    BY <1>0, <1>4
  <2>1. CASE session[b] = s /\ fate[s] = "disposed" /\ ~Retired(b)
    <3>1. PICK c \in Creators : call[c].at = "mark" /\ call[c].row = b
      BY <2>0, <2>1 DEF DisposalInv
    <3>2. CASE call'[c] = call[c]
      BY <3>1, <3>2
    <3>3. CASE call'[c] # call[c]
      <4>1. ~CallerFails(c)
        BY <1>4 DEF CallerFails, Abandon
      <4>2. MarkRow(c)
        BY <1>2, <3>1, <3>3, <4>1
        DEF Starts, StartFirst, StartRestore, Proceeds, ResumeAnswered, ResumeRaises, ResumeGarbled,
            Export, SessionCreated, SessionRaises, BindBegins, BindConflicts, BindInserts,
            BindInsertRaises, BindChecks, BindPutsBack, BindSupersedes, Binding, DisposeAnswered,
            DisposeRaises, Disposing
      <4>3. Retired(b)'
        BY <3>1, <4>2 DEF MarkRow, MarkDisposed, SetRow, Retired, Base, RowInv, LockInv, TypeOK
      <4> QED BY <4>3
    <3> QED BY <3>2, <3>3
  <2>2. CASE session[b] = s /\ fate[s] # "disposed"
    <3>1. PICK c \in Creators : DisposeAnswered(c) /\ Target(c) = s
      <4>1. ASSUME NEW c \in Creators, NEW t \in Sessions, Leaks(c, t) PROVE FALSE
        BY <1>0, <1>4, <2>2, <4>1 DEF Leaks
      <4>2. PICK c \in Creators : Disposes(c)
        BY <1>4, <2>2, <4>1, SessionMoves
        DEF QuietStep, SessionCreated, historyVars, Binds, Completes, TurnFinished
      <4>3. Target(c) = s
        BY <1>4, <2>2, <4>2, DisposalTarget
      <4>4. ~DisposeRaises(c)
        BY <1>0, <1>4, <2>2, <4>3 DEF DisposeRaises
      <4> QED BY <4>2, <4>3, <4>4 DEF Disposes
    <3>2. CASE call[c].at = "discard"
      BY <1>0, <2>0, <2>2, <3>1, <3>2, DisposalTarget DEF Disposes, Fresh
    <3>3. CASE call[c].at = "retire"
      BY <1>0, <1>1, <2>2, <3>1, <3>3, DisposalTarget DEF Disposes, Fresh, DisposalInv
    <3>4. CASE call[c].at = "dispose"
      <4>1. call[c].row = b
        BY <1>0, <2>2, <3>1, <3>4, DisposalTarget DEF Disposes, Fresh
      <4>2. call'[c] = [call[c] EXCEPT !.at = "mark"]
        BY <1>0, <3>1, <3>4 DEF DisposeAnswered, AfterDispose, Become
      <4>3. call'[c].at = "mark" /\ call'[c].row = call[c].row
        BY <1>0, <4>2 DEF Calls
      <4> QED BY <4>1, <4>3
    <3> QED BY <3>1, <3>2, <3>3, <3>4 DEF DisposeAnswered, Disposing
  <2>3. CASE session[b] # s
    <3>1. PICK c \in Creators, a \in Bindings : Binds(c, a)
      BY <1>4, <2>3, WhoBinds DEF SameRows
    <3>2. /\ session' = [session EXCEPT ![a] = call[c].made] /\ UNCHANGED fate
          /\ Binding(c) /\ step[c] = "insert"
      BY <3>1 DEF Binds
    <3>3. call[c].made = s
      BY <1>0, <1>4, <2>3, <3>2
    <3>4. fate[s] = "kept"
      BY <1>0, <3>2, <3>3 DEF Owned, Fresh
    <3> QED BY <1>4, <3>2, <3>4
  <2> QED BY <1>1, <2>1, <2>2, <2>3
<1> QED BY <1>3, <1>4 DEF DisposalInv, Retired

LEMMA DisposalInvariant == RecoverySpec => []DisposalInv
<1>1. RecoveryInit => DisposalInv
  BY DEF RecoveryInit, DisposalInv, NoCall
<1>2. Base /\ Fresh /\ Owned /\ DisposalInv /\ [RecoveryNext]_allVars => DisposalInv'
  BY DisposalStep
<1> QED BY <1>1, <1>2, BaseInvariant, FreshInvariant, OwnedInvariant, PTL DEF RecoverySpec

\* None of the three disposals closes the session that turns will be sent to,
\* until a crash or a failing store.
THEOREM CurrentSessionsAreOpen == RecoverySpec => []DisposedIsRetired
<1>1. Base /\ DisposalInv => DisposedIsRetired
  BY DEF Base, RowInv, RetiredInv, DisposalInv, DisposedIsRetired
<1> QED BY <1>1, BaseInvariant, DisposalInvariant, PTL

-----------------------------------------------------------------------------
\* A row's event log grows by the turns that complete on that row, and no log of a
\* session that was ever created loses a turn.
LEMMA LogsGrow ==
    ASSUME Base, Fresh, [RecoveryNext]_allVars
    PROVE  /\ late \subseteq late'
           /\ \A s \in Sessions : place[s] # "unused" => knows[s] \subseteq knows'[s]
           /\ \A b \in Bindings : session[b] \in Sessions =>
                  \/ knows'[session[b]] = knows[session[b]]
                  \/ \E m \in Messages : /\ Completes(b, m)
                                         /\ knows'[session[b]] = knows[session[b]] \cup {m}
<1> USE DEF Fresh
<1>0. /\ knows \in [Sessions -> SUBSET Messages] /\ place \in [Sessions -> Places]
      /\ None \notin Sessions
  BY NoSessionIsNone DEF Base, StoreTypes
<1>1. CASE UNCHANGED <<knows, late>>
  BY <1>1
<1>2. ASSUME NEW c \in Creators, NEW s \in Sessions, HostCreates(s, call[c]), UNCHANGED late
      PROVE  /\ late \subseteq late'
             /\ \A t \in Sessions : place[t] # "unused" => knows'[t] = knows[t]
             /\ \A b \in Bindings : session[b] \in Sessions => knows'[session[b]] = knows[session[b]]
  BY <1>0, <1>2 DEF HostCreates
<1>3. ASSUME NEW a \in Bindings, NEW m \in Messages, Completes(a, m)
      PROVE  /\ late \subseteq late'
             /\ \A s \in Sessions : knows[s] \subseteq knows'[s]
             /\ \A b \in Bindings : session[b] \in Sessions =>
                    \/ knows'[session[b]] = knows[session[b]]
                    \/ Completes(b, m) /\ knows'[session[b]] = knows[session[b]] \cup {m}
  <2>1. knows' = [knows EXCEPT ![session[a]] = @ \cup {m}] /\ late \subseteq late'
    BY <1>3 DEF Completes, TurnFinished
  <2>2. ASSUME NEW b \in Bindings, session[b] \in Sessions
        PROVE  \/ knows'[session[b]] = knows[session[b]]
               \/ Completes(b, m) /\ knows'[session[b]] = knows[session[b]] \cup {m}
    <3>1. CASE session[a] = session[b]
      BY <1>0, <1>3, <2>1, <2>2, <3>1
    <3>2. CASE session[a] # session[b]
      BY <1>0, <2>1, <2>2, <3>2
    <3> QED BY <3>1, <3>2
  <2> QED BY <1>0, <2>1, <2>2
<1>4. CASE \E c \in Creators, s \in Sessions : SessionCreated(c, s) \/ Leaks(c, s)
  BY <1>2, <1>4 DEF SessionCreated, Leaks, historyVars
<1>5. CASE QuietStep \/ (\E c \in Creators, b \in Bindings : Binds(c, b)) \/ \E c \in Creators : Disposes(c)
  BY <1>1, <1>5, DisposalTarget DEF QuietStep, Binds
<1> QED BY <1>3, <1>4, <1>5, SessionMoves

\* A sealed copy is taken by an export and used by the next request.
LEMMA SealedByExport ==
    ASSUME CallsOK, NEW c \in Creators, Starts(c) \/ Proceeds(c) \/ CallerFails(c),
           call'[c].sealed
    PROVE  \/ call[c].sealed /\ call'[c] = call[c]
           \/ /\ Export(c) /\ call'[c].at = "session" /\ call'[c].row = call[c].row
              /\ call'[c].seed = knows[SessionOf(c)]
           \/ call[c].sealed /\ call[c].at # "session"
<1>0. call \in [Creators -> Calls] /\ call[c] \in Calls
  BY DEF CallsOK
<1>1. ASSUME NEW r, Become(c, r) PROVE call'[c] = r /\ r.sealed
  BY <1>0, <1>1 DEF Become
<1>2. /\ ~NoCall.sealed /\ ~Raised(call[c]).sealed
      /\ \A b : ~[NoCall EXCEPT !.at = "session", !.kind = "rotate", !.row = b].sealed
      /\ \A b : ~[NoCall EXCEPT !.at = "dispose", !.why = "delete", !.row = b].sealed
  BY DEF NoCall, Raised
<1>3. \A b : \A q \in Restored(call[c], b) : ~q.sealed
  BY <1>2 DEF Restored
<1>4. ASSUME NEW at, Move(c, at) PROVE call[c].sealed
  BY <1>0, <1>1, <1>4 DEF Move, Calls
<1>5. ~Starts(c)
  <2>1. ~StartFirst(c)
    <3>1. ~[NoCall EXCEPT !.at = "session"].sealed
      BY DEF NoCall
    <3> QED BY <1>1, <3>1 DEF StartFirst
  <2>2. ASSUME NEW b \in Bindings, NEW why, StartRestore(c, b, why) PROVE FALSE
    <3>1. ~[NoCall EXCEPT !.at = "resume", !.why = why, !.row = b].sealed
      BY DEF NoCall
    <3> QED BY <1>1, <2>2, <3>1 DEF StartRestore
  <2> QED BY <2>1, <2>2 DEF Starts
<1>6. ~(ResumeAnswered(c) \/ ResumeRaises(c) \/ SessionRaises(c) \/ MarkRow(c))
  BY <1>1, <1>2, <1>3 DEF ResumeAnswered, ResumeRaises, SessionRaises, MarkRow
<1>7. CASE ResumeGarbled(c)
  BY <1>4, <1>7 DEF ResumeGarbled
<1>8. CASE Export(c)
  <2>1. CASE Become(c, [call[c] EXCEPT !.at = "session", !.kind = "rebuild", !.sealed = TRUE,
                                       !.seed = knows[SessionOf(c)]])
    <3>1. call'[c] = [call[c] EXCEPT !.at = "session", !.kind = "rebuild", !.sealed = TRUE,
                                     !.seed = knows[SessionOf(c)]]
      BY <1>1, <2>1
    <3> QED BY <1>0, <1>8, <3>1 DEF Calls
  <2>2. CASE Become(c, [call[c] EXCEPT !.at = "session", !.kind = "rebuild"])
    <3>1. call[c].sealed
      BY <1>0, <1>1, <2>2 DEF Calls
    <3> QED BY <1>8, <3>1 DEF Export
  <2> QED BY <1>8, <2>1, <2>2 DEF Export
<1>9. \A s \in Sessions : ~SessionCreated(c, s)
  <2>1. \A s : ~[call[c] EXCEPT !.at = "bind", !.made = s, !.sealed = FALSE, !.seed = {}].sealed
    BY <1>0 DEF Calls
  <2> QED BY <1>1, <2>1 DEF SessionCreated
<1>10. CASE \/ BindBegins(c) \/ BindConflicts(c) \/ BindInsertRaises(c) \/ BindChecks(c) \/ BindPutsBack(c)
            \/ BindSupersedes(c)
  <2>1. \A b : [call[c] EXCEPT !.at = "retire", !.row = b].sealed = call[c].sealed
    BY <1>0 DEF Calls
  <2> QED BY <1>1, <1>3, <1>4, <1>10, <2>1
          DEF BindBegins, BindConflicts, BindInsertRaises, BindChecks, BindPutsBack, BindSupersedes,
              Binding, recoveryVars
<1>11. ASSUME NEW b \in Bindings, BindInserts(c, b) PROVE call[c].sealed /\ call[c].at = "bind"
  <2>1. \A k : [call[c] EXCEPT !.made = None, !.row = k].sealed = call[c].sealed
    BY <1>0 DEF Calls
  <2> QED BY <1>1, <1>2, <1>11, <2>1 DEF BindInserts, Binding
<1>12. CASE DisposeAnswered(c) \/ DisposeRaises(c)
  <2>1. ASSUME NEW answered \in BOOLEAN, Disposing(c), AfterDispose(call[c], answered).sealed
        PROVE  call[c].sealed
    BY <1>0, <1>2, <2>1 DEF AfterDispose, Disposing, Calls
  <2> QED BY <1>1, <1>12, <2>1 DEF DisposeAnswered, DisposeRaises, Disposing
<1>13. CASE CallerFails(c)
  <2>1. \A s, b : [call[c] EXCEPT !.at = "discard", !.made = s, !.row = b].sealed = call[c].sealed
    BY <1>0 DEF Calls
  <2>2. step[c] = "supersede" => call[c].at = "bind"
    BY DEF CallsOK, CallOK
  <2>3. CASE Become(c, NoCall)
    BY <1>1, <1>2, <2>3
  <2>4. CASE Binding(c) /\ Move(c, AfterFailedCreate)
    BY <1>4, <2>4 DEF Binding
  <2>5. ASSUME step[c] = "supersede",
               Become(c, [call[c] EXCEPT !.at = "discard", !.made = SessionOf(c), !.row = seen[c]])
        PROVE  call[c].sealed /\ call[c].at # "session"
    <3>1. [call[c] EXCEPT !.at = "discard", !.made = SessionOf(c), !.row = seen[c]].sealed
      BY <1>1, <2>5
    <3> QED BY <2>1, <2>2, <2>5, <3>1
  <2> QED BY <1>13, <2>3, <2>4, <2>5 DEF CallerFails, AfterFailedCreate
<1> QED BY <1>5, <1>6, <1>7, <1>8, <1>9, <1>10, <1>11, <1>12, <1>13 DEF Proceeds

\* A turn that completes while a copy of its log is out and its row not yet claimed
\* counts as late; a claimed row has no turn.  So what is copied is complete.
CopyInv ==
    /\ \A c \in Creators : call[c].sealed => call[c].at = "session"
    /\ \A c \in Creators : call[c].sealed /\ call[c].kind # "first"
           => knows[SessionOf(c)] \subseteq call[c].seed \cup late
    /\ \A c \in Creators : Binding(c) /\ call[c].kind # "first" /\ step[c] \in {"idle", "insert"}
           => knows[SessionOf(c)] \subseteq knows[call[c].made] \cup late
    /\ SuccessorRemembers

LEMMA CopyStep ==
    ASSUME Base, Fresh, CopyInv, [RecoveryNext]_allVars
    PROVE  CopyInv'
<1>0. /\ call \in [Creators -> Calls] /\ knows \in [Sessions -> SUBSET Messages]
      /\ session \in [Bindings -> Sessions \cup {None}]
      /\ \A c \in Creators : /\ call[c] \in Calls /\ CallOK(call[c], step[c], seen[c])
                             /\ call[c].made \in Sessions \cup {None}
                             /\ HasRow(call[c]) => call[c].row \in Bindings /\ SessionOf(c) \in Sessions
      /\ None \notin Sessions /\ None \notin Bindings
      /\ happened \subseteq happened' /\ late \subseteq late'
      /\ CallsOK /\ CallsOK' /\ [Next]_vars
  BY NoSessionIsNone, ConstantsAreDistinct, HappenedGrows, StepIsRowStep, CallsStep, LogsGrow, RowSession
  DEF Base, CallsOK, Calls, StoreTypes
<1>1. \A s \in Sessions : place[s] # "unused" => knows[s] \subseteq knows'[s]
  BY LogsGrow
\* The log of a row whose copy is out, or that is claimed, grows by late turns only.
<1>2. ASSUME NEW c \in Creators, HasRow(call[c]),
             \/ call[c].at = "session" /\ call[c].sealed
             \/ Binding(c) /\ call[c].kind # "first" /\ step[c] \in {"idle", "insert"}
      PROVE  knows'[SessionOf(c)] \subseteq knows[SessionOf(c)] \cup late'
  <2> DEFINE b == call[c].row
  <2>1. SUFFICES ASSUME NEW m \in Messages, Completes(b, m),
                        knows'[SessionOf(c)] = knows[SessionOf(c)] \cup {m}
                 PROVE  m \in late'
    BY <1>0, <1>2, LogsGrow DEF SessionOf
  <2>2. CASE CopyTaken(b)
    BY <2>1, <2>2 DEF Completes, TurnFinished
  <2>3. CASE ~CopyTaken(b)
    <3>1. Binding(c) /\ call[c].kind # "first" /\ step[c] = "insert"
      BY <1>2, <2>3 DEF CopyTaken
    <3>2. seen[c] = b /\ b \in Bindings /\ seen[c] # None
      BY <1>0, <1>2, <3>1 DEF CallOK, Binding
    <3>3. ~current[b]
      BY <3>1, <3>2 DEF Base, RowInv, SuccessionInv, Claimed
    <3>4. active[b].status = "running"
      BY <2>1 DEF Completes, TurnFinished, FinishTurn
    <3> QED BY <3>2, <3>3, <3>4 DEF Base, RowInv, LockInv, RunningIsCurrent
  <2> QED BY <2>2, <2>3
<1>3. ASSUME NEW c \in Creators, call'[c] # call[c]
      PROVE  Starts(c) \/ Proceeds(c) \/ CallerFails(c)
  <2>1. ASSUME NEW d \in Creators, Starts(d) \/ Proceeds(d) \/ CallerFails(d) PROVE d = c
    BY <1>0, <1>3, <2>1, RowOfMover
  <2> QED BY <1>3, <2>1 DEF RecoveryNext, TurnMoves, TurnClaimed, TurnFinished, HostRestarts, HostLoses,
                            allVars, recoveryVars
<1>4. ASSUME NEW c \in Creators, call'[c].sealed
      PROVE  \/ call[c].sealed /\ call'[c] = call[c]
             \/ /\ Export(c) /\ call'[c].at = "session" /\ call'[c].row = call[c].row
                /\ call'[c].seed = knows[SessionOf(c)]
  BY <1>0, <1>3, <1>4, SealedByExport DEF CopyInv
<1>5. ASSUME NEW c \in Creators, call'[c].sealed, call'[c].kind # "first"
      PROVE  knows'[SessionOf(c)'] \subseteq call'[c].seed \cup late'
  <2>1. CASE call[c].sealed /\ call'[c] = call[c]
    <3>1. HasRow(call[c]) /\ call[c].at = "session"
      BY <1>5, <2>1 DEF CopyInv, HasRow, CreatesFirst
    <3>2. SessionOf(c)' = SessionOf(c)
      BY <1>0, <2>1, <3>1, SessionsStay DEF SessionOf
    <3> QED BY <1>0, <1>2, <1>5, <2>1, <3>1, <3>2 DEF CopyInv
  <2>2. CASE /\ Export(c) /\ call'[c].row = call[c].row
             /\ call'[c].seed = knows[SessionOf(c)]
    <3>1. HasRow(call[c]) /\ UNCHANGED <<session, knows>>
      BY <2>2 DEF Export, HasRow, CreatesFirst, hostVars
    <3> QED BY <2>2, <3>1 DEF SessionOf
  <2> QED BY <1>4, <1>5, <2>1, <2>2
<1>6. ASSUME NEW c \in Creators, call'[c].at = "bind", call'[c].kind # "first", step'[c] \in {"idle", "insert"}
      PROVE  knows'[SessionOf(c)'] \subseteq knows'[call'[c].made] \cup late'
  <2>1. call'[c].made # None
    BY <1>0, <1>6 DEF CallsOK, CallOK
  <2>2. ASSUME NEW s \in Sessions, SessionCreated(c, s)
        PROVE  knows'[SessionOf(c)'] \subseteq knows'[call'[c].made] \cup late'
    <3>1. /\ place[s] = "unused" /\ call[c].at = "session" /\ UNCHANGED session
          /\ knows' = [knows EXCEPT ![s] = Seed(call[c])]
      BY <2>2 DEF SessionCreated, HostCreates
    <3>2. call'[c].made = s /\ call'[c].row = call[c].row /\ call'[c].kind = call[c].kind
      BY <1>0, <2>2 DEF SessionCreated, Become, Calls
    <3>3. HasRow(call[c])
      BY <1>6, <3>1, <3>2 DEF HasRow, CreatesFirst
    <3>4. SessionOf(c)' = SessionOf(c) /\ SessionOf(c) # s
      BY <1>0, <3>1, <3>2, <3>3 DEF SessionOf, Fresh
    <3>5. knows[SessionOf(c)] \subseteq Seed(call[c]) \cup late
      BY <1>6, <3>2 DEF Seed, SessionOf, CopyInv
    <3> QED BY <1>0, <3>1, <3>2, <3>3, <3>4, <3>5
  <2>3. CASE /\ call'[c].made = call[c].made /\ call'[c].row = call[c].row /\ call'[c].kind = call[c].kind
             /\ Binding(c) /\ step[c] \in {"idle", "insert"}
    <3>1. HasRow(call[c])
      BY <1>6, <2>3 DEF HasRow, CreatesFirst, Binding
    <3>2. SessionOf(c)' = SessionOf(c)
      BY <1>0, <2>3, <3>1, SessionsStay DEF SessionOf
    <3>3. knows[call[c].made] \subseteq knows'[call[c].made]
      BY <1>0, <1>1, <2>1, <2>3 DEF Fresh
    <3> QED BY <1>0, <1>2, <1>6, <2>3, <3>1, <3>2, <3>3 DEF CopyInv
  <2> QED BY <1>6, <2>1, <2>2, <2>3, MadeMoves DEF MadeAfter
<1>7. ASSUME "lost_ack" \notin happened', NEW b \in Bindings, NEW p \in Bindings,
             NEW s \in Sessions, NEW t \in Sessions,
             replaces'[b] = p, session'[b] = s, session'[p] = t
      PROVE  knows'[t] \subseteq knows'[s] \cup late'
  <2>0. "lost_ack" \notin happened /\ replaces \in [Bindings -> Bindings \cup {None}]
    BY <1>0, <1>7 DEF Base, RowInv, LockInv, TypeOK
  <2>1. CASE session[b] = s /\ replaces[b] = p
    <3>1. session[p] = t
      BY <1>0, <1>7, <2>1, SessionsStay DEF Base, RowInv, SuccessionInv, RowsHaveSessions
    <3>2. ~current[p] /\ knows[s] \subseteq knows'[s]
      BY <1>0, <1>1, <2>0, <2>1 DEF Base, RowInv, SuccessionInv, RowsHaveSessions, Fresh
    <3>3. \A m \in Messages : ~Completes(p, m)
      BY <3>2 DEF Base, RowInv, LockInv, RunningIsCurrent, Completes, TurnFinished, FinishTurn
    <3>4. knows'[t] = knows[t]
      BY <3>1, <3>3, LogsGrow
    <3> QED BY <1>0, <2>0, <2>1, <3>1, <3>2, <3>4 DEF CopyInv, SuccessorRemembers
  <2>2. ASSUME NEW c \in Creators, Binds(c, b)
        PROVE  knows'[t] \subseteq knows'[s] \cup late'
    <3>1. /\ Binding(c) /\ step[c] = "insert" /\ UNCHANGED knows
          /\ ~Exists(b) /\ replaces' = [replaces EXCEPT ![b] = seen[c]]
          /\ session' = [session EXCEPT ![b] = call[c].made]
          /\ late' = late
      BY <2>2 DEF Binds, InsertRow
    <3>2. seen[c] = p /\ call[c].made = s
      BY <1>0, <1>7, <2>0, <3>1
    <3>3. call[c].kind # "first" /\ call[c].row = p
      BY <1>0, <3>1, <3>2 DEF CallOK, Binding
    <3>4. p # b
      BY <3>1, <3>2, <1>0 DEF Base, RowInv, SuccessionInv
    <3>5. SessionOf(c) = t
      BY <1>0, <1>7, <3>1, <3>3, <3>4 DEF SessionOf
    <3> QED BY <3>1, <3>2, <3>3, <3>5 DEF CopyInv
  <2>3. ASSUME NEW c \in Creators, NEW a \in Bindings, Binds(c, a), a # b PROVE session[b] = s /\ replaces[b] = p
    BY <1>0, <1>7, <2>0, <2>3 DEF Binds, InsertRow
  <2>4. ASSUME SameRows PROVE session[b] = s /\ replaces[b] = p
    <3>1. UNCHANGED replaces
      <4>1. ASSUME NEW a \in Bindings, NEW q PROVE ~InsertRow(a, q)
        BY <2>4 DEF SameRows, InsertRow, SetRow, Exists, Base, RowInv, LockInv, TypeOK
      <4> QED BY <1>0, <4>1 DEF Next, CreateStep, TurnStep, BeginFirst, ClaimReplacement,
                 ReplacementConflict, Insert, InsertRaises, CheckCurrent, RestoreReplaced,
                 SupersedeReplaced, Abandon, ClaimTurn, FinishTurn, MarkDisposed, rowVars, vars
    <3> QED BY <1>7, <2>4, <3>1 DEF SameRows
  <2> QED BY <2>1, <2>2, <2>3, <2>4, WhoBinds
<1>8. \A c \in Creators : call'[c].sealed => call'[c].at = "session"
  BY <1>4 DEF CopyInv
<1> QED BY <1>5, <1>6, <1>7, <1>8 DEF CopyInv, SuccessorRemembers, Binding

LEMMA CopyInvariant == RecoverySpec => []CopyInv
<1>1. RecoveryInit => CopyInv
  BY NoSessionIsNone DEF RecoveryInit, CopyInv, SuccessorRemembers, Binding, NoCall
<1>2. Base /\ Fresh /\ CopyInv /\ [RecoveryNext]_allVars => CopyInv'
  BY CopyStep
<1> QED BY <1>1, <1>2, BaseInvariant, FreshInvariant, PTL DEF RecoverySpec

\* Unless an insert's acknowledgement was lost, a row's session holds every turn of
\* the session of the row it replaces, but for those that were late for the copy.
THEOREM SuccessorsRemember == RecoverySpec => []SuccessorRemembers
BY CopyInvariant, PTL DEF CopyInv
=====
