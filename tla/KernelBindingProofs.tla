------------------------ MODULE KernelBindingProofs ------------------------
(* Proofs about KernelBinding, for any sets of bindings, messages and       *)
(* concurrent creators, and any set of faults.                             *)
EXTENDS KernelBinding, TLAPS

\* The bookkeeping that ties a running turn to its owner and its outcome.
RunningIsPending ==
    /\ \A b \in Bindings : active[b].status = "running" =>
           /\ active[b].msg \in Messages
           /\ owner[active[b].msg] = b
           /\ outcome[active[b].msg] = "pending"
    /\ \A m \in Messages : owner[m] = None => outcome[m] = "pending"

LockInv == TypeOK /\ OneCurrent /\ RunningIsCurrent /\ RunningIsPending

-----------------------------------------------------------------------------
\* No store call of a create takes a row away from its running turn or sets
\* "current" on a second row: the calls that retire or revive a row are guarded
\* by Free and NoCurrent (bindings/repository.py:66-131).
LEMMA CreateKeepsLock ==
    ASSUME LockInv, NEW c \in Creators, CreateStep(c)
    PROVE  LockInv'
<1> USE ConstantsAreDistinct
<1> USE DEF LockInv, TypeOK, OneCurrent, RunningIsCurrent, RunningIsPending,
            rowVars, turnVars, Goto
<1>1. CASE BeginFirst(c)
  BY <1>1 DEF BeginFirst, Steps
<1>2. ASSUME NEW b \in Bindings, ClaimReplacement(c, b) PROVE LockInv'
  <2>1. TypeOK'
    BY <1>2 DEF ClaimReplacement, Claimable, SetRow, Steps, RowStatus
  <2>2. OneCurrent' /\ RunningIsCurrent' /\ RunningIsPending'
    BY <1>2 DEF ClaimReplacement, Claimable, SetRow, Free
  <2> QED BY <2>1, <2>2
<1>3. ASSUME NEW b \in Bindings, ReplacementConflict(c, b) PROVE LockInv'
  BY <1>3 DEF ReplacementConflict, vars
<1>4. ASSUME NEW b \in Bindings, InsertRow(b, seen[c]), UNCHANGED turnVars,
             happened' \subseteq Faults, NEW s \in Steps, Goto(c, s)
      PROVE  LockInv'
  <2>1. TypeOK'
    BY <1>4 DEF InsertRow, SetRow, Steps, RowStatus
  <2>2. OneCurrent' /\ RunningIsCurrent' /\ RunningIsPending'
    BY <1>4 DEF InsertRow, SetRow, NoCurrent
  <2> QED BY <2>1, <2>2
<1>5. ASSUME NEW b \in Bindings, Insert(c, b) PROVE LockInv'
  BY <1>4, <1>5 DEF Insert, Steps
<1>6. CASE InsertRaises(c)
  <2>1. CASE UNCHANGED <<rowVars, happened>>
    BY <1>6, <2>1 DEF InsertRaises, AfterFailedInsert, Steps
  <2>2. CASE /\ "lost_ack" \in Faults
             /\ \E b \in Bindings : InsertRow(b, seen[c])
             /\ happened' = happened \cup {"lost_ack"}
    BY <1>4, <1>6, <2>2 DEF InsertRaises, AfterFailedInsert, Steps
  <2> QED BY <1>6, <2>1, <2>2 DEF InsertRaises
<1>7. CASE CheckCurrent(c)
  BY <1>7 DEF CheckCurrent, Steps
<1>8. CASE RestoreReplaced(c)
  <2>1. TypeOK'
    BY <1>8 DEF RestoreReplaced, Restorable, SetRow, Steps, RowStatus
  <2>2. OneCurrent' /\ RunningIsCurrent' /\ RunningIsPending'
    BY <1>8 DEF RestoreReplaced, Restorable, SetRow, NoCurrent
  <2> QED BY <2>1, <2>2
<1>9. CASE SupersedeReplaced(c)
  BY <1>9 DEF SupersedeReplaced, Steps, RowStatus
<1>10. CASE Abandon(c)
  BY <1>10 DEF Abandon, Steps
<1> QED BY <1>1, <1>2, <1>3, <1>5, <1>6, <1>7, <1>8, <1>9, <1>10 DEF CreateStep

\* A claim needs a current row with a free lock, so it can only be the row that
\* is current; finishing and disposing only end turns.
LEMMA TurnKeepsLock ==
    ASSUME LockInv, NEW b \in Bindings, TurnStep(b)
    PROVE  LockInv'
<1> USE ConstantsAreDistinct
<1> USE DEF LockInv, TypeOK, OneCurrent, RunningIsCurrent, RunningIsPending, Free
<1>1. CASE \E m \in Messages : ClaimTurn(b, m)
  <2> PICK m \in Messages : ClaimTurn(b, m)
    BY <1>1
  <2>1. TypeOK'
    BY DEF ClaimTurn, Claimable, RowStatus, Turns
  <2>2. OneCurrent' /\ RunningIsCurrent'
    BY DEF ClaimTurn, Claimable
  <2>3. RunningIsPending'
    BY DEF ClaimTurn, Claimable, Turns, NoTurn
  <2> QED BY <2>1, <2>2, <2>3
<1>2. CASE \E m \in Messages, s \in TerminalStatus : FinishTurn(b, m, s)
  <2> PICK m \in Messages, s \in TerminalStatus : FinishTurn(b, m, s)
    BY <1>2
  <2>1. TypeOK'
    BY DEF FinishTurn, IdleOr, RowStatus, Turns, TerminalStatus
  <2>2. OneCurrent' /\ RunningIsCurrent'
    BY DEF FinishTurn, TerminalStatus
  <2>3. RunningIsPending'
    BY DEF FinishTurn, TerminalStatus
  <2> QED BY <2>1, <2>2, <2>3
<1>3. CASE \E pending \in BOOLEAN : MarkDisposed(b, pending)
  <2> PICK pending \in BOOLEAN : MarkDisposed(b, pending)
    BY <1>3
  <2>1. TypeOK'
    BY DEF MarkDisposed, SetRow, RowStatus, Turns
  <2>2. OneCurrent' /\ RunningIsCurrent'
    BY DEF MarkDisposed, SetRow, NoTurn
  <2>3. RunningIsPending'
    BY DEF MarkDisposed, SetRow, NoTurn
  <2> QED BY <2>1, <2>2, <2>3
<1> QED BY <1>1, <1>2, <1>3 DEF TurnStep

\* The lock invariant holds of every reachable state.
THEOREM LockInvariant == Spec => []LockInv
<1>1. Init => LockInv
  BY ConstantsAreDistinct
  DEF Init, LockInv, TypeOK, OneCurrent, RunningIsCurrent, RunningIsPending,
      RowStatus, Steps, NoTurn, Turns
<1>2. LockInv /\ [Next]_vars => LockInv'
  <2> SUFFICES ASSUME LockInv, [Next]_vars PROVE LockInv'
    OBVIOUS
  <2>1. CASE \E c \in Creators : CreateStep(c)
    BY <2>1, CreateKeepsLock
  <2>2. CASE \E b \in Bindings : TurnStep(b)
    BY <2>2, TurnKeepsLock
  <2>3. CASE UNCHANGED vars
    BY <2>3 DEF vars, LockInv, TypeOK, OneCurrent, RunningIsCurrent, RunningIsPending
  <2> QED BY <2>1, <2>2, <2>3 DEF Next
<1> QED BY <1>1, <1>2, PTL DEF Spec

\* Every field of every row, and every creator, keeps its type.
THEOREM TypeCorrect == Spec => []TypeOK
BY LockInvariant, PTL DEF LockInv

\* A running turn keeps its binding current: rotation and rebuild never retire
\* a row under a live runner.
THEOREM RunningTurnIsCurrent == Spec => []RunningIsCurrent
BY LockInvariant, PTL DEF LockInv

\* At most one turn of a conversation is running, on all rows together.
THEOREM TurnsAreExclusive == Spec => []ExclusiveTurn
<1>1. LockInv => ExclusiveTurn
  BY DEF LockInv, OneCurrent, RunningIsCurrent, ExclusiveTurn
<1> QED BY <1>1, LockInvariant, PTL

-----------------------------------------------------------------------------
\* The state of the creators between the claim of a predecessor and the end of
\* the failure handler: the predecessor is theirs alone, retired, and (with no
\* lost acknowledgement) nobody has inserted a successor of it.
Claimed(c) == step[c] \in {"insert", "check", "restore"} /\ seen[c] # None

SuccessionInv ==
    /\ \A c \in Creators : seen[c] # None => Exists(seen[c])
    /\ \A b \in Bindings : replaces[b] # None => Exists(replaces[b])
    /\ \A c \in Creators : Claimed(c) => ~current[seen[c]]
    /\ \A c1, c2 \in Creators :
           Claimed(c1) /\ Claimed(c2) /\ seen[c1] = seen[c2] => c1 = c2
    /\ \A c \in Creators : step[c] \in {"check", "restore", "supersede"} => seen[c] # None
    /\ \A c \in Creators : step[c] = "idle" => seen[c] = None
    /\ \A b \in Bindings : current[b] => Exists(b)
    /\ "lost_ack" \notin happened =>
           /\ \A b1, b2 \in Bindings : Exists(b2) /\ replaces[b2] = b1 => ~current[b1]
           /\ \A c \in Creators, b \in Bindings :
                  Claimed(c) /\ Exists(b) => replaces[b] # seen[c]

\* Each store call of create keeps the succession in order: claiming retires a
\* row no successor of which exists, and only the claimer may revive it.
LEMMA CreateKeepsSuccession ==
    ASSUME TypeOK, SuccessionInv, NEW c \in Creators, CreateStep(c)
    PROVE  SuccessionInv'
<1> USE ConstantsAreDistinct
<1> USE DEF TypeOK, SuccessionInv, Claimed, Exists, rowVars, turnVars, Goto, Steps
<1>1. CASE BeginFirst(c)
  BY <1>1 DEF BeginFirst
<1>2. ASSUME NEW b \in Bindings, ClaimReplacement(c, b) PROVE SuccessionInv'
  BY <1>2 DEF ClaimReplacement, Claimable, SetRow
<1>3. ASSUME NEW b \in Bindings, ReplacementConflict(c, b) PROVE SuccessionInv'
  BY <1>3 DEF ReplacementConflict, vars
<1>4. ASSUME NEW b \in Bindings, Insert(c, b) PROVE SuccessionInv'
  BY <1>4 DEF Insert, InsertRow, SetRow, NoCurrent
<1>5. CASE InsertRaises(c)
  <2>1. CASE UNCHANGED <<rowVars, happened>>
    BY <1>5, <2>1 DEF InsertRaises, AfterFailedInsert
  <2>2. CASE /\ \E b \in Bindings : InsertRow(b, seen[c])
             /\ happened' = happened \cup {"lost_ack"}
    BY <1>5, <2>2 DEF InsertRaises, AfterFailedInsert, InsertRow, SetRow, NoCurrent
  <2> QED BY <1>5, <2>1, <2>2 DEF InsertRaises
<1>6. CASE CheckCurrent(c)
  BY <1>6 DEF CheckCurrent
<1>7. CASE RestoreReplaced(c)
  BY <1>7 DEF RestoreReplaced, Restorable, SetRow
<1>8. CASE SupersedeReplaced(c)
  BY <1>8 DEF SupersedeReplaced
<1>9. CASE Abandon(c)
  BY <1>9 DEF Abandon
<1> QED BY <1>1, <1>2, <1>3, <1>4, <1>5, <1>6, <1>7, <1>8, <1>9 DEF CreateStep

\* Turns and disposals never make a row current.
LEMMA TurnKeepsSuccession ==
    ASSUME TypeOK, RunningIsCurrent, SuccessionInv, NEW b \in Bindings, TurnStep(b)
    PROVE  SuccessionInv'
<1> USE DEF TypeOK, SuccessionInv, Claimed, Exists
<1>1. CASE \E m \in Messages : ClaimTurn(b, m)
  BY <1>1 DEF ClaimTurn, Claimable
<1>2. CASE \E m \in Messages, s \in TerminalStatus : FinishTurn(b, m, s)
  BY <1>2 DEF FinishTurn, IdleOr, TerminalStatus, RunningIsCurrent
<1>3. CASE \E pending \in BOOLEAN : MarkDisposed(b, pending)
  <2> PICK pending \in BOOLEAN : MarkDisposed(b, pending)
    BY <1>3
  <2>1. /\ UNCHANGED <<replaces, step, seen, happened>>
        /\ current' = [current EXCEPT ![b] = FALSE]
        /\ \A b1 \in Bindings : Exists(b1)' <=> Exists(b1)
    BY DEF MarkDisposed, SetRow
  <2> QED BY <2>1
<1> QED BY <1>1, <1>2, <1>3 DEF TurnStep

\* The succession holds of every reachable state.
LEMMA SuccessionInvariant == Spec => []SuccessionInv
<1>1. Init => SuccessionInv
  BY DEF Init, SuccessionInv, Claimed, Exists
<1>2. LockInv /\ SuccessionInv /\ [Next]_vars => SuccessionInv'
  <2> SUFFICES ASSUME TypeOK, RunningIsCurrent, SuccessionInv, [Next]_vars
               PROVE  SuccessionInv'
    BY DEF LockInv
  <2>1. CASE \E c \in Creators : CreateStep(c)
    BY <2>1, CreateKeepsSuccession
  <2>2. CASE \E b \in Bindings : TurnStep(b)
    BY <2>2, TurnKeepsSuccession
  <2>3. CASE UNCHANGED vars
    BY <2>3 DEF vars, SuccessionInv, Claimed, Exists
  <2> QED BY <2>1, <2>2, <2>3 DEF Next
<1> QED BY <1>1, <1>2, LockInvariant, PTL DEF Spec

\* Unless an insert's acknowledgement is lost, a binding that has a successor is
\* never current again, whatever creates, crashes and deletions run alongside.
THEOREM PredecessorsStayRetired == Spec => []PredecessorRetired
<1>1. SuccessionInv => PredecessorRetired
  BY DEF SuccessionInv, PredecessorRetired, Exists
<1> QED BY <1>1, SuccessionInvariant, PTL

\* Rows that left the conversation, or are being replaced, are not current.
Retired(b) == status[b] \in {"superseded", "disposed", "disposal_pending"}
RetiredInv == \A b \in Bindings : Retired(b) \/ status[b] = "replacing" => ~current[b]

\* A store call keeps retired rows not current, and makes none of them current.
LEMMA StepKeepsRetired ==
    ASSUME LockInv, RetiredInv, Next
    PROVE  RetiredInv' /\ \A b \in Bindings : Retired(b) => ~current[b]'
<1> USE DEF LockInv, TypeOK, RetiredInv, Retired, Exists, rowVars, turnVars
<1>1. ASSUME NEW c \in Creators, CreateStep(c)
      PROVE  RetiredInv' /\ \A b \in Bindings : Retired(b) => ~current[b]'
  <2>1. CASE \/ BeginFirst(c) \/ CheckCurrent(c) \/ Abandon(c)
             \/ \E b \in Bindings : ReplacementConflict(c, b)
    BY <2>1 DEF BeginFirst, ReplacementConflict, CheckCurrent, Abandon, vars
  <2>2. CASE \E b \in Bindings : ClaimReplacement(c, b)
    BY <2>2 DEF ClaimReplacement, Claimable, SetRow
  <2>3. CASE \E b \in Bindings : Insert(c, b)
    BY <2>3 DEF Insert, InsertRow, SetRow
  <2>4. CASE InsertRaises(c)
    BY <2>4 DEF InsertRaises, AfterFailedInsert, InsertRow, SetRow
  <2>5. CASE RestoreReplaced(c)
    BY <2>5 DEF RestoreReplaced, Restorable, SetRow
  <2>6. CASE SupersedeReplaced(c)
    BY <2>6 DEF SupersedeReplaced
  <2> QED BY <1>1, <2>1, <2>2, <2>3, <2>4, <2>5, <2>6 DEF CreateStep
<1>2. ASSUME NEW b \in Bindings, TurnStep(b)
      PROVE  RetiredInv' /\ \A b1 \in Bindings : Retired(b1) => ~current[b1]'
  <2>1. CASE \E m \in Messages : ClaimTurn(b, m)
    BY <2>1 DEF ClaimTurn, Claimable
  <2>2. CASE \E m \in Messages, s \in TerminalStatus : FinishTurn(b, m, s)
    BY <2>2 DEF FinishTurn, IdleOr, TerminalStatus
  <2>3. CASE \E pending \in BOOLEAN : MarkDisposed(b, pending)
    BY <2>3 DEF MarkDisposed, SetRow
  <2> QED BY <1>2, <2>1, <2>2, <2>3 DEF TurnStep
<1> QED BY <1>1, <1>2 DEF Next

\* No retired row is current in any reachable state.
LEMMA RetiredInvariant == Spec => []RetiredInv
<1>1. Init => RetiredInv
  BY DEF Init, RetiredInv, Retired
<1>2. LockInv /\ RetiredInv /\ [Next]_vars => RetiredInv'
  BY StepKeepsRetired DEF vars, RetiredInv, Retired
<1> QED BY <1>1, <1>2, LockInvariant, PTL DEF Spec

\* A superseded or disposed row is never made current: the restore of a failed
\* create insists on a row that still is "replacing".
THEOREM RetiredRowsStayRetired == Spec => RetiredForever
<1>1. LockInv /\ RetiredInv /\ [Next]_vars =>
         [\A b \in Bindings :
             status[b] \in {"superseded", "disposed", "disposal_pending"}
                 => ~current[b]']_vars
  BY StepKeepsRetired DEF Retired
<1> QED BY <1>1, RetiredInvariant, LockInvariant, PTL DEF Spec, RetiredForever

-----------------------------------------------------------------------------
\* Why a conversation keeps its binding: a create that took one away holds it,
\* alone, until it has inserted a successor or put it back.
Holds(c) == step[c] \in {"insert", "check", "restore", "supersede"} /\ seen[c] # None
Disposed(b) == status[b] \in {"disposed", "disposal_pending"}

HoldersInv ==
    /\ \A c \in Creators : Holds(c) => Exists(seen[c]) /\ ~current[seen[c]]
    /\ \A c1, c2 \in Creators : Holds(c1) /\ Holds(c2) /\ seen[c1] = seen[c2] => c1 = c2
    /\ \A c \in Creators : step[c] \in {"check", "restore", "supersede"} => seen[c] # None
    /\ \A c \in Creators : step[c] = "idle" => seen[c] = None
    /\ \A c \in Creators : seen[c] # None => Exists(seen[c])
    /\ \A b \in Bindings : current[b] => Exists(b)
    /\ \A c \in Creators : Holds(c) => status[seen[c]] = "replacing" \/ Disposed(seen[c])

KeptInv ==
    (/\ happened = {}
     /\ \E b \in Bindings : Exists(b)
     /\ \A b \in Bindings : ~Disposed(b)
     /\ NoCurrent)
        => \E c \in Creators : Claimed(c)

\* A row held by a create is claimed and revived by nobody else.
LEMMA StepKeepsHolders ==
    ASSUME LockInv, HoldersInv, Next
    PROVE  HoldersInv'
<1> USE ConstantsAreDistinct
<1> USE DEF LockInv, TypeOK, HoldersInv, Holds, Claimed, Disposed, Exists, rowVars, turnVars, Goto, Steps
<1>1. ASSUME NEW c \in Creators, CreateStep(c) PROVE HoldersInv'
  <2>1. CASE BeginFirst(c)
    BY <2>1 DEF BeginFirst
  <2>2. CASE \E b \in Bindings : ClaimReplacement(c, b)
    BY <2>2 DEF ClaimReplacement, Claimable, SetRow
  <2>3. CASE \E b \in Bindings : ReplacementConflict(c, b)
    BY <2>3 DEF ReplacementConflict, vars
  <2>4. CASE \E b \in Bindings : Insert(c, b)
    BY <2>4 DEF Insert, InsertRow, SetRow
  <2>5. CASE InsertRaises(c)
    BY <2>5 DEF InsertRaises, AfterFailedInsert, InsertRow, SetRow
  <2>6. CASE CheckCurrent(c)
    BY <2>6 DEF CheckCurrent
  <2>7. CASE RestoreReplaced(c)
    BY <2>7 DEF RestoreReplaced, Restorable, SetRow
  <2>8. CASE SupersedeReplaced(c)
    BY <2>8 DEF SupersedeReplaced
  <2>9. CASE Abandon(c)
    BY <2>9 DEF Abandon
  <2> QED BY <1>1, <2>1, <2>2, <2>3, <2>4, <2>5, <2>6, <2>7, <2>8, <2>9 DEF CreateStep
<1>2. ASSUME NEW b \in Bindings, TurnStep(b) PROVE HoldersInv'
  <2>1. CASE \E m \in Messages : ClaimTurn(b, m)
    BY <2>1 DEF ClaimTurn, Claimable
  <2>2. CASE \E m \in Messages, s \in TerminalStatus : FinishTurn(b, m, s)
    BY <2>2 DEF FinishTurn, IdleOr, TerminalStatus, RunningIsCurrent
  <2>3. CASE \E pending \in BOOLEAN : MarkDisposed(b, pending)
    BY <2>3 DEF MarkDisposed, SetRow
  <2> QED BY <1>2, <2>1, <2>2, <2>3 DEF TurnStep
<1> QED BY <1>1, <1>2 DEF Next

\* Each store call that leaves no row current is made by, or while, a create
\* holds a predecessor; a disposed row stays disposed.
LEMMA StepKeepsKept ==
    ASSUME LockInv, RetiredInv, HoldersInv, KeptInv, Next
    PROVE  KeptInv'
<1> USE ConstantsAreDistinct
<1> SUFFICES ASSUME happened' = {},
                    \E b \in Bindings : Exists(b)',
                    \A b \in Bindings : ~Disposed(b)',
                    NoCurrent'
             PROVE  \E c \in Creators : Claimed(c)'
  BY DEF KeptInv, NoCurrent
<1> USE DEF LockInv, TypeOK, RetiredInv, Retired, HoldersInv, Holds, Claimed, Disposed, Exists, rowVars, turnVars, Goto, Steps, NoCurrent
<1>1. ASSUME NEW c \in Creators, CreateStep(c) PROVE \E d \in Creators : Claimed(d)'
  <2>1. CASE BeginFirst(c)
    BY <2>1 DEF BeginFirst, KeptInv
  <2>2. CASE \E b \in Bindings : ClaimReplacement(c, b)
    BY <2>2 DEF ClaimReplacement, Claimable, SetRow
  <2>3. CASE \E b \in Bindings : ReplacementConflict(c, b)
    BY <2>3 DEF ReplacementConflict, vars, KeptInv
  <2>4. CASE \E b \in Bindings : Insert(c, b)
    BY <2>4 DEF Insert, InsertRow, SetRow
  <2>5. CASE InsertRaises(c)
    BY <2>5 DEF InsertRaises, AfterFailedInsert, InsertRow, SetRow, KeptInv
  <2>6. CASE CheckCurrent(c)
    BY <2>6 DEF CheckCurrent, KeptInv
  <2>7. CASE RestoreReplaced(c)
    BY <2>7 DEF RestoreReplaced, Restorable, SetRow, KeptInv
  <2>8. CASE SupersedeReplaced(c)
    BY <2>8 DEF SupersedeReplaced, KeptInv
  <2>9. CASE Abandon(c)
    BY <2>9 DEF Abandon
  <2> QED BY <1>1, <2>1, <2>2, <2>3, <2>4, <2>5, <2>6, <2>7, <2>8, <2>9 DEF CreateStep
<1>2. ASSUME NEW b \in Bindings, TurnStep(b) PROVE \E d \in Creators : Claimed(d)'
  <2>1. CASE \E m \in Messages : ClaimTurn(b, m)
    BY <2>1 DEF ClaimTurn, Claimable, KeptInv
  <2>2. CASE \E m \in Messages, s \in TerminalStatus : FinishTurn(b, m, s)
    BY <2>2 DEF FinishTurn, IdleOr, TerminalStatus, RunningIsCurrent, KeptInv
  <2>3. CASE \E pending \in BOOLEAN : MarkDisposed(b, pending)
    BY <2>3 DEF MarkDisposed, SetRow
  <2> QED BY <1>2, <2>1, <2>2, <2>3 DEF TurnStep
<1> QED BY <1>1, <1>2 DEF Next

\* Every create holds what it took away, in every reachable state.
LEMMA HoldersInvariant == Spec => [](HoldersInv /\ KeptInv)
<1>1. Init => HoldersInv /\ KeptInv
  BY DEF Init, HoldersInv, KeptInv, Holds, Claimed, Exists
<1>2. LockInv /\ RetiredInv /\ (HoldersInv /\ KeptInv) /\ [Next]_vars => (HoldersInv /\ KeptInv)'
  <2> SUFFICES ASSUME LockInv, RetiredInv, HoldersInv, KeptInv, [Next]_vars
               PROVE  HoldersInv' /\ KeptInv'
    OBVIOUS
  <2>1. CASE Next
    BY <2>1, StepKeepsHolders, StepKeepsKept
  <2>2. CASE UNCHANGED vars
    BY <2>2 DEF vars, HoldersInv, KeptInv, Holds, Claimed, Disposed, Exists, NoCurrent
  <2> QED BY <2>1, <2>2
<1> QED BY <1>1, <1>2, LockInvariant, RetiredInvariant, PTL DEF Spec

\* Creates whose inserts fail, any number of them beside each other, never leave
\* a conversation without a current binding, unless one was deleted, a caller
\* died or an answer was lost.
THEOREM ConversationsKeepTheirBinding == Spec => []ConversationKeepsBinding
<1>1. KeptInv => ConversationKeepsBinding
  BY DEF KeptInv, ConversationKeepsBinding, Claimed, Disposed
<1> QED BY <1>1, HoldersInvariant, PTL

-----------------------------------------------------------------------------
\* What is known of the rows, all together, for the modules that use them.
RowInv == LockInv /\ SuccessionInv /\ RetiredInv /\ HoldersInv

LEMMA RowsAtStart == Init => RowInv
BY ConstantsAreDistinct
DEF Init, RowInv, LockInv, TypeOK, OneCurrent, RunningIsCurrent, RunningIsPending, RowStatus,
    Steps, NoTurn, Turns, SuccessionInv, RetiredInv, Retired, HoldersInv, Holds, Claimed, Exists

LEMMA RowStep ==
    ASSUME RowInv, [Next]_vars
    PROVE  RowInv'
<1> USE DEF RowInv
<1>1. CASE \E c \in Creators : CreateStep(c)
  <2>1. LockInv' /\ SuccessionInv'
    BY <1>1, CreateKeepsLock, CreateKeepsSuccession DEF LockInv
  <2>2. RetiredInv' /\ HoldersInv'
    BY <1>1, StepKeepsRetired, StepKeepsHolders DEF Next
  <2> QED BY <2>1, <2>2
<1>2. CASE \E b \in Bindings : TurnStep(b)
  <2>1. LockInv' /\ SuccessionInv'
    BY <1>2, TurnKeepsLock, TurnKeepsSuccession DEF LockInv
  <2>2. RetiredInv' /\ HoldersInv'
    BY <1>2, StepKeepsRetired, StepKeepsHolders DEF Next
  <2> QED BY <2>1, <2>2
<1>3. CASE UNCHANGED vars
  BY <1>3 DEF vars, LockInv, TypeOK, OneCurrent, RunningIsCurrent, RunningIsPending,
              SuccessionInv, RetiredInv, Retired, HoldersInv, Holds, Claimed, Disposed, Exists
<1> QED BY <1>1, <1>2, <1>3 DEF Next

-----------------------------------------------------------------------------
\* The choice in RunningMessage is no choice: one row at most is running.
LEMMA RunningMessageIs ==
    ASSUME LockInv
    PROVE  /\ \A b \in Bindings : active[b].status = "running" => RunningMessage = active[b].msg
           /\ (\A b \in Bindings : active[b].status # "running") => RunningMessage = None
<1>1. ASSUME NEW b \in Bindings, active[b].status = "running"
      PROVE  RunningMessage = active[b].msg
  <2>1. \A b2 \in Bindings : active[b2].status = "running" => b2 = b
    BY <1>1 DEF LockInv, OneCurrent, RunningIsCurrent
  <2>2. (CHOOSE b2 \in Bindings : active[b2].status = "running") = b
    BY <1>1, <2>1
  <2> QED BY <1>1, <2>2 DEF RunningMessage
<1>2. (\A b \in Bindings : active[b].status # "running") => RunningMessage = None
  BY DEF RunningMessage
<1> QED BY <1>1, <1>2

\* The same fact about the state after a step.
LEMMA RunningMessageWillBe ==
    ASSUME LockInv', NEW b \in Bindings, active'[b].status = "running"
    PROVE  RunningMessage' = active'[b].msg
<1>1. \A b2 \in Bindings : active'[b2].status = "running" => b2 = b
  BY DEF LockInv, OneCurrent, RunningIsCurrent
<1>2. (CHOOSE b2 \in Bindings : active'[b2].status = "running") = b
  BY <1>1
<1> QED BY <1>2 DEF RunningMessage

\* A store call that leaves every row's turn and every outcome alone is no step
\* of the abstract conversation.
LEMMA SameTurnsStutter ==
    ASSUME active' = active, outcome' = outcome
    PROVE  UNCHANGED Abstract!vars
BY DEF Abstract!vars, RunningMessage

\* A turn step is a Start, an End or a stutter of the abstract conversation.
LEMMA TurnStepRefines ==
    ASSUME LockInv, LockInv', NEW b \in Bindings, TurnStep(b)
    PROVE  [Abstract!Next]_(Abstract!vars)
<1> USE DEF LockInv, TypeOK, RunningIsPending, Free
<1>1. ASSUME NEW m \in Messages, ClaimTurn(b, m)
      PROVE  [Abstract!Next]_(Abstract!vars)
  <2>1. RunningMessage = None
    <3>1. \A b2 \in Bindings : active[b2].status # "running"
      BY <1>1 DEF ClaimTurn, Claimable, OneCurrent, RunningIsCurrent
    <3> QED BY <3>1, RunningMessageIs
  <2>2. active'[b].status = "running" /\ active'[b].msg = m
    BY <1>1 DEF ClaimTurn, Claimable
  <2>3. RunningMessage' = m
    BY <2>2, RunningMessageWillBe
  <2>4. outcome[m] = "pending" /\ outcome' = outcome
    BY <1>1 DEF ClaimTurn, Claimable
  <2> QED BY <2>1, <2>3, <2>4 DEF Abstract!Next, Abstract!Start
<1>2. ASSUME NEW m \in Messages, NEW s \in TerminalStatus, FinishTurn(b, m, s)
      PROVE  [Abstract!Next]_(Abstract!vars)
  <2>1. RunningMessage = m
    BY <1>2, RunningMessageIs DEF FinishTurn
  <2>2. \A b2 \in Bindings : active'[b2].status # "running"
    BY <1>2 DEF FinishTurn, OneCurrent, RunningIsCurrent, TerminalStatus
  <2>3. RunningMessage' = None
    BY <2>2 DEF RunningMessage
  <2>4. outcome' = [outcome EXCEPT ![m] = s]
    BY <1>2 DEF FinishTurn
  <2>5. s \in Abstract!Outcomes \ {"pending"}
    BY <1>2 DEF TerminalStatus, Abstract!Outcomes, Abstract!TerminalStatus
  <2> QED BY <2>1, <2>3, <2>4, <2>5 DEF Abstract!Next, Abstract!End
<1>3. ASSUME NEW pending \in BOOLEAN, MarkDisposed(b, pending)
      PROVE  [Abstract!Next]_(Abstract!vars)
  <2>1. CASE Free(b)
    <3>1. \A b2 \in Bindings : /\ active'[b2].status = "running" <=> active[b2].status = "running"
                               /\ active[b2].status = "running" => active'[b2] = active[b2]
      BY <1>3, <2>1 DEF MarkDisposed, NoTurn
    <3>2. RunningMessage' = RunningMessage
      <4>1. CASE \E b2 \in Bindings : active[b2].status = "running"
        <5> PICK b2 \in Bindings : active[b2].status = "running"
          BY <4>1
        <5>1. RunningMessage = active[b2].msg
          BY RunningMessageIs
        <5>2. active'[b2].status = "running" /\ active'[b2].msg = active[b2].msg
          BY <3>1
        <5>3. RunningMessage' = active'[b2].msg
          BY <5>2, RunningMessageWillBe
        <5> QED BY <5>1, <5>2, <5>3
      <4>2. CASE \A b2 \in Bindings : active[b2].status # "running"
        BY <3>1, <4>2 DEF RunningMessage
      <4> QED BY <4>1, <4>2
    <3>3. outcome' = outcome
      BY <1>3, <2>1 DEF MarkDisposed
    <3> QED BY <3>2, <3>3 DEF Abstract!vars
  <2>2. CASE ~Free(b)
    <3> DEFINE m == active[b].msg
    <3>1. RunningMessage = m /\ m \in Messages
      BY <2>2, RunningMessageIs
    <3>2. \A b2 \in Bindings : active'[b2].status # "running"
      BY <1>3, <2>2 DEF MarkDisposed, NoTurn, OneCurrent, RunningIsCurrent
    <3>3. RunningMessage' = None
      BY <3>2 DEF RunningMessage
    <3>4. outcome' = [outcome EXCEPT ![m] = "disposed"]
      BY <1>3, <2>2 DEF MarkDisposed
    <3> QED BY <3>1, <3>3, <3>4 DEF Abstract!Next, Abstract!End, Abstract!Outcomes
  <2> QED BY <2>1, <2>2
<1> QED BY <1>1, <1>2, <1>3 DEF TurnStep

\* The rows of a conversation, under any interleaving of creates, claims,
\* finishes, disposals and crashes, behave as one admission lock.
THEOREM BindingsImplementTurns == Spec => ImplementsConversationTurns
<1>1. Init => Abstract!Init
  BY DEF Init, Abstract!Init, RunningMessage, NoTurn
<1>2. LockInv /\ LockInv' /\ [Next]_vars => [Abstract!Next]_(Abstract!vars)
  <2> SUFFICES ASSUME LockInv, LockInv', [Next]_vars
               PROVE  [Abstract!Next]_(Abstract!vars)
    OBVIOUS
  <2>1. CASE \E c \in Creators : CreateStep(c)
    <3>1. active' = active /\ outcome' = outcome
      BY <2>1 DEF CreateStep, BeginFirst, ClaimReplacement, ReplacementConflict,
                  Insert, InsertRaises, InsertRow, CheckCurrent, RestoreReplaced,
                  SupersedeReplaced, Abandon, rowVars, turnVars, vars
    <3> QED BY <3>1, SameTurnsStutter
  <2>2. CASE \E b \in Bindings : TurnStep(b)
    BY <2>2, TurnStepRefines
  <2>3. CASE UNCHANGED vars
    BY <2>3, SameTurnsStutter DEF vars
  <2> QED BY <2>1, <2>2, <2>3 DEF Next
<1> QED BY <1>1, <1>2, LockInvariant, PTL DEF Spec, ImplementsConversationTurns, Abstract!Spec
=============================================================================
