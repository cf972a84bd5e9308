--------------------------- MODULE KernelBinding ---------------------------
(***************************************************************************)
(* The kernel bindings of one conversation, as rows of a document store    *)
(* whose single-document updates are the only atomic steps                 *)
(* (dsh_runtime/bindings/repository.py).  A row binds the conversation to  *)
(* a kernel session and carries the admission lock of its turns.  Creators *)
(* run KernelBindingRepository.create, with the copy of a row they read at *)
(* some earlier moment; each runs create's store calls one at a time, and  *)
(* any other call may come between two of them.                            *)
(***************************************************************************)
CONSTANTS
    Bindings,   \* binding ids: uuids, so each is inserted at most once
    Messages,   \* assistant message ids, one per turn
    Creators,   \* callers that may be in create at the same time
    Faults,     \* which of the faults below may happen
    None

FaultKinds == {"crash", "lost_ack"}

ASSUME ConstantsAreDistinct == None \notin Bindings \cup Messages
ASSUME FaultsAreKnown == Faults \subseteq FaultKinds

VARIABLES
    status,     \* row's "status"; "absent" before the row is inserted
    current,    \* row's "current"
    active,     \* row's "active_turn"
    replaces,   \* row's "replaces_binding_id"
    step,       \* where a creator is in create
    seen,       \* the binding a create under way replaces, None if none
    owner,      \* the binding a message's turn was claimed on (its callers' copy)
    outcome,    \* history: how each message's turn ended
    happened    \* history: the faults that have happened

rowVars == <<status, current, active, replaces>>
turnVars == <<owner, outcome>>
vars == <<status, current, active, replaces, step, seen, owner, outcome, happened>>

TerminalStatus == {"completed", "failed", "cancelled"}
RowStatus == {"absent", "idle", "running", "failed", "cancelled", "replacing",
              "superseded", "disposed", "disposal_pending"}
Steps == {"idle", "insert", "check", "restore", "supersede"}

NoTurn == [msg |-> None, status |-> "none"]
Turns == {NoTurn} \cup [msg : Messages, status : {"running"} \cup TerminalStatus]

TypeOK ==
    /\ status \in [Bindings -> RowStatus]
    /\ current \in [Bindings -> BOOLEAN]
    /\ active \in [Bindings -> Turns]
    /\ replaces \in [Bindings -> Bindings \cup {None}]
    /\ step \in [Creators -> Steps]
    /\ seen \in [Creators -> Bindings \cup {None}]
    /\ owner \in [Messages -> Bindings \cup {None}]
    /\ outcome \in [Messages -> {"pending", "disposed"} \cup TerminalStatus]
    /\ happened \subseteq Faults

-----------------------------------------------------------------------------
\* Mutants ("Mut"): each is the definition it precedes with one plausible bug.
MutFree(b) == TRUE

\* The lock is free.
Free(b) == active[b].status # "running"

MutClaimable(b) == Free(b)

\* The filter of claim_turn and of the replacement claim.
Claimable(b) == current[b] /\ Free(b)

\* The partial unique index one_current_kernel_binding_per_conversation: a
\* write that would make a second row current fails.
NoCurrent == \A b \in Bindings : ~current[b]

Exists(b) == status[b] # "absent"

Init ==
    /\ status = [b \in Bindings |-> "absent"]
    /\ current = [b \in Bindings |-> FALSE]
    /\ active = [b \in Bindings |-> NoTurn]
    /\ replaces = [b \in Bindings |-> None]
    /\ step = [c \in Creators |-> "idle"]
    /\ seen = [c \in Creators |-> None]
    /\ owner = [m \in Messages |-> None]
    /\ outcome = [m \in Messages |-> "pending"]
    /\ happened = {}

\* The creator goes on to its next store call; seen goes with the call that ends.
Goto(c, s) ==
    /\ step' = [step EXCEPT ![c] = s]
    /\ seen' = IF s = "idle" THEN [seen EXCEPT ![c] = None] ELSE seen

\* The row is marked retired or restored; its turn stays as it is.
SetRow(b, isCurrent, s) ==
    /\ current' = [current EXCEPT ![b] = isCurrent]
    /\ status' = [status EXCEPT ![b] = s]

-----------------------------------------------------------------------------
\* create with no predecessor goes straight to the insert.
BeginFirst(c) ==
    /\ step[c] = "idle"
    /\ Goto(c, "insert")
    /\ UNCHANGED <<rowVars, turnVars, happened>>

\* create with a predecessor, which its caller has read as current at some
\* earlier moment, claims it first: compare-and-set on a current row whose lock
\* is free.
ClaimReplacement(c, b) ==
    /\ step[c] = "idle"
    /\ Claimable(b)
    /\ SetRow(b, FALSE, "replacing")
    /\ step' = [step EXCEPT ![c] = "insert"]
    /\ seen' = [seen EXCEPT ![c] = b]
    /\ UNCHANGED <<active, replaces, turnVars, happened>>

\* No row matched: BindingReplacementConflict, and nothing is written.
ReplacementConflict(c, b) ==
    /\ step[c] = "idle"
    /\ Exists(b)
    /\ ~Claimable(b)
    /\ UNCHANGED vars

\* The effect of a committed insert_one on the rows.
InsertRow(b, predecessor) ==
    /\ ~Exists(b)
    /\ NoCurrent
    /\ SetRow(b, TRUE, "idle")
    /\ replaces' = [replaces EXCEPT ![b] = predecessor]
    /\ UNCHANGED active

Insert(c, b) ==
    /\ step[c] = "insert"
    /\ InsertRow(b, seen[c])
    /\ Goto(c, IF seen[c] = None THEN "idle" ELSE "supersede")
    /\ UNCHANGED <<turnVars, happened>>

MutAfterFailedInsert(c) == "idle"

\* Only a create that replaces a binding has a handler for the failure.
AfterFailedInsert(c) == IF seen[c] = None THEN "idle" ELSE "check"

\* insert_one raises: the index refused the row, the store failed, or (fault
\* "lost_ack") the row was committed and only the acknowledgement was lost.
InsertRaises(c) ==
    /\ step[c] = "insert"
    /\ \/ UNCHANGED <<rowVars, happened>>
       \/ /\ "lost_ack" \in Faults
          /\ \E b \in Bindings : InsertRow(b, seen[c])
          /\ happened' = happened \cup {"lost_ack"}
    /\ Goto(c, AfterFailedInsert(c))
    /\ UNCHANGED turnVars

\* The handler of a failed insert looks for a current row ...
CheckCurrent(c) ==
    /\ step[c] = "check"
    /\ Goto(c, IF NoCurrent THEN "restore" ELSE "idle")
    /\ UNCHANGED <<rowVars, turnVars, happened>>

MutRestorable(b) == NoCurrent

Restorable(b) == status[b] = "replacing" /\ NoCurrent

\* ... and puts the predecessor back when there was none, if the row still is
\* "replacing" and the index accepts it.
RestoreReplaced(c) ==
    /\ step[c] = "restore"
    /\ IF Restorable(seen[c])
       THEN SetRow(seen[c], TRUE, "idle")
       ELSE UNCHANGED <<current, status>>
    /\ Goto(c, "idle")
    /\ UNCHANGED <<active, replaces, turnVars, happened>>

SupersedeReplaced(c) ==
    /\ step[c] = "supersede"
    /\ status' = IF status[seen[c]] = "replacing"
                 THEN [status EXCEPT ![seen[c]] = "superseded"]
                 ELSE status
    /\ Goto(c, "idle")
    /\ UNCHANGED <<current, active, replaces, turnVars, happened>>

\* The caller dies, is cancelled, or its next store call raises.
Abandon(c) ==
    /\ "crash" \in Faults
    /\ Goto(c, "idle")
    /\ happened' = happened \cup {"crash"}
    /\ UNCHANGED <<rowVars, turnVars>>

-----------------------------------------------------------------------------
\* claim_turn by a request that read binding b at some earlier moment.
ClaimTurn(b, m) ==
    /\ Exists(b)
    /\ owner[m] = None
    /\ Claimable(b)
    /\ active' = [active EXCEPT ![b] = [msg |-> m, status |-> "running"]]
    /\ status' = [status EXCEPT ![b] = "running"]
    /\ owner' = [owner EXCEPT ![m] = b]
    /\ UNCHANGED <<current, replaces, step, seen, outcome, happened>>

MutIdleOr(s) == s

\* The row's status after a turn that ended in s.
IdleOr(s) == IF s = "completed" THEN "idle" ELSE s

\* finish_turn by any of the callers that finalize the turn of m (runner,
\* cancellation, recovery); they all hold the binding m was claimed on.
FinishTurn(b, m, s) ==
    /\ owner[m] = b
    /\ active[b].msg = m
    /\ active[b].status = "running"
    /\ active' = [active EXCEPT ![b] = [msg |-> m, status |-> s]]
    /\ status' = [status EXCEPT ![b] = IdleOr(s)]
    /\ outcome' = [outcome EXCEPT ![m] = s]
    /\ UNCHANGED <<current, replaces, step, seen, owner, happened>>

\* mark_disposed names its row by id only: it retires the binding its caller
\* read, whatever became of it since.
MarkDisposed(b, pending) ==
    /\ Exists(b)
    /\ SetRow(b, FALSE, IF pending THEN "disposal_pending" ELSE "disposed")
    /\ active' = [active EXCEPT ![b] = NoTurn]
    /\ outcome' = IF Free(b) THEN outcome
                  ELSE [outcome EXCEPT ![active[b].msg] = "disposed"]
    /\ UNCHANGED <<replaces, step, seen, owner, happened>>

-----------------------------------------------------------------------------
CreateStep(c) ==
    \/ BeginFirst(c)
    \/ \E b \in Bindings : \/ ClaimReplacement(c, b)
                          \/ ReplacementConflict(c, b)
                          \/ Insert(c, b)
    \/ InsertRaises(c)
    \/ CheckCurrent(c)
    \/ RestoreReplaced(c)
    \/ SupersedeReplaced(c)
    \/ Abandon(c)

TurnStep(b) ==
    \/ \E m \in Messages : ClaimTurn(b, m)
    \/ \E m \in Messages, s \in TerminalStatus : FinishTurn(b, m, s)
    \/ \E pending \in BOOLEAN : MarkDisposed(b, pending)

Next == \/ \E c \in Creators : CreateStep(c)
        \/ \E b \in Bindings : TurnStep(b)

Spec == Init /\ [][Next]_vars

-----------------------------------------------------------------------------
\* At most one row of a conversation is current, whichever of the two writes
\* that can set the flag (the insert, and the restore of a failed create) comes
\* first (bindings/repository.py:25-30, 94, 116-126).  A lemma of the proofs.
OneCurrent ==
    \A b1, b2 \in Bindings : current[b1] /\ current[b2] => b1 = b2

\* A running turn keeps its binding current: no rotation or rebuild retires a
\* row under a live runner, and no turn is claimed on a retired row
\* (the two compare-and-set filters, bindings/repository.py:66-82, 185-216).
RunningIsCurrent ==
    \A b \in Bindings : active[b].status = "running" => current[b]

\* Two requests of one conversation never both hold the admission lock, even on
\* different rows.
ExclusiveTurn ==
    \A b1, b2 \in Bindings :
        active[b1].status = "running" /\ active[b2].status = "running" => b1 = b2

\* Unless an insert's acknowledgement was lost: once a successor of a binding was
\* inserted, the predecessor is never current again, because a failed create
\* restores only what no insert has replaced.  (With a lost acknowledgement and a
\* second rotation or a deletion before the handler's read, it can come back.)
PredecessorRetired ==
    "lost_ack" \notin happened =>
        \A b1, b2 \in Bindings :
            Exists(b2) /\ replaces[b2] = b1 => ~current[b1]

\* A row that was superseded or disposed of is never brought back by the restore
\* of a create that failed meanwhile.
RetiredForever ==
    [][\A b \in Bindings :
          status[b] \in {"superseded", "disposed", "disposal_pending"}
              => ~current[b]']_vars

\* Until a crash or a lost acknowledgement, a conversation that has a binding
\* has a current one whenever no create is under way, or a binding of it was
\* disposed of: creates that fail, alone or beside each other, never leave the
\* conversation without its session.
ConversationKeepsBinding ==
    (/\ happened = {}
     /\ \A c \in Creators : step[c] = "idle"
     /\ \E b \in Bindings : Exists(b)
     /\ \A b \in Bindings : status[b] \notin {"disposed", "disposal_pending"})
        => ~NoCurrent

-----------------------------------------------------------------------------
\* The turn that holds the conversation, over all rows.
RunningMessage ==
    IF \E b \in Bindings : active[b].status = "running"
    THEN active[CHOOSE b \in Bindings : active[b].status = "running"].msg
    ELSE None

\* The rows together are one admission lock: every claim, finish and disposal on
\* any row is a step of the abstract conversation, every other store call stutters.
Abstract == INSTANCE ConversationTurns WITH running <- RunningMessage
ImplementsConversationTurns == Abstract!Spec
=============================================================================
