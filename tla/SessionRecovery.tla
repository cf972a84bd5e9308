-------------------------- MODULE SessionRecovery --------------------------
(***************************************************************************)
(* How a conversation keeps a kernel session: RuntimeCoordinator restores, *)
(* rebuilds, rotates and disposes of sessions of the runtime host          *)
(* (runtime_coordinator.py, with prepare_turn, synchronize and             *)
(* dispose_conversation, which call it) and binds them to the conversation *)
(* by the rows of KernelBinding.  The host's side is what its answers      *)
(* depend on: which sessions it has in memory or on disk, and which turns  *)
(* each one's event log holds.  A caller is a request; each of its host    *)
(* requests and store calls is a step.                                     *)
(***************************************************************************)
EXTENDS KernelBinding, Naturals

CONSTANTS
    Sessions,   \* session ids: uuids, so the host creates each at most once
    HostFaults, \* which of the faults below may happen
    MaxMishaps  \* bound: faults of either kind in a behaviour

HostFaultKinds == {"refuse",      \* a request fails, with no effect
                   "lost_answer", \* a request fails, though the host served it
                   "page",        \* a proxy answers with a page, not JSON
                   "restart",     \* the host loses its memory
                   "wipe"}        \* the host loses a session's files

ASSUME NoSessionIsNone == None \notin Sessions
ASSUME HostFaultsAreKnown == HostFaults \subseteq HostFaultKinds
ASSUME MaxMishapsIsNatural == MaxMishaps \in Nat

VARIABLES
    session,    \* row's "kernel_session_id"
    place,      \* where the host has a session
    knows,      \* the completed turns in a session's event log
    call,       \* what each caller is doing: its place and its local variables
    fate,       \* history: how a session was given up, if it was
    late,       \* history: turns that completed after their log was copied
    mishaps     \* how many faults have happened

hostVars == <<place, knows>>
historyVars == <<fate, late>>
recoveryVars == <<session, place, knows, call, fate, late>>
allVars == <<vars, recoveryVars, mishaps>>

Places == {"unused", "live", "stored", "lost"}
Phases == {"idle", "resume", "export", "session", "bind", "discard", "retire",
           "dispose", "mark", "pending"}
Kinds == {"first", "rebuild", "rotate"}

\* A caller that does nothing.
NoCall == [at |-> "idle", why |-> "turn", kind |-> "first", row |-> None,
           made |-> None, sealed |-> FALSE, seed |-> {}]

Calls == [at : Phases, why : {"turn", "delete"}, kind : Kinds,
          row : Bindings \cup {None}, made : Sessions \cup {None},
          sealed : BOOLEAN, seed : SUBSET Messages]

SessionTypes ==
    /\ session \in [Bindings -> Sessions \cup {None}]
    /\ place \in [Sessions -> Places]
    /\ knows \in [Sessions -> SUBSET Messages]
    /\ call \in [Creators -> Calls]
    /\ fate \in [Sessions -> {"kept", "disposed", "unanswered"}]
    /\ late \subseteq Messages
    /\ mishaps \in 0 .. MaxMishaps

RecoveryTypeOK == TypeOK /\ SessionTypes

RecoveryInit ==
    /\ Init
    /\ session = [b \in Bindings |-> None]
    /\ place = [s \in Sessions |-> "unused"]
    /\ knows = [s \in Sessions |-> {}]
    /\ call = [c \in Creators |-> NoCall]
    /\ fate = [s \in Sessions |-> "kept"]
    /\ late = {}
    /\ mishaps = 0

\* A step is a fault, or it is none.
AnyMishap == mishaps < MaxMishaps /\ mishaps' = mishaps + 1
Mishap(kind) == kind \in HostFaults /\ AnyMishap
NoMishap == UNCHANGED mishaps

Become(c, r) == call' = [call EXCEPT ![c] = r]
Move(c, at) == Become(c, [call[c] EXCEPT !.at = at])

\* The call raises: dispose_conversation catches it and marks its row.
Raised(r) ==
    IF r.why = "delete"
    THEN [NoCall EXCEPT !.at = "pending", !.why = "delete", !.row = r.row]
    ELSE NoCall

\* What a caller may do with row b once its session is up: a turn's caller is
\* done, or rotates the row when the profile has changed.
Restored(r, b) ==
    IF r.why = "delete"
    THEN {[NoCall EXCEPT !.at = "dispose", !.why = "delete", !.row = b]}
    ELSE {NoCall, [NoCall EXCEPT !.at = "session", !.kind = "rotate", !.row = b]}

SessionOf(c) == session[call[c].row]

-----------------------------------------------------------------------------
\* prepare_turn finds no current row and creates the first binding.
StartFirst(c) ==
    /\ call[c].at = "idle"
    /\ NoCurrent
    /\ Become(c, [NoCall EXCEPT !.at = "session"])
    /\ NoMishap
    /\ UNCHANGED <<vars, session, hostVars, historyVars>>

\* prepare_turn, cancel, a replay or dispose_conversation reads the current row
\* and restores it.
StartRestore(c, b, why) ==
    /\ call[c].at = "idle"
    /\ current[b]
    /\ Become(c, [NoCall EXCEPT !.at = "resume", !.why = why, !.row = b])
    /\ NoMishap
    /\ UNCHANGED <<vars, session, hostVars, historyVars>>

\* resume_session finds the session in memory or loads it from its files.
HostResumes(s) ==
    /\ place[s] # "lost"
    /\ place' = [place EXCEPT ![s] = "live"]
    /\ UNCHANGED knows

ResumeAnswered(c) ==
    /\ call[c].at = "resume"
    /\ HostResumes(SessionOf(c))
    /\ \E r \in Restored(call[c], call[c].row) : Become(c, r)
    /\ NoMishap
    /\ UNCHANGED <<vars, session, historyVars>>

\* The host answers that it has no such session with code
\* "kernel_request_failed", which the transport raises like an unreachable
\* host: DshTransportError, which restore passes on.
ResumeRaises(c) ==
    /\ call[c].at = "resume"
    /\ \/ place[SessionOf(c)] = "lost" /\ NoMishap /\ UNCHANGED hostVars
       \/ Mishap("refuse") /\ UNCHANGED hostVars
       \/ Mishap("lost_answer") /\ HostResumes(SessionOf(c))
    /\ Become(c, Raised(call[c]))
    /\ UNCHANGED <<vars, session, historyVars>>

\* Any other error of the gateway makes restore rebuild the binding: an answer
\* that is no JSON, or a session that the gateway forgot while it waited because
\* another caller disposed of it.
ResumeGarbled(c) ==
    /\ call[c].at = "resume"
    /\ \/ Mishap("page") /\ UNCHANGED hostVars
       \/ fate[SessionOf(c)] = "disposed" /\ NoMishap /\ HostResumes(SessionOf(c))
    /\ Move(c, "export")
    /\ UNCHANGED <<vars, session, historyVars>>

\* export_session_seed asks the replicas for a sealed copy of the event log.
\* None has it unless the session is in memory; an error counts as an absence.
Export(c) ==
    /\ call[c].at = "export"
    /\ \/ /\ place[SessionOf(c)] = "live"
          /\ NoMishap
          /\ Become(c, [call[c] EXCEPT !.at = "session", !.kind = "rebuild",
                                       !.sealed = TRUE, !.seed = knows[SessionOf(c)]])
       \/ /\ IF place[SessionOf(c)] # "live" THEN NoMishap ELSE Mishap("refuse")
          /\ Become(c, [call[c] EXCEPT !.at = "session", !.kind = "rebuild"])
    /\ UNCHANGED <<vars, session, hostVars, historyVars>>

-----------------------------------------------------------------------------
\* A sealed copy is complete in itself; a reference to the predecessor's session
\* is resolved by the host, which refuses one that is not in memory.
HasSeed(r) == r.kind # "first" /\ ~r.sealed => place[session[r.row]] = "live"

MutSeed(r) == IF r.sealed THEN r.seed ELSE {}

\* The event log that a new session begins with.
Seed(r) == IF r.kind = "first" THEN {}
           ELSE IF r.sealed THEN r.seed ELSE knows[session[r.row]]

HostCreates(s, r) ==
    /\ place[s] = "unused"
    /\ HasSeed(r)
    /\ place' = [place EXCEPT ![s] = "live"]
    /\ knows' = [knows EXCEPT ![s] = Seed(r)]

\* create_session of create_binding.
SessionCreated(c, s) ==
    /\ call[c].at = "session"
    /\ HostCreates(s, call[c])
    /\ Become(c, [call[c] EXCEPT !.at = "bind", !.made = s, !.sealed = FALSE, !.seed = {}])
    /\ NoMishap
    /\ UNCHANGED <<vars, session, historyVars>>

SessionRaises(c) ==
    /\ call[c].at = "session"
    /\ \/ /\ IF HasSeed(call[c]) THEN Mishap("refuse") ELSE NoMishap
          /\ UNCHANGED <<hostVars, fate>>
       \/ /\ Mishap("lost_answer")
          /\ \E s \in Sessions : /\ HostCreates(s, call[c])
                                /\ fate' = [fate EXCEPT ![s] = "unanswered"]
    /\ Become(c, Raised(call[c]))
    /\ UNCHANGED <<vars, session, late>>

-----------------------------------------------------------------------------
\* bindings.create, whose steps are those of KernelBinding.
Binding(c) == call[c].at = "bind"

\* The row a step inserts, if it inserts one, is bound to the new session.
BindsSession(c) ==
    session' = [b \in Bindings |->
                   IF ~Exists(b) /\ status'[b] # "absent" THEN call[c].made ELSE session[b]]

BindBegins(c) ==
    /\ Binding(c)
    /\ IF call[c].kind = "first" THEN BeginFirst(c) ELSE ClaimReplacement(c, call[c].row)
    /\ NoMishap
    /\ UNCHANGED recoveryVars

MutAfterFailedCreate == "idle"

\* The handler of create_binding disposes of the session it made.
AfterFailedCreate == "discard"

BindConflicts(c) ==
    /\ Binding(c)
    /\ call[c].kind # "first"
    /\ ReplacementConflict(c, call[c].row)
    /\ NoMishap
    /\ Move(c, AfterFailedCreate)
    /\ UNCHANGED <<session, hostVars, historyVars>>

\* The new session is bound to row b, which the caller works for from here on.
BindInserts(c, b) ==
    /\ Binding(c)
    /\ Insert(c, b)
    /\ NoMishap
    /\ BindsSession(c)
    /\ Become(c, IF call[c].kind = "first" THEN NoCall
                 ELSE [call[c] EXCEPT !.made = None, !.row = b])
    /\ UNCHANGED <<hostVars, historyVars>>

BindInsertRaises(c) ==
    /\ Binding(c)
    /\ InsertRaises(c)
    /\ IF NoCurrent THEN AnyMishap ELSE NoMishap
    /\ BindsSession(c)
    /\ IF call[c].kind = "first" THEN Move(c, AfterFailedCreate) ELSE UNCHANGED call
    /\ UNCHANGED <<hostVars, historyVars>>

BindChecks(c) ==
    /\ Binding(c)
    /\ CheckCurrent(c)
    /\ NoMishap
    /\ IF NoCurrent THEN UNCHANGED call ELSE Move(c, AfterFailedCreate)
    /\ UNCHANGED <<session, hostVars, historyVars>>

BindPutsBack(c) ==
    /\ Binding(c)
    /\ RestoreReplaced(c)
    /\ NoMishap
    /\ Move(c, AfterFailedCreate)
    /\ UNCHANGED <<session, hostVars, historyVars>>

\* A caller that rotates disposes of the predecessor's session; one that rebuilds
\* goes on with the new row.
BindSupersedes(c) ==
    /\ Binding(c)
    /\ SupersedeReplaced(c)
    /\ NoMishap
    /\ IF call[c].kind = "rotate"
       THEN Become(c, [call[c] EXCEPT !.at = "retire", !.row = seen[c]])
       ELSE \E r \in Restored(call[c], call[c].row) : Become(c, r)
    /\ UNCHANGED <<session, hostVars, historyVars>>

\* A caller dies, or its next store call raises inside create_binding, whose
\* handler disposes of the session it made: when the call that raises is the one
\* that supersedes the predecessor, that session is bound to the new row already,
\* and the caller is left with the predecessor's row.
CallerFails(c) ==
    /\ call[c].at # "idle"
    /\ Abandon(c)
    /\ AnyMishap
    /\ \/ Become(c, NoCall)
       \/ Binding(c) /\ call[c].made # None /\ Move(c, AfterFailedCreate)
       \/ /\ step[c] = "supersede"
          /\ Become(c, [call[c] EXCEPT !.at = AfterFailedCreate, !.made = SessionOf(c),
                                       !.row = seen[c]])
    /\ UNCHANGED <<session, hostVars, historyVars>>

-----------------------------------------------------------------------------
Disposing(c) == call[c].at \in {"discard", "retire", "dispose"}

MutTarget(c) == IF call[c].at = "discard" THEN call[c].made
                ELSE session[CHOOSE b \in Bindings : NoCurrent \/ current[b]]

\* The session a call of dispose_session is for: the one just made, or that of the
\* row the caller has restored.
Target(c) == IF call[c].at = "discard" THEN call[c].made ELSE SessionOf(c)

\* What comes after it: the exception goes on, the predecessor's disposal is best
\* effort, and a deletion marks its row.
AfterDispose(r, answered) ==
    IF r.at = "dispose"
    THEN [r EXCEPT !.at = IF answered THEN "mark" ELSE "pending"]
    ELSE IF r.at = "discard" THEN Raised(r) ELSE NoCall

\* The host closes the session; its files stay.
HostDisposes(s) ==
    /\ place' = [place EXCEPT ![s] = IF @ = "live" THEN "stored" ELSE @]
    /\ UNCHANGED knows

DisposeAnswered(c) ==
    /\ Disposing(c)
    /\ HostDisposes(Target(c))
    /\ fate' = [fate EXCEPT ![Target(c)] = "disposed"]
    /\ Become(c, AfterDispose(call[c], TRUE))
    /\ NoMishap
    /\ UNCHANGED <<vars, session, late>>

DisposeRaises(c) ==
    /\ Disposing(c)
    /\ \/ Mishap("refuse") /\ UNCHANGED hostVars
       \/ Mishap("lost_answer") /\ HostDisposes(Target(c))
    /\ fate' = [fate EXCEPT ![Target(c)] = IF @ = "disposed" THEN @ ELSE "unanswered"]
    /\ Become(c, AfterDispose(call[c], FALSE))
    /\ UNCHANGED <<vars, session, late>>

MarkRow(c) ==
    /\ call[c].at \in {"mark", "pending"}
    /\ MarkDisposed(call[c].row, call[c].at = "pending")
    /\ NoMishap
    /\ Become(c, NoCall)
    /\ UNCHANGED <<session, hostVars, historyVars>>

-----------------------------------------------------------------------------
\* A turn on the session of the row it was claimed on.
TurnClaimed(b, m) ==
    /\ ClaimTurn(b, m)
    /\ NoMishap
    /\ UNCHANGED recoveryVars

\* A caller has copied the log of row b's session and not yet claimed the row.
CopyTaken(b) == \E c \in Creators :
    /\ call[c].row = b
    /\ \/ call[c].at = "session" /\ call[c].sealed
       \/ Binding(c) /\ step[c] = "idle"

TurnFinished(b, m, s) ==
    /\ FinishTurn(b, m, s)
    /\ IF s = "completed"
       THEN /\ place[session[b]] # "lost"
            /\ knows' = [knows EXCEPT ![session[b]] = @ \cup {m}]
            /\ late' = IF CopyTaken(b) THEN late \cup {m} ELSE late
       ELSE UNCHANGED <<knows, late>>
    /\ NoMishap
    /\ UNCHANGED <<session, place, call, fate>>

HostRestarts ==
    /\ Mishap("restart")
    /\ \E s \in Sessions : place[s] = "live"
    /\ place' = [s \in Sessions |-> IF place[s] = "live" THEN "stored" ELSE place[s]]
    /\ UNCHANGED <<vars, session, knows, call, historyVars>>

HostLoses(s) ==
    /\ Mishap("wipe")
    /\ place[s] \in {"live", "stored"}
    /\ place' = [place EXCEPT ![s] = "lost"]
    /\ UNCHANGED <<vars, session, knows, call, historyVars>>

-----------------------------------------------------------------------------
Starts(c) == \/ StartFirst(c)
             \/ \E b \in Bindings, why \in {"turn", "delete"} : StartRestore(c, b, why)

Proceeds(c) ==
    \/ ResumeAnswered(c) \/ ResumeRaises(c) \/ ResumeGarbled(c) \/ Export(c)
    \/ \E s \in Sessions : SessionCreated(c, s)
    \/ SessionRaises(c)
    \/ BindBegins(c) \/ BindConflicts(c)
    \/ \E b \in Bindings : BindInserts(c, b)
    \/ BindInsertRaises(c) \/ BindChecks(c) \/ BindPutsBack(c) \/ BindSupersedes(c)
    \/ DisposeAnswered(c) \/ DisposeRaises(c) \/ MarkRow(c)

TurnMoves(b, m) == \/ TurnClaimed(b, m)
                   \/ \E s \in TerminalStatus : TurnFinished(b, m, s)

RecoveryNext ==
    \/ \E c \in Creators : Starts(c) \/ Proceeds(c) \/ CallerFails(c)
    \/ \E b \in Bindings, m \in Messages : TurnMoves(b, m)
    \/ HostRestarts
    \/ \E s \in Sessions : HostLoses(s)

RecoverySpec == RecoveryInit /\ [][RecoveryNext]_allVars

\* Requests keep coming and a request that is under way goes on.
RecoveryFairness == \A c \in Creators :
    /\ WF_allVars(Proceeds(c))
    /\ WF_allVars(\E b \in Bindings : StartRestore(c, b, "turn"))

-----------------------------------------------------------------------------
\* Until a crash or a failing store: a session that was disposed of is current
\* only while the deletion that disposed of it is about to mark its row.  The
\* three disposals (of a rotated predecessor, of the session of a failed create,
\* of a deleted conversation) never close the session turns will be sent to.
DisposedIsRetired ==
    happened = {} =>
        \A b \in Bindings, s \in Sessions :
            current[b] /\ session[b] = s /\ fate[s] = "disposed"
                => \E c \in Creators : call[c].at = "mark" /\ call[c].row = b

\* A session in the host's memory is that of some row once its caller is done,
\* unless the caller crashed or the host did not answer: rebuilds, rotations and
\* first creates that lose to each other clean up what they made.
SessionsHaveRows ==
    "crash" \notin happened =>
        \A s \in Sessions :
            place[s] = "live" /\ fate[s] # "unanswered"
                => \/ \E b \in Bindings : session[b] = s
                   \/ \E c \in Creators : call[c].made = s

\* Unless an insert's acknowledgement was lost: the session of a row that replaces
\* another holds every turn of that one's session, whether it was seeded by a
\* sealed copy or by a reference, and whatever the host lost or the callers raced
\* for meanwhile; but the turns that complete between the copy of the log and the
\* claim of the row are missing.
SuccessorRemembers ==
    "lost_ack" \notin happened =>
        \A b, p \in Bindings, s, t \in Sessions :
            replaces[b] = p /\ session[b] = s /\ session[p] = t
                => knows[t] \subseteq knows[s] \cup late

\* A conversation goes on with what it knows: until a deletion, the current
\* session's event log holds every turn that was completed in time for its copy.
\* The synchronizer is to "keep a Conversation stable while its immutable kernel
\* snapshot evolves" (profile/synchronizer.py:27).
HistoryIsKept ==
    (\A b \in Bindings : status[b] \notin {"disposed", "disposal_pending"})
        => \A b \in Bindings, s \in Sessions, m \in Messages :
               current[b] /\ session[b] = s /\ outcome[m] = "completed" /\ m \notin late
                   => m \in knows[s]

\* A current session that the host has lost is replaced as long as requests come:
\* "the replica is reachable but no longer holds this session ... If no replica has
\* it, fall back to an unseeded successor so the conversation is not orphaned"
\* (runtime_coordinator.py:242-248).
LostIsRebuilt ==
    \A b \in Bindings, s \in Sessions :
        (current[b] /\ session[b] = s /\ place[s] = "lost") ~> ~current[b]
=============================================================================
