-------------------------- MODULE MCKernelBinding --------------------------
(* Instances of KernelBinding and SessionRecovery for TLC. *)
EXTENDS SessionRecovery, FiniteSets, TLC

\* Ids are uuids and callers anonymous: only their equality matters.
Symmetry == Permutations(Bindings) \cup Permutations(Messages) \cup Permutations(Creators)

\* A behaviour is one of KernelBinding, whose callers may do anything to the
\* rows, or one of SessionRecovery, whose callers run the coordinator.
VARIABLE kind
BehaviourKinds == {"rows", "sessions"}

\* Bounds.  Faults of one kind in a behaviour, and a turn that fails stands for
\* one that is cancelled, which changes the same; with sessions also one turn,
\* two rows, session ids taken in order (they are numbers here), and an end when
\* every id is used up.
OneFault == Cardinality(happened) <= 1
OneTurn == Cardinality({m \in Messages : owner[m] # None}) <= 1
TwoRows == Cardinality({b \in Bindings : Exists(b)}) <= 2
NoneCancelled == \A m \in Messages : outcome[m] # "cancelled"
InOrder == \A s, t \in Sessions : t < s /\ place[s] # "unused" => place[t] # "unused"
UsedUp == \/ Cardinality({b \in Bindings : Exists(b)}) = 2
          \/ \A s \in Sessions : place[s] # "unused"

Rows == kind = "rows" /\ Next /\ OneFault' /\ NoneCancelled' /\ UNCHANGED <<recoveryVars, mishaps>>
Recoveries == /\ kind = "sessions" /\ RecoveryNext
              /\ OneFault' /\ NoneCancelled' /\ OneTurn' /\ TwoRows' /\ InOrder'
Ended == kind = "sessions" /\ UsedUp /\ UNCHANGED allVars

BoundedInit == RecoveryInit /\ kind \in BehaviourKinds
BoundedSpec == BoundedInit /\ [][(Rows \/ Recoveries \/ Ended) /\ UNCHANGED kind]_<<allVars, kind>>

\* For the runs about SessionRecovery alone.
SessionsInit == RecoveryInit /\ kind = "sessions"
OnlySessions == SessionsInit /\ [][Recoveries /\ UNCHANGED kind]_<<allVars, kind>>
FairSessions == OnlySessions /\ RecoveryFairness
=============================================================================
