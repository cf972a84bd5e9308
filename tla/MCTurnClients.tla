--------------------------- MODULE MCTurnClients ---------------------------
(* An instance of TurnLifecycle for TLC: its users, and a shutdown. *)
EXTENDS TurnLifecycle, TLC

\* Bounds: at most one client's call is under way at a time; at most one of the
\* turns asks; while runners are shut down no user cancels or has cancelled a turn.
OneClient == Cardinality({k \in Clients : pc[k] # "idle"}) <= 1
OneAsks == Cardinality({e \in ToSet(log) : e.what = "ask"}) <= 1
ShutDown == \E m \in Messages : pc[m] \in {"aborting", "dead"}
NobodyCancels == cancelled = {} /\ \A k \in Cancellers : pc[k] = "idle"
Bounds == OneClient' /\ OneAsks' /\ (ShutDown' => NobodyCancels')

\* Turns are interchangeable.
Symmetry == Permutations(Messages)
=============================================================================
