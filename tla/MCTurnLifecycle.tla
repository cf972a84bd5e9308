-------------------------- MODULE MCTurnLifecycle --------------------------
(* Instances of TurnLifecycle for TLC. *)
EXTENDS TurnLifecycle, TLC

\* Turns are interchangeable.
Symmetry == Permutations(Messages)
=============================================================================
