---------------------------- MODULE MCTurnDispatch ----------------------------
(* TurnDispatch with threads that are interchangeable. *)
EXTENDS TurnDispatch, TLC

Symmetry == Permutations(Threads)
=============================================================================
