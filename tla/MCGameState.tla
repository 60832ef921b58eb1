------------------------------ MODULE MCGameState ------------------------------
(* Two clients whose names do not matter. *)
EXTENDS GameState, TLC

Symmetry == Permutations(Clients)
=============================================================================
