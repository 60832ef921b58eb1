------------------------------ MODULE MCVoting ------------------------------
(* Voting on small instances.                                              *)
EXTENDS Voting, TLC

Symmetry == Permutations(Machines)

NoBias == [k \in Kinds |-> 0]

\* Bound: of the users only the first ever watches as a spectator; the others join a team
\* with the player they create.
OneSpectator == \A u \in Users : role[u] = "spectator" => u = 1
=============================================================================
