------------------------------ MODULE MCLoginSlots ------------------------------
(* Some addresses on one machine, and one on another. *)
EXTENDS LoginSlots, TLC

CONSTANTS Shared, m1, m2

MCMachineOf == [a \in Addresses |-> IF a \in Shared THEN m1 ELSE m2]

Symmetry == Permutations(Shared) \cup Permutations(Addresses \ Shared)
=============================================================================
