----------------------------- MODULE MCMessageIds -----------------------------
(* MessageIds within the bounds for which its proofs and those of ReliableLink hold. *)
EXTENDS MessageIds

\* The quarters of an expander that has seen 5 trips round the ids, and the last messages
\* in the fourth quarter of the sixth: the next one is there already.
Left == [q \in 0 .. 3 |-> (IF q = 0 THEN 6 ELSE 5) * IdSpace + q * Quarter]

ASSUME WithinBounds == InTimeAssumption /\ RingAssumption /\ QuartersAssumption
=============================================================================
