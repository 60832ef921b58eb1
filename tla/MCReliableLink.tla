---------------------------- MODULE MCReliableLink ----------------------------
(* ReliableLink within the bounds on the network for which its proofs hold. *)
EXTENDS ReliableLink

ASSUME WithinBounds == InTimeAssumption /\ RingAssumption

\* Bound for link_liveness: a logout leaves a destroy message only when nothing else is
\* underway, and no connection begins with what an earlier one left.  Where it ends, nothing
\* is awaited any more; link_safety has no such bound.
LeftWhenQuiet == left > 0 \/ ackPending < 0 => ~open /\ data = {} /\ acks = {}
=============================================================================
