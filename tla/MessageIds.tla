------------------------------- MODULE MessageIds -------------------------------
(***************************************************************************)
(* nMessageIDExpander, put on top of ReliableLink: how the receiver makes  *)
(* of the 16 bit id of a message a number that goes on growing, by which   *)
(* network objects and settings tell a newer message from an older one.    *)
(*                                                                         *)
(* The id space is cut in four quarters.  For each there is the number its *)
(* first id stands for at present, and whenever a message arrives, new or  *)
(* repeated, handled or not, the quarter after its own is made to come     *)
(* next.  There is one expander for each slot, and it is not reset when    *)
(* the slot gets another connection.                                       *)
(***************************************************************************)
EXTENDS ReliableLink

CONSTANTS
  Quarter,       \* ids in a quarter (16384)
  LeftQuarters   \* quarters as the constructor or an earlier connection left them

ASSUME ExpanderAssumption ==
  /\ Quarter \in Nat \ {0} /\ IdSpace = 4 * Quarter
  /\ LeftQuarters \in [0 .. 3 -> Nat]
  /\ \A q \in 0 .. 3 : LeftQuarters[q] % IdSpace = q * Quarter

VARIABLES
  quarters,      \* expanders[sender].quarters
  (* history *)
  bigs           \* messageIDBig_ of the messages in accepted

idVars == <<quarters, bigs>>
allVars == <<vars, idVars>>

-----------------------------------------------------------------------------
(* ExpandMessageID *)

\* ( id >> 14 ) & 3
QuarterOf(id) ==
  IF id < Quarter THEN 0 ELSE IF id < 2 * Quarter THEN 1 ELSE IF id < 3 * Quarter THEN 2 ELSE 3

NextQuarter(q) == IF q = 3 THEN 0 ELSE q + 1

\* Mutant of Advance: the next quarter goes on a trip round with each message.
AdvanceEachTime(id) ==
  quarters' = [quarters EXCEPT ![NextQuarter(QuarterOf(id))] = @ + IdSpace]

\* The quarter after that of id is made to come next.
Advance(id) ==
  LET this == QuarterOf(id)
  IN  quarters' = [quarters EXCEPT ![NextQuarter(this)] = quarters[this] + Quarter]

\* quarters[thisQuarter] | id.  Both have the same two bits for the quarter, as the
\* constructor sets them and a step to the next quarter keeps them, so that only the
\* place of id in its quarter is added (LowBitsAreTheId in MessageIds_proofs).
Expanded(id) == quarters[QuarterOf(id)] + (id - QuarterOf(id) * Quarter)

-----------------------------------------------------------------------------
IdsInit == Init /\ quarters = LeftQuarters /\ bigs = <<>>

\* nMessage::nMessage(buffer, sender, lenLeft), then the rest of rec_peer.
ReceiveExpanded(m) ==
  /\ Receive(m)
  /\ Advance(m.id)
  /\ bigs' = IF IsNew(m) THEN Append(bigs, Expanded(m.id)) ELSE bigs

\* A client that is not logged in drops the message, but its id has been expanded.
DropBeforeLogin(m) ==
  /\ ropen
  /\ m \in data
  /\ ~login_succeeded /\ ~IsLogin(m)
  /\ Advance(m.id)
  /\ UNCHANGED <<vars, bigs>>

\* A message that asks for no ack has the id 0, and that is expanded, too.
ReceiveUnacked ==
  /\ ropen
  /\ Advance(0)
  /\ UNCHANGED <<vars, bigs>>

\* What else the receiver does.
AckingNext == SendAcks \/ CloseReceiver \/ \E A \in ackQueue : ExecuteQueuedAcks(A)

IdsNext ==
  \/ \E m \in data : ReceiveExpanded(m) \/ DropBeforeLogin(m)
  \/ ReceiveUnacked
  \/ (SenderNext \/ AckingNext \/ NetworkNext) /\ UNCHANGED idVars

IdsSpec == IdsInit /\ [][IdsNext]_allVars

-----------------------------------------------------------------------------
(* Properties *)

\* How the traffic has to be related to the quarters: from highest_ack to the next
\* message no quarter is skipped, which needs no more than the window in the code, as
\* 10000 ids are less than a quarter; and a client whose server starts in the second
\* quarter has not been left with quarters that an id 0 would move.
QuartersAssumption ==
  /\ Gap + Reserved <= Quarter
  /\ FirstIdBound < Quarter
  /\ ToClient /\ QuarterOf(NextId(Start)) = 1 => LeftQuarters[1] = LeftQuarters[0] + Quarter

\* nNetObject::SyncIsNew relies on it: the expanded ids of the messages accepted on one
\* connection are in the order the messages were constructed in, whatever order they
\* arrived in, through the wrap of the ids, and wherever repeated and unacknowledged
\* messages moved the quarters.
ExpandedInOrder ==
  \A i, j \in DOMAIN accepted : accepted[i] < accepted[j] => bigs[i] < bigs[j]
=============================================================================
