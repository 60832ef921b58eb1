------------------------------ MODULE ReliableLink ------------------------------
(***************************************************************************)
(* The acknowledged half of nNetwork.cpp: how one end of a connection (the *)
(* sender) gets network messages to the other (the receiver) over UDP.     *)
(*                                                                         *)
(* The sender numbers every nMessage it constructs with a 16 bit id, plans *)
(* it in a queue, sends it, remembers it in an nWaitForAck until an        *)
(* acknowledgement comes back, sends it again when none does and gives the *)
(* connection up after too many attempts.  The receiver tells new messages *)
(* from repeated ones by comparing ids with the most recent one it has     *)
(* seen and with a ring of the last ids it accepted, and acknowledges both.*)
(*                                                                         *)
(* A message is a record [n, id]: n is its place in the order of           *)
(* construction, which the code does not have, and id what goes on the     *)
(* wire.  Messages with the id 0 pass through without any of this and are  *)
(* left out.  A packet carries one message, or one batch of acks.  Time is *)
(* abstract: a resend may become due at any moment.                        *)
(***************************************************************************)
EXTENDS Integers, Sequences, FiniteSets

CONSTANTS
  IdSpace,       \* number of values of an unsigned short (65536)
  Reserved,      \* ids 0 .. Reserved are never given to a message (16)
  Window,        \* ids less than this ahead of the latest are new (10000)
  AckBack,       \* length of the ring of accepted ids (1000)
  MaxNoAck,      \* sn_maxNoAck: queued messages wait at this many unacked (100)
  PacketLimit,   \* resends in a row before the connection may be given up (20)
  AckBatch,      \* an ack message with more ids than this is queued (100)
  MaxLeft,       \* destroy messages that the logout callback may send
  ToClient,      \* the receiver is a client that has to be logged in first
  Start          \* value of current_id when the connection opens

CONSTANTS        \* what is assumed of the network and of the traffic
  Span,          \* copies and acks of a message are gone when Span newer ids are used
  Gap,           \* ids used since the receiver last moved highest_ack
  FirstIdBound,  \* largest id used before the receiver has accepted a message
  RingAge,       \* ids used since the oldest entry of the ring was accepted
  MaxCreated     \* bound on the number of messages constructed

ASSUME LinkAssumption ==
  /\ {IdSpace, Window, AckBack, MaxNoAck} \subseteq Nat \ {0}
  /\ {PacketLimit, Reserved, AckBatch, MaxLeft, Start, Span, Gap, FirstIdBound, RingAge, MaxCreated} \subseteq Nat
  /\ Reserved + 1 < IdSpace
  /\ Start < IdSpace
  /\ ToClient \in BOOLEAN

\* How the ring, the window and the traffic have to be related for the receiver's
\* comparison of ids to be right: with 1000, 10000 and 65536 it bears a delay of
\* 500 messages and almost 10000 messages to others in between.
InTimeAssumption ==
  /\ 1 <= Span /\ Span <= Gap
  /\ 2 * Span - 1 <= AckBack
  /\ Gap + Reserved + 1 <= Window
  /\ Window + Span + Reserved <= IdSpace
  /\ FirstIdBound < Window

\* No entry of the ring is as old as a trip round the ids.
RingAssumption == Span <= RingAge /\ RingAge <= IdSpace - 1 - Reserved

VARIABLES
  (* the sender *)
  created,       \* messages constructed since the connection opened
  current_id,    \* id of the last one
  open,          \* sn_Connections[peer].socket is set
  send_queue,    \* messages planned and not yet sent
  pending,       \* sn_pendingAcks: messages sent and not acknowledged
  ackPending,    \* sn_Connections[peer].ackPending
  left,          \* nWaitForAckDestroys in sn_pendingAcks that were made for the user who
                 \* had the slot before, when it was logged out
  timeouts,      \* timeouts[peer]: resends since the last ack, up to the limit
  (* the network *)
  data,          \* messages on their way; each may arrive any number of times and in
                 \* any order until it is lost or dies of age
  acks,          \* ack messages on their way, as sets of the messages they name
  (* the receiver *)
  ropen,         \* its socket for this connection is set
  login_succeeded,
  highest_ack,
  lastacks,
  lastackPos,
  ackMess,       \* ids collected for the next ack message
  ackQueue,      \* full ack messages in the receiver's own send queue
  (* history *)
  sent,          \* messages given to the link
  accepted,      \* messages judged new and handled, in that order
  acked,         \* messages whose nWaitForAck was removed by an ack
  highest_n      \* the message highest_ack was taken from, 0 at first

sendVars == <<created, current_id, open, send_queue, pending, ackPending, left, timeouts>>
recvVars == <<ropen, login_succeeded, highest_ack, lastacks, lastackPos, ackMess, ackQueue>>
vars == <<sendVars, recvVars, data, acks, sent, accepted, acked, highest_n>>

Ids == 0 .. IdSpace - 1
Ns == 1 .. MaxCreated
Messages == [n : Ns, id : Ids]

-----------------------------------------------------------------------------
(* Message ids *)

\* Mutant of NextId: the wrap is forgotten.
NextIdNoWrap(id) == id + 1

\* ++current_id, wrapping to the first id that is not reserved.
NextId(id) == IF id + 1 = IdSpace \/ id + 1 <= Reserved THEN Reserved + 1 ELSE id + 1

\* The difference of two ids as an unsigned short.
Diff(a, b) == IF a >= b THEN a - b ELSE a - b + IdSpace

NextMessage == [n |-> created + 1, id |-> NextId(current_id)]

\* A server opens the connection to a client with its login_accept.
IsLogin(m) == ToClient /\ m.n = 1

-----------------------------------------------------------------------------
(* The environment: how far the network and the traffic may fall behind *)

RangeOf(s) == {s[i] : i \in DOMAIN s}

InTime(m) == created + 1 - m.n < Span

\* The two ends are done with a message before Span newer ones are constructed.
EndsInTime ==
  \A m \in send_queue \cup pending \cup RangeOf(ackMess) \cup UNION ackQueue : InTime(m)

\* The receiver's highest_ack keeps up with the ids in use.
TrafficInTime ==
  IF highest_ack = 0
  THEN ToClient \/ NextId(current_id) <= FirstIdBound
  ELSE created + 1 - highest_n < Gap

\* The ring does not hold entries from long ago.
RingInTime == \A i \in DOMAIN accepted :
                i > Len(accepted) - AckBack => created + 1 - accepted[i] < RingAge

-----------------------------------------------------------------------------
Init ==
  /\ created = 0 /\ current_id = Start
  /\ open = TRUE /\ send_queue = {} /\ pending = {} /\ timeouts = 0
  /\ ackPending \in -MaxLeft .. 0 /\ left \in 0 .. MaxLeft + ackPending
  /\ data = {} /\ acks = {}
  /\ ropen = TRUE /\ login_succeeded = ~ToClient
  /\ highest_ack = 0 /\ lastacks = [i \in 0 .. AckBack - 1 |-> 0] /\ lastackPos = 0
  /\ ackMess = <<>> /\ ackQueue = {}
  /\ sent = {} /\ accepted = <<>> /\ acked = {} /\ highest_n = 0

-----------------------------------------------------------------------------
(* The sender *)

\* nMessage::nMessage(nDescriptor): every message object takes the next id.
Construct ==
  /\ created < MaxCreated
  /\ EndsInTime
  /\ ropen => TrafficInTime /\ RingInTime
  /\ created' = created + 1
  /\ current_id' = NextId(current_id)
  /\ acks' = {A \in acks : \A m \in A : InTime(m)}

\* What the network still holds when the next message is constructed.
Survivors == {m \in data : InTime(m)}

\* new nWaitForAck(m, peer).
Await(m) ==
  /\ pending' = pending \cup {m}
  /\ ackPending' = ackPending + 1

\* sn_DisconnectUserNoWarn at the sender.  AckAllPeer settles all there is, the logout
\* callback sends what is left of the destroy message for the peer, and then Clear counts
\* from 0 again, though the nWaitForAckDestroy of that message is there.
CloseSender ==
  /\ open' = FALSE
  /\ pending' = {}
  /\ left' \in 0 .. MaxLeft
  /\ ackPending' = 0
  /\ send_queue' = {}

\* ~nWaitForAckDestroy of one that is left: Resend finds no user on the slot, or the next
\* user acknowledges the message.  What that message is to the next user is modelled in
\* NetObjectSync, not here.
DropLeft ==
  /\ left > 0
  /\ left' = left - 1
  /\ ackPending' = ackPending - 1
  /\ timeouts' = IF open THEN 0 ELSE timeouts
  /\ UNCHANGED <<created, current_id, open, send_queue, pending, data, acks,
                 recvVars, sent, accepted, acked, highest_n>>

\* A message for another peer, a broadcast that skips this one, an ack message.
SkipMessage ==
  /\ open
  /\ ToClient => created > 0
  /\ Construct
  /\ data' = Survivors
  /\ UNCHANGED <<open, send_queue, pending, ackPending, left, timeouts,
                 recvVars, sent, accepted, acked, highest_n>>

\* nMessage::Send with ack: plan the message.
Send ==
  /\ open
  /\ Construct
  /\ send_queue' = send_queue \cup {NextMessage}
  /\ data' = Survivors
  /\ sent' = sent \cup {created + 1}
  /\ UNCHANGED <<open, pending, ackPending, left, timeouts, recvVars, accepted, acked, highest_n>>

\* An object update from nNetObject::SyncAll: sent past the queue, and only
\* creations and marked updates wait for an ack.
SendSync(wait) ==
  /\ open
  /\ ackPending < MaxNoAck
  /\ ToClient => created > 0
  /\ Construct
  /\ IF wait THEN Await(NextMessage) ELSE UNCHANGED <<pending, ackPending>>
  /\ data' = Survivors \cup {NextMessage}
  /\ sent' = sent \cup {created + 1}
  /\ UNCHANGED <<open, send_queue, left, timeouts, recvVars, accepted, acked, highest_n>>

\* One turn of the loop of sn_SendPlanned1.  Bandwidth may end it at any turn,
\* and the priorities that order the queue are the callers'.
ExecutePlanned(m) ==
  /\ open
  /\ ackPending < MaxNoAck
  /\ m \in send_queue
  /\ send_queue' = send_queue \ {m}
  /\ Await(m)
  /\ data' = data \cup {m}
  /\ UNCHANGED <<created, current_id, open, left, timeouts, acks,
                 recvVars, sent, accepted, acked, highest_n>>

\* The same turn when the message at the head has waited too long.
QueueOverflow ==
  /\ open
  /\ ackPending < MaxNoAck
  /\ send_queue # {}
  /\ CloseSender
  /\ UNCHANGED <<created, current_id, timeouts, data, acks,
                 recvVars, sent, accepted, acked, highest_n>>

\* nWaitForAck::Resend of one message.  timeouts is not counted past the limit.
Resend(m) ==
  /\ open
  /\ m \in pending
  /\ timeouts' = IF timeouts > PacketLimit THEN timeouts ELSE timeouts + 1
  /\ \/ /\ timeouts + 1 > PacketLimit
        /\ CloseSender
        /\ UNCHANGED data
     \/ /\ data' = data \cup {m}
        /\ UNCHANGED <<open, pending, ackPending, left, send_queue>>
  /\ UNCHANGED <<created, current_id, acks, recvVars, sent, accepted, acked, highest_n>>

\* Mutant of Acknowledged: an ack is taken for all messages before it, too.
AcknowledgedUpTo(A) == {m \in pending : \E a \in A : m.n <= a.n}

\* nWaitForAck::Ackt: acks find their message by its id alone.
Acknowledged(A) == {m \in pending : \E a \in A : a.id = m.id}

\* Mutant of ReceiveAck: acks for what is not pending any more are counted, too.
ReceiveAckCountsRepeated(A) ==
  /\ open
  /\ A \in acks
  /\ pending' = pending \ Acknowledged(A)
  /\ ackPending' = ackPending - Cardinality(A)
  /\ timeouts' = IF Acknowledged(A) = {} THEN timeouts ELSE 0
  /\ acked' = acked \cup {m.n : m \in Acknowledged(A)}
  /\ UNCHANGED <<created, current_id, open, left, send_queue, data, acks,
                 recvVars, sent, accepted, highest_n>>

\* ack_handler.
ReceiveAck(A) ==
  /\ open
  /\ A \in acks
  /\ pending' = pending \ Acknowledged(A)
  /\ ackPending' = ackPending - Cardinality(Acknowledged(A))
  /\ timeouts' = IF Acknowledged(A) = {} THEN timeouts ELSE 0
  /\ acked' = acked \cup {m.n : m \in Acknowledged(A)}
  /\ UNCHANGED <<created, current_id, open, left, send_queue, data, acks,
                 recvVars, sent, accepted, highest_n>>

\* The sender ends the connection for a reason of its own.
Kick ==
  /\ open
  /\ CloseSender
  /\ UNCHANGED <<created, current_id, timeouts, data, acks,
                 recvVars, sent, accepted, acked, highest_n>>

-----------------------------------------------------------------------------
(* The receiver: rec_peer for one message *)

\* Mutant of MoreRecent: an id is more recent than itself.
AtLeastAsRecent(m) ==
  \/ Diff(m.id, highest_ack) < Window
  \/ IsLogin(m) /\ highest_ack = 0

\* Mutant of MoreRecent: half of the id space counts as the future, and more.
FarAheadIsRecent(m) ==
  \/ 0 < Diff(m.id, highest_ack)
  \/ IsLogin(m) /\ highest_ack = 0

\* More recent than anything before, so surely new.
MoreRecent(m) ==
  \/ 0 < Diff(m.id, highest_ack) /\ Diff(m.id, highest_ack) < Window
  \/ IsLogin(m) /\ highest_ack = 0

\* Mutant of IsNew: the ring is not asked, so a message that was overtaken is lost.
NewOnlyInOrder(m) == MoreRecent(m)

IsNew(m) == MoreRecent(m) \/ m.id \notin RangeOf(lastacks)

\* ackMess->Write, and Send through the queue when it has grown too long.
WriteAck(m) ==
  LET batch == Append(ackMess, m)
  IN  IF Len(batch) > AckBatch
      THEN ackMess' = <<>> /\ ackQueue' = ackQueue \cup {RangeOf(batch)}
      ELSE ackMess' = batch /\ UNCHANGED ackQueue

\* Mutant of Accept: the ring is written in one place only.
AcceptInOnePlace(m) ==
  /\ lastacks' = [lastacks EXCEPT ![lastackPos] = m.id]
  /\ accepted' = Append(accepted, m.n)
  /\ login_succeeded' = (login_succeeded \/ IsLogin(m))
  /\ UNCHANGED lastackPos

\* Remember the id in the ring and handle the message.
Accept(m) ==
  /\ lastacks' = [lastacks EXCEPT ![lastackPos] = m.id]
  /\ lastackPos' = IF lastackPos + 1 >= AckBack THEN 0 ELSE lastackPos + 1
  /\ accepted' = Append(accepted, m.n)
  /\ login_succeeded' = (login_succeeded \/ IsLogin(m))

\* Mutant of Receive: repeated messages are dropped without an ack.
ReceiveAcksOnlyNew(m) ==
  /\ ropen
  /\ m \in data
  /\ login_succeeded \/ IsLogin(m)
  /\ highest_ack' = IF MoreRecent(m) THEN m.id ELSE highest_ack
  /\ highest_n' = IF MoreRecent(m) THEN m.n ELSE highest_n
  /\ IF IsNew(m) THEN Accept(m) /\ WriteAck(m)
                 ELSE UNCHANGED <<lastacks, lastackPos, accepted, login_succeeded,
                                  ackMess, ackQueue>>
  /\ UNCHANGED <<sendVars, data, acks, ropen, sent, acked>>

\* A client that is not logged in drops all but the login_accept, unacknowledged.
Receive(m) ==
  /\ ropen
  /\ m \in data
  /\ login_succeeded \/ IsLogin(m)
  /\ highest_ack' = IF MoreRecent(m) THEN m.id ELSE highest_ack
  /\ highest_n' = IF MoreRecent(m) THEN m.n ELSE highest_n
  /\ WriteAck(m)
  /\ IF IsNew(m) THEN Accept(m)
                 ELSE UNCHANGED <<lastacks, lastackPos, accepted, login_succeeded>>
  /\ UNCHANGED <<sendVars, data, acks, ropen, sent, acked>>

\* sn_SendPlanned: the collected acks go out past the queue.
SendAcks ==
  /\ ropen
  /\ ackMess # <<>>
  /\ acks' = acks \cup {RangeOf(ackMess)}
  /\ ackMess' = <<>>
  /\ UNCHANGED <<sendVars, ropen, login_succeeded, highest_ack, lastacks, lastackPos,
                 ackQueue, data, sent, accepted, acked, highest_n>>

\* sn_SendPlanned1 at the receiver.  Its own unacknowledged messages can hold
\* this up for any time.
ExecuteQueuedAcks(A) ==
  /\ ropen
  /\ A \in ackQueue
  /\ acks' = acks \cup {A}
  /\ ackQueue' = ackQueue \ {A}
  /\ UNCHANGED <<sendVars, ropen, login_succeeded, highest_ack, lastacks, lastackPos,
                 ackMess, data, sent, accepted, acked, highest_n>>

\* sn_DisconnectUserNoWarn at the receiver.
CloseReceiver ==
  /\ ropen
  /\ ropen' = FALSE
  /\ login_succeeded' = FALSE
  /\ ackMess' = <<>> /\ ackQueue' = {}
  /\ highest_ack' = 0 /\ highest_n' = 0
  /\ lastacks' = [i \in 0 .. AckBack - 1 |-> 0] /\ lastackPos' = 0
  /\ UNCHANGED <<sendVars, data, acks, sent, accepted, acked>>

-----------------------------------------------------------------------------
(* The network drops what it likes *)

LoseData(m) ==
  /\ m \in data
  /\ data' = data \ {m}
  /\ UNCHANGED <<sendVars, recvVars, acks, sent, accepted, acked, highest_n>>

LoseAcks(A) ==
  /\ A \in acks
  /\ acks' = acks \ {A}
  /\ UNCHANGED <<sendVars, recvVars, data, sent, accepted, acked, highest_n>>

-----------------------------------------------------------------------------
SenderNext ==
  \/ SkipMessage \/ Send \/ QueueOverflow \/ Kick \/ DropLeft
  \/ \E wait \in BOOLEAN : SendSync(wait)
  \/ \E m \in send_queue : ExecutePlanned(m)
  \/ \E m \in pending : Resend(m)
  \/ \E A \in acks : ReceiveAck(A)

ReceiverNext ==
  \/ \E m \in data : Receive(m)
  \/ SendAcks
  \/ \E A \in ackQueue : ExecuteQueuedAcks(A)
  \/ CloseReceiver

NetworkNext ==
  \/ \E m \in data : LoseData(m)
  \/ \E A \in acks : LoseAcks(A)

Next == SenderNext \/ ReceiverNext \/ NetworkNext

Spec == Init /\ [][Next]_vars

\* Every frame calls sn_Receive and sn_SendPlanned, bandwidth is replenished by
\* every Timestep, and a packet sent over and over arrives in the end.  The
\* receiver's own queue moves because its messages are acknowledged in turn.
Fairness ==
  /\ SF_vars(SendAcks)
  /\ \A k \in Ns :
       /\ WF_vars(\E m \in pending : m.n = k /\ Resend(m))
       /\ SF_vars(\E m \in send_queue : m.n = k /\ ExecutePlanned(m))
       /\ SF_vars(\E m \in data : m.n = k /\ Receive(m))
       /\ SF_vars(\E A \in ackQueue : (\E a \in A : a.n = k) /\ ExecuteQueuedAcks(A))
       /\ SF_vars(\E A \in acks : (\E a \in A : a.n = k) /\ ReceiveAck(A))

FairSpec == Spec /\ Fairness

-----------------------------------------------------------------------------
(* Properties *)

\* Every variable holds a value of its type.
TypeOK ==
  /\ created \in 0 .. MaxCreated /\ current_id \in Ids
  /\ open \in BOOLEAN /\ send_queue \subseteq Messages /\ pending \subseteq Messages
  /\ ackPending \in Int /\ left \in 0 .. MaxLeft /\ timeouts \in 0 .. PacketLimit + 1
  /\ data \subseteq Messages /\ acks \subseteq SUBSET Messages
  /\ ropen \in BOOLEAN /\ login_succeeded \in BOOLEAN
  /\ highest_ack \in Ids /\ lastacks \in [0 .. AckBack - 1 -> Ids]
  /\ lastackPos \in 0 .. AckBack - 1
  /\ ackMess \in Seq(Messages) /\ ackQueue \subseteq SUBSET Messages
  /\ sent \subseteq Ns /\ accepted \in Seq(Ns) /\ acked \subseteq Ns
  /\ highest_n \in 0 .. MaxCreated

\* No message is handled twice, however often it was sent and in whatever order
\* the copies came: the check against highest_ack and lastacks catches them all.
AtMostOnce == \A i, j \in DOMAIN accepted : accepted[i] = accepted[j] => i = j

\* A message the sender has struck off its list by an ack was handled.
AckedWasAccepted == acked \subseteq RangeOf(accepted)

\* nWaitForAcks of the slot that its ackPending does not count.
Uncounted == Cardinality(pending) + left - ackPending

\* The counter that throttles the queue never waits for an nWaitForAck that is not there,
\* across acks that name several messages, or one a second time, or none, and across a
\* disconnect; and it misses at most those that the last logout on the slot left.
AckPendingCounts == Uncounted \in 0 .. MaxLeft

\* "the message has a more recent id than anything before. it is surely new."
SurelyNew == [][\A m \in data : Receive(m) /\ MoreRecent(m) => m.n \notin RangeOf(accepted)]_vars

\* "see if we have got this packet before": a message judged old was handled before.
OldWasSeen == [][\A m \in data : Receive(m) /\ ~IsNew(m) => m.n \in RangeOf(accepted)]_vars

\* A message that is planned or awaits its ack is acknowledged in the end, unless
\* one of the two ends gives the connection up.
EventuallyAcked ==
  \A k \in Ns : (\E m \in send_queue \cup pending : m.n = k)
                   ~> (k \in acked \/ ~open \/ ~ropen)

Channel == INSTANCE ReliableChannel
             WITH Message <- Ns, handled <- accepted, confirmed <- acked

\* The link keeps the promise of the abstract channel.
ImplementsChannel == Channel!Spec
=============================================================================
