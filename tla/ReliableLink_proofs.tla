-------------------------- MODULE ReliableLink_proofs --------------------------
(***************************************************************************)
(* Proofs about ReliableLink, for every size of the id space, the window,  *)
(* the ring and the bounds on the network.                                 *)
(***************************************************************************)
EXTENDS ReliableLink, FiniteSetTheorems, TLAPS

\* How many ids are in use, and the id that was given out k messages before id,
\* as long as none has come round twice since.
Cycle == IdSpace - 1 - Reserved
IdBack(id, k) == IF id - k > Reserved THEN id - k ELSE id - k + Cycle
Back(k) == IdBack(current_id, k)

-----------------------------------------------------------------------------
(* The inductive invariant, part by part *)

\* m is a message of the recent past and carries the id it was constructed with.
Recent(m) == /\ m.n \in 1 .. created
             /\ created - m.n < Span
             /\ m.id = Back(created - m.n)

\* The places a message, and an ack for one, can be in.
Copies == send_queue \cup pending \cup data
AckCopies == RangeOf(ackMess) \cup (UNION ackQueue) \cup (UNION acks)

InvIds == created > 0 => current_id > Reserved

InvCopies ==
  /\ \A m \in Copies : Recent(m) /\ m.n \in sent
  /\ ropen /\ highest_ack = 0 /\ ~ToClient => \A m \in Copies : m.id <= FirstIdBound

InvSent == \A k \in sent : k <= created

InvAcks == \A a \in AckCopies : Recent(a) /\ a.n \in RangeOf(accepted)

InvAccepted ==
  /\ \A i \in DOMAIN accepted : accepted[i] \in sent
  /\ \A i, j \in DOMAIN accepted : i < j => accepted[i] < accepted[j] + Span

\* The place in the ring of the k-th last id accepted.
Slot(k) == IF lastackPos - 1 - k >= 0 THEN lastackPos - 1 - k
                                      ELSE lastackPos - 1 - k + AckBack

InvRing ==
  ropen => \A k \in 0 .. AckBack - 1 :
             IF k < Len(accepted)
             THEN created - accepted[Len(accepted) - k] < Cycle
                    => lastacks[Slot(k)] = Back(created - accepted[Len(accepted) - k])
             ELSE lastacks[Slot(k)] = 0

InvHighest ==
  ropen => IF highest_ack = 0
           THEN /\ accepted = <<>>
                /\ ToClient => ~login_succeeded
           ELSE /\ highest_n \in RangeOf(accepted)
                /\ \A i \in DOMAIN accepted : accepted[i] <= highest_n
                /\ created - highest_n < Gap
                /\ highest_ack = Back(created - highest_n)

InvRingAge ==
  ropen => \A i \in DOMAIN accepted :
             i > Len(accepted) - AckBack => created - accepted[i] < RingAge

InvPending ==
  /\ IsFiniteSet(pending)
  /\ AckPendingCounts
  /\ send_queue \cap pending = {}
  /\ \A m \in send_queue \cup pending : m.n <= created

InvOnce == /\ InvIds /\ InvCopies /\ InvSent /\ InvAccepted
           /\ InvRing /\ InvHighest /\ AtMostOnce

InvAcked == InvAcks /\ InvRingAge /\ AckedWasAccepted
-----------------------------------------------------------------------------
(* Types *)

LEMMA ConstantTypes ==
  /\ IdSpace \in Nat /\ Window \in Nat /\ AckBack \in Nat \ {0} /\ MaxNoAck \in Nat /\ MaxLeft \in Nat
  /\ PacketLimit \in Nat /\ AckBatch \in Nat /\ Start \in Ids /\ 0 \in Ids
  /\ Span \in Nat /\ Gap \in Nat /\ FirstIdBound \in Nat /\ RingAge \in Nat
  /\ MaxCreated \in Nat /\ Reserved \in Nat /\ Reserved + 1 < IdSpace
BY LinkAssumption DEF Ids

LEMMA NextIdType ==
  ASSUME NEW id \in Ids PROVE NextId(id) \in Ids /\ NextId(id) > Reserved
BY ConstantTypes DEF NextId, Ids

LEMMA RangeOfType ==
  ASSUME NEW S, NEW s \in Seq(S) PROVE RangeOf(s) \subseteq S
BY DEF RangeOf

\* What one more message object changes.
LEMMA ConstructType ==
  ASSUME TypeOK, Construct
  PROVE  /\ created' \in 0 .. MaxCreated /\ created' = created + 1
         /\ current_id' \in Ids /\ acks' \subseteq SUBSET Messages
         /\ NextMessage \in Messages /\ Survivors \subseteq Messages
         /\ created + 1 \in Ns
<1>1. created \in 0 .. MaxCreated /\ current_id \in Ids
  BY DEF TypeOK
<1>2. created < MaxCreated /\ created' = created + 1 /\ current_id' = NextId(current_id)
  BY DEF Construct
<1>3. created' \in 0 .. MaxCreated /\ created + 1 \in Ns
  BY <1>1, <1>2, ConstantTypes DEF Ns
<1>4. current_id' \in Ids /\ NextMessage \in Messages
  BY <1>1, <1>2, <1>3, NextIdType DEF NextMessage, Messages
<1>5. acks' \subseteq SUBSET Messages /\ Survivors \subseteq Messages
  BY DEF TypeOK, Construct, Survivors
<1> QED BY <1>2, <1>3, <1>4, <1>5

\* The first inductive invariant, which asks nothing of the network.
TypeAndPending == TypeOK /\ InvPending

\* Every variable keeps its type, and the messages that wait for an ack are a
\* finite set apart from the queue, of which ackPending misses as many as ever as long as
\* the connection lasts.
LEMMA TypeAndPendingStep ==
  TypeAndPending /\ [Next]_vars => TypeAndPending' /\ (open' => Uncounted' = Uncounted)
<1> DEFINE Counted == open' => Uncounted' = Uncounted
<1> SUFFICES ASSUME TypeAndPending, [Next]_vars PROVE TypeAndPending' /\ Counted
  OBVIOUS
<1> USE DEF TypeAndPending, AckPendingCounts
<1>1. ASSUME Construct, pending' = pending, send_queue' = send_queue,
             UNCHANGED <<ackPending, left>>
      PROVE  InvPending' /\ Counted
  BY <1>1, ConstructType DEF InvPending, Uncounted, TypeOK, Messages, Ns
<1>2. Construct => NextMessage \notin send_queue \cup pending
  BY DEF InvPending, NextMessage, TypeOK
<1>3. ASSUME NEW m \in Messages, m \notin pending, Await(m), UNCHANGED left
      PROVE  /\ IsFiniteSet(pending') /\ Uncounted' = Uncounted
             /\ pending' \subseteq Messages /\ ackPending' \in Int
  <2>1. /\ IsFiniteSet(pending \cup {m})
        /\ Cardinality(pending \cup {m}) = Cardinality(pending) + 1
    BY <1>3, FS_AddElement DEF InvPending
  <2> QED BY <1>3, <2>1, FS_CardinalityType DEF Await, InvPending, Uncounted, TypeOK
<1>4. ASSUME CloseSender PROVE /\ IsFiniteSet(pending') /\ Uncounted' \in 0 .. MaxLeft /\ Counted
                               /\ ackPending' \in Int /\ left' \in 0 .. MaxLeft
  BY <1>4, FS_EmptySet, ConstantTypes DEF CloseSender, Uncounted
<1>5. CASE SkipMessage
  <2>1. TypeOK'
    BY <1>5, ConstructType DEF TypeOK, SkipMessage, recvVars
  <2> QED BY <1>1, <1>5, <2>1 DEF SkipMessage
<1>6. CASE Send
  <2>1. send_queue' \subseteq Messages /\ sent' \subseteq Ns
    BY <1>6, ConstructType DEF TypeOK, Send
  <2>2. TypeOK'
    BY <1>6, <2>1, ConstructType DEF TypeOK, Send, recvVars
  <2>3. send_queue' \cap pending' = {}
    BY <1>2, <1>6 DEF Send, InvPending
  <2>4. \A m \in send_queue' \cup pending' : m.n <= created'
    BY <1>6, ConstructType DEF Send, InvPending, NextMessage, TypeOK, Messages, Ns
  <2> QED BY <1>6, <2>2, <2>3, <2>4 DEF Send, InvPending, Uncounted
<1>7. ASSUME NEW wait \in BOOLEAN, SendSync(wait) PROVE TypeAndPending' /\ Counted
  <2>1. /\ IsFiniteSet(pending') /\ Uncounted' = Uncounted
        /\ pending' \subseteq Messages /\ ackPending' \in Int
    <3>1. CASE wait
      BY <1>2, <1>3, <1>7, <3>1, ConstructType DEF SendSync
    <3>2. CASE ~wait
      BY <1>7, <3>2 DEF SendSync, InvPending, Uncounted, TypeOK
    <3> QED BY <3>1, <3>2
  <2>2. data' \subseteq Messages /\ sent' \subseteq Ns
    BY <1>7, ConstructType DEF TypeOK, SendSync
  <2>3. TypeOK'
    BY <1>7, <2>1, <2>2, ConstructType DEF TypeOK, SendSync, recvVars
  <2>4. pending' \subseteq pending \cup {NextMessage} /\ send_queue' = send_queue
    BY <1>7 DEF SendSync, Await
  <2>5. send_queue' \cap pending' = {}
    BY <1>2, <1>7, <2>4 DEF SendSync, InvPending
  <2>6. \A m \in send_queue' \cup pending' : m.n <= created'
    BY <1>7, <2>4, ConstructType DEF SendSync, InvPending, NextMessage, TypeOK, Messages, Ns
  <2> QED BY <2>1, <2>3, <2>5, <2>6 DEF InvPending
<1>8. ASSUME NEW m \in send_queue, ExecutePlanned(m) PROVE TypeAndPending' /\ Counted
  <2>1. m \in Messages /\ m \notin pending
    BY DEF TypeOK, InvPending
  <2>2. /\ IsFiniteSet(pending') /\ Uncounted' = Uncounted
        /\ pending' \subseteq Messages /\ ackPending' \in Int
    BY <1>3, <1>8, <2>1 DEF ExecutePlanned
  <2>3. TypeOK'
    BY <1>8, <2>1, <2>2 DEF TypeOK, ExecutePlanned, recvVars
  <2>4. send_queue' \cap pending' = {} /\ send_queue' \cup pending' = send_queue \cup pending
    BY <1>8 DEF ExecutePlanned, Await, InvPending
  <2> QED BY <1>8, <2>2, <2>3, <2>4 DEF InvPending, ExecutePlanned
<1>9. CASE QueueOverflow \/ Kick
  <2>1. CloseSender
    BY <1>9 DEF QueueOverflow, Kick
  <2>2. TypeOK'
    BY <1>4, <1>9, <2>1 DEF TypeOK, QueueOverflow, Kick, CloseSender, recvVars
  <2> QED BY <1>4, <2>1, <2>2 DEF InvPending, CloseSender
<1>10. ASSUME NEW m \in pending, Resend(m) PROVE TypeAndPending' /\ Counted
  <2>1. timeouts' \in 0 .. PacketLimit + 1
    BY <1>10, ConstantTypes DEF TypeOK, Resend
  <2>2. CASE CloseSender /\ UNCHANGED data
    <3>1. TypeOK'
      BY <1>4, <1>10, <2>1, <2>2 DEF TypeOK, Resend, CloseSender, recvVars
    <3> QED BY <1>4, <2>2, <3>1 DEF InvPending, CloseSender
  <2>3. CASE data' = data \cup {m} /\ UNCHANGED <<open, pending, ackPending, left, send_queue>>
    <3>1. TypeOK'
      BY <1>10, <2>1, <2>3 DEF TypeOK, Resend, recvVars
    <3> QED BY <1>10, <2>3, <3>1 DEF InvPending, Uncounted, Resend
  <2> QED BY <1>10, <2>2, <2>3 DEF Resend
<1>11. ASSUME NEW A \in acks, ReceiveAck(A) PROVE TypeAndPending' /\ Counted
  <2> DEFINE D == Acknowledged(A)
  <2>1. D \subseteq pending /\ {m.n : m \in D} \subseteq Ns
    BY DEF TypeOK, Acknowledged, Messages
  <2>2. IsFiniteSet(D) /\ IsFiniteSet(pending \ D)
    BY <2>1, FS_Subset DEF InvPending
  <2>3. Cardinality(pending \ D) = Cardinality(pending) - Cardinality(D)
    <3>1. pending \cap D = D
      BY <2>1
    <3> HIDE DEF D
    <3>2. Cardinality(pending \ D) = Cardinality(pending) - Cardinality(pending \cap D)
      BY FS_Difference DEF InvPending
    <3> QED BY <3>1, <3>2
  <2>4. Uncounted' = Uncounted /\ ackPending' \in Int /\ IsFiniteSet(pending')
    BY <1>11, <2>2, <2>3, FS_CardinalityType DEF ReceiveAck, InvPending, Uncounted, TypeOK
  <2>5. timeouts' \in 0 .. PacketLimit + 1
    BY <1>11, ConstantTypes DEF TypeOK, ReceiveAck
  <2>6. TypeOK'
    BY <1>11, <2>1, <2>4, <2>5 DEF TypeOK, ReceiveAck, recvVars
  <2> QED BY <1>11, <2>4, <2>6 DEF ReceiveAck, InvPending
<1>12. ASSUME UNCHANGED sendVars PROVE InvPending' /\ Counted
  BY <1>12 DEF InvPending, Uncounted, sendVars
<1>13. ASSUME NEW m \in data, Receive(m) PROVE TypeAndPending' /\ Counted
  <2>1. m \in Messages /\ m.n \in Ns /\ m.id \in Ids
    BY DEF TypeOK, Messages
  <2>2. ackMess' \in Seq(Messages) /\ ackQueue' \subseteq SUBSET Messages
    <3>1. Append(ackMess, m) \in Seq(Messages)
      BY <2>1 DEF TypeOK
    <3>2. RangeOf(Append(ackMess, m)) \subseteq Messages
      BY <3>1, RangeOfType
    <3>3. WriteAck(m) /\ ackMess \in Seq(Messages) /\ ackQueue \subseteq SUBSET Messages
      BY <1>13 DEF Receive, TypeOK
    <3> DEFINE batch == Append(ackMess, m)
    <3>4. IF Len(batch) > AckBatch
          THEN ackMess' = <<>> /\ ackQueue' = ackQueue \cup {RangeOf(batch)}
          ELSE ackMess' = batch /\ ackQueue' = ackQueue
      BY <3>3 DEF WriteAck
    <3> HIDE DEF batch
    <3>5. CASE Len(batch) > AckBatch
      BY <3>2, <3>3, <3>4, <3>5 DEF batch
    <3>6. CASE ~(Len(batch) > AckBatch)
      BY <3>1, <3>3, <3>4, <3>6 DEF batch
    <3> QED BY <3>5, <3>6
  <2>3. /\ lastacks' \in [0 .. AckBack - 1 -> Ids] /\ lastackPos' \in 0 .. AckBack - 1
        /\ accepted' \in Seq(Ns) /\ login_succeeded' \in BOOLEAN
    <3>1. CASE IsNew(m)
      <4>1. Accept(m) /\ login_succeeded \in BOOLEAN /\ ToClient \in BOOLEAN
        BY <1>13, <3>1, LinkAssumption DEF Receive, TypeOK
      <4>2. lastacks' \in [0 .. AckBack - 1 -> Ids]
        BY <2>1, <4>1 DEF Accept, TypeOK
      <4>3. lastackPos' \in 0 .. AckBack - 1
        BY <4>1, ConstantTypes DEF Accept, TypeOK
      <4>4. accepted' \in Seq(Ns) /\ login_succeeded' \in BOOLEAN
        BY <2>1, <4>1 DEF Accept, TypeOK, IsLogin
      <4> QED BY <4>2, <4>3, <4>4
    <3>2. CASE ~IsNew(m)
      BY <1>13, <3>2 DEF Receive, TypeOK
    <3> QED BY <3>1, <3>2
  <2>4. highest_ack' \in Ids /\ highest_n' \in 0 .. MaxCreated
    BY <1>13, <2>1 DEF Receive, TypeOK, Ns
  <2>5. TypeOK'
    BY <1>13, <2>2, <2>3, <2>4 DEF Receive, TypeOK, sendVars
  <2> QED BY <1>12, <1>13, <2>5 DEF Receive
<1>14. CASE SendAcks
  <2>1. RangeOf(ackMess) \subseteq Messages
    BY RangeOfType DEF TypeOK
  <2>2. TypeOK'
    BY <1>14, <2>1 DEF TypeOK, SendAcks, sendVars
  <2> QED BY <1>12, <1>14, <2>2 DEF SendAcks
<1>15. ASSUME NEW A \in ackQueue, ExecuteQueuedAcks(A) PROVE TypeAndPending' /\ Counted
  <2>1. TypeOK'
    BY <1>15 DEF TypeOK, ExecuteQueuedAcks, sendVars
  <2> QED BY <1>12, <1>15, <2>1 DEF ExecuteQueuedAcks
<1>16. CASE CloseReceiver
  <2> DEFINE zeros == [i \in 0 .. AckBack - 1 |-> 0]
  <2>1. zeros \in [0 .. AckBack - 1 -> Ids] /\ 0 \in 0 .. AckBack - 1 /\ 0 \in 0 .. MaxCreated
    BY ConstantTypes
  <2>2. lastacks' = zeros
    BY <1>16 DEF CloseReceiver
  <2> HIDE DEF zeros
  <2>3. UNCHANGED <<created, current_id, open, send_queue, pending, ackPending, left, timeouts,
                   data, acks, sent, accepted, acked>>
    BY <1>16 DEF CloseReceiver, sendVars
  <2>4. /\ ropen' = FALSE /\ login_succeeded' = FALSE /\ ackMess' = <<>> /\ ackQueue' = {}
        /\ highest_ack' = 0 /\ highest_n' = 0 /\ lastackPos' = 0
    BY <1>16 DEF CloseReceiver
  <2>5. TypeOK'
    <3>1. lastacks' \in [0 .. AckBack - 1 -> Ids] /\ lastackPos' \in 0 .. AckBack - 1
      BY <2>1, <2>2, <2>4
    <3>2. /\ highest_ack' \in Ids /\ highest_n' \in 0 .. MaxCreated
          /\ ackMess' \in Seq(Messages) /\ ackQueue' \subseteq SUBSET Messages
          /\ ropen' \in BOOLEAN /\ login_succeeded' \in BOOLEAN
      BY <2>1, <2>4, ConstantTypes
    <3> QED BY <2>3, <3>1, <3>2 DEF TypeOK
  <2> QED BY <1>12, <1>16, <2>5 DEF CloseReceiver
<1>17. ASSUME NEW m \in data, LoseData(m) PROVE TypeAndPending' /\ Counted
  <2>1. TypeOK'
    BY <1>17 DEF TypeOK, LoseData, sendVars, recvVars
  <2> QED BY <1>12, <1>17, <2>1 DEF LoseData
<1>18. ASSUME NEW A \in acks, LoseAcks(A) PROVE TypeAndPending' /\ Counted
  <2>1. TypeOK'
    BY <1>18 DEF TypeOK, LoseAcks, sendVars, recvVars
  <2> QED BY <1>12, <1>18, <2>1 DEF LoseAcks
<1>19. CASE UNCHANGED vars
  BY <1>19 DEF vars, sendVars, recvVars, TypeOK, InvPending, Uncounted
<1>20. CASE DropLeft
  <2>1. left' \in 0 .. MaxLeft /\ ackPending' \in Int /\ Uncounted' = Uncounted
    BY <1>20, FS_CardinalityType, ConstantTypes DEF DropLeft, Uncounted, TypeOK, InvPending
  <2>2. timeouts' \in 0 .. PacketLimit + 1
    BY <1>20, ConstantTypes DEF TypeOK, DropLeft
  <2>3. TypeOK'
    BY <1>20, <2>1, <2>2 DEF TypeOK, DropLeft, recvVars
  <2> QED BY <1>20, <2>1, <2>3 DEF DropLeft, InvPending
<1> QED BY <1>5, <1>6, <1>7, <1>8, <1>9, <1>10, <1>11, <1>13, <1>14, <1>15, <1>16, <1>17,
           <1>18, <1>19, <1>20
        DEF Next, SenderNext, ReceiverNext, NetworkNext

LEMMA TypeAndPendingHolds == Spec => []TypeAndPending
<1>1. Init => TypeAndPending
  <2> SUFFICES ASSUME Init PROVE TypeAndPending OBVIOUS
  <2>1. 0 \in 0 .. MaxCreated /\ 0 \in 0 .. PacketLimit + 1 /\ 0 \in 0 .. AckBack - 1
    BY ConstantTypes
  <2>2. [i \in 0 .. AckBack - 1 |-> 0] \in [0 .. AckBack - 1 -> Ids]
    BY ConstantTypes
  <2>3. TypeOK
    <3>1. ackPending \in Int /\ left \in 0 .. MaxLeft
      BY ConstantTypes DEF Init
    <3> QED BY <2>1, <2>2, <3>1, ConstantTypes, LinkAssumption DEF Init, TypeOK
  <2>4. InvPending
    BY FS_EmptySet, ConstantTypes DEF Init, InvPending, AckPendingCounts, Uncounted
  <2> QED BY <2>3, <2>4 DEF TypeAndPending
<1> QED BY <1>1, TypeAndPendingStep, PTL DEF Spec

\* The ids stay unsigned shorts, the ring index inside the ring and the histories
\* within their bounds, in every reachable state.
THEOREM TypeCorrect == Spec => []TypeOK
BY TypeAndPendingHolds, PTL DEF TypeAndPending

\* No ack, duplicate ack, ack for several messages, overflow or disconnect makes
\* sn_Connections[peer].ackPending larger than the number of nWaitForAcks for the slot, or
\* smaller by more than the last logout on it accounts for.
THEOREM AckPendingAlwaysCounts == Spec => []AckPendingCounts
<1>1. TypeAndPending => AckPendingCounts
  BY DEF TypeAndPending, InvPending
<1> QED BY <1>1, TypeAndPendingHolds, PTL

\* As long as a connection lasts, ackPending misses as many nWaitForAcks as when it began:
\* what the logout callback of the last user cost is not made good, nor made worse.
THEOREM UncountedStays == Spec => [][open' => Uncounted' = Uncounted]_vars
BY TypeAndPendingStep, TypeAndPendingHolds, PTL DEF Spec

-----------------------------------------------------------------------------
(* The ids of the recent past *)

LEMMA IdBackType ==
  ASSUME NEW id \in Ids, id > Reserved, NEW k \in 0 .. Cycle - 1
  PROVE  IdBack(id, k) \in Reserved + 1 .. IdSpace - 1
BY ConstantTypes DEF IdBack, Cycle, Ids

\* One more message is one step further back for all the earlier ones.
LEMMA IdBackStep ==
  ASSUME NEW id \in Ids, id > Reserved, NEW k \in Nat, k + 1 < Cycle
  PROVE  IdBack(NextId(id), k + 1) = IdBack(id, k)
BY ConstantTypes DEF IdBack, NextId, Cycle, Ids

LEMMA IdBackDistinct ==
  ASSUME NEW id \in Ids, id > Reserved, NEW k \in 0 .. Cycle - 1, NEW l \in 0 .. Cycle - 1,
         IdBack(id, k) = IdBack(id, l)
  PROVE  k = l
BY ConstantTypes DEF IdBack, Cycle, Ids

\* The id of a newer message is ahead by no more than the distance and the gap
\* the reserved ids leave.
LEMMA DiffAhead ==
  ASSUME NEW id \in Ids, id > Reserved, NEW k \in 0 .. Cycle - 1, NEW l \in 0 .. Cycle - 1, k < l
  PROVE  /\ 0 < Diff(IdBack(id, k), IdBack(id, l))
         /\ Diff(IdBack(id, k), IdBack(id, l)) <= l - k + Reserved + 1
BY ConstantTypes DEF IdBack, Diff, Cycle, Ids

\* The id of an older one is almost a whole turn ahead.
LEMMA DiffBehind ==
  ASSUME NEW id \in Ids, id > Reserved, NEW k \in 0 .. Cycle - 1, NEW l \in 0 .. Cycle - 1, l < k
  PROVE  Diff(IdBack(id, k), IdBack(id, l)) >= Cycle - (k - l)
BY ConstantTypes DEF IdBack, Diff, Cycle, Ids

LEMMA CycleCovers ==
  ASSUME InTimeAssumption
  PROVE  /\ Cycle \in Nat /\ Span <= Cycle - 1 /\ Gap <= Cycle - 1
         /\ Cycle - Span + 1 >= Window /\ Gap + Reserved < Window
BY ConstantTypes DEF InTimeAssumption, Cycle

-----------------------------------------------------------------------------
(* At most once: the steps of the sender *)

\* A message of the recent past is still one when the next is constructed, unless
\* it has left the network.
LEMMA RecentConstruct ==
  ASSUME InTimeAssumption, TypeOK, InvIds, Construct,
         NEW m \in Messages, Recent(m), InTime(m)
  PROVE  Recent(m)'
<1>1. /\ created \in Nat /\ current_id \in Ids /\ m.n \in Nat
      /\ created' = created + 1 /\ current_id' = NextId(current_id)
  BY DEF TypeOK, Construct, Messages, Ns
<1>2. m.n \in 1 .. created /\ created + 1 - m.n < Span /\ current_id > Reserved
  BY <1>1 DEF Recent, InTime, InvIds
<1>3. created - m.n \in Nat /\ created - m.n + 1 < Cycle
  BY <1>1, <1>2, CycleCovers, ConstantTypes
<1>4. IdBack(NextId(current_id), created - m.n + 1) = IdBack(current_id, created - m.n)
  BY <1>1, <1>2, <1>3, IdBackStep
<1>5. created' - m.n = created - m.n + 1
  BY <1>1
<1> QED BY <1>1, <1>2, <1>4, <1>5 DEF Recent, Back

LEMMA RecentNext ==
  ASSUME InTimeAssumption, TypeOK, Construct, NEW m, m = NextMessage
  PROVE  Recent(m)'
<1>1. /\ created \in Nat /\ current_id \in Ids /\ created' = created + 1
      /\ current_id' = NextId(current_id) /\ NextId(current_id) \in Ids
      /\ NextId(current_id) > Reserved
  BY NextIdType DEF TypeOK, Construct
<1>2. IdBack(NextId(current_id), 0) = NextId(current_id)
  BY <1>1, ConstantTypes DEF IdBack, Ids
<1>3. m.n = created + 1 /\ m.id = NextId(current_id)
  BY DEF NextMessage
<1>4. created' - m.n = 0 /\ m.n \in 1 .. created'
  BY <1>1, <1>3
<1>5. 0 < Span
  BY ConstantTypes DEF InTimeAssumption
<1> QED BY <1>1, <1>2, <1>3, <1>4, <1>5 DEF Recent, Back

LEMMA AcceptedInPast ==
  ASSUME TypeOK, InvSent, InvAccepted, NEW i \in DOMAIN accepted
  PROVE  accepted[i] \in 1 .. created
<1>1. accepted[i] \in sent /\ accepted[i] \in Ns /\ created \in Nat
  BY DEF InvAccepted, TypeOK
<1>2. accepted[i] <= created
  BY <1>1 DEF InvSent
<1> QED BY <1>1, <1>2, ConstantTypes DEF Ns

LEMMA ConstructOnce ==
  ASSUME InTimeAssumption, TypeOK, InvOnce, Construct, UNCHANGED <<recvVars, accepted, highest_n>>,
         sent' \in {sent, sent \cup {created + 1}},
         \A m \in Copies' : (m \in Copies /\ InTime(m)) \/ (m = NextMessage /\ created + 1 \in sent')
  PROVE  InvOnce'
<1>1. /\ created \in Nat /\ created' = created + 1 /\ current_id \in Ids
      /\ current_id' = NextId(current_id) /\ Copies \subseteq Messages
      /\ NextMessage \in Messages /\ accepted \in Seq(Ns) /\ sent \subseteq Ns
  BY ConstructType DEF TypeOK, Construct, Copies
<1>2. /\ ropen' = ropen /\ login_succeeded' = login_succeeded /\ highest_ack' = highest_ack
      /\ lastacks' = lastacks /\ lastackPos' = lastackPos /\ accepted' = accepted
      /\ highest_n' = highest_n
  BY DEF recvVars
<1>3. InvIds'
  BY <1>1, NextIdType DEF InvIds
<1>4. InvCopies'
  <2>1. ASSUME NEW m \in Copies' PROVE Recent(m)' /\ m.n \in sent'
    <3>1. CASE m \in Copies /\ InTime(m)
      BY <1>1, <3>1, RecentConstruct DEF InvOnce, InvCopies
    <3>2. CASE m = NextMessage /\ created + 1 \in sent'
      <4>1. Recent(m)'
        BY <3>2, RecentNext
      <4>2. m.n = created + 1
        BY <3>2 DEF NextMessage
      <4> QED BY <3>2, <4>1, <4>2
    <3> QED BY <2>1, <3>1, <3>2
  <2>2. ASSUME NEW m \in Copies', ropen, highest_ack = 0, ~ToClient PROVE m.id <= FirstIdBound
    <3>1. NextId(current_id) <= FirstIdBound
      BY <2>2 DEF Construct, TrafficInTime
    <3> QED BY <2>2, <3>1 DEF InvOnce, InvCopies, NextMessage
  <2> QED BY <1>2, <2>1, <2>2 DEF InvCopies
<1>5. InvSent'
  BY <1>1, ConstantTypes DEF InvOnce, InvSent, Ns
<1>6. InvAccepted' /\ AtMostOnce'
  BY <1>2 DEF InvOnce, InvAccepted, AtMostOnce
<1>7. ASSUME NEW k \in 1 .. created, created + 1 - k < Cycle
      PROVE  Back(created - k) = IdBack(current_id', created' - k)
  <2>1. current_id > Reserved /\ created - k \in Nat /\ created - k + 1 < Cycle
        /\ created' - k = created - k + 1
    BY <1>1, <1>7 DEF InvOnce, InvIds
  <2> QED BY <1>1, <2>1, IdBackStep DEF Back
<1>8. \A i \in DOMAIN accepted : accepted[i] \in 1 .. created
  BY <1>1, AcceptedInPast DEF InvOnce
<1>9. InvRing'
  <2> SUFFICES ASSUME ropen, NEW k \in 0 .. AckBack - 1, k < Len(accepted),
                      created' - accepted[Len(accepted) - k] < Cycle
               PROVE  lastacks[Slot(k)] = IdBack(current_id', created' - accepted[Len(accepted) - k])
    BY <1>2 DEF InvOnce, InvRing, Slot, Back
  <2>1. Len(accepted) - k \in DOMAIN accepted
    BY <1>1
  <2> DEFINE a == accepted[Len(accepted) - k]
  <2>2. a \in 1 .. created
    BY <1>8, <2>1
  <2>3. created + 1 - a < Cycle /\ created - a < Cycle
    BY <1>1, <2>2, CycleCovers
  <2>4. lastacks[Slot(k)] = Back(created - a)
    BY <2>3 DEF InvOnce, InvRing
  <2> QED BY <1>7, <2>2, <2>3, <2>4
<1>10. InvHighest'
  <2>1. CASE ~ropen \/ highest_ack = 0
    BY <1>2, <2>1 DEF InvOnce, InvHighest
  <2>2. CASE ropen /\ highest_ack # 0
    <3>1. /\ highest_n \in RangeOf(accepted) /\ \A i \in DOMAIN accepted : accepted[i] <= highest_n
          /\ highest_ack = Back(created - highest_n)
      BY <2>2 DEF InvOnce, InvHighest
    <3>2. created + 1 - highest_n < Gap
      BY <2>2 DEF Construct, TrafficInTime
    <3>3. highest_n \in 1 .. created
      BY <1>8, <3>1 DEF RangeOf
    <3>4. created + 1 - highest_n < Cycle
      BY <1>1, <3>2, <3>3, CycleCovers, ConstantTypes
    <3>5. highest_ack = IdBack(current_id', created' - highest_n)
      BY <1>7, <3>1, <3>3, <3>4
    <3>6. created' - highest_n < Gap
      BY <1>1, <3>2, <3>3
    <3>7. RangeOf(accepted') = RangeOf(accepted)
      BY <1>2
    <3> QED BY <1>2, <2>2, <3>1, <3>5, <3>6, <3>7 DEF InvHighest, Back, RangeOf
  <2> QED BY <2>1, <2>2
<1> QED BY <1>3, <1>4, <1>5, <1>6, <1>9, <1>10 DEF InvOnce

-----------------------------------------------------------------------------
(* At most once: the steps of the receiver *)

\* The ring still holds the id of every accepted message a copy of which may be
\* on its way: at most 2 * Span - 1 messages were accepted since.
LEMMA RingCovers ==
  ASSUME InTimeAssumption, TypeOK, InvSent, InvAccepted, AtMostOnce,
         NEW i \in DOMAIN accepted, created - accepted[i] < Span
  PROVE  Len(accepted) - i < AckBack
<1> DEFINE a == accepted[i]
           S == i .. Len(accepted)
           T == a - Span + 1 .. a + Span - 1
           f == [j \in S |-> accepted[j]]
<1>1. /\ accepted \in Seq(Ns) /\ created \in Nat /\ i \in 1 .. Len(accepted)
      /\ Len(accepted) \in Nat /\ a \in Nat /\ DOMAIN accepted = 1 .. Len(accepted)
  <2>1. accepted \in Seq(Ns) /\ created \in Nat
    BY DEF TypeOK
  <2>2. a \in Ns
    BY <2>1
  <2> QED BY <2>1, <2>2 DEF Ns
<1>2. ASSUME NEW j \in S PROVE accepted[j] \in T
  <2>1. j \in DOMAIN accepted
    BY <1>1
  <2>2. accepted[j] \in 1 .. created
    BY <2>1, AcceptedInPast
  <2>3. a < accepted[j] + Span
    <3>1. CASE j = i
      BY <1>1, <3>1, ConstantTypes DEF InTimeAssumption
    <3>2. CASE i < j
      BY <2>1, <3>2 DEF InvAccepted
    <3> QED BY <1>1, <3>1, <3>2
  <2> QED BY <1>1, <2>2, <2>3, ConstantTypes
<1>3. f \in Injection(S, T)
  <2>1. f \in [S -> T]
    BY <1>2
  <2>2. \A x, y \in S : accepted[x] = accepted[y] => x = y
    BY <1>1 DEF AtMostOnce
  <2> QED BY <2>1, <2>2 DEF Injection, IsInjective
<1>4. IsFiniteSet(T) /\ Cardinality(T) = 2 * Span - 1
  <2> DEFINE lo == a - Span + 1
             hi == a + Span - 1
  <2>1. lo \in Int /\ hi \in Int /\ ~(lo > hi) /\ hi - lo + 1 = 2 * Span - 1
    BY <1>1, ConstantTypes DEF InTimeAssumption
  <2> HIDE DEF lo, hi
  <2>2. IsFiniteSet(lo .. hi) /\ Cardinality(lo .. hi) = 2 * Span - 1
    BY <2>1, FS_Interval
  <2> QED BY <2>2 DEF lo, hi
<1>5. Cardinality(S) = Len(accepted) - i + 1
  BY <1>1, FS_Interval
<1> HIDE DEF S, T, f
<1>6. Cardinality(S) <= Cardinality(T)
  BY <1>3, <1>4, FS_Injection
<1> QED BY <1>1, <1>4, <1>5, <1>6, ConstantTypes DEF InTimeAssumption

LEMMA SlotType ==
  ASSUME TypeOK, NEW k \in 0 .. AckBack - 1
  PROVE  Slot(k) \in 0 .. AckBack - 1
BY ConstantTypes DEF TypeOK, Slot

\* The ring recognises every copy of a message that was accepted.
LEMMA OldIsSeen ==
  ASSUME InTimeAssumption, TypeOK, InvOnce, ropen,
         NEW m \in data, m.n \in RangeOf(accepted)
  PROVE  m.id \in RangeOf(lastacks)
<1>1. Recent(m) /\ created \in Nat /\ accepted \in Seq(Ns) /\ Len(accepted) \in Nat
  BY DEF InvOnce, InvCopies, Copies, TypeOK
<1>2. PICK i \in DOMAIN accepted : accepted[i] = m.n
  BY DEF RangeOf
<1>3. Len(accepted) - i < AckBack
  BY <1>1, <1>2, RingCovers DEF InvOnce, Recent
<1> DEFINE k == Len(accepted) - i
<1>4. k \in 0 .. AckBack - 1 /\ k < Len(accepted) /\ Len(accepted) - k = i
  BY <1>1, <1>3, ConstantTypes
<1>5. created - m.n < Cycle
  BY <1>1, CycleCovers, ConstantTypes DEF Recent
<1>6. lastacks[Slot(k)] = Back(created - m.n)
  BY <1>2, <1>4, <1>5 DEF InvOnce, InvRing
<1>7. Slot(k) \in DOMAIN lastacks
  BY <1>4, SlotType DEF TypeOK
<1> QED BY <1>1, <1>6, <1>7 DEF RangeOf, Recent

\* A message more recent than highest_ack was constructed after the one
\* highest_ack was taken from, and one constructed after it is more recent.
LEMMA MoreRecentIsNewer ==
  ASSUME InTimeAssumption, TypeOK, InvOnce, ropen, highest_ack # 0, NEW m \in data
  PROVE  MoreRecent(m) <=> m.n > highest_n
<1> DEFINE k == created - m.n
           l == created - highest_n
<1>1. /\ Recent(m) /\ created \in Nat /\ current_id \in Ids /\ highest_n \in RangeOf(accepted)
      /\ l < Gap /\ highest_ack = IdBack(current_id, l)
  BY DEF InvOnce, InvCopies, Copies, TypeOK, InvHighest, Back
<1>2. highest_n \in 1 .. created /\ m.n \in 1 .. created /\ k < Span /\ m.id = IdBack(current_id, k)
  BY <1>1, AcceptedInPast DEF InvOnce, RangeOf, Recent, Back
<1>3. current_id > Reserved
  BY <1>1, <1>2 DEF InvOnce, InvIds
<1>4. k \in 0 .. Cycle - 1 /\ l \in 0 .. Cycle - 1
  BY <1>1, <1>2, CycleCovers, ConstantTypes
<1>5. MoreRecent(m) <=> 0 < Diff(m.id, highest_ack) /\ Diff(m.id, highest_ack) < Window
  BY DEF MoreRecent
<1>6. CASE m.n > highest_n
  <2>1. k < l
    BY <1>1, <1>2, <1>6
  <2>2. 0 < Diff(m.id, highest_ack) /\ Diff(m.id, highest_ack) <= l - k + Reserved + 1
    BY <1>1, <1>2, <1>3, <1>4, <2>1, DiffAhead
  <2>3. l - k + Reserved + 1 < Window
    BY <1>1, <1>2, <1>4, CycleCovers, ConstantTypes DEF InTimeAssumption
  <2>4. Diff(m.id, highest_ack) \in Int
    BY <1>1, <1>2, <1>3, <1>4, IdBackType, ConstantTypes DEF Diff
  <2> QED BY <1>4, <1>5, <1>6, <2>2, <2>3, <2>4, ConstantTypes
<1>7. CASE m.n = highest_n
  <2>1. m.id = highest_ack
    BY <1>1, <1>2, <1>7
  <2>2. Diff(m.id, highest_ack) = 0
    BY <1>1, <1>3, <1>4, <2>1, IdBackType, ConstantTypes DEF Diff
  <2> QED BY <1>2, <1>5, <1>7, <2>2
<1>8. CASE m.n < highest_n
  <2>1. l < k
    BY <1>1, <1>2, <1>8
  <2>2. Diff(m.id, highest_ack) >= Cycle - (k - l)
    BY <1>1, <1>2, <1>3, <1>4, <2>1, DiffBehind
  <2>3. Cycle - (k - l) >= Window
    BY <1>1, <1>2, <1>4, CycleCovers, ConstantTypes
  <2>4. Diff(m.id, highest_ack) \in Int
    BY <1>1, <1>2, <1>3, <1>4, IdBackType, ConstantTypes DEF Diff
  <2> QED BY <1>2, <1>4, <1>5, <1>8, <2>2, <2>3, <2>4, CycleCovers, ConstantTypes
<1> QED BY <1>1, <1>2, <1>6, <1>7, <1>8

\* The first message a receiver takes is more recent than nothing at all.
LEMMA FirstIsMoreRecent ==
  ASSUME InTimeAssumption, TypeOK, InvOnce, ropen, highest_ack = 0,
         NEW m \in data, login_succeeded \/ IsLogin(m)
  PROVE  MoreRecent(m)
<1>1. CASE ToClient
  BY <1>1 DEF InvOnce, InvHighest, MoreRecent
<1>2. CASE ~ToClient
  <2>1. /\ Recent(m) /\ created \in Nat /\ current_id \in Ids /\ m.id <= FirstIdBound
        /\ m.n \in 1 .. created
    BY <1>2 DEF InvOnce, InvCopies, Copies, TypeOK, Recent
  <2>2. created - m.n \in 0 .. Cycle - 1
    BY <2>1, CycleCovers, ConstantTypes DEF Recent
  <2>3. m.id \in Reserved + 1 .. IdSpace - 1
    BY <2>1, <2>2, IdBackType DEF InvOnce, InvIds, Recent, Back
  <2>4. Diff(m.id, highest_ack) = m.id
    BY <2>3, ConstantTypes DEF Diff
  <2> QED BY <2>1, <2>3, <2>4, ConstantTypes DEF MoreRecent, InTimeAssumption
<1> QED BY <1>1, <1>2

LEMMA ReceiveOnce ==
  ASSUME InTimeAssumption, TypeOK, TypeOK', InvOnce, NEW m \in data, Receive(m)
  PROVE  InvOnce'
<1>1. /\ ropen /\ ropen' = ropen /\ created' = created /\ current_id' = current_id
      /\ send_queue' = send_queue /\ pending' = pending /\ data' = data /\ sent' = sent
      /\ login_succeeded \/ IsLogin(m)
  BY DEF Receive, sendVars
<1>2. /\ Recent(m) /\ m.n \in sent /\ created \in Nat /\ m.n \in Nat /\ m.id \in Nat
      /\ current_id \in Ids
  <2>1. m \in Messages /\ created \in Nat /\ current_id \in Ids
    BY DEF TypeOK
  <2>2. Recent(m) /\ m.n \in sent
    BY DEF InvOnce, InvCopies, Copies
  <2> QED BY <2>1, <2>2 DEF Messages, Ns, Ids
<1>3. m.n \in 1 .. created /\ created - m.n < Span /\ m.id = Back(created - m.n) /\ current_id > Reserved
  BY <1>2 DEF Recent, InvOnce, InvIds
<1>4. m.id > Reserved
  <2>1. created - m.n \in 0 .. Cycle - 1
    BY <1>2, <1>3, CycleCovers, ConstantTypes
  <2> QED BY <1>2, <1>3, <2>1, IdBackType, ConstantTypes DEF Back
<1>5. highest_ack' # 0
  BY <1>1, <1>4, FirstIsMoreRecent, ConstantTypes DEF Receive
<1>6. InvIds' /\ InvSent'
  BY <1>1 DEF InvOnce, InvIds, InvSent
<1>7. InvCopies'
  BY <1>1, <1>5 DEF InvOnce, InvCopies, Copies, Recent, Back
<1>8. CASE IsNew(m)
  <2>1. /\ lastacks' = [lastacks EXCEPT ![lastackPos] = m.id]
        /\ lastackPos' = IF lastackPos + 1 >= AckBack THEN 0 ELSE lastackPos + 1
        /\ accepted' = Append(accepted, m.n)
    BY <1>8 DEF Receive, Accept
  <2>2. /\ accepted \in Seq(Ns) /\ Len(accepted) \in Nat /\ Len(accepted') = Len(accepted) + 1
        /\ \A i \in 1 .. Len(accepted) : accepted'[i] = accepted[i]
        /\ accepted'[Len(accepted) + 1] = m.n
        /\ DOMAIN accepted' = 1 .. Len(accepted) + 1 /\ DOMAIN accepted = 1 .. Len(accepted)
    <3>1. accepted \in Seq(Ns) /\ m.n \in Ns
      BY DEF TypeOK, Messages
    <3> QED BY <2>1, <3>1
  <2>3. \A i \in DOMAIN accepted : accepted[i] \in 1 .. created
    BY AcceptedInPast DEF InvOnce
  <2>4. m.n \notin RangeOf(accepted)
    <3>1. CASE MoreRecent(m) /\ highest_ack # 0
      <4>1. m.n > highest_n /\ highest_n \in 1 .. created
        BY <1>1, <2>3, <3>1, MoreRecentIsNewer DEF InvOnce, InvHighest, RangeOf
      <4>2. \A i \in DOMAIN accepted : accepted[i] <= highest_n
        BY <1>1, <3>1 DEF InvOnce, InvHighest
      <4> QED BY <1>2, <2>3, <4>1, <4>2 DEF RangeOf
    <3>2. CASE highest_ack = 0
      BY <1>1, <3>2 DEF InvOnce, InvHighest, RangeOf
    <3>3. CASE ~MoreRecent(m)
      BY <1>1, <1>8, <3>3, OldIsSeen DEF IsNew
    <3> QED BY <3>1, <3>2, <3>3
  <2>5. AtMostOnce'
    BY <2>2, <2>4 DEF InvOnce, AtMostOnce, RangeOf
  <2>6. InvAccepted'
    <3>1. \A i \in DOMAIN accepted' : accepted'[i] \in sent
      BY <1>2, <2>2 DEF InvOnce, InvAccepted
    <3>2. ASSUME NEW i \in DOMAIN accepted', NEW j \in DOMAIN accepted', i < j
          PROVE  accepted'[i] < accepted'[j] + Span
      <4>1. i \in DOMAIN accepted
        BY <2>2, <3>2
      <4>2. CASE j \in DOMAIN accepted
        BY <2>2, <3>2, <4>1, <4>2 DEF InvOnce, InvAccepted
      <4>3. CASE j = Len(accepted) + 1
        BY <1>2, <1>3, <2>2, <2>3, <4>1, <4>3, ConstantTypes
      <4> QED BY <2>2, <4>2, <4>3
    <3> QED BY <1>1, <3>1, <3>2 DEF InvAccepted
  <2>7. InvHighest'
    <3>1. CASE MoreRecent(m)
      <4>1. highest_ack' = m.id /\ highest_n' = m.n
        BY <3>1 DEF Receive
      <4>2. \A i \in DOMAIN accepted : accepted[i] <= m.n
        <5>1. CASE highest_ack = 0
          BY <1>1, <5>1 DEF InvOnce, InvHighest
        <5>2. CASE highest_ack # 0
          <6>1. m.n > highest_n /\ highest_n \in 1 .. created
            BY <1>1, <2>3, <3>1, <5>2, MoreRecentIsNewer DEF InvOnce, InvHighest, RangeOf
          <6>2. \A i \in DOMAIN accepted : accepted[i] <= highest_n
            BY <1>1, <5>2 DEF InvOnce, InvHighest
          <6> QED BY <1>2, <2>3, <6>1, <6>2
        <5> QED BY <5>1, <5>2
      <4>3. \A i \in DOMAIN accepted' : accepted'[i] <= m.n
        BY <1>2, <2>2, <4>2
      <4>4. m.n \in RangeOf(accepted')
        BY <2>2 DEF RangeOf
      <4>5. created - m.n < Gap
        BY <1>2, <1>3, ConstantTypes DEF InTimeAssumption
      <4> QED BY <1>1, <1>3, <1>5, <4>1, <4>3, <4>4, <4>5 DEF InvHighest, RangeOf, Back
    <3>2. CASE ~MoreRecent(m)
      <4>1. highest_ack' = highest_ack /\ highest_n' = highest_n /\ highest_ack # 0
        BY <1>5, <3>2 DEF Receive
      <4>2. /\ highest_n \in RangeOf(accepted) /\ \A i \in DOMAIN accepted : accepted[i] <= highest_n
            /\ created - highest_n < Gap /\ highest_ack = Back(created - highest_n)
        BY <1>1, <4>1 DEF InvOnce, InvHighest
      <4>3. highest_n \in 1 .. created
        BY <2>3, <4>2 DEF RangeOf
      <4>4. m.n <= highest_n
        BY <1>1, <1>2, <3>2, <4>1, <4>3, MoreRecentIsNewer
      <4>5. \A i \in DOMAIN accepted' : accepted'[i] <= highest_n
        BY <2>2, <4>2, <4>4
      <4>6. highest_n \in RangeOf(accepted')
        BY <2>2, <4>2 DEF RangeOf
      <4> QED BY <1>1, <4>1, <4>2, <4>5, <4>6 DEF InvHighest, RangeOf, Back
    <3> QED BY <3>1, <3>2
  <2>8. InvRing'
    <3> SUFFICES ASSUME NEW k \in 0 .. AckBack - 1
                 PROVE  IF k < Len(accepted')
                        THEN created - accepted'[Len(accepted') - k] < Cycle
                               => lastacks'[Slot(k)'] = Back(created - accepted'[Len(accepted') - k])
                        ELSE lastacks'[Slot(k)'] = 0
      BY <1>1 DEF InvRing, Back
    <3>1. lastackPos \in 0 .. AckBack - 1 /\ lastacks \in [0 .. AckBack - 1 -> Ids]
      BY DEF TypeOK
    <3>2. CASE k = 0
      <4>1. Slot(k)' = lastackPos
        BY <2>1, <3>1, <3>2, ConstantTypes DEF Slot
      <4>2. lastacks'[lastackPos] = m.id
        BY <2>1, <3>1
      <4>3. accepted'[Len(accepted') - k] = m.n /\ k < Len(accepted')
        BY <2>2, <3>2
      <4> QED BY <1>3, <4>1, <4>2, <4>3
    <3>3. CASE k > 0
      <4>1. k - 1 \in 0 .. AckBack - 1 /\ Slot(k)' = Slot(k - 1) /\ Slot(k - 1) # lastackPos
        BY <2>1, <3>1, <3>3, ConstantTypes DEF Slot
      <4>2. lastacks'[Slot(k)'] = lastacks[Slot(k - 1)]
        BY <2>1, <3>1, <4>1, SlotType
      <4>3. CASE k < Len(accepted')
        <5>1. k - 1 < Len(accepted) /\ Len(accepted') - k = Len(accepted) - (k - 1)
              /\ Len(accepted) - (k - 1) \in 1 .. Len(accepted)
          BY <2>2, <3>3, <4>3
        <5>2. accepted'[Len(accepted') - k] = accepted[Len(accepted) - (k - 1)]
          BY <2>2, <5>1
        <5>3. created - accepted[Len(accepted) - (k - 1)] < Cycle
                => lastacks[Slot(k - 1)] = Back(created - accepted[Len(accepted) - (k - 1)])
          BY <1>1, <4>1, <5>1 DEF InvOnce, InvRing
        <5> QED BY <4>2, <4>3, <5>2, <5>3
      <4>4. CASE ~(k < Len(accepted'))
        <5>1. ~(k - 1 < Len(accepted))
          BY <2>2, <4>4
        <5>2. lastacks[Slot(k - 1)] = 0
          BY <1>1, <4>1, <5>1 DEF InvOnce, InvRing
        <5> QED BY <4>2, <4>4, <5>2
      <4> QED BY <4>3, <4>4
    <3> QED BY <3>2, <3>3
  <2> QED BY <1>6, <1>7, <2>5, <2>6, <2>7, <2>8 DEF InvOnce
<1>9. CASE ~IsNew(m)
  <2>1. /\ UNCHANGED <<lastacks, lastackPos, accepted>> /\ highest_ack' = highest_ack
        /\ highest_n' = highest_n
    BY <1>9 DEF Receive, IsNew
  <2>2. InvHighest'
    <3>1. highest_ack # 0
      BY <1>5, <2>1
    <3> QED BY <1>1, <2>1, <3>1 DEF InvOnce, InvHighest, Back, RangeOf
  <2>3. InvAccepted' /\ AtMostOnce' /\ InvRing'
    BY <1>1, <2>1 DEF InvOnce, InvAccepted, AtMostOnce, InvRing, Slot, Back
  <2> QED BY <1>6, <1>7, <2>2, <2>3 DEF InvOnce
<1> QED BY <1>8, <1>9

\* Every step of the link keeps the invariant.
LEMMA NextOnce ==
  ASSUME InTimeAssumption, TypeOK, TypeOK', InvOnce, [Next]_vars
  PROVE  InvOnce'
<1>1. ASSUME Construct, UNCHANGED <<recvVars, accepted, highest_n>>,
             \/ sent' = sent /\ send_queue' = send_queue /\ pending' = pending /\ data' = Survivors
             \/ /\ sent' = sent \cup {created + 1}
                /\ send_queue' \subseteq send_queue \cup {NextMessage}
                /\ pending' \subseteq pending \cup {NextMessage}
                /\ data' \subseteq Survivors \cup {NextMessage}
      PROVE  InvOnce'
  <2>1. \A m \in send_queue \cup pending \cup Survivors : m \in Copies /\ InTime(m)
    BY <1>1 DEF Construct, EndsInTime, Survivors, Copies
  <2>2. sent' \in {sent, sent \cup {created + 1}}
    BY <1>1
  <2>3. \A m \in Copies' : (m \in Copies /\ InTime(m)) \/ (m = NextMessage /\ created + 1 \in sent')
    BY <1>1, <2>1 DEF Copies
  <2> QED BY <1>1, <2>2, <2>3, ConstructOnce
<1>2. CASE SkipMessage
  BY <1>1, <1>2 DEF SkipMessage
<1>3. CASE Send
  BY <1>1, <1>3 DEF Send
<1>4. ASSUME NEW wait \in BOOLEAN, SendSync(wait) PROVE InvOnce'
  BY <1>1, <1>4 DEF SendSync, Await
<1>5. ASSUME Copies' \subseteq Copies,
             UNCHANGED <<created, current_id, recvVars, sent, accepted, highest_n>>
      PROVE  InvOnce'
  BY <1>5 DEF InvOnce, InvIds, InvCopies, InvSent, InvAccepted, InvRing, InvHighest, AtMostOnce,
              Recent, Slot, Back, RangeOf, recvVars
<1>6. ASSUME NEW m \in send_queue, ExecutePlanned(m) PROVE InvOnce'
  <2>1. Copies' \subseteq Copies
    BY <1>6 DEF ExecutePlanned, Await, Copies
  <2> QED BY <1>5, <1>6, <2>1 DEF ExecutePlanned
<1>7. CASE QueueOverflow \/ Kick
  <2>1. Copies' \subseteq Copies
    BY <1>7 DEF QueueOverflow, Kick, CloseSender, Copies
  <2> QED BY <1>5, <1>7, <2>1 DEF QueueOverflow, Kick
<1>8. ASSUME NEW m \in pending, Resend(m) PROVE InvOnce'
  <2>1. Copies' \subseteq Copies
    BY <1>8 DEF Resend, CloseSender, Copies
  <2> QED BY <1>5, <1>8, <2>1 DEF Resend
<1>9. ASSUME NEW A \in acks, ReceiveAck(A) PROVE InvOnce'
  <2>1. Copies' \subseteq Copies
    BY <1>9 DEF ReceiveAck, Copies
  <2> QED BY <1>5, <1>9, <2>1 DEF ReceiveAck
<1>10. ASSUME NEW m \in data, Receive(m) PROVE InvOnce'
  BY <1>10, ReceiveOnce
<1>11. ASSUME UNCHANGED <<sendVars, ropen, login_succeeded, highest_ack, lastacks, lastackPos,
                          data, sent, accepted, highest_n>>
       PROVE  InvOnce'
  BY <1>11 DEF InvOnce, InvIds, InvCopies, InvSent, InvAccepted, InvRing, InvHighest, AtMostOnce,
               Copies, Recent, Slot, Back, RangeOf, sendVars
<1>12. CASE SendAcks
  BY <1>11, <1>12 DEF SendAcks
<1>13. ASSUME NEW A \in ackQueue, ExecuteQueuedAcks(A) PROVE InvOnce'
  BY <1>11, <1>13 DEF ExecuteQueuedAcks
<1>14. CASE CloseReceiver
  <2>1. /\ ropen' = FALSE
        /\ UNCHANGED <<created, current_id, send_queue, pending, data, sent, accepted>>
    BY <1>14 DEF CloseReceiver, sendVars
  <2>2. InvRing' /\ InvHighest'
    BY <2>1 DEF InvRing, InvHighest
  <2>3. InvIds' /\ InvCopies' /\ InvSent' /\ InvAccepted' /\ AtMostOnce'
    BY <2>1 DEF InvOnce, InvIds, InvCopies, InvSent, InvAccepted, AtMostOnce, Copies, Recent, Back
  <2> QED BY <2>2, <2>3 DEF InvOnce
<1>15. ASSUME NEW m \in data, LoseData(m) PROVE InvOnce'
  <2>1. Copies' \subseteq Copies
    BY <1>15 DEF LoseData, Copies, sendVars
  <2> QED BY <1>5, <1>15, <2>1 DEF LoseData, sendVars
<1>16. ASSUME NEW A \in acks, LoseAcks(A) PROVE InvOnce'
  BY <1>11, <1>16 DEF LoseAcks, recvVars
<1>17. CASE UNCHANGED vars
  BY <1>11, <1>17 DEF vars, recvVars
<1>18. CASE DropLeft
  <2>1. Copies' \subseteq Copies
    BY <1>18 DEF DropLeft, Copies
  <2> QED BY <1>5, <1>18, <2>1 DEF DropLeft, recvVars
<1> QED BY <1>2, <1>3, <1>4, <1>6, <1>7, <1>8, <1>9, <1>10, <1>12, <1>13, <1>14, <1>15,
           <1>16, <1>17, <1>18
        DEF Next, SenderNext, ReceiverNext, NetworkNext

LEMMA OnceHolds == ASSUME InTimeAssumption PROVE Spec => []InvOnce
<1>1. Init => InvOnce
  <2> SUFFICES ASSUME Init PROVE InvOnce OBVIOUS
  <2>0. /\ created = 0 /\ current_id = Start /\ send_queue = {} /\ pending = {} /\ data = {}
        /\ login_succeeded = ~ToClient /\ highest_ack = 0 /\ lastackPos = 0
        /\ lastacks = [i \in 0 .. AckBack - 1 |-> 0]
        /\ sent = {} /\ accepted = <<>> /\ highest_n = 0
    BY DEF Init
  <2>1. InvIds /\ InvCopies /\ InvSent /\ InvAccepted /\ InvHighest /\ AtMostOnce
    <3>1. Copies = {} /\ DOMAIN accepted = {} /\ Len(accepted) = 0
      BY <2>0 DEF Copies
    <3>2. InvIds /\ InvSent
      BY <2>0, ConstantTypes DEF InvIds, InvSent
    <3>3. InvCopies /\ InvAccepted /\ AtMostOnce
      BY <2>0, <3>1 DEF InvCopies, InvAccepted, AtMostOnce
    <3>4. InvHighest
      BY <2>0, <3>1 DEF InvHighest
    <3> QED BY <3>2, <3>3, <3>4
  <2>2. \A k \in 0 .. AckBack - 1 : Slot(k) \in 0 .. AckBack - 1
    BY <2>0, ConstantTypes DEF Slot
  <2>3. InvRing
    BY <2>0, <2>2 DEF InvRing
  <2> QED BY <2>1, <2>3 DEF InvOnce
<1>2. TypeAndPending /\ TypeAndPending' /\ InvOnce /\ [Next]_vars => InvOnce'
  BY NextOnce DEF TypeAndPending
<1> QED BY <1>1, <1>2, TypeAndPendingHolds, PTL DEF Spec

\* A network message is handled at most once, as long as the network and the
\* traffic stay within what the ring of 1000 ids and the window of 10000 bear.
THEOREM AtMostOnceHolds == ASSUME InTimeAssumption PROVE Spec => []AtMostOnce
<1>1. InvOnce => AtMostOnce
  BY DEF InvOnce
<1> QED BY <1>1, OnceHolds, PTL

-----------------------------------------------------------------------------
(* Acknowledgements *)

\* Two messages of the recent past with one id are one message.
LEMMA RecentDistinct ==
  ASSUME InTimeAssumption, TypeOK, InvIds, NEW k \in 1 .. created, NEW l \in 1 .. created,
         created - k < Cycle, created - l < Cycle, Back(created - k) = Back(created - l)
  PROVE  k = l
<1>1. created \in Nat /\ current_id \in Ids /\ current_id > Reserved
  BY DEF TypeOK, InvIds
<1>2. created - k \in 0 .. Cycle - 1 /\ created - l \in 0 .. Cycle - 1
  BY <1>1, CycleCovers
<1>3. created - k = created - l
  BY <1>1, <1>2, IdBackDistinct DEF Back
<1> QED BY <1>1, <1>3

\* Every entry of the ring other than 0 is the id of a message accepted not long ago.
LEMMA RingEntry ==
  ASSUME InTimeAssumption, RingAssumption, TypeOK, InvOnce, InvRingAge, ropen,
         NEW id \in RangeOf(lastacks), id # 0
  PROVE  \E i \in DOMAIN accepted : created - accepted[i] < Cycle /\ id = Back(created - accepted[i])
<1>1. /\ lastacks \in [0 .. AckBack - 1 -> Ids] /\ lastackPos \in 0 .. AckBack - 1
      /\ accepted \in Seq(Ns) /\ Len(accepted) \in Nat /\ DOMAIN accepted = 1 .. Len(accepted)
      /\ created \in Nat
  BY DEF TypeOK
<1>2. PICK s \in 0 .. AckBack - 1 : id = lastacks[s]
  BY <1>1 DEF RangeOf
<1>3. PICK k \in 0 .. AckBack - 1 : Slot(k) = s
  <2> DEFINE w == IF lastackPos - 1 - s >= 0 THEN lastackPos - 1 - s
                                             ELSE lastackPos - 1 - s + AckBack
  <2>1. w \in 0 .. AckBack - 1 /\ Slot(w) = s
    BY <1>1, ConstantTypes DEF Slot
  <2> QED BY <2>1
<1>4. k < Len(accepted)
  BY <1>2, <1>3 DEF InvOnce, InvRing
<1> DEFINE i == Len(accepted) - k
<1>5. i \in DOMAIN accepted /\ i > Len(accepted) - AckBack
  BY <1>1, <1>4, ConstantTypes
<1>6. created - accepted[i] < RingAge
  BY <1>5 DEF InvRingAge
<1>7. accepted[i] \in 1 .. created
  BY <1>5, AcceptedInPast DEF InvOnce
<1>8. created - accepted[i] < Cycle
  BY <1>1, <1>6, <1>7, CycleCovers, ConstantTypes DEF RingAssumption, Cycle
<1>9. id = Back(created - accepted[i])
  BY <1>2, <1>3, <1>4, <1>8 DEF InvOnce, InvRing
<1> QED BY <1>5, <1>8, <1>9

\* A message that the receiver does not accept was accepted before.
LEMMA OldWasAccepted ==
  ASSUME InTimeAssumption, RingAssumption, TypeOK, InvOnce, InvRingAge, ropen,
         NEW m \in data, ~IsNew(m)
  PROVE  m.n \in RangeOf(accepted)
<1>1. Recent(m) /\ created \in Nat /\ current_id \in Ids
  BY DEF InvOnce, InvCopies, Copies, TypeOK
<1>2. m.n \in 1 .. created /\ created - m.n \in 0 .. Cycle - 1 /\ m.id = Back(created - m.n)
      /\ current_id > Reserved
  BY <1>1, CycleCovers, ConstantTypes DEF Recent, InvOnce, InvIds
<1>3. m.id # 0
  BY <1>1, <1>2, IdBackType, ConstantTypes DEF Back
<1>4. m.id \in RangeOf(lastacks)
  BY DEF IsNew
<1>5. PICK i \in DOMAIN accepted :
        created - accepted[i] < Cycle /\ m.id = Back(created - accepted[i])
  BY <1>3, <1>4, RingEntry
<1>6. accepted[i] \in 1 .. created
  BY AcceptedInPast DEF InvOnce
<1>7. accepted[i] = m.n
  BY <1>1, <1>2, <1>5, <1>6, CycleCovers, RecentDistinct DEF InvOnce
<1> QED BY <1>7 DEF RangeOf

LEMMA ConstructAcks ==
  ASSUME InTimeAssumption, TypeOK, InvOnce, InvAcks, Construct,
         UNCHANGED <<ackMess, ackQueue, accepted>>
  PROVE  InvAcks'
<1> SUFFICES ASSUME NEW a \in AckCopies' PROVE Recent(a)' /\ a.n \in RangeOf(accepted')
  BY DEF InvAcks, RangeOf
<1>1. a \in AckCopies /\ InTime(a)
  <2>1. RangeOf(ackMess)' = RangeOf(ackMess) /\ ackQueue' = ackQueue
    BY DEF RangeOf
  <2>2. \A m \in RangeOf(ackMess) \cup UNION ackQueue : InTime(m)
    BY DEF Construct, EndsInTime
  <2>3. UNION acks' \subseteq UNION acks /\ \A m \in UNION acks' : InTime(m)
    BY DEF Construct
  <2> QED BY <2>1, <2>2, <2>3 DEF AckCopies
<1>2. a \in Messages
  <2>1. ackMess \in Seq(Messages) /\ ackQueue \subseteq SUBSET Messages /\ acks \subseteq SUBSET Messages
    BY DEF TypeOK
  <2>2. RangeOf(ackMess) \subseteq Messages
    BY <2>1, RangeOfType
  <2> QED BY <1>1, <2>1, <2>2 DEF AckCopies
<1>3. Recent(a) /\ a.n \in RangeOf(accepted)
  BY <1>1 DEF InvAcks
<1>4. Recent(a)'
  BY <1>1, <1>2, <1>3, RecentConstruct DEF InvOnce
<1> QED BY <1>3, <1>4 DEF RangeOf

\* The messages an ack on its way strikes off the list were handled.
LEMMA AcknowledgedWasAccepted ==
  ASSUME InTimeAssumption, TypeOK, InvOnce, InvAcks, NEW A \in acks, NEW m \in Acknowledged(A)
  PROVE  m.n \in RangeOf(accepted)
<1>1. m \in pending /\ created \in Nat
  BY DEF Acknowledged, TypeOK
<1>2. PICK a \in A : a.id = m.id
  BY DEF Acknowledged
<1>3. Recent(m) /\ Recent(a) /\ a.n \in RangeOf(accepted)
  BY <1>1, <1>2 DEF InvOnce, InvCopies, Copies, InvAcks, AckCopies
<1>4. /\ m.n \in 1 .. created /\ a.n \in 1 .. created /\ created - m.n < Cycle
      /\ created - a.n < Cycle /\ Back(created - m.n) = Back(created - a.n)
  BY <1>1, <1>2, <1>3, CycleCovers, ConstantTypes DEF Recent
<1>5. m.n = a.n
  BY <1>4, RecentDistinct DEF InvOnce
<1> QED BY <1>3, <1>5

LEMMA ReceiveAcked ==
  ASSUME InTimeAssumption, RingAssumption, TypeOK, InvOnce, InvAcks, InvRingAge,
         NEW m \in data, Receive(m)
  PROVE  /\ InvAcks' /\ InvRingAge'
         /\ RangeOf(accepted) \subseteq RangeOf(accepted') /\ acked' = acked
<1>1. /\ ropen /\ UNCHANGED <<created, current_id, acks, acked>> /\ WriteAck(m)
  BY DEF Receive, sendVars
<1>2. /\ accepted \in Seq(Ns) /\ m.n \in Ns /\ created \in Nat /\ Len(accepted) \in Nat
      /\ DOMAIN accepted = 1 .. Len(accepted) /\ ackMess \in Seq(Messages)
  <2>1. m \in Messages /\ accepted \in Seq(Ns) /\ created \in Nat /\ ackMess \in Seq(Messages)
    BY DEF TypeOK
  <2> QED BY <2>1 DEF Messages
<1>3. Recent(m)
  BY DEF InvOnce, InvCopies, Copies
<1>4. ASSUME IsNew(m)
      PROVE  /\ m.n \in RangeOf(accepted') /\ RangeOf(accepted) \subseteq RangeOf(accepted')
             /\ InvRingAge'
  <2>1. accepted' = Append(accepted, m.n)
    BY <1>4 DEF Receive, Accept
  <2>2. /\ Len(accepted') = Len(accepted) + 1 /\ DOMAIN accepted' = 1 .. Len(accepted) + 1
        /\ \A i \in 1 .. Len(accepted) : accepted'[i] = accepted[i]
        /\ accepted'[Len(accepted) + 1] = m.n
    BY <1>2, <2>1
  <2>3. RangeOf(accepted) \subseteq RangeOf(accepted') /\ m.n \in RangeOf(accepted')
    BY <1>2, <2>2 DEF RangeOf
  <2>4. InvRingAge'
    <3> SUFFICES ASSUME NEW i \in DOMAIN accepted', i > Len(accepted') - AckBack
                 PROVE  created - accepted'[i] < RingAge
      BY <1>1 DEF InvRingAge
    <3>1. CASE i = Len(accepted) + 1
      BY <1>2, <1>3, <2>2, <3>1, ConstantTypes DEF Recent, RingAssumption
    <3>2. CASE i \in 1 .. Len(accepted)
      <4>1. i \in DOMAIN accepted /\ i > Len(accepted) - AckBack
        BY <1>2, <2>2, <3>2, ConstantTypes
      <4> QED BY <1>1, <2>2, <3>2, <4>1 DEF InvRingAge
    <3> QED BY <2>2, <3>1, <3>2
  <2> QED BY <2>3, <2>4
<1>5. ASSUME ~IsNew(m)
      PROVE  /\ m.n \in RangeOf(accepted') /\ RangeOf(accepted) \subseteq RangeOf(accepted')
             /\ InvRingAge'
  <2>1. accepted' = accepted
    BY <1>5 DEF Receive
  <2>2. m.n \in RangeOf(accepted)
    BY <1>1, <1>5, OldWasAccepted
  <2> QED BY <1>1, <2>1, <2>2 DEF InvRingAge, RangeOf
<1>6. AckCopies' \subseteq AckCopies \cup {m}
  <2> DEFINE batch == Append(ackMess, m)
  <2>1. RangeOf(batch) = RangeOf(ackMess) \cup {m}
    <3>1. /\ DOMAIN batch = 1 .. Len(ackMess) + 1 /\ batch[Len(ackMess) + 1] = m
          /\ \A i \in 1 .. Len(ackMess) : batch[i] = ackMess[i]
          /\ DOMAIN ackMess = 1 .. Len(ackMess) /\ Len(ackMess) \in Nat
      BY <1>2
    <3> QED BY <3>1 DEF RangeOf
  <2>2. \/ ackMess' = <<>> /\ ackQueue' = ackQueue \cup {RangeOf(batch)}
        \/ ackMess' = batch /\ ackQueue' = ackQueue
    BY <1>1 DEF WriteAck
  <2> HIDE DEF batch
  <2>3. RangeOf(<<>>) = {}
    BY DEF RangeOf
  <2>4. RangeOf(ackMess)' = RangeOf(ackMess')
    BY DEF RangeOf
  <2> QED BY <1>1, <2>1, <2>2, <2>3, <2>4 DEF AckCopies
<1>7. m.n \in RangeOf(accepted') /\ RangeOf(accepted) \subseteq RangeOf(accepted') /\ InvRingAge'
  BY <1>4, <1>5
<1>8. InvAcks'
  BY <1>1, <1>3, <1>6, <1>7 DEF InvAcks, Recent, Back, RangeOf
<1> QED BY <1>1, <1>7, <1>8

LEMMA NextAcked ==
  ASSUME InTimeAssumption, RingAssumption, TypeOK, InvOnce, InvAcked, [Next]_vars
  PROVE  InvAcked'
<1> USE DEF InvAcked
<1>1. ASSUME Construct, UNCHANGED <<recvVars, accepted, acked>> PROVE InvAcked'
  <2>1. UNCHANGED <<ropen, ackMess, ackQueue, accepted, acked>> /\ created' = created + 1
    BY <1>1 DEF recvVars, Construct
  <2>2. InvAcks'
    BY <1>1, <2>1, ConstructAcks
  <2>3. ropen => RingInTime
    BY <1>1 DEF Construct
  <2>4. InvRingAge'
    <3>1. created' = created + 1 /\ accepted' = accepted /\ ropen' = ropen
      BY <2>1
    <3> SUFFICES ASSUME ropen, NEW i \in DOMAIN accepted, i > Len(accepted) - AckBack
                 PROVE  created' - accepted[i] < RingAge
      BY <3>1 DEF InvRingAge
    <3>2. created + 1 - accepted[i] < RingAge
      BY <2>3 DEF RingInTime
    <3>3. created \in Nat /\ accepted[i] \in Nat
      BY AcceptedInPast DEF InvOnce, TypeOK
    <3> QED BY <3>1, <3>2, <3>3, ConstantTypes
  <2> QED BY <2>1, <2>2, <2>4 DEF AckedWasAccepted, RangeOf
<1>2. ASSUME AckCopies' \subseteq AckCopies, ropen' => ropen,
             UNCHANGED <<created, current_id, accepted>>, acked' \subseteq RangeOf(accepted)
      PROVE  InvAcked'
  BY <1>2 DEF InvAcks, InvRingAge, AckedWasAccepted, Recent, Back, RangeOf
<1>3. CASE SkipMessage
  BY <1>1, <1>3 DEF SkipMessage
<1>4. CASE Send
  BY <1>1, <1>4 DEF Send
<1>5. ASSUME NEW wait \in BOOLEAN, SendSync(wait) PROVE InvAcked'
  BY <1>1, <1>5 DEF SendSync
<1>6. ASSUME UNCHANGED <<created, current_id, acks, recvVars, accepted>>,
             acked' \subseteq RangeOf(accepted)
      PROVE  InvAcked'
  <2>1. AckCopies' = AckCopies /\ ropen' = ropen
    BY <1>6 DEF AckCopies, RangeOf, recvVars
  <2> QED BY <1>2, <1>6, <2>1
<1>7. acked \subseteq RangeOf(accepted)
  BY DEF AckedWasAccepted
<1>8. ASSUME NEW m \in send_queue, ExecutePlanned(m) PROVE InvAcked'
  BY <1>6, <1>7, <1>8 DEF ExecutePlanned
<1>9. CASE QueueOverflow \/ Kick
  BY <1>6, <1>7, <1>9 DEF QueueOverflow, Kick
<1>10. ASSUME NEW m \in pending, Resend(m) PROVE InvAcked'
  BY <1>6, <1>7, <1>10 DEF Resend
<1>11. ASSUME NEW A \in acks, ReceiveAck(A) PROVE InvAcked'
  <2>1. {m.n : m \in Acknowledged(A)} \subseteq RangeOf(accepted)
    BY AcknowledgedWasAccepted
  <2>2. acked' = acked \cup {m.n : m \in Acknowledged(A)}
    BY <1>11 DEF ReceiveAck
  <2>3. acked' \subseteq RangeOf(accepted)
    BY <1>7, <2>1, <2>2
  <2> QED BY <1>6, <1>11, <2>3 DEF ReceiveAck
<1>12. ASSUME NEW m \in data, Receive(m) PROVE InvAcked'
  <2>1. /\ InvAcks' /\ InvRingAge'
        /\ RangeOf(accepted) \subseteq RangeOf(accepted') /\ acked' = acked
    BY <1>12, ReceiveAcked
  <2> QED BY <1>7, <2>1 DEF AckedWasAccepted, RangeOf
<1>13. CASE SendAcks
  <2>1. RangeOf(ackMess)' = {}
    BY <1>13 DEF SendAcks, RangeOf
  <2>2. AckCopies' \subseteq AckCopies
    BY <1>13, <2>1 DEF SendAcks, AckCopies
  <2> QED BY <1>2, <1>7, <1>13, <2>2 DEF SendAcks, sendVars
<1>14. ASSUME NEW A \in ackQueue, ExecuteQueuedAcks(A) PROVE InvAcked'
  <2>1. RangeOf(ackMess)' = RangeOf(ackMess)
    BY <1>14 DEF ExecuteQueuedAcks, RangeOf
  <2>2. AckCopies' \subseteq AckCopies
    BY <1>14, <2>1 DEF ExecuteQueuedAcks, AckCopies
  <2> QED BY <1>2, <1>7, <1>14, <2>2 DEF ExecuteQueuedAcks, sendVars
<1>15. CASE CloseReceiver
  <2>1. RangeOf(ackMess)' = {}
    BY <1>15 DEF CloseReceiver, RangeOf
  <2>2. AckCopies' \subseteq AckCopies
    BY <1>15, <2>1 DEF CloseReceiver, AckCopies
  <2> QED BY <1>2, <1>7, <1>15, <2>2 DEF CloseReceiver, sendVars
<1>16. ASSUME NEW m \in data, LoseData(m) PROVE InvAcked'
  BY <1>6, <1>7, <1>16 DEF LoseData, sendVars
<1>17. ASSUME NEW A \in acks, LoseAcks(A) PROVE InvAcked'
  <2>1. RangeOf(ackMess)' = RangeOf(ackMess)
    BY <1>17 DEF LoseAcks, recvVars, RangeOf
  <2>2. AckCopies' \subseteq AckCopies
    BY <1>17, <2>1 DEF LoseAcks, recvVars, AckCopies
  <2> QED BY <1>2, <1>7, <1>17, <2>2 DEF LoseAcks, sendVars, recvVars
<1>18. CASE UNCHANGED vars
  BY <1>6, <1>7, <1>18 DEF vars, sendVars
<1>19. CASE DropLeft
  BY <1>6, <1>7, <1>19 DEF DropLeft
<1> QED BY <1>3, <1>4, <1>5, <1>8, <1>9, <1>10, <1>11, <1>12, <1>13, <1>14, <1>15, <1>16,
           <1>17, <1>18, <1>19
        DEF Next, SenderNext, ReceiverNext, NetworkNext

LEMMA AckedHolds == ASSUME InTimeAssumption, RingAssumption PROVE Spec => []InvAcked
<1>1. Init => InvAcked
  BY DEF Init, InvAcked, InvAcks, InvRingAge, AckedWasAccepted, AckCopies, RangeOf
<1>2. TypeAndPending /\ InvOnce /\ InvAcked /\ [Next]_vars => InvAcked'
  BY NextAcked DEF TypeAndPending
<1> QED BY <1>1, <1>2, OnceHolds, TypeAndPendingHolds, PTL DEF Spec

\* A message whose nWaitForAck an ack removed was handled by the peer, although
\* acks name messages by ids that are used over and over.
THEOREM AckedWasAcceptedHolds ==
  ASSUME InTimeAssumption, RingAssumption PROVE Spec => []AckedWasAccepted
<1>1. InvAcked => AckedWasAccepted
  BY DEF InvAcked
<1> QED BY <1>1, AckedHolds, PTL

\* What the comment in rec_peer claims of a message with a more recent id is true
\* within these bounds.
THEOREM SurelyNewHolds == ASSUME InTimeAssumption PROVE Spec => SurelyNew
<1> DEFINE P == \A m \in data : Receive(m) /\ MoreRecent(m) => m.n \notin RangeOf(accepted)
<1>1. TypeOK /\ InvOnce => P
  <2> SUFFICES ASSUME TypeOK, InvOnce, NEW m \in data, Receive(m), MoreRecent(m)
               PROVE  m.n \notin RangeOf(accepted)
    OBVIOUS
  <2>1. ropen
    BY DEF Receive
  <2>2. CASE highest_ack = 0
    BY <2>1, <2>2 DEF InvOnce, InvHighest, RangeOf
  <2>3. CASE highest_ack # 0
    <3>1. m.n > highest_n
      BY <2>1, <2>3, MoreRecentIsNewer
    <3>2. highest_n \in 1 .. created /\ \A i \in DOMAIN accepted : accepted[i] <= highest_n
      BY <2>1, <2>3, AcceptedInPast DEF InvOnce, InvHighest, RangeOf
    <3>3. m.n \in Nat /\ \A i \in DOMAIN accepted : accepted[i] \in 1 .. created
      BY AcceptedInPast DEF InvOnce, TypeOK, Messages, Ns
    <3> QED BY <3>1, <3>2, <3>3 DEF RangeOf
  <2> QED BY <2>2, <2>3
<1>2. TypeAndPending /\ InvOnce => [P]_vars
  BY <1>1 DEF TypeAndPending
<1>3. Spec => [][P]_vars
  BY <1>2, TypeAndPendingHolds, OnceHolds, PTL
<1> QED BY <1>3 DEF SurelyNew

\* A message that rec_peer takes for a repetition is one.
THEOREM OldWasSeenHolds ==
  ASSUME InTimeAssumption, RingAssumption PROVE Spec => OldWasSeen
<1> DEFINE P == \A m \in data : Receive(m) /\ ~IsNew(m) => m.n \in RangeOf(accepted)
<1>1. TypeOK /\ InvOnce /\ InvAcked => P
  BY OldWasAccepted DEF Receive, InvAcked
<1>2. TypeAndPending /\ InvOnce /\ InvAcked => [P]_vars
  BY <1>1 DEF TypeAndPending
<1>3. Spec => [][P]_vars
  BY <1>2, TypeAndPendingHolds, OnceHolds, AckedHolds, PTL
<1> QED BY <1>3 DEF OldWasSeen

-----------------------------------------------------------------------------
(* The link implements the channel *)

\* Every step of the link is a step of the abstract channel or changes nothing there.
LEMMA StepImplements ==
  ASSUME InTimeAssumption, RingAssumption, TypeOK, TypeOK', InvOnce, InvOnce', InvAcked, [Next]_vars
  PROVE  [Channel!Next]_Channel!cvars
<1> USE DEF Channel!cvars
<1>1. ASSUME created < MaxCreated, sent' = sent \cup {created + 1}, UNCHANGED <<accepted, acked>>
      PROVE  Channel!Next
  <2>1. created \in Nat /\ sent \subseteq Ns
    BY DEF TypeOK
  <2>2. created + 1 \in Ns \ sent
    BY <1>1, <2>1, ConstantTypes DEF InvOnce, InvSent, Ns
  <2> QED BY <1>1, <2>2 DEF Channel!Next, Channel!Send
<1>2. CASE SkipMessage
  BY <1>2 DEF SkipMessage
<1>3. CASE Send
  BY <1>1, <1>3 DEF Send, Construct
<1>4. ASSUME NEW wait \in BOOLEAN, SendSync(wait) PROVE Channel!Next
  BY <1>1, <1>4 DEF SendSync, Construct
<1>5. ASSUME NEW m \in send_queue, ExecutePlanned(m) PROVE UNCHANGED Channel!cvars
  BY <1>5 DEF ExecutePlanned
<1>6. CASE QueueOverflow \/ Kick
  BY <1>6 DEF QueueOverflow, Kick
<1>7. ASSUME NEW m \in pending, Resend(m) PROVE UNCHANGED Channel!cvars
  BY <1>7 DEF Resend
<1>8. ASSUME NEW A \in acks, ReceiveAck(A) PROVE Channel!Next
  <2>1. {m.n : m \in Acknowledged(A)} \subseteq RangeOf(accepted)
    BY AcknowledgedWasAccepted DEF InvAcked
  <2>2. RangeOf(accepted) = Channel!Handled
    BY DEF RangeOf, Channel!Handled
  <2>3. /\ acked' = acked \cup {m.n : m \in Acknowledged(A)}
        /\ UNCHANGED <<sent, accepted>>
    BY <1>8 DEF ReceiveAck
  <2> QED BY <2>1, <2>2, <2>3 DEF Channel!Next, Channel!Confirm
<1>9. ASSUME NEW m \in data, Receive(m) PROVE [Channel!Next]_Channel!cvars
  <2>1. UNCHANGED <<sent, acked>>
    BY <1>9 DEF Receive
  <2>2. CASE IsNew(m)
    <3>1. accepted' = Append(accepted, m.n)
      BY <1>9, <2>2 DEF Receive, Accept
    <3>2. m.n \in sent /\ accepted \in Seq(Ns) /\ m.n \in Ns
      BY DEF InvOnce, InvCopies, Copies, TypeOK
    <3>3. m.n \notin Channel!Handled
      <4> SUFFICES ASSUME NEW i \in DOMAIN accepted, accepted[i] = m.n PROVE FALSE
        BY DEF Channel!Handled
      <4> DEFINE j == Len(accepted) + 1
      <4>1. /\ i \in DOMAIN accepted' /\ j \in DOMAIN accepted' /\ i # j
            /\ accepted'[i] = accepted[i] /\ accepted'[j] = m.n
        BY <3>1, <3>2
      <4> QED BY <4>1 DEF InvOnce, AtMostOnce
    <3> QED BY <2>1, <3>1, <3>2, <3>3 DEF Channel!Next, Channel!Handle
  <2>3. CASE ~IsNew(m)
    BY <1>9, <2>1, <2>3 DEF Receive
  <2> QED BY <2>2, <2>3
<1>10. CASE SendAcks
  BY <1>10 DEF SendAcks
<1>11. ASSUME NEW A \in ackQueue, ExecuteQueuedAcks(A) PROVE UNCHANGED Channel!cvars
  BY <1>11 DEF ExecuteQueuedAcks
<1>12. CASE CloseReceiver
  BY <1>12 DEF CloseReceiver
<1>13. ASSUME NEW m \in data, LoseData(m) PROVE UNCHANGED Channel!cvars
  BY <1>13 DEF LoseData
<1>14. ASSUME NEW A \in acks, LoseAcks(A) PROVE UNCHANGED Channel!cvars
  BY <1>14 DEF LoseAcks
<1>15. CASE UNCHANGED vars
  BY <1>15 DEF vars
<1>16. CASE DropLeft
  BY <1>16 DEF DropLeft
<1> QED BY <1>2, <1>3, <1>4, <1>5, <1>6, <1>7, <1>8, <1>9, <1>10, <1>11, <1>12, <1>13,
           <1>14, <1>15, <1>16
        DEF Next, SenderNext, ReceiverNext, NetworkNext

\* The numbering, resending, acknowledging and ring of recent ids together keep
\* the promise of ReliableChannel within the bounds on the network.
THEOREM LinkImplementsChannel ==
  ASSUME InTimeAssumption, RingAssumption PROVE Spec => ImplementsChannel
<1>1. Init => Channel!Init
  BY DEF Init, Channel!Init
<1>2. /\ TypeAndPending /\ TypeAndPending' /\ InvOnce /\ InvOnce' /\ InvAcked /\ [Next]_vars
      => [Channel!Next]_Channel!cvars
  BY StepImplements DEF TypeAndPending
<1>3. Spec => Channel!Spec
  BY <1>1, <1>2, TypeAndPendingHolds, OnceHolds, AckedHolds, PTL DEF Spec, Channel!Spec
<1> QED BY <1>3 DEF ImplementsChannel
=============================================================================
