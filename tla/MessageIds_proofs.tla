--------------------------- MODULE MessageIds_proofs ---------------------------
(***************************************************************************)
(* Proofs about MessageIds, for every size of the quarters and whatever    *)
(* earlier connections left in them, on top of those about ReliableLink.   *)
(***************************************************************************)
EXTENDS MessageIds, ReliableLink_proofs

\* The quarter after q is the next one to come.
Steps(q) == quarters[NextQuarter(q)] = quarters[q] + Quarter

\* A message in quarter q moves nothing, and neither does one with the id 0 that could
\* come between it and the messages around it.
Settled(q) == Steps(q) /\ (q = 1 => Steps(0))

-----------------------------------------------------------------------------
(* The inductive invariant, part by part *)

InvIdTypes == quarters \in [0 .. 3 -> Nat] /\ bigs \in Seq(Nat) /\ Len(bigs) = Len(accepted)

InvLogin == ropen /\ ~login_succeeded => ToClient /\ highest_ack = 0

\* A client in whose quarters no message has been counted yet.
InvBefore ==
  ropen /\ ToClient /\ highest_ack = 0 =>
    /\ created = 0 => current_id = Start /\ (QuarterOf(NextId(Start)) = 1 => Steps(0))
    /\ \A m \in Copies : m.n = 1 /\ QuarterOf(m.id) = 1 => Steps(0)

\* Repeated messages, and those that were overtaken, are in quarters that are settled.
InvSettled ==
  ropen /\ highest_ack # 0 =>
    /\ Settled(QuarterOf(highest_ack))
    /\ \A m \in Copies : m.n <= highest_n => Settled(QuarterOf(m.id))

\* The number of a recent message is as far behind that of the newest one as its id
\* is; that of an old one is behind by the number of messages in between, at least.
InvBigs ==
  ropen /\ highest_ack # 0 =>
    \A i \in DOMAIN accepted :
      /\ created - accepted[i] < Cycle
           => bigs[i] + Diff(highest_ack, Back(created - accepted[i])) = Expanded(highest_ack)
      /\ bigs[i] + (highest_n - accepted[i]) <= Expanded(highest_ack)

InvExpanded == /\ InvIdTypes /\ InvLogin /\ InvBefore /\ InvSettled /\ InvBigs
               /\ ExpandedInOrder

-----------------------------------------------------------------------------
(* Quarters *)

LEMMA QuarterTypes == Quarter \in Nat \ {0} /\ IdSpace = 4 * Quarter
BY ExpanderAssumption

LEMMA QuarterOfType ==
  ASSUME NEW id \in Ids PROVE QuarterOf(id) \in 0 .. 3 /\ NextQuarter(QuarterOf(id)) \in 0 .. 3
BY DEF QuarterOf, NextQuarter

\* An id that is ahead of another by no more than a quarter is in the same quarter or in
\* the next one.
LEMMA SameOrNext ==
  ASSUME NEW a \in Ids, NEW b \in Ids, Diff(b, a) <= Quarter
  PROVE  QuarterOf(b) \in {QuarterOf(a), NextQuarter(QuarterOf(a))}
BY QuarterTypes DEF Ids, Diff, QuarterOf, NextQuarter

\* ... and is expanded to a number that is as far ahead, if the next quarter is to come.
LEMMA ExpandedAhead ==
  ASSUME NEW a \in Ids, NEW b \in Ids, quarters \in [0 .. 3 -> Nat],
         Diff(b, a) <= Quarter, Steps(QuarterOf(a))
  PROVE  Expanded(b) = Expanded(a) + Diff(b, a)
<1> DEFINE p == QuarterOf(a)
           q == QuarterOf(b)
<1>1. p \in 0 .. 3 /\ q \in 0 .. 3 /\ q \in {p, NextQuarter(p)}
  BY QuarterOfType, SameOrNext
<1>2. quarters[p] \in Nat /\ quarters[q] \in Nat
  BY <1>1
<1>3. a \in 0 .. 4 * Quarter - 1 /\ b \in 0 .. 4 * Quarter - 1
  BY QuarterTypes DEF Ids
<1>4. CASE q = p
  <2>1. Diff(b, a) = b - a
    BY <1>3, <1>4, QuarterTypes DEF Diff, QuarterOf
  <2>2. p * Quarter \in Nat
    BY <1>1, QuarterTypes
  <2> QED BY <1>2, <1>3, <1>4, <2>1, <2>2 DEF Expanded
<1>5. CASE q # p
  <2>1. q = NextQuarter(p) /\ quarters[q] = quarters[p] + Quarter
    BY <1>1, <1>5 DEF Steps
  <2>2. CASE p = 0
    BY <1>2, <1>3, <2>1, <2>2, QuarterTypes DEF Expanded, Diff, NextQuarter, QuarterOf
  <2>3. CASE p = 1
    BY <1>2, <1>3, <2>1, <2>3, QuarterTypes DEF Expanded, Diff, NextQuarter, QuarterOf
  <2>4. CASE p = 2
    BY <1>2, <1>3, <2>1, <2>4, QuarterTypes DEF Expanded, Diff, NextQuarter, QuarterOf
  <2>5. CASE p = 3
    BY <1>2, <1>3, <2>1, <2>5, QuarterTypes DEF Expanded, Diff, NextQuarter, QuarterOf
  <2> QED BY <1>1, <2>2, <2>3, <2>4, <2>5
<1> QED BY <1>4, <1>5

LEMMA AdvanceType ==
  ASSUME NEW id \in Ids, quarters \in [0 .. 3 -> Nat], Advance(id)
  PROVE  quarters' \in [0 .. 3 -> Nat] /\ Steps(QuarterOf(id))'
<1>1. QuarterOf(id) \in 0 .. 3 /\ NextQuarter(QuarterOf(id)) \in 0 .. 3
      /\ NextQuarter(QuarterOf(id)) # QuarterOf(id)
  BY QuarterOfType DEF NextQuarter
<1>2. quarters[QuarterOf(id)] + Quarter \in Nat
  BY <1>1, QuarterTypes
<1> QED BY <1>1, <1>2 DEF Advance, Steps

\* In a settled quarter nothing moves.
LEMMA AdvanceNothing ==
  ASSUME NEW id \in Ids, quarters \in [0 .. 3 -> Nat], Steps(QuarterOf(id)), Advance(id)
  PROVE  quarters' = quarters
BY QuarterOfType DEF Advance, Steps

\* A message in this quarter or in the one after it moves neither.
LEMMA AdvanceSettles ==
  ASSUME NEW id \in Ids, NEW p \in 0 .. 3, quarters \in [0 .. 3 -> Nat], Settled(p), Advance(id),
         QuarterOf(id) \in {p, NextQuarter(p)}
  PROVE  /\ Settled(p)' /\ Settled(QuarterOf(id))'
         /\ quarters'[p] = quarters[p] /\ quarters'[QuarterOf(id)] = quarters[QuarterOf(id)]
<1> DEFINE q == QuarterOf(id)
<1>1. q \in 0 .. 3 /\ quarters' = [quarters EXCEPT ![NextQuarter(q)] = quarters[q] + Quarter]
  BY QuarterOfType DEF Advance
<1> HIDE DEF q
<1>2. q \in {p, NextQuarter(p)}
  BY DEF q
<1>3. Settled(p)' /\ Settled(q)' /\ quarters'[p] = quarters[p] /\ quarters'[q] = quarters[q]
  BY <1>1, <1>2, QuarterTypes DEF Settled, Steps, NextQuarter
<1> QED BY <1>3 DEF q

-----------------------------------------------------------------------------
(* Distances of ids *)

\* Messages that were constructed within the bounds on the network and the traffic are
\* less than a quarter apart.
LEMMA NearBy ==
  ASSUME InTimeAssumption, QuartersAssumption, NEW id \in Ids, id > Reserved,
         NEW k \in Nat, NEW l \in Nat, k <= l, l - k < Gap, l < Cycle
  PROVE  /\ IdBack(id, k) \in Ids /\ IdBack(id, l) \in Ids
         /\ Diff(IdBack(id, k), IdBack(id, l)) \in 0 .. Quarter
         /\ Diff(IdBack(id, k), IdBack(id, l)) >= l - k
         /\ Diff(IdBack(id, k), IdBack(id, l)) <= l - k + Reserved + 1
<1>1. Cycle \in Nat /\ k \in 0 .. Cycle - 1 /\ l \in 0 .. Cycle - 1
  BY CycleCovers
<1>2. /\ IdBack(id, k) \in Ids /\ IdBack(id, l) \in Ids
      /\ IdBack(id, k) \in Nat /\ IdBack(id, l) \in Nat
  BY <1>1, IdBackType, ConstantTypes DEF Ids
<1>3. /\ Diff(IdBack(id, k), IdBack(id, l)) >= l - k
      /\ Diff(IdBack(id, k), IdBack(id, l)) <= l - k + Reserved + 1
      /\ k = l => Diff(IdBack(id, k), IdBack(id, l)) = 0
  BY <1>1, ConstantTypes DEF IdBack, Diff, Cycle, Ids
<1>4. Diff(IdBack(id, k), IdBack(id, l)) \in Int
  BY <1>2, ConstantTypes DEF Diff
<1>5. Diff(IdBack(id, k), IdBack(id, l)) <= Quarter
  <2>1. CASE k = l
    BY <1>3, <2>1, QuarterTypes
  <2>2. CASE k < l
    BY <1>3, <1>4, <2>2, ConstantTypes, QuarterTypes DEF QuartersAssumption
  <2> QED BY <2>1, <2>2
<1> QED BY <1>1, <1>2, <1>3, <1>4, <1>5

\* On one trip round the ids, distances add up, and are larger to what is older.
LEMMA DiffAdds ==
  ASSUME NEW id \in Ids, id > Reserved, NEW j \in 0 .. Cycle - 1, NEW k \in 0 .. Cycle - 1,
         NEW l \in 0 .. Cycle - 1, j <= k, k <= l
  PROVE  Diff(IdBack(id, j), IdBack(id, l))
           = Diff(IdBack(id, j), IdBack(id, k)) + Diff(IdBack(id, k), IdBack(id, l))
BY ConstantTypes DEF IdBack, Diff, Cycle, Ids

LEMMA DiffGrows ==
  ASSUME NEW id \in Ids, id > Reserved, NEW j \in 0 .. Cycle - 1, NEW k \in 0 .. Cycle - 1,
         NEW l \in 0 .. Cycle - 1, j <= k, k < l
  PROVE  Diff(IdBack(id, j), IdBack(id, k)) < Diff(IdBack(id, j), IdBack(id, l))
BY ConstantTypes DEF IdBack, Diff, Cycle, Ids

-----------------------------------------------------------------------------
(* The link below *)

\* Every step is one of the link or changes nothing of it.
LEMMA NextIsLink == ASSUME [IdsNext]_allVars PROVE [Next]_vars
<1>1. ASSUME NEW m \in data, ReceiveExpanded(m) PROVE Next
  BY <1>1 DEF ReceiveExpanded, Next, ReceiverNext
<1>2. ASSUME NEW m \in data, DropBeforeLogin(m) PROVE UNCHANGED vars
  BY <1>2 DEF DropBeforeLogin
<1>3. CASE ReceiveUnacked
  BY <1>3 DEF ReceiveUnacked
<1>4. CASE SenderNext \/ AckingNext \/ NetworkNext
  BY <1>4 DEF AckingNext, Next, ReceiverNext
<1>5. CASE UNCHANGED allVars
  BY <1>5 DEF allVars
<1> QED BY <1>1, <1>2, <1>3, <1>4, <1>5 DEF IdsNext

\* The expander watches the link and changes nothing of it, so that all that is proved of
\* ReliableLink is true of the two together.
THEOREM ExpanderOnlyWatches == IdsSpec => Spec
<1>1. IdsInit => Init
  BY DEF IdsInit
<1>2. [IdsNext]_allVars => [Next]_vars
  BY NextIsLink
<1> QED BY <1>1, <1>2, PTL DEF IdsSpec, Spec

\* What the steps that expand no id do to what the numbers depend on.
LEMMA OtherSteps ==
  ASSUME SenderNext \/ AckingNext \/ NetworkNext
  PROVE  \/ CloseReceiver
         \/ /\ UNCHANGED <<ropen, login_succeeded, highest_ack, highest_n, accepted>>
            /\ \/ UNCHANGED <<created, current_id>> /\ Copies' \subseteq Copies
               \/ Construct /\ Copies' \subseteq Copies \cup {NextMessage}
<1> DEFINE Stays == UNCHANGED <<ropen, login_succeeded, highest_ack, highest_n, accepted>>
           Same == UNCHANGED <<created, current_id>> /\ Copies' \subseteq Copies
           More == Construct /\ Copies' \subseteq Copies \cup {NextMessage}
<1>1. Survivors \subseteq data
  BY DEF Survivors
<1>2. CASE SkipMessage \/ Send
  BY <1>1, <1>2 DEF SkipMessage, Send, recvVars, Copies
<1>3. ASSUME NEW wait \in BOOLEAN, SendSync(wait) PROVE Stays /\ More
  BY <1>1, <1>3 DEF SendSync, Await, recvVars, Copies
<1>4. CASE QueueOverflow \/ Kick
  BY <1>4 DEF QueueOverflow, Kick, CloseSender, recvVars, Copies
<1>5. ASSUME NEW m \in send_queue, ExecutePlanned(m) PROVE Stays /\ Same
  BY <1>5 DEF ExecutePlanned, Await, recvVars, Copies
<1>6. ASSUME NEW m \in pending, Resend(m) PROVE Stays /\ Same
  BY <1>6 DEF Resend, CloseSender, recvVars, Copies
<1>7. ASSUME NEW A \in acks, ReceiveAck(A) PROVE Stays /\ Same
  BY <1>7 DEF ReceiveAck, recvVars, Copies
<1>8. CASE SendAcks
  BY <1>8 DEF SendAcks, sendVars, Copies
<1>9. ASSUME NEW A \in ackQueue, ExecuteQueuedAcks(A) PROVE Stays /\ Same
  BY <1>9 DEF ExecuteQueuedAcks, sendVars, Copies
<1>10. ASSUME NEW m \in data, LoseData(m) PROVE Stays /\ Same
  BY <1>10 DEF LoseData, sendVars, recvVars, Copies
<1>11. ASSUME NEW A \in acks, LoseAcks(A) PROVE Stays /\ Same
  BY <1>11 DEF LoseAcks, sendVars, recvVars, Copies
<1>12. CASE DropLeft
  BY <1>12 DEF DropLeft, recvVars, Copies
<1> QED BY <1>2, <1>3, <1>4, <1>5, <1>6, <1>7, <1>8, <1>9, <1>10, <1>11, <1>12
        DEF SenderNext, AckingNext, NetworkNext

\* How far back in time the numbers of a receiver that has accepted something go.
LEMMA Past ==
  ASSUME InTimeAssumption, TypeOK, InvOnce, ropen, highest_ack # 0
  PROVE  /\ highest_n \in 1 .. created /\ created - highest_n < Gap /\ created - highest_n < Cycle
         /\ highest_ack = IdBack(current_id, created - highest_n) /\ highest_ack \in Ids
         /\ current_id \in Ids /\ current_id > Reserved /\ created \in Nat
         /\ accepted \in Seq(Ns)
         /\ \A i \in DOMAIN accepted : accepted[i] \in 1 .. highest_n
<1>1. /\ created \in Nat /\ current_id \in Ids /\ highest_ack \in Ids /\ accepted \in Seq(Ns)
      /\ highest_n \in RangeOf(accepted) /\ \A i \in DOMAIN accepted : accepted[i] <= highest_n
      /\ created - highest_n < Gap /\ highest_ack = Back(created - highest_n)
  BY DEF TypeOK, InvOnce, InvHighest
<1>2. \A i \in DOMAIN accepted : accepted[i] \in 1 .. created
  BY AcceptedInPast DEF InvOnce
<1>3. highest_n \in 1 .. created
  BY <1>1, <1>2 DEF RangeOf
<1>4. created - highest_n < Cycle
  BY <1>1, <1>3, CycleCovers, ConstantTypes
<1> QED BY <1>1, <1>2, <1>3, <1>4 DEF Back, InvOnce, InvIds

\* One more message leaves the distances as they are.
LEMMA ConstructBigs ==
  ASSUME InTimeAssumption, TypeOK, InvOnce, InvBigs, Construct,
         UNCHANGED <<ropen, highest_ack, highest_n, accepted, idVars>>
  PROVE  InvBigs'
<1> SUFFICES ASSUME ropen, highest_ack # 0, NEW i \in DOMAIN accepted,
                    created' - accepted[i] < Cycle
             PROVE  /\ IdBack(current_id', created' - accepted[i])
                          = IdBack(current_id, created - accepted[i])
                    /\ created - accepted[i] < Cycle
  BY DEF InvBigs, idVars, Expanded, Back
<1>1. /\ created \in Nat /\ created' = created + 1 /\ current_id' = NextId(current_id)
      /\ current_id \in Ids /\ current_id > Reserved /\ accepted[i] \in 1 .. created
  <2>1. accepted[i] \in 1 .. highest_n /\ highest_n \in 1 .. created
    BY Past
  <2> QED BY <2>1, Past DEF Construct
<1>2. created - accepted[i] \in Nat /\ created' - accepted[i] = created - accepted[i] + 1
  BY <1>1
<1>3. created - accepted[i] + 1 < Cycle /\ Cycle \in Nat
  BY <1>2, CycleCovers
<1> QED BY <1>1, <1>2, <1>3, IdBackStep

\* The steps that expand no id.
LEMMA OtherStepsExpanded ==
  ASSUME InTimeAssumption, TypeOK, InvOnce, InvExpanded, UNCHANGED idVars,
         SenderNext \/ AckingNext \/ NetworkNext
  PROVE  InvExpanded'
<1> USE DEF InvExpanded
<1>1. CASE CloseReceiver
  BY <1>1 DEF CloseReceiver, InvIdTypes, InvLogin, InvBefore, InvSettled, InvBigs,
              ExpandedInOrder, idVars
<1>2. ASSUME UNCHANGED <<ropen, login_succeeded, highest_ack, highest_n, accepted>>
      PROVE  InvIdTypes' /\ InvLogin' /\ ExpandedInOrder'
  BY <1>2 DEF InvIdTypes, InvLogin, ExpandedInOrder, idVars
<1>3. ASSUME UNCHANGED <<ropen, login_succeeded, highest_ack, highest_n, accepted>>,
             UNCHANGED <<created, current_id>>, Copies' \subseteq Copies
      PROVE  InvBefore' /\ InvSettled' /\ InvBigs'
  <2>1. InvBefore' /\ InvSettled'
    BY <1>3 DEF InvBefore, InvSettled, Settled, Steps, idVars
  <2>2. InvBigs'
    BY <1>3 DEF InvBigs, Expanded, Back, idVars
  <2> QED BY <2>1, <2>2
<1>4. ASSUME UNCHANGED <<ropen, login_succeeded, highest_ack, highest_n, accepted>>,
             Construct, Copies' \subseteq Copies \cup {NextMessage}
      PROVE  InvBefore' /\ InvSettled' /\ InvBigs'
  <2>1. created \in Nat /\ created' = created + 1
    BY <1>4 DEF TypeOK, Construct
  <2>2. InvBefore'
    <3> SUFFICES ASSUME ropen, ToClient, highest_ack = 0, NEW m \in Copies', m.n = 1,
                        QuarterOf(m.id) = 1
                 PROVE  Steps(0)
      BY <1>4, <2>1 DEF InvBefore, Steps, idVars
    <3>1. CASE m \in Copies
      BY <3>1 DEF InvBefore
    <3>2. CASE m = NextMessage
      BY <2>1, <3>2 DEF InvBefore, NextMessage
    <3> QED BY <1>4, <3>1, <3>2
  <2>3. InvSettled'
    <3> SUFFICES ASSUME ropen, highest_ack # 0, NEW m \in Copies', m.n <= highest_n
                 PROVE  Settled(QuarterOf(m.id))
      BY <1>4 DEF InvSettled, Settled, Steps, idVars
    <3>1. m # NextMessage
      BY Past DEF NextMessage
    <3> QED BY <1>4, <3>1 DEF InvSettled
  <2> QED BY <1>4, <2>2, <2>3, ConstructBigs
<1> QED BY <1>1, <1>2, <1>3, <1>4, OtherSteps

-----------------------------------------------------------------------------
(* Messages that are not handled *)

\* The id 0 moves a quarter that is of no concern at the time.
LEMMA ZeroSettles ==
  ASSUME quarters \in [0 .. 3 -> Nat], Advance(0), NEW p \in 0 .. 3, Settled(p)
  PROVE  Settled(p)' /\ quarters'[p] = quarters[p]
<1>1. QuarterOf(0) = 0 /\ NextQuarter(0) = 1
  BY QuarterTypes DEF QuarterOf, NextQuarter
<1>2. quarters' = [quarters EXCEPT ![1] = quarters[0] + Quarter]
  BY <1>1 DEF Advance
<1>3. CASE Steps(0)
  BY <1>1, <1>2, <1>3 DEF Steps, Settled
<1>4. CASE ~Steps(0)
  <2>1. p \in {2, 3}
    BY <1>4 DEF Settled
  <2> QED BY <1>2, <2>1 DEF Settled, Steps, NextQuarter
<1> QED BY <1>3, <1>4

LEMMA UnackedExpanded ==
  ASSUME InTimeAssumption, TypeOK, InvOnce, InvExpanded, ReceiveUnacked
  PROVE  InvExpanded'
<1>1. /\ quarters \in [0 .. 3 -> Nat] /\ Advance(0) /\ 0 \in Ids /\ QuarterOf(0) = 0
      /\ UNCHANGED <<vars, bigs>>
  BY ConstantTypes, QuarterTypes DEF InvExpanded, InvIdTypes, ReceiveUnacked, QuarterOf
<1>2. /\ UNCHANGED <<ropen, login_succeeded, highest_ack, highest_n, accepted, created,
                    current_id, send_queue, pending, data, bigs>>
      /\ Copies' = Copies
  BY <1>1 DEF vars, recvVars, sendVars, Copies
<1>3. quarters' \in [0 .. 3 -> Nat] /\ Steps(0)'
  BY <1>1, AdvanceType
<1>4. InvIdTypes' /\ InvLogin' /\ ExpandedInOrder' /\ InvBefore'
  BY <1>2, <1>3 DEF InvExpanded, InvIdTypes, InvLogin, ExpandedInOrder, InvBefore
<1>5. ASSUME NEW m \in Copies PROVE QuarterOf(m.id) \in 0 .. 3
  BY QuarterOfType DEF TypeOK, Copies, Messages
<1>6. InvSettled'
  <2> SUFFICES ASSUME ropen, highest_ack # 0
               PROVE  /\ Settled(QuarterOf(highest_ack))'
                      /\ \A m \in Copies : m.n <= highest_n => Settled(QuarterOf(m.id))'
    BY <1>2 DEF InvSettled, Settled, Steps
  <2>1. QuarterOf(highest_ack) \in 0 .. 3
    BY QuarterOfType DEF TypeOK
  <2> QED BY <1>1, <1>2, <1>5, <2>1, ZeroSettles DEF InvExpanded, InvSettled
<1>7. InvBigs'
  <2> SUFFICES ASSUME ropen, highest_ack # 0 PROVE InvBigs'
    BY <1>2 DEF InvBigs
  <2>1. QuarterOf(highest_ack) \in 0 .. 3 /\ Settled(QuarterOf(highest_ack))
    BY QuarterOfType DEF TypeOK, InvExpanded, InvSettled
  <2>2. quarters'[QuarterOf(highest_ack)] = quarters[QuarterOf(highest_ack)]
    BY <1>1, <2>1, ZeroSettles
  <2> QED BY <1>2, <2>2 DEF InvExpanded, InvBigs, Expanded, Back
<1> QED BY <1>4, <1>6, <1>7 DEF InvExpanded

\* Copies are not far from each other.
LEMMA CopiesNear ==
  ASSUME InTimeAssumption, QuartersAssumption, TypeOK, InvOnce,
         NEW m \in Copies, NEW x \in Copies, x.n <= m.n
  PROVE  m.id \in Ids /\ x.id \in Ids /\ Diff(m.id, x.id) \in 0 .. Quarter
<1> DEFINE k == created - m.n
           l == created - x.n
<1>1. /\ Recent(m) /\ Recent(x) /\ current_id \in Ids /\ created \in Nat
      /\ m.n \in 1 .. created /\ x.n \in 1 .. created /\ current_id > Reserved
  BY DEF InvOnce, InvCopies, InvIds, TypeOK, Recent
<1>2. k \in Nat /\ l \in Nat /\ k <= l /\ l < Span /\ l - k < Gap /\ l < Cycle
  BY <1>1, CycleCovers, ConstantTypes DEF Recent, InTimeAssumption
<1>3. m.id = IdBack(current_id, k) /\ x.id = IdBack(current_id, l)
  BY <1>1 DEF Recent, Back
<1> QED BY <1>1, <1>2, <1>3, NearBy

LEMMA DropExpanded ==
  ASSUME InTimeAssumption, QuartersAssumption, TypeOK, InvOnce, InvExpanded,
         NEW m \in data, DropBeforeLogin(m)
  PROVE  InvExpanded'
<1>1. /\ quarters \in [0 .. 3 -> Nat] /\ Advance(m.id) /\ m.id \in Ids /\ m \in Copies
      /\ UNCHANGED <<vars, bigs>> /\ ropen /\ ~login_succeeded /\ m.n \in 1 .. created
  BY DEF InvExpanded, InvIdTypes, DropBeforeLogin, TypeOK, Messages, Copies, InvOnce,
         InvCopies, Recent
<1>2. /\ UNCHANGED <<ropen, login_succeeded, highest_ack, highest_n, accepted, created,
                    current_id, send_queue, pending, data, bigs>>
      /\ Copies' = Copies
  BY <1>1 DEF vars, recvVars, sendVars, Copies
<1>3. ToClient /\ highest_ack = 0 /\ created \in Nat \ {0}
  BY <1>1 DEF InvExpanded, InvLogin, TypeOK
<1>4. quarters' \in [0 .. 3 -> Nat]
  BY <1>1, AdvanceType
<1>5. InvIdTypes' /\ InvLogin' /\ ExpandedInOrder' /\ InvSettled' /\ InvBigs'
  BY <1>2, <1>3, <1>4
  DEF InvExpanded, InvIdTypes, InvLogin, ExpandedInOrder, InvSettled, InvBigs
<1>6. InvBefore'
  <2> SUFFICES ASSUME NEW x \in Copies, x.n = 1, QuarterOf(x.id) = 1 PROVE Steps(0)'
    BY <1>2, <1>3 DEF InvBefore
  <2>1. Steps(0)
    BY <1>1, <1>3 DEF InvExpanded, InvBefore
  <2>2. m.id \in Ids /\ x.id \in Ids /\ Diff(m.id, x.id) \in 0 .. Quarter
    BY <1>1, <1>3, CopiesNear
  <2>3. QuarterOf(m.id) \in {1, 2}
    BY <2>2, SameOrNext DEF NextQuarter
  <2> QED BY <1>1, <2>1, <2>3 DEF Advance, Steps, NextQuarter
<1> QED BY <1>5, <1>6 DEF InvExpanded

-----------------------------------------------------------------------------
(* Messages that may be handled *)

LEMMA ReceiveFacts ==
  ASSUME InTimeAssumption, TypeOK, InvOnce, InvExpanded, NEW m \in data, ReceiveExpanded(m)
  PROVE  /\ quarters \in [0 .. 3 -> Nat] /\ quarters' \in [0 .. 3 -> Nat] /\ Advance(m.id)
         /\ Recent(m) /\ m \in Copies /\ m.n \in 1 .. created /\ m.n \in Ns /\ created - m.n < Span
         /\ m.id \in Ids /\ m.id > Reserved /\ m.id = IdBack(current_id, created - m.n)
         /\ created \in Nat /\ current_id \in Ids /\ current_id > Reserved
         /\ ropen /\ ropen' /\ (login_succeeded \/ IsLogin(m))
         /\ UNCHANGED <<created, current_id, send_queue, pending, data>> /\ Copies' = Copies
         /\ QuarterOf(m.id) \in 0 .. 3 /\ Expanded(m.id) \in Nat
<1>1. m \in Messages /\ m \in Copies /\ created \in Nat /\ current_id \in Ids
      /\ quarters \in [0 .. 3 -> Nat]
  BY DEF TypeOK, Copies, InvExpanded, InvIdTypes
<1>2. m.n \in Ns /\ m.id \in Ids
  BY <1>1 DEF Messages
<1>3. Recent(m)
  BY <1>1 DEF InvOnce, InvCopies
<1>4. m.n \in 1 .. created /\ created - m.n < Span /\ m.id = IdBack(current_id, created - m.n)
      /\ current_id > Reserved
  BY <1>1, <1>3 DEF Recent, Back, InvOnce, InvIds
<1>5. created - m.n \in 0 .. Cycle - 1
  BY <1>1, <1>4, CycleCovers, ConstantTypes
<1>6. m.id > Reserved
  BY <1>1, <1>4, <1>5, IdBackType, ConstantTypes
<1>7. /\ Receive(m) /\ Advance(m.id) /\ ropen /\ ropen' /\ (login_succeeded \/ IsLogin(m))
      /\ UNCHANGED <<created, current_id, send_queue, pending, data>> /\ Copies' = Copies
  BY DEF ReceiveExpanded, Receive, sendVars, Copies
<1>8. quarters' \in [0 .. 3 -> Nat] /\ QuarterOf(m.id) \in 0 .. 3
  BY <1>1, <1>2, <1>7, AdvanceType, QuarterOfType
<1>9. Expanded(m.id) \in Nat
  <2>1. m.id - QuarterOf(m.id) * Quarter \in Nat
    BY <1>2, ConstantTypes, QuarterTypes DEF Ids, QuarterOf
  <2> QED BY <1>1, <1>8, <2>1 DEF Expanded
<1> QED BY <1>1, <1>2, <1>3, <1>4, <1>6, <1>7, <1>8, <1>9

\* The histories after a message was handled.
LEMMA Appended ==
  ASSUME TypeOK, InvIdTypes, NEW m \in data, ReceiveExpanded(m), IsNew(m), Expanded(m.id) \in Nat,
         NEW n, n = Len(accepted) + 1
  PROVE  /\ Len(accepted) \in Nat /\ DOMAIN accepted = 1 .. Len(accepted)
         /\ DOMAIN accepted' = 1 .. n /\ n \notin DOMAIN accepted
         /\ accepted'[n] = m.n /\ bigs'[n] = Expanded(m.id)
         /\ \A i \in DOMAIN accepted : /\ accepted'[i] = accepted[i] /\ bigs'[i] = bigs[i]
                                       /\ bigs[i] \in Nat /\ accepted[i] \in Nat
         /\ bigs' \in Seq(Nat) /\ Len(bigs') = Len(accepted')
<1>1. accepted \in Seq(Ns) /\ bigs \in Seq(Nat) /\ Len(bigs) = Len(accepted) /\ m.n \in Ns
  BY DEF TypeOK, InvIdTypes, Messages
<1>2. accepted' = Append(accepted, m.n) /\ bigs' = Append(bigs, Expanded(m.id))
  BY DEF ReceiveExpanded, Receive, Accept
<1>3. Ns \subseteq Nat
  BY ConstantTypes DEF Ns
<1>4. /\ Len(accepted) \in Nat /\ DOMAIN accepted = 1 .. Len(accepted)
      /\ DOMAIN accepted' = 1 .. n /\ accepted'[n] = m.n
      /\ \A i \in 1 .. Len(accepted) : accepted'[i] = accepted[i] /\ accepted[i] \in Ns
  BY <1>1, <1>2
<1>5. /\ bigs' \in Seq(Nat) /\ Len(bigs') = Len(accepted) + 1 /\ bigs'[n] = Expanded(m.id)
      /\ \A i \in 1 .. Len(accepted) : bigs'[i] = bigs[i] /\ bigs[i] \in Nat
  <2> DEFINE e == Expanded(m.id)
  <2> HIDE DEF e
  <2>1. bigs' = Append(bigs, e) /\ e \in Nat
    BY <1>2 DEF e
  <2>2. /\ bigs' \in Seq(Nat) /\ Len(bigs') = Len(accepted) + 1 /\ bigs'[n] = e
        /\ \A i \in 1 .. Len(accepted) : bigs'[i] = bigs[i] /\ bigs[i] \in Nat
    BY <1>1, <2>1
  <2> QED BY <2>2 DEF e
<1>6. Len(accepted') = Len(accepted) + 1
  BY <1>1, <1>2
<1>7. n \notin 1 .. Len(accepted) /\ Len(bigs') = Len(accepted')
  BY <1>4, <1>5, <1>6
<1>8. \A i \in DOMAIN accepted : /\ accepted'[i] = accepted[i] /\ bigs'[i] = bigs[i]
                                 /\ bigs[i] \in Nat /\ accepted[i] \in Nat
  BY <1>3, <1>4, <1>5
<1> QED BY <1>4, <1>5, <1>7, <1>8

\* The first message that is handled sets the quarters right.
LEMMA FirstExpanded ==
  ASSUME InTimeAssumption, QuartersAssumption, TypeOK, TypeOK', InvOnce, InvExpanded,
         NEW m \in data, ReceiveExpanded(m), highest_ack = 0
  PROVE  InvExpanded'
<1> DEFINE q == QuarterOf(m.id)
<1>1. /\ accepted = <<>> /\ MoreRecent(m) /\ IsNew(m)
      /\ highest_ack' = m.id /\ highest_n' = m.n /\ highest_ack' # 0
      /\ login_succeeded' = (login_succeeded \/ IsLogin(m))
  <2>1. accepted = <<>> /\ MoreRecent(m)
    BY ReceiveFacts, FirstIsMoreRecent DEF InvOnce, InvHighest
  <2>2. highest_ack' = m.id /\ highest_n' = m.n /\ IsNew(m) /\ Accept(m)
    BY <2>1 DEF IsNew, ReceiveExpanded, Receive
  <2> QED BY <2>1, <2>2, ReceiveFacts, ConstantTypes DEF Accept
<1>2. /\ DOMAIN accepted' = {1} /\ accepted'[1] = m.n /\ bigs'[1] = Expanded(m.id)
      /\ bigs' \in Seq(Nat) /\ Len(bigs') = Len(accepted')
  <2>1. 1 = Len(accepted) + 1 /\ InvIdTypes /\ Expanded(m.id) \in Nat
    BY <1>1, ReceiveFacts DEF InvExpanded
  <2>2. 1 .. 1 = {1}
    OBVIOUS
  <2> QED BY <1>1, <2>1, <2>2, Appended
<1>3. \A x \in Copies : x.n <= m.n => QuarterOf(x.id) = q
  <2> SUFFICES ASSUME NEW x \in Copies, x.n <= m.n PROVE QuarterOf(x.id) = q
    OBVIOUS
  <2>1. CASE ToClient
    <3>1. ~login_succeeded /\ IsLogin(m)
      BY <2>1, ReceiveFacts DEF InvOnce, InvHighest
    <3>2. Recent(x) /\ Recent(m) /\ x.n = m.n
      BY <3>1, ReceiveFacts DEF InvOnce, InvCopies, IsLogin, Recent
    <3> QED BY <3>2 DEF Recent
  <2>2. CASE ~ToClient
    <3>1. \A y \in Copies : y.id \in Ids /\ y.id <= FirstIdBound
      BY <2>2, ReceiveFacts DEF InvOnce, InvCopies, TypeOK, Copies, Messages
    <3>2. \A y \in Copies : QuarterOf(y.id) = 0
      BY <3>1, ConstantTypes, QuarterTypes DEF QuarterOf, QuartersAssumption, Ids
    <3> QED BY <3>2, ReceiveFacts
  <2> QED BY <2>1, <2>2
<1>4. Settled(q)'
  <2>1. Steps(q)'
    BY ReceiveFacts, AdvanceType
  <2>2. ASSUME q = 1 PROVE Steps(0)'
    <3>1. ToClient /\ IsLogin(m)
      <4>1. ~ToClient => q = 0
        BY ReceiveFacts, ConstantTypes, QuarterTypes
        DEF InvOnce, InvCopies, QuarterOf, QuartersAssumption, Ids
      <4> QED BY <2>2, <4>1, ReceiveFacts DEF InvOnce, InvHighest
    <3>2. Steps(0)
      BY <2>2, <3>1, ReceiveFacts DEF InvExpanded, InvBefore, IsLogin
    <3> QED BY <2>2, <3>2, ReceiveFacts DEF Advance, Steps, NextQuarter
  <2> QED BY <1>1, <2>1, <2>2 DEF Settled, Steps
<1>5. InvSettled'
  BY <1>1, <1>3, <1>4, ReceiveFacts DEF InvSettled, Settled, Steps
<1>6. InvBigs'
  <2>1. quarters'[q] = quarters[q]
    BY ReceiveFacts DEF Advance, NextQuarter
  <2>2. Diff(m.id, m.id) = 0
    BY ReceiveFacts DEF Diff, Ids
  <2>3. bigs'[1] + Diff(m.id, IdBack(current_id, created - m.n)) = Expanded(m.id)
        /\ bigs'[1] + (m.n - m.n) <= Expanded(m.id)
    BY <1>2, <2>2, ReceiveFacts
  <2>4. quarters'[q] + (m.id - q * Quarter) = Expanded(m.id)
    BY <2>1 DEF Expanded
  <2> QED BY <1>1, <1>2, <2>3, <2>4, ReceiveFacts DEF InvBigs, Expanded, Back
<1>7. InvIdTypes' /\ InvLogin' /\ InvBefore'
  BY <1>1, <1>2, ReceiveFacts DEF InvIdTypes, InvLogin, InvBefore
<1>8. ExpandedInOrder'
  <2>1. m.n \in Nat
    BY ReceiveFacts DEF Ns
  <2> QED BY <1>2, <2>1 DEF ExpandedInOrder
<1> QED BY <1>5, <1>6, <1>7, <1>8 DEF InvExpanded

\* A message newer than all before takes the numbers ahead.
LEMMA NewestExpanded ==
  ASSUME InTimeAssumption, QuartersAssumption, TypeOK, InvOnce, InvExpanded,
         NEW m \in data, ReceiveExpanded(m), highest_ack # 0, m.n > highest_n
  PROVE  InvExpanded'
<1> DEFINE q == QuarterOf(m.id)
           d == Diff(m.id, highest_ack)
           n == Len(accepted) + 1
<1>1. /\ highest_n \in 1 .. created /\ created - highest_n < Gap /\ created - highest_n < Cycle
      /\ highest_ack = IdBack(current_id, created - highest_n) /\ highest_ack \in Ids
      /\ current_id \in Ids /\ current_id > Reserved /\ created \in Nat
      /\ \A i \in DOMAIN accepted : accepted[i] \in 1 .. highest_n
  BY ReceiveFacts, Past
<1>2. /\ MoreRecent(m) /\ IsNew(m) /\ highest_ack' = m.id /\ highest_n' = m.n
      /\ highest_ack' # 0 /\ login_succeeded' = (login_succeeded \/ IsLogin(m))
  <2>1. MoreRecent(m)
    BY ReceiveFacts, MoreRecentIsNewer
  <2>2. highest_ack' = m.id /\ highest_n' = m.n /\ IsNew(m) /\ Accept(m)
    BY <2>1 DEF IsNew, ReceiveExpanded, Receive
  <2> QED BY <2>1, <2>2, ReceiveFacts, ConstantTypes DEF Accept
<1>3. d \in 0 .. Quarter /\ d >= m.n - highest_n
  <2> DEFINE k == created - m.n
             l == created - highest_n
  <2>1. k \in Nat /\ l \in Nat /\ k <= l /\ l - k < Gap /\ l < Cycle /\ l - k = m.n - highest_n
        /\ m.id = IdBack(current_id, k)
    BY <1>1, ReceiveFacts, ConstantTypes
  <2> HIDE DEF k, l
  <2>2. highest_ack = IdBack(current_id, l)
    BY <1>1 DEF l
  <2> QED BY <1>1, <2>1, <2>2, NearBy
<1> PICK p \in 0 .. 3 : p = QuarterOf(highest_ack)
  BY <1>1, QuarterOfType
<1>4. q \in 0 .. 3 /\ q \in {p, NextQuarter(p)} /\ Settled(p)
  BY <1>1, <1>3, ReceiveFacts, QuarterOfType, SameOrNext DEF InvExpanded, InvSettled
<1>5. Settled(p)' /\ Settled(q)' /\ quarters'[q] = quarters[q]
  <2>1. m.id \in Ids /\ quarters \in [0 .. 3 -> Nat] /\ Advance(m.id)
    BY ReceiveFacts
  <2> QED BY <1>4, <2>1, AdvanceSettles
<1>6. Expanded(m.id) = Expanded(highest_ack) + d
  BY <1>1, <1>3, <1>4, ReceiveFacts, ExpandedAhead DEF Settled
<1>7. Expanded(highest_ack) \in Int /\ Expanded(m.id) \in Int /\ m.n \in Nat
  <2>1. quarters[QuarterOf(highest_ack)] \in Nat /\ highest_ack \in Nat
    BY <1>1, ReceiveFacts, ConstantTypes DEF Ids
  <2>2. QuarterOf(highest_ack) * Quarter \in Nat
    BY QuarterTypes
  <2> QED BY <2>1, <2>2, ReceiveFacts DEF Expanded, Ns
<1> HIDE DEF q, d, n
<1>8. InvSettled'
  <2>1. ASSUME NEW x \in Copies, x.n <= m.n PROVE Settled(QuarterOf(x.id))'
    <3> DEFINE r == QuarterOf(x.id)
    <3>1. /\ m.id \in Ids /\ x.id \in Ids /\ Diff(m.id, x.id) \in 0 .. Quarter
          /\ r \in 0 .. 3
      BY <2>1, ReceiveFacts, CopiesNear, QuarterOfType
    <3>2. q \in {r, NextQuarter(r)}
      BY <3>1, SameOrNext DEF q
    <3>3. CASE x.n <= highest_n
      <4>1. Settled(r)
        BY <3>3, ReceiveFacts DEF InvExpanded, InvSettled
      <4> QED BY <3>1, <3>2, <4>1, ReceiveFacts, AdvanceSettles DEF q
    <3>4. CASE x.n > highest_n
      <4> DEFINE k == created - x.n
                 l == created - highest_n
      <4>1. x.n \in 1 .. created /\ x.id = IdBack(current_id, k)
        BY DEF InvOnce, InvCopies, Recent, Back
      <4>2. k \in Nat /\ l \in Nat /\ k <= l /\ l - k < Gap /\ l < Cycle
        BY <1>1, <3>4, <4>1, ConstantTypes
      <4> HIDE DEF k, l
      <4>3. highest_ack = IdBack(current_id, l)
        BY <1>1 DEF l
      <4>4. Diff(x.id, highest_ack) \in 0 .. Quarter
        BY <1>1, <4>1, <4>2, <4>3, NearBy
      <4>5. r \in {p, NextQuarter(p)}
        BY <1>1, <3>1, <4>4, SameOrNext
      <4>6. r \in {p, q}
        <5> HIDE DEF r
        <5> QED BY <1>4, <3>1, <3>2, <4>5 DEF NextQuarter
      <4> QED BY <1>5, <4>6
    <3> QED BY <1>1, <3>3, <3>4, ReceiveFacts DEF InvOnce, InvCopies, Recent
  <2> QED BY <1>2, <1>5, <2>1, ReceiveFacts DEF InvSettled, q, Settled, Steps
<1>9. /\ DOMAIN accepted' = DOMAIN accepted \cup {n} /\ n \notin DOMAIN accepted
      /\ accepted'[n] = m.n /\ bigs'[n] = Expanded(m.id)
      /\ \A i \in DOMAIN accepted : /\ accepted'[i] = accepted[i] /\ bigs'[i] = bigs[i]
                                    /\ bigs[i] \in Nat /\ accepted[i] \in Nat
      /\ bigs' \in Seq(Nat) /\ Len(bigs') = Len(accepted')
  <2>1. n = Len(accepted) + 1 /\ InvIdTypes /\ Expanded(m.id) \in Nat
    BY ReceiveFacts DEF n, InvExpanded
  <2>2. Len(accepted) \in Nat => 1 .. n = (1 .. Len(accepted)) \cup {n}
    BY DEF n
  <2> QED BY <1>2, <2>1, <2>2, Appended
<1>10. \A i \in DOMAIN accepted :
         /\ created - accepted[i] < Cycle
              => bigs[i] + Diff(highest_ack, IdBack(current_id, created - accepted[i]))
                   = Expanded(highest_ack)
         /\ bigs[i] + (highest_n - accepted[i]) <= Expanded(highest_ack)
  BY ReceiveFacts DEF InvExpanded, InvBigs, Back
<1>11. \A i \in DOMAIN accepted :
         created - accepted[i] < Cycle =>
           bigs[i] + Diff(m.id, IdBack(current_id, created - accepted[i])) = Expanded(m.id)
  <2> SUFFICES ASSUME NEW i \in DOMAIN accepted, created - accepted[i] < Cycle
               PROVE  bigs[i] + Diff(m.id, IdBack(current_id, created - accepted[i]))
                        = Expanded(m.id)
    OBVIOUS
  <2> DEFINE j == created - m.n
             k == created - highest_n
             l == created - accepted[i]
  <2>1. j \in 0 .. Cycle - 1 /\ k \in 0 .. Cycle - 1 /\ l \in 0 .. Cycle - 1 /\ j <= k /\ k <= l
    BY <1>1, ReceiveFacts, CycleCovers
  <2>2. m.id = IdBack(current_id, j) /\ highest_ack = IdBack(current_id, k)
    BY <1>1, ReceiveFacts
  <2>3. bigs[i] + Diff(highest_ack, IdBack(current_id, l)) = Expanded(highest_ack)
    BY <1>10
  <2> HIDE DEF j, k, l
  <2>4. Diff(highest_ack, IdBack(current_id, l)) \in Int /\ bigs[i] \in Nat
    <3>1. IdBack(current_id, l) \in Int /\ highest_ack \in Int /\ IdSpace \in Int
      BY <1>1, <2>1, IdBackType, ConstantTypes DEF Ids
    <3> QED BY <1>9, <3>1 DEF Diff
  <2>5. Diff(m.id, IdBack(current_id, l)) = d + Diff(highest_ack, IdBack(current_id, l))
    BY <1>1, <2>1, <2>2, DiffAdds DEF d
  <2>6. bigs[i] + Diff(m.id, IdBack(current_id, l)) = Expanded(m.id)
    BY <1>3, <1>6, <1>7, <2>3, <2>4, <2>5
  <2> QED BY <2>6 DEF l
<1>12. InvBigs'
  <2>1. quarters'[QuarterOf(m.id)] + (m.id - QuarterOf(m.id) * Quarter) = Expanded(m.id)
    BY <1>5 DEF Expanded, q
  <2>2. \A i \in DOMAIN accepted : bigs[i] + (m.n - accepted[i]) <= Expanded(m.id)
    <3> SUFFICES ASSUME NEW i \in DOMAIN accepted
                 PROVE  bigs[i] + (m.n - accepted[i]) <= Expanded(m.id)
      OBVIOUS
    <3>1. bigs[i] \in Nat /\ accepted[i] \in Nat /\ highest_n \in Nat /\ d \in Nat
      BY <1>1, <1>3, <1>9
    <3>2. bigs[i] + (highest_n - accepted[i]) <= Expanded(highest_ack)
      BY <1>10
    <3> QED BY <1>3, <1>6, <1>7, <3>1, <3>2
  <2>3. Expanded(m.id) + Diff(m.id, IdBack(current_id, created - m.n)) = Expanded(m.id)
        /\ Expanded(m.id) + (m.n - m.n) <= Expanded(m.id)
    <3>1. Diff(m.id, m.id) = 0 /\ m.n - m.n = 0
      BY ReceiveFacts DEF Diff, Ids, Ns
    <3> QED BY <1>7, <3>1, ReceiveFacts
  <2> SUFFICES ASSUME NEW i \in DOMAIN accepted'
               PROVE  /\ created - accepted'[i] < Cycle
                           => bigs'[i] + Diff(m.id, IdBack(current_id, created - accepted'[i]))
                                = Expanded(m.id)
                      /\ bigs'[i] + (m.n - accepted'[i]) <= Expanded(m.id)
    BY <1>2, <2>1, ReceiveFacts DEF InvBigs, Expanded, Back
  <2>4. CASE i \in DOMAIN accepted
    BY <1>9, <1>11, <2>2, <2>4
  <2>5. CASE i = n
    BY <1>9, <2>3, <2>5
  <2> QED BY <1>9, <2>4, <2>5
<1>13. ExpandedInOrder'
  <2> SUFFICES ASSUME NEW i \in DOMAIN accepted', NEW j \in DOMAIN accepted',
                      accepted'[i] < accepted'[j]
               PROVE  bigs'[i] < bigs'[j]
    BY DEF ExpandedInOrder
  <2>1. CASE i \in DOMAIN accepted /\ j \in DOMAIN accepted
    BY <1>9, <2>1 DEF InvExpanded, ExpandedInOrder
  <2>2. CASE i \in DOMAIN accepted /\ j = n
    <3>1. bigs[i] < Expanded(m.id)
      <4>1. bigs[i] \in Nat /\ accepted[i] \in 1 .. highest_n /\ highest_n \in Nat /\ d \in Nat
        BY <1>1, <1>3, <1>9, <2>2
      <4>2. bigs[i] + (highest_n - accepted[i]) <= Expanded(highest_ack)
        BY <1>10, <2>2
      <4> QED BY <1>3, <1>6, <1>7, <4>1, <4>2
    <3> QED BY <1>9, <2>2, <3>1
  <2>3. CASE i = n
    <3>1. j = n \/ accepted'[j] \in 1 .. highest_n
      BY <1>1, <1>9
    <3> QED BY <1>1, <1>7, <1>9, <2>3, <3>1
  <2> QED BY <1>9, <2>1, <2>2, <2>3
<1>14. InvIdTypes' /\ InvLogin' /\ InvBefore'
  BY <1>2, <1>9, ReceiveFacts DEF InvExpanded, InvIdTypes, InvLogin, InvBefore
<1> QED BY <1>8, <1>12, <1>13, <1>14 DEF InvExpanded

\* A message that was overtaken or repeated leaves the quarters alone, and its number is
\* in its place between those of the others.
LEMMA LateExpanded ==
  ASSUME InTimeAssumption, QuartersAssumption, TypeOK, InvOnce, InvExpanded,
         NEW m \in data, ReceiveExpanded(m), highest_ack # 0, m.n <= highest_n
  PROVE  InvExpanded'
<1> DEFINE d == Diff(highest_ack, m.id)
           n == Len(accepted) + 1
<1>1. /\ highest_n \in 1 .. created /\ created - highest_n < Gap /\ created - highest_n < Cycle
      /\ highest_ack = IdBack(current_id, created - highest_n) /\ highest_ack \in Ids
      /\ current_id \in Ids /\ current_id > Reserved /\ created \in Nat
      /\ \A i \in DOMAIN accepted : accepted[i] \in 1 .. highest_n
  BY ReceiveFacts, Past
<1>2. /\ ~MoreRecent(m) /\ highest_ack' = highest_ack /\ highest_n' = highest_n
      /\ login_succeeded => login_succeeded'
  <2>1. ~MoreRecent(m)
    BY <1>1, ReceiveFacts, MoreRecentIsNewer
  <2>2. highest_ack' = highest_ack /\ highest_n' = highest_n
    BY <2>1 DEF ReceiveExpanded, Receive
  <2>3. \/ login_succeeded' = (login_succeeded \/ IsLogin(m))
        \/ login_succeeded' = login_succeeded
    BY DEF ReceiveExpanded, Receive, Accept
  <2>4. login_succeeded => login_succeeded'
    BY <2>3
  <2> QED BY <2>1, <2>2, <2>4
<1>3. Settled(QuarterOf(m.id))
  BY ReceiveFacts DEF InvExpanded, InvSettled
<1>4. quarters' = quarters
  BY <1>3, ReceiveFacts, AdvanceNothing DEF Settled
<1>5. d \in 0 .. Quarter /\ d >= highest_n - m.n /\ d <= highest_n - m.n + Reserved + 1
  <2> DEFINE k == created - highest_n
             l == created - m.n
  <2>1. k \in Nat /\ l \in Nat /\ k <= l /\ l - k < Gap /\ l < Cycle /\ l - k = highest_n - m.n
        /\ m.id = IdBack(current_id, l)
    BY <1>1, ReceiveFacts, CycleCovers, ConstantTypes DEF InTimeAssumption
  <2> HIDE DEF k, l
  <2>2. highest_ack = IdBack(current_id, k)
    BY <1>1 DEF k
  <2> QED BY <1>1, <2>1, <2>2, NearBy
<1>6. Expanded(highest_ack) = Expanded(m.id) + d /\ Expanded(m.id) \in Nat /\ m.n \in Nat
  BY <1>1, <1>3, <1>5, ReceiveFacts, ExpandedAhead DEF Settled, Ns
<1> HIDE DEF d, n
<1>7. InvSettled'
  BY <1>2, <1>4, ReceiveFacts DEF InvExpanded, InvSettled, Settled, Steps
<1>8. InvBefore' /\ InvLogin'
  BY <1>2, ReceiveFacts DEF InvExpanded, InvBefore, InvLogin
<1>9. \A i \in DOMAIN accepted :
        /\ created - accepted[i] < Cycle
             => bigs[i] + Diff(highest_ack, IdBack(current_id, created - accepted[i]))
                  = Expanded(highest_ack)
        /\ bigs[i] + (highest_n - accepted[i]) <= Expanded(highest_ack)
  BY ReceiveFacts DEF InvExpanded, InvBigs, Back
<1>10. CASE ~IsNew(m)
  <2>1. accepted' = accepted /\ bigs' = bigs
    BY <1>10 DEF ReceiveExpanded, Receive
  <2>2. InvIdTypes' /\ ExpandedInOrder'
    BY <2>1, <1>4 DEF InvExpanded, InvIdTypes, ExpandedInOrder
  <2>3. InvBigs'
    BY <1>2, <1>4, <2>1, ReceiveFacts DEF InvExpanded, InvBigs, Expanded, Back
  <2> QED BY <1>7, <1>8, <2>2, <2>3 DEF InvExpanded
<1>11. CASE IsNew(m)
  <2>1. /\ DOMAIN accepted' = DOMAIN accepted \cup {n} /\ n \notin DOMAIN accepted
        /\ accepted'[n] = m.n /\ bigs'[n] = Expanded(m.id)
        /\ \A i \in DOMAIN accepted : /\ accepted'[i] = accepted[i] /\ bigs'[i] = bigs[i]
                                      /\ bigs[i] \in Nat /\ accepted[i] \in Nat
        /\ bigs' \in Seq(Nat) /\ Len(bigs') = Len(accepted')
    <3>1. n = Len(accepted) + 1 /\ InvIdTypes /\ Expanded(m.id) \in Nat
      BY ReceiveFacts DEF n, InvExpanded
    <3>2. Len(accepted) \in Nat => 1 .. n = (1 .. Len(accepted)) \cup {n}
      BY DEF n
    <3> QED BY <1>11, <3>1, <3>2, Appended
  <2>2. InvIdTypes'
    BY <2>1, ReceiveFacts DEF InvIdTypes
  <2>3. InvBigs'
    <3>1. /\ Expanded(m.id) + Diff(highest_ack, IdBack(current_id, created - m.n))
               = Expanded(highest_ack)
          /\ Expanded(m.id) + (highest_n - m.n) <= Expanded(highest_ack)
      BY <1>1, <1>5, <1>6, ReceiveFacts DEF d
    <3> SUFFICES ASSUME NEW i \in DOMAIN accepted'
                 PROVE  /\ created - accepted'[i] < Cycle
                             => bigs'[i] + Diff(highest_ack, IdBack(current_id, created - accepted'[i]))
                                  = Expanded(highest_ack)
                        /\ bigs'[i] + (highest_n - accepted'[i]) <= Expanded(highest_ack)
      BY <1>2, <1>4, ReceiveFacts DEF InvBigs, Expanded, Back
    <3>2. CASE i \in DOMAIN accepted
      BY <1>9, <2>1, <3>2
    <3>3. CASE i = n
      BY <2>1, <3>1, <3>3
    <3> QED BY <2>1, <3>2, <3>3
  <2>4. ASSUME NEW i \in DOMAIN accepted
        PROVE  /\ m.n < accepted[i] => Expanded(m.id) < bigs[i]
               /\ accepted[i] < m.n => bigs[i] < Expanded(m.id)
    <3> DEFINE a == accepted[i]
               j == created - highest_n
               k == created - m.n
               l == created - a
    <3>1. a \in 1 .. highest_n /\ bigs[i] \in Nat /\ Cycle \in Nat
          /\ j \in 0 .. Cycle - 1 /\ k \in 0 .. Cycle - 1 /\ l \in Nat /\ j <= k /\ j <= l
      <4>1. a \in 1 .. highest_n /\ bigs[i] \in Nat /\ m.n \in 1 .. created
            /\ created - m.n < Span
        BY <1>1, <2>1, ReceiveFacts
      <4>2. Cycle \in Nat /\ Span \in Nat /\ Span <= Cycle - 1
        BY CycleCovers, ConstantTypes
      <4> QED BY <1>1, <1>6, <4>1, <4>2
    <3>2. m.id = IdBack(current_id, k) /\ highest_ack = IdBack(current_id, j)
      BY <1>1, ReceiveFacts
    <3>3. CASE l < Cycle
      <4> DEFINE e == Diff(highest_ack, IdBack(current_id, l))
      <4>1. bigs[i] + e = Expanded(highest_ack)
        BY <1>9, <3>3
      <4>2. e \in Int
        <5>1. IdBack(current_id, l) \in Int /\ highest_ack \in Int /\ IdSpace \in Int
          BY <1>1, <3>1, <3>3, IdBackType, ConstantTypes DEF Ids
        <5> QED BY <5>1 DEF Diff
      <4>3. (k < l => d < e) /\ (l < k => e < d)
        <5> HIDE DEF j, k, l
        <5>1. l \in 0 .. Cycle - 1
          BY <3>1, <3>3
        <5> QED BY <1>1, <3>1, <3>2, <5>1, DiffGrows DEF d
      <4>4. (m.n < a => l < k) /\ (a < m.n => k < l)
        BY <1>1, <1>6, <3>1
      <4> HIDE DEF e
      <4> QED BY <1>5, <1>6, <3>1, <4>1, <4>2, <4>3, <4>4
    <3>4. CASE l >= Cycle
      <4>1. bigs[i] + (highest_n - a) <= Expanded(highest_ack)
        BY <1>9
      <4>2. m.n - a > Reserved + 1
        BY <1>1, <1>6, <3>1, <3>4, ReceiveFacts, CycleCovers, ConstantTypes DEF InTimeAssumption
      <4> QED BY <1>1, <1>5, <1>6, <3>1, <4>1, <4>2, ConstantTypes
    <3> QED BY <3>1, <3>3, <3>4
  <2>5. ExpandedInOrder'
    <3> SUFFICES ASSUME NEW i \in DOMAIN accepted', NEW j \in DOMAIN accepted',
                        accepted'[i] < accepted'[j]
                 PROVE  bigs'[i] < bigs'[j]
      BY DEF ExpandedInOrder
    <3>1. CASE i \in DOMAIN accepted /\ j \in DOMAIN accepted
      BY <2>1, <3>1 DEF InvExpanded, ExpandedInOrder
    <3>2. CASE i \in DOMAIN accepted /\ j = n
      BY <2>1, <2>4, <3>2
    <3>3. CASE i = n /\ j \in DOMAIN accepted
      BY <2>1, <2>4, <3>3
    <3>4. CASE i = n /\ j = n
      BY <1>6, <2>1, <3>4
    <3> QED BY <2>1, <3>1, <3>2, <3>3, <3>4
  <2> QED BY <1>7, <1>8, <2>2, <2>3, <2>5 DEF InvExpanded
<1> QED BY <1>10, <1>11

-----------------------------------------------------------------------------
\* SyncIsNew may rely on the order of the expanded ids, as long as delays stay within the
\* ring, the window and the id space, and the traffic skips no quarter.
THEOREM ExpandedInOrderHolds ==
  ASSUME InTimeAssumption, QuartersAssumption PROVE IdsSpec => []ExpandedInOrder
<1>1. IdsInit => InvExpanded
  <2> SUFFICES ASSUME IdsInit PROVE InvExpanded OBVIOUS
  <2>1. /\ quarters = LeftQuarters /\ bigs = <<>> /\ accepted = <<>> /\ Copies = {}
        /\ created = 0 /\ current_id = Start /\ highest_ack = 0 /\ login_succeeded = ~ToClient
    BY DEF IdsInit, Init, Copies
  <2>2. InvBefore
    BY <2>1 DEF InvBefore, QuartersAssumption, Steps, NextQuarter
  <2>3. InvIdTypes
    BY <2>1, ExpanderAssumption DEF InvIdTypes
  <2>4. InvLogin
    BY <2>1, LinkAssumption DEF InvLogin
  <2>5. InvSettled /\ InvBigs /\ ExpandedInOrder
    BY <2>1 DEF InvSettled, InvBigs, ExpandedInOrder
  <2> QED BY <2>2, <2>3, <2>4, <2>5 DEF InvExpanded
<1>2. TypeOK /\ TypeOK' /\ InvOnce /\ InvExpanded /\ [IdsNext]_allVars => InvExpanded'
  <2> SUFFICES ASSUME TypeOK, TypeOK', InvOnce, InvExpanded, [IdsNext]_allVars
               PROVE  InvExpanded'
    OBVIOUS
  <2>1. ASSUME NEW m \in data, ReceiveExpanded(m) PROVE InvExpanded'
    <3>1. m.n \in Nat /\ highest_n \in Nat
      <4>1. m.n \in Ns /\ highest_n \in 0 .. MaxCreated /\ MaxCreated \in Nat
        BY <2>1, ReceiveFacts, ConstantTypes DEF TypeOK
      <4> QED BY <4>1 DEF Ns
    <3> QED BY <2>1, <3>1, FirstExpanded, NewestExpanded, LateExpanded
  <2>2. ASSUME NEW m \in data, DropBeforeLogin(m) PROVE InvExpanded'
    BY <2>2, DropExpanded
  <2>3. CASE ReceiveUnacked
    BY <2>3, UnackedExpanded
  <2>4. CASE (SenderNext \/ AckingNext \/ NetworkNext) /\ UNCHANGED idVars
    BY <2>4, OtherStepsExpanded
  <2>5. CASE UNCHANGED allVars
    BY <2>5 DEF allVars, vars, sendVars, recvVars, idVars, InvExpanded, InvIdTypes, InvLogin,
                InvBefore, InvSettled, InvBigs, ExpandedInOrder, Settled, Steps, Expanded,
                Copies, Back
  <2> QED BY <2>1, <2>2, <2>3, <2>4, <2>5 DEF IdsNext
<1>3. InvExpanded => ExpandedInOrder
  BY DEF InvExpanded
<1>4. TypeAndPending => TypeOK
  BY DEF TypeAndPending
<1> QED BY <1>1, <1>2, <1>3, <1>4, ExpanderOnlyWatches, TypeAndPendingHolds, OnceHolds, PTL
        DEF IdsSpec

\* The bounds are wide ones with the numbers of the code: 500 messages of delay, 9983 to
\* others in between, a ring that is anything short of a trip round old.
THEOREM NumbersOfTheCode ==
  ASSUME IdSpace = 65536, Quarter = 16384, Reserved = 16, Window = 10000, AckBack = 1000,
         Span \in 1 .. 500, Gap \in Span .. 9983, FirstIdBound \in 0 .. 9999,
         RingAge \in Span .. 65519, LeftQuarters = [q \in 0 .. 3 |-> q * Quarter]
  PROVE  InTimeAssumption /\ RingAssumption /\ QuartersAssumption
<1>1. InTimeAssumption /\ RingAssumption
  BY DEF InTimeAssumption, RingAssumption
<1>2. LeftQuarters[0] = 0 /\ LeftQuarters[1] = Quarter
  BY QuarterTypes
<1> QED BY <1>1, <1>2 DEF QuartersAssumption
-----------------------------------------------------------------------------
(* What the low bits of the numbers are *)

\* The two high bits of the low 16 of each quarter are those of the quarter.
InvBits == /\ quarters \in [0 .. 3 -> Nat]
           /\ \A q \in 0 .. 3 : quarters[q] % IdSpace = q * Quarter

\* Low bits are added as long as they do not carry, and are 0 when they just do.
LEMMA ModAdds ==
  ASSUME NEW a \in Nat, NEW m \in Nat \ {0}, NEW r \in Nat
  PROVE  /\ (a % m) + r < m => (a + r) % m = (a % m) + r
         /\ (a % m) + r = m => (a + r) % m = 0
<1>1. ASSUME NEW k \in Nat, NEW s \in 0 .. m - 1 PROVE (k * m + s) % m = s
  OBVIOUS
<1>2. a = (a \div m) * m + (a % m) /\ a \div m \in Nat /\ a % m \in 0 .. m - 1
  <2>1. a = (a \div m) * m + (a % m)
    OBVIOUS
  <2>2. a \div m \in Nat
    OBVIOUS
  <2>3. a % m \in 0 .. m - 1
    OBVIOUS
  <2> QED BY <2>1, <2>2, <2>3
<1>3. PICK k \in Nat : a = k * m + (a % m)
  BY <1>2
<1>4. k * m \in Nat /\ (k + 1) * m = k * m + m /\ k + 1 \in Nat
  OBVIOUS
<1>5. ASSUME (a % m) + r < m PROVE (a + r) % m = (a % m) + r
  <2>1. a + r = k * m + ((a % m) + r) /\ (a % m) + r \in 0 .. m - 1
    BY <1>2, <1>3, <1>4, <1>5
  <2> QED BY <1>1, <2>1
<1>6. ASSUME (a % m) + r = m PROVE (a + r) % m = 0
  <2>1. \A x, y \in Nat : a = x + y /\ y + r = m => a + r = x + m
    OBVIOUS
  <2>2. a + r = k * m + m
    <3>1. a % m \in Nat /\ k * m \in Nat
      BY <1>2, <1>4
    <3>2. a = k * m + (a % m) /\ (a % m) + r = m
      BY <1>3, <1>6
    <3> QED BY <2>1, <3>1, <3>2, Zenon
  <2>3. a + r = (k + 1) * m + 0
    BY <1>4, <2>2
  <2>4. ((k + 1) * m + 0) % m = 0
    BY <1>1, <1>4
  <2> QED BY <2>3, <2>4
<1> QED BY <1>5, <1>6

\* A step to the next quarter takes the next two bits, and from the fourth to the first
\* carries into the bits above the 16.
LEMMA AdvanceKeepsBits == ASSUME InvBits, NEW id \in Ids, Advance(id) PROVE InvBits'
<1> DEFINE p == QuarterOf(id)
           n == NextQuarter(p)
<1>1. p \in 0 .. 3 /\ n \in 0 .. 3
  BY QuarterOfType
<1>2. quarters' \in [0 .. 3 -> Nat] /\ quarters' = [quarters EXCEPT ![n] = quarters[p] + Quarter]
  BY AdvanceType DEF InvBits, Advance
<1>3. quarters[p] \in Nat /\ quarters[p] % IdSpace = p * Quarter
  BY <1>1 DEF InvBits
<1>4. (quarters[p] + Quarter) % IdSpace = n * Quarter
  <2>1. IdSpace \in Nat \ {0} /\ IdSpace = 4 * Quarter /\ Quarter \in Nat
    BY QuarterTypes
  <2>2. /\ (quarters[p] % IdSpace) + Quarter < IdSpace
             => (quarters[p] + Quarter) % IdSpace = (quarters[p] % IdSpace) + Quarter
        /\ (quarters[p] % IdSpace) + Quarter = IdSpace => (quarters[p] + Quarter) % IdSpace = 0
    BY <1>3, <2>1, ModAdds
  <2> HIDE DEF p
  <2>3. CASE p = 3
    <3>1. (quarters[p] % IdSpace) + Quarter = IdSpace
      BY <1>3, <2>1, <2>3
    <3>2. n * Quarter = 0
      BY <2>1, <2>3 DEF NextQuarter
    <3> QED BY <2>2, <3>1, <3>2
  <2>4. CASE p # 3
    <3>1. p \in 0 .. 2 /\ n = p + 1
      BY <1>1, <2>4 DEF NextQuarter
    <3>2. p * Quarter + Quarter < 4 * Quarter /\ n * Quarter = p * Quarter + Quarter
      BY <2>1, <3>1
    <3>3. (quarters[p] % IdSpace) + Quarter < IdSpace
      BY <1>3, <2>1, <3>2
    <3> QED BY <1>3, <2>2, <3>2, <3>3
  <2> QED BY <2>3, <2>4
<1> QED BY <1>1, <1>2, <1>4 DEF InvBits

\* The low 16 bits of a number are the id it was made of, for every id and at any time:
\* nothing of the quarter is left in the place of the id, so that to or the two is to add
\* the place of the id in its quarter, as Expanded does.
THEOREM LowBitsAreTheId == IdsSpec => [](\A id \in Ids : Expanded(id) % IdSpace = id)
<1>1. IdsInit => InvBits
  BY ExpanderAssumption DEF IdsInit, InvBits
<1>2. TypeOK /\ InvBits /\ [IdsNext]_allVars => InvBits'
  <2> SUFFICES ASSUME TypeOK, InvBits, [IdsNext]_allVars PROVE InvBits'
    OBVIOUS
  <2>1. \A m \in data : m.id \in Ids
    BY DEF TypeOK, Messages
  <2>2. CASE \E id \in Ids : Advance(id)
    BY <2>2, AdvanceKeepsBits
  <2>3. CASE UNCHANGED quarters
    BY <2>3 DEF InvBits
  <2>4. [IdsNext]_allVars => (\E id \in Ids : Advance(id)) \/ UNCHANGED quarters
    BY <2>1, ConstantTypes
       DEF IdsNext, ReceiveExpanded, DropBeforeLogin, ReceiveUnacked, allVars, idVars, Ids
  <2> QED BY <2>2, <2>3, <2>4
<1>3. InvBits => \A id \in Ids : Expanded(id) % IdSpace = id
  <2> SUFFICES ASSUME InvBits, NEW id \in Ids PROVE Expanded(id) % IdSpace = id
    OBVIOUS
  <2> DEFINE p == QuarterOf(id)
             r == id - p * Quarter
  <2>1. p \in 0 .. 3 /\ IdSpace \in Nat \ {0} /\ id \in 0 .. IdSpace - 1
    BY QuarterOfType, QuarterTypes DEF Ids
  <2>2. quarters[p] \in Nat /\ quarters[p] % IdSpace = p * Quarter
    BY <2>1 DEF InvBits
  <2>3. r \in Nat /\ p * Quarter \in Nat
    BY QuarterTypes DEF QuarterOf, Ids
  <2>4. (quarters[p] % IdSpace) + r = id
    BY <2>1, <2>2, <2>3
  <2>5. (quarters[p] + r) % IdSpace = id
    BY <2>1, <2>2, <2>3, <2>4, ModAdds
  <2> QED BY <2>5 DEF Expanded
<1>4. TypeAndPending => TypeOK
  BY DEF TypeAndPending
<1> QED BY <1>1, <1>2, <1>3, <1>4, ExpanderOnlyWatches, TypeAndPendingHolds, PTL DEF IdsSpec
=============================================================================
