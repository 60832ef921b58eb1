------------------------ MODULE NetObjectClient_proofs ------------------------
(***************************************************************************)
(* Proofs about the copies of NetObjectSync, under the assumptions that    *)
(* ids and slots are reused when the messages about them are gone, and     *)
(* that a client has forgotten what it destroyed when the id comes again.  *)
(*                                                                         *)
(* Orders relates the destroy messages to the objects of the server: an    *)
(* id is never in two of them, nor in one and in use by an object the      *)
(* client may know of.  Client relates them to the client: an object it is *)
(* told to destroy is there or on its way, and nothing else has its id.    *)
(* Current, about the states, rests on both.                               *)
(***************************************************************************)
EXTENDS NetObjectSync_proofs

USE SyncAssumption

Quiet == QuietReuse /\ QuietSlot /\ QuietClient

-----------------------------------------------------------------------------
(***************************************************************************)
(* Destroy messages.                                                       *)
(***************************************************************************)
\* Objects named in the unsent destroy message, or in one that is not acknowledged.
Ordered == {d \in Objects : d \in destroyers \/ \E m \in DestroyWaits : d \in m.about}

OrderedAreDead == Ordered \cap alive = {}

\* The id of an object the client may know of is in no destroy message.
NoneOrdered == \A n \in alive : MustDestroy(n) => \A d \in Ordered : idOf[d] # idOf[n]

OneOrder ==
  /\ \A m1, m2 \in DestroyWaits :
       \A d1 \in m1.about, d2 \in m2.about : idOf[d1] = idOf[d2] => m1 = m2 /\ d1 = d2
  /\ \A m \in DestroyWaits : \A d1 \in m.about, d2 \in destroyers : idOf[d1] # idOf[d2]
  /\ \A d1, d2 \in destroyers : idOf[d1] = idOf[d2] => d1 = d2

\* A living object that a sync is about is known.
SyncIsKnown ==
  \A m \in SyncWaits \cup loose :
    m.kind = "sync" => \A n \in m.about : n \in alive => knowsAbout[n].knowsAboutExistence

OneCreation ==
  \A m1, m2 \in SyncWaits :
    m1.kind = "create" /\ m2.kind = "create" /\ m1.about = m2.about => m1 = m2

Orders ==
  connected => OrderedAreDead /\ NoneOrdered /\ OneOrder /\ SyncIsKnown /\ OneCreation

Server == Base /\ Acks /\ DestroyersCounted

LEMMA ServerHolds ==
  ASSUME Quiet
  PROVE  Spec => []Server
<1>1. QuietReuse /\ QuietSlot
  BY DEF Quiet
<1> QED
  BY <1>1, BaseHolds, AcksHold, DestroyersCountedHolds, PTL DEF Server

LEMMA Numbers ==
  ASSUME Server
  PROVE  /\ alive \subseteq Created /\ Created \subseteq Objects /\ Created \subseteq Nat
         /\ Objects \subseteq Nat /\ destroyers \subseteq Created
         /\ \A m \in waiting \cup loose : m.about \subseteq Created
         /\ Len(idOf) \in Nat
<1>1. /\ alive \subseteq Created /\ destroyers \subseteq Created
      /\ Len(idOf) \in Nat /\ Len(idOf) <= MaxObjects
      /\ \A m \in waiting \cup loose : m.about \subseteq Created
  BY DEF Server, Base, ObjectsOK, SlotOK, MessagesOK, Sent
<1>2. Created \subseteq Objects /\ Created \subseteq Nat /\ Objects \subseteq Nat
  <2>1. MaxObjects \in Nat
    OBVIOUS
  <2> QED
    BY <1>1, <2>1 DEF Created, Objects
<1> QED
  BY <1>1, <1>2

\* A message about n that waits for its ack is counted.
LEMMA Counted ==
  ASSUME Server, connected, NEW m \in SyncWaits, NEW n \in m.about, n \in alive
  PROVE  knowsAbout[n].acksPending > 0 /\ MustDestroy(n)
<1>0. knowsAbout[n].acksPending \in Nat
  <2>1. n \in Objects /\ knowsAbout \in [Objects -> Knows]
    BY Numbers DEF Server, Base, ObjectsOK
  <2>2. knowsAbout[n] \in Knows
    BY <2>1
  <2> QED
    BY <2>2 DEF Knows
<1>1. knowsAbout[n].acksPending = Cardinality(AcksOf(n))
  BY DEF Server, Acks, AcksPendingCounts, AcksOf
<1>2. IsFiniteSet(AcksOf(n)) /\ m \in AcksOf(n)
  BY FS_Subset DEF Server, Base, MessagesOK, AcksOf, SyncWaits
<1>3. Cardinality(AcksOf(n)) # 0
  BY <1>2, FS_EmptySet
<1> QED
  BY <1>0, <1>1, <1>3 DEF MustDestroy

\* An object that nothing waits for an ack about.
LEMMA Uncounted ==
  ASSUME Server, connected, NEW n \in alive, knowsAbout[n].acksPending = 0
  PROVE  \A m \in SyncWaits : n \notin m.about
BY Counted

LEMMA OneAlive ==
  ASSUME Server, NEW n1 \in alive, NEW n2 \in alive, idOf[n1] = idOf[n2]
  PROVE  n1 = n2
<1>1. n1 \in Created /\ n2 \in Created /\ n1 \in Nat /\ n2 \in Nat
  BY Numbers
<1>2. n1 <= n2 /\ n2 <= n1
  BY <1>1 DEF Server, Acks, AliveIsLatest
<1> QED
  BY <1>1, <1>2

LEMMA OrdersKept ==
  ASSUME Orders, connected' = connected, idOf' = idOf, alive' \subseteq alive,
         destroyers' = destroyers, DestroyWaits' \subseteq DestroyWaits,
         SyncWaits' \subseteq SyncWaits, loose' \subseteq loose,
         \A n \in alive' : /\ MustDestroy(n)' => MustDestroy(n)
                           /\ knowsAbout[n].knowsAboutExistence =>
                                knowsAbout'[n].knowsAboutExistence
  PROVE  Orders'
<1>1. Ordered' \subseteq Ordered
  BY DEF Ordered
<1>2. ASSUME connected
      PROVE  OrderedAreDead' /\ NoneOrdered' /\ OneOrder' /\ SyncIsKnown' /\ OneCreation'
  <2>0. OrderedAreDead /\ NoneOrdered /\ OneOrder /\ SyncIsKnown /\ OneCreation
    BY <1>2 DEF Orders
  <2>1. OrderedAreDead'
    BY <1>1, <2>0 DEF OrderedAreDead
  <2>2. NoneOrdered'
    BY <1>1, <2>0 DEF NoneOrdered
  <2>3. OneOrder'
    BY <2>0 DEF OneOrder
  <2>4. SyncIsKnown'
    BY <2>0 DEF SyncIsKnown
  <2>5. OneCreation'
    BY <2>0 DEF OneCreation
  <2> QED
    BY <2>1, <2>2, <2>3, <2>4, <2>5
<1> QED
  BY <1>2 DEF Orders

\* The destroy message goes out: what is ordered stays ordered.
LEMMA SendDestroyerOrders ==
  ASSUME Server, connected, OneOrder, NEW D, destroyers \subseteq D, D \subseteq Created,
         SendDestroyer(D), idOf' = idOf, D = {} => destroyers = {},
         \A d1, d2 \in D : idOf[d1] = idOf[d2] => d1 = d2,
         \A m \in DestroyWaits : \A d1 \in m.about, d2 \in D : idOf[d1] # idOf[d2]
  PROVE  /\ OneOrder'
         /\ Ordered' = Ordered \cup D
<1> DEFINE m == [num |-> lastMessage + 1, kind |-> "destroy", about |-> D, state |-> 0]
<1>0. D \subseteq Objects
  BY Numbers
<1>1. CASE D = {}
  <2>1. UNCHANGED <<destroyers, waiting, idOf>>
    BY <1>1 DEF SendDestroyer
  <2> QED
    BY <1>1, <2>1 DEF OneOrder, Ordered, DestroyWaits
<1>2. CASE D # {}
  <2>1. waiting' = waiting \cup {m} /\ destroyers' = {}
    BY <1>2 DEF SendDestroyer
  <2>2. m.kind = "destroy" /\ m.about = D
    OBVIOUS
  <2> HIDE DEF m
  <2>3. DestroyWaits' = DestroyWaits \cup {m}
    BY <2>1, <2>2 DEF DestroyWaits
  <2>4. OneOrder'
    BY <2>1, <2>2, <2>3 DEF OneOrder
  <2>5. Ordered' = Ordered \cup D
    BY <1>0, <2>1, <2>2, <2>3 DEF Ordered
  <2> QED
    BY <2>4, <2>5
<1> QED
  BY <1>1, <1>2

LEMMA CreateObjectOrders ==
  ASSUME Server, Orders, NEW id \in Ids, CreateObject(id)
  PROVE  Orders'
<1>0. Len(idOf) + 1 \in Objects
  BY DEF CreateObject
<1> PICK n \in Objects : n = Len(idOf) + 1
  BY <1>0
<1>1. /\ n \in Objects /\ idOf' = Append(idOf, id) /\ idOf \in Seq(Ids)
      /\ alive' = alive \cup {n} /\ knowsAbout' = [knowsAbout EXCEPT ![n] = Unknown]
      /\ UNCHANGED <<connected, waiting, destroyers, loose>>
  BY DEF CreateObject, slotVars, Server, Base, ObjectsOK
<1>2. /\ n \notin Created /\ \A o \in Created : idOf'[o] = idOf[o] /\ o # n
  BY <1>1 DEF Created
<1>3. DestroyWaits' = DestroyWaits /\ SyncWaits' = SyncWaits
  BY <1>1 DEF DestroyWaits, SyncWaits
<1>4. Ordered' = Ordered /\ Ordered \subseteq Created
  BY <1>1, <1>3, Numbers DEF Ordered, DestroyWaits
<1>5. knowsAbout'[n] = Unknown /\ \A o \in alive : knowsAbout'[o] = knowsAbout[o]
  BY <1>1, <1>2, Numbers DEF Server, Base, ObjectsOK
<1>6. ASSUME connected
      PROVE  OrderedAreDead' /\ NoneOrdered' /\ OneOrder' /\ SyncIsKnown' /\ OneCreation'
  <2>0. OrderedAreDead /\ NoneOrdered /\ OneOrder /\ SyncIsKnown /\ OneCreation
    BY <1>6 DEF Orders
  <2>1. OrderedAreDead'
    BY <1>1, <1>2, <1>4, <2>0 DEF OrderedAreDead
  <2>2. NoneOrdered'
    <3>1. ~MustDestroy(n)'
      BY <1>5, KnowsValues DEF MustDestroy
    <3>2. \A o \in alive : (MustDestroy(o)' <=> MustDestroy(o)) /\ idOf'[o] = idOf[o]
      BY <1>2, <1>5, Numbers DEF MustDestroy
    <3>3. \A d \in Ordered : idOf'[d] = idOf[d]
      BY <1>2, <1>4
    <3>4. \A o \in alive : MustDestroy(o) => \A d \in Ordered : idOf[d] # idOf[o]
      BY <2>0 DEF NoneOrdered
    <3>5. ASSUME NEW o \in alive', MustDestroy(o)', NEW d \in Ordered'
          PROVE  idOf'[d] # idOf'[o]
      <4>1. o \in alive
        BY <1>1, <3>1, <3>5
      <4>2. MustDestroy(o) /\ idOf'[o] = idOf[o] /\ idOf'[d] = idOf[d] /\ d \in Ordered
        BY <1>4, <3>2, <3>3, <3>5, <4>1
      <4> QED
        BY <3>4, <4>1, <4>2
    <3> QED
      BY <3>5 DEF NoneOrdered
  <2>3. OneOrder'
    <3>1. /\ \A d \in destroyers : idOf'[d] = idOf[d]
          /\ \A m \in DestroyWaits : \A d \in m.about : idOf'[d] = idOf[d]
      BY <1>2, Numbers DEF DestroyWaits
    <3>2. destroyers' = destroyers /\ DestroyWaits' = DestroyWaits
      BY <1>1, <1>3
    <3>3. \A m1, m2 \in DestroyWaits :
            \A d1 \in m1.about, d2 \in m2.about : idOf'[d1] = idOf'[d2] => m1 = m2 /\ d1 = d2
      BY <2>0, <3>1 DEF OneOrder
    <3>4. \A m \in DestroyWaits : \A d1 \in m.about, d2 \in destroyers : idOf'[d1] # idOf'[d2]
      BY <2>0, <3>1 DEF OneOrder
    <3>5. \A d1, d2 \in destroyers : idOf'[d1] = idOf'[d2] => d1 = d2
      BY <2>0, <3>1 DEF OneOrder
    <3> QED
      BY <3>2, <3>3, <3>4, <3>5 DEF OneOrder
  <2>4. SyncIsKnown'
    <3>1. \A m \in SyncWaits \cup loose : n \notin m.about
      BY <1>2, Numbers DEF SyncWaits
    <3> QED
      BY <1>1, <1>3, <1>5, <2>0, <3>1 DEF SyncIsKnown
  <2>5. OneCreation'
    BY <1>3, <2>0 DEF OneCreation
  <2> QED
    BY <2>1, <2>2, <2>3, <2>4, <2>5
<1> QED
  BY <1>1, <1>6 DEF Orders

LEMMA DestroyObjectOrders ==
  ASSUME Server, Orders, NEW n \in alive, DestroyObject(n)
  PROVE  Orders'
<1> DEFINE named == destroyers \cup {n}
<1>1. /\ alive' = alive \ {n} /\ knowsAbout' = Without({n}, knowsAbout, Fresh)
      /\ UNCHANGED <<idOf, connected, loose, clientVars>>
      /\ \/ MustDestroy(n) /\ SendDestroyer(named)
         \/ MustDestroy(n) /\ destroyers' = named /\ waiting' = waiting
         \/ destroyers' = destroyers /\ waiting' = waiting
  BY DEF DestroyObject
<1>2. \A o \in alive' : knowsAbout'[o] = knowsAbout[o]
  BY <1>1, Numbers DEF Without
<1>3. CASE destroyers' = destroyers /\ waiting' = waiting
  BY <1>1, <1>2, <1>3, OrdersKept DEF DestroyWaits, SyncWaits, MustDestroy
<1>4. ASSUME connected, MustDestroy(n),
             SendDestroyer(named) \/ (destroyers' = named /\ waiting' = waiting)
      PROVE  OrderedAreDead' /\ NoneOrdered' /\ OneOrder' /\ SyncIsKnown' /\ OneCreation'
  <2>0. OrderedAreDead /\ NoneOrdered /\ OneOrder /\ SyncIsKnown /\ OneCreation
    BY <1>4 DEF Orders
  <2>1. \A d \in Ordered : idOf[d] # idOf[n]
    BY <1>4, <2>0 DEF NoneOrdered
  <2>2. /\ \A d \in destroyers : idOf[d] # idOf[n]
        /\ \A m \in DestroyWaits : \A d \in m.about : idOf[d] # idOf[n]
    BY <2>1, Numbers DEF Ordered, DestroyWaits
  <2>3. /\ \A d1, d2 \in named : idOf[d1] = idOf[d2] => d1 = d2
        /\ \A m \in DestroyWaits : \A d1 \in m.about, d2 \in named : idOf[d1] # idOf[d2]
        /\ named \subseteq Created /\ named # {}
    BY <2>0, <2>2, Numbers DEF OneOrder
  <2>4. OneOrder' /\ Ordered' = Ordered \cup {n}
    <3>1. CASE SendDestroyer(named)
      <4>1. OneOrder' /\ Ordered' = Ordered \cup named
        BY <1>1, <1>4, <2>0, <2>3, <3>1, SendDestroyerOrders
      <4>2. destroyers \subseteq Ordered
        BY Numbers DEF Ordered
      <4> QED
        BY <4>1, <4>2
    <3>2. CASE destroyers' = named /\ waiting' = waiting
      <4>1. DestroyWaits' = DestroyWaits
        BY <3>2 DEF DestroyWaits
      <4>2. OneOrder'
        BY <1>1, <2>0, <2>3, <3>2, <4>1 DEF OneOrder
      <4>3. Ordered' = Ordered \cup {n}
        BY <3>2, <4>1, Numbers DEF Ordered
      <4> QED
        BY <4>2, <4>3
    <3> QED
      BY <1>4, <3>1, <3>2
  <2> HIDE DEF named
  <2>5. SyncWaits' = SyncWaits
    <3>1. ASSUME SendDestroyer(named)
          PROVE  SyncWaits' = SyncWaits
      BY <1>1, <2>3, <3>1, SendDestroyerKeeps DEF Server, clientVars
    <3> QED
      BY <1>4, <3>1 DEF SyncWaits
  <2>6. OrderedAreDead'
    BY <1>1, <2>0, <2>4 DEF OrderedAreDead
  <2>7. NoneOrdered'
    <3>1. \A o \in alive' : idOf[o] # idOf[n] /\ (MustDestroy(o)' => MustDestroy(o))
      BY <1>1, <1>2, OneAlive DEF MustDestroy
    <3> QED
      BY <1>1, <2>0, <2>4, <3>1 DEF NoneOrdered
  <2>8. SyncIsKnown' /\ OneCreation'
    BY <1>1, <1>2, <2>0, <2>5 DEF SyncIsKnown, OneCreation
  <2> QED
    BY <2>4, <2>6, <2>7, <2>8
<1> QED
  BY <1>1, <1>3, <1>4 DEF Orders

\* The unsent destroy message goes out.
LEMMA DestroyersSentOrders ==
  ASSUME Server, Orders, connected, SendDestroyer(destroyers),
         UNCHANGED <<idOf, alive, knowsAbout, connected, loose, handled>>
  PROVE  Orders'
<1>0. OrderedAreDead /\ NoneOrdered /\ OneOrder /\ SyncIsKnown /\ OneCreation
  BY DEF Orders
<1>1. OneOrder' /\ Ordered' = Ordered \cup destroyers
  BY <1>0, SendDestroyerOrders, Numbers DEF OneOrder
<1>2. Ordered' = Ordered
  BY <1>1, Numbers DEF Ordered
<1>3. SyncWaits' = SyncWaits
  BY SendDestroyerKeeps, Numbers DEF Server
<1>4. OrderedAreDead' /\ NoneOrdered' /\ SyncIsKnown' /\ OneCreation'
  BY <1>0, <1>2, <1>3 DEF OrderedAreDead, NoneOrdered, SyncIsKnown, OneCreation, MustDestroy
<1> QED
  BY <1>1, <1>4 DEF Orders

LEMMA NoDestroyWaits ==
  ASSUME Server, connected, destroyersCount = 0
  PROVE  DestroyWaits = {}
<1>1. IsFiniteSet(DestroyWaits)
  BY FS_Subset DEF Server, Base, MessagesOK, DestroyWaits
<1>2. Cardinality(DestroyWaits) = 0
  BY DEF Server, DestroyersCounted
<1> QED
  BY <1>1, <1>2, FS_EmptySet

\* What a creation finds: no destroy message that names the id, and nothing underway.
LEMMA CreationFinds ==
  ASSUME Server, connected, NEW n \in alive, SendsCreation(n)
  PROVE  /\ DestroyWaits = {}
         /\ \A d \in Ordered : idOf[d] # idOf[n]
         /\ ~MustDestroy(n)
         /\ \A m \in SyncWaits : n \notin m.about
         /\ waiting' = waiting \cup {SyncMessage(n)}
         /\ SyncMessage(n).kind = "create" /\ SyncMessage(n).about = {n}
         /\ SyncMessage(n).num = lastMessage + 1 /\ SyncMessage(n).state = state[n]
         /\ UNCHANGED <<destroyers, loose>>
<1>1. /\ ~knowsAbout[n].knowsAboutExistence /\ lastMessage < MaxMessages
      /\ knowsAbout[n].acksPending = 0 /\ destroyersCount = 0
      /\ WithId(idOf[n], destroyers) = {}
      /\ waiting' = waiting \cup {SyncMessage(n)} /\ UNCHANGED <<destroyers, loose>>
  BY DEF SendsCreation, MayCreate
<1>2. DestroyWaits = {}
  BY <1>1, NoDestroyWaits
<1>3. \A d \in Ordered : idOf[d] # idOf[n]
  BY <1>1, <1>2 DEF Ordered, WithId
<1>4. /\ SyncMessage(n).kind = "create" /\ SyncMessage(n).about = {n}
      /\ SyncMessage(n).num = lastMessage + 1 /\ SyncMessage(n).state = state[n]
  BY <1>1, SyncMessageType DEF Server
<1>5. ~MustDestroy(n)
  BY <1>1 DEF MustDestroy
<1> QED
  BY <1>1, <1>2, <1>3, <1>4, <1>5, Uncounted

\* A sync goes to waiting or to loose.
LEMMA SyncSent ==
  ASSUME Server, NEW n \in alive, SendsSync(n)
  PROVE  /\ knowsAbout[n].knowsAboutExistence
         /\ SyncMessage(n).kind = "sync" /\ SyncMessage(n).about = {n}
         /\ SyncMessage(n).num = lastMessage + 1 /\ SyncMessage(n).state = state[n]
         /\ \/ waiting' = waiting \cup {SyncMessage(n)} /\ loose' = loose
            \/ waiting' = waiting /\ loose' = loose \cup {SyncMessage(n)}
         /\ UNCHANGED <<destroyers>>
<1>1. knowsAbout[n].knowsAboutExistence /\ lastMessage < MaxMessages
  BY DEF SendsSync
<1>2. /\ SyncMessage(n).kind = "sync" /\ SyncMessage(n).about = {n}
      /\ SyncMessage(n).num = lastMessage + 1 /\ SyncMessage(n).state = state[n]
  BY <1>1, SyncMessageType DEF Server
<1> QED
  BY <1>1, <1>2 DEF SendsSync

LEMMA SendsCreationOrders ==
  ASSUME Server, Orders, connected, NEW n \in alive, SendsCreation(n),
         UNCHANGED <<idOf, alive, connected>>
  PROVE  Orders'
<1> DEFINE m == SyncMessage(n)
<1>0. OrderedAreDead /\ NoneOrdered /\ OneOrder /\ SyncIsKnown /\ OneCreation
  BY DEF Orders
<1>1. /\ \A d \in Ordered : idOf[d] # idOf[n]
      /\ \A k \in SyncWaits : n \notin k.about
      /\ waiting' = waiting \cup {m} /\ m.kind = "create" /\ m.about = {n}
      /\ UNCHANGED <<destroyers, loose>>
  BY CreationFinds
<1>2. \A o \in alive : /\ o # n => knowsAbout'[o] = knowsAbout[o]
                       /\ knowsAbout'[o].knowsAboutExistence = knowsAbout[o].knowsAboutExistence
  BY SentKnows, Numbers DEF Server
<1> HIDE DEF m
<1>3. DestroyWaits' = DestroyWaits /\ SyncWaits' = SyncWaits \cup {m}
  BY <1>1 DEF DestroyWaits, SyncWaits
<1>4. Ordered' = Ordered
  BY <1>1, <1>3 DEF Ordered
<1>5. OrderedAreDead' /\ OneOrder'
  BY <1>0, <1>1, <1>3, <1>4 DEF OrderedAreDead, OneOrder
<1>6. NoneOrdered'
  BY <1>0, <1>1, <1>2, <1>4 DEF NoneOrdered, MustDestroy
<1>7. SyncIsKnown'
  BY <1>0, <1>1, <1>2, <1>3 DEF SyncIsKnown
<1>8. OneCreation'
  BY <1>0, <1>1, <1>3 DEF OneCreation
<1> QED
  BY <1>5, <1>6, <1>7, <1>8 DEF Orders

LEMMA SendsSyncOrders ==
  ASSUME Server, Orders, connected, NEW n \in alive, SendsSync(n),
         UNCHANGED <<idOf, alive, connected>>
  PROVE  Orders'
<1> DEFINE m == SyncMessage(n)
<1>0. OrderedAreDead /\ NoneOrdered /\ OneOrder /\ SyncIsKnown /\ OneCreation
  BY DEF Orders
<1>1. /\ knowsAbout[n].knowsAboutExistence /\ m.kind = "sync" /\ m.about = {n}
      /\ \/ waiting' = waiting \cup {m} /\ loose' = loose
         \/ waiting' = waiting /\ loose' = loose \cup {m}
      /\ destroyers' = destroyers
  BY SyncSent
<1>2. \A o \in alive : /\ o # n => knowsAbout'[o] = knowsAbout[o]
                       /\ knowsAbout'[o].knowsAboutExistence = knowsAbout[o].knowsAboutExistence
  BY SentKnows, Numbers DEF Server
<1> HIDE DEF m
<1>3. /\ DestroyWaits' = DestroyWaits /\ SyncWaits' \subseteq SyncWaits \cup {m}
      /\ loose' \subseteq loose \cup {m}
  BY <1>1 DEF DestroyWaits, SyncWaits
<1>4. Ordered' = Ordered
  BY <1>1, <1>3 DEF Ordered
<1>5. OrderedAreDead' /\ OneOrder'
  BY <1>0, <1>1, <1>3, <1>4 DEF OrderedAreDead, OneOrder
<1>6. NoneOrdered'
  <2>1. \A o \in alive : MustDestroy(o)' => MustDestroy(o)
    BY <1>1, <1>2 DEF MustDestroy
  <2> QED
    BY <1>0, <1>4, <2>1 DEF NoneOrdered
<1>7. SyncIsKnown'
  BY <1>0, <1>1, <1>2, <1>3 DEF SyncIsKnown
<1>8. OneCreation'
  BY <1>0, <1>1, <1>3 DEF OneCreation
<1> QED
  BY <1>5, <1>6, <1>7, <1>8 DEF Orders

\* An ack is about the object its message was about, and only that becomes known.
LEMMA AckSyncKnows ==
  ASSUME Server, NEW m, AckSync(m)
  PROVE  \E n \in Created :
           /\ m.about = {n} /\ m \in SyncWaits /\ m.num \in handled /\ connected
           /\ \A o \in alive : o # n => knowsAbout'[o] = knowsAbout[o]
           /\ n \in alive => /\ knowsAbout'[n].knowsAboutExistence
                             /\ knowsAbout'[n].syncReq = knowsAbout[n].syncReq
                             /\ knowsAbout'[n].nextSyncAck = knowsAbout[n].nextSyncAck
                             /\ MustDestroy(n)
<1>1. /\ connected /\ m \in SyncWaits /\ m.num \in handled
      /\ knowsAbout' = [n \in Objects |-> IF n \in alive /\ IsAbout(m, n)
                                          THEN Acknowledged(knowsAbout[n]) ELSE knowsAbout[n]]
  BY AckSyncChanges
<1>2. PICK n \in Created : m.about = {n}
  BY <1>1 DEF Server, Base, MessagesOK, Single
<1>3. \A o \in alive : o \in Objects /\ knowsAbout[o] \in Knows
  BY Numbers DEF Server, Base, ObjectsOK
<1>4. \A o \in alive : IsAbout(m, o) => o = n
  BY <1>1, <1>2, SameObject DEF Server, IsAbout
<1>5. \A o \in alive : o # n => knowsAbout'[o] = knowsAbout[o]
  BY <1>1, <1>3, <1>4
<1>6. ASSUME n \in alive
      PROVE  knowsAbout'[n] = Acknowledged(knowsAbout[n]) /\ MustDestroy(n)
  BY <1>1, <1>2, <1>3, <1>6, Counted DEF IsAbout
<1>7. n \in alive => /\ knowsAbout'[n].knowsAboutExistence
                     /\ knowsAbout'[n].syncReq = knowsAbout[n].syncReq
                     /\ knowsAbout'[n].nextSyncAck = knowsAbout[n].nextSyncAck
                     /\ MustDestroy(n)
  BY <1>3, <1>6, AcknowledgedType
<1> QED
  BY <1>1, <1>2, <1>5, <1>7

LEMMA AckSyncOrders ==
  ASSUME Server, Orders, NEW m, AckSync(m)
  PROVE  Orders'
<1>1. /\ connected /\ m \in SyncWaits /\ waiting' = waiting \ {m}
      /\ UNCHANGED <<idOf, alive, connected, destroyers, loose>>
  BY AckSyncChanges
<1>2. m.kind # "destroy" /\ SyncWaits' \subseteq SyncWaits /\ DestroyWaits' = DestroyWaits
  BY <1>1 DEF SyncWaits, DestroyWaits
<1>3. \A o \in alive : /\ MustDestroy(o)' => MustDestroy(o)
                       /\ knowsAbout[o].knowsAboutExistence => knowsAbout'[o].knowsAboutExistence
  BY AckSyncKnows DEF MustDestroy
<1> QED
  BY <1>1, <1>2, <1>3, OrdersKept

LEMMA LoginOrders ==
  ASSUME QuietSlot, Server, Login
  PROVE  Orders'
<1>1. waiting' = {} /\ destroyers' = {} /\ loose' = {}
  BY DEF Login, Server, Base, Idle
<1>2. DestroyWaits' = {} /\ SyncWaits' = {} /\ Ordered' = {}
  BY <1>1 DEF DestroyWaits, SyncWaits, Ordered
<1>3. OrderedAreDead' /\ NoneOrdered' /\ OneOrder' /\ SyncIsKnown' /\ OneCreation'
  BY <1>1, <1>2 DEF OrderedAreDead, NoneOrdered, OneOrder, SyncIsKnown, OneCreation
<1> QED
  BY <1>3 DEF Orders

LEMMA StepOrders ==
  ASSUME Quiet, Server, Orders, [Next]_vars
  PROVE  Orders'
<1>1. CASE UNCHANGED vars
  BY <1>1, OrdersKept
  DEF vars, objectVars, slotVars, DestroyWaits, SyncWaits, MustDestroy
<1>2. ASSUME NEW n \in alive, NEW ack \in BOOLEAN, RequestSync(n, ack)
      PROVE  Orders'
  <2>1. knowsAbout \in [Objects -> Knows] /\ alive \subseteq Objects
    BY Numbers DEF Server, Base, ObjectsOK
  <2>2. \A o \in alive :
          /\ knowsAbout'[o].knowsAboutExistence = knowsAbout[o].knowsAboutExistence
          /\ knowsAbout'[o].acksPending = knowsAbout[o].acksPending
    BY <1>2, <2>1 DEF RequestSync, Requested, Knows
  <2> QED
    BY <1>2, <2>2, OrdersKept DEF RequestSync, slotVars, DestroyWaits, SyncWaits, MustDestroy
<1>3. ASSUME NEW n \in syncList, SyncObject(n)
      PROVE  Orders'
  <2>1. /\ connected /\ n \in alive
        /\ SendsDestroyer(n) \/ SendsCreation(n) \/ SendsSync(n)
        /\ UNCHANGED <<idOf, alive, connected, clientVars>>
    BY <1>3, SyncObjectCases DEF Server, Base, ObjectsOK
  <2> QED
    BY <2>1, DestroyersSentOrders, SendsCreationOrders, SendsSyncOrders
    DEF SendsDestroyer, clientVars
<1>4. CASE DestroyerGoes
  BY <1>4, DestroyersSentOrders DEF DestroyerGoes, objectVars, clientVars
<1>5. CASE CleanSyncList
  BY <1>5, OrdersKept DEF CleanSyncList, slotVars, DestroyWaits, SyncWaits, MustDestroy
<1>6. ASSUME NEW m, DestroyForgotten(m)
      PROVE  Orders'
  <2>1. waiting' = waiting \ {m}
    BY <1>6 DEF DestroyForgotten, ForgetDestroy
  <2>2. DestroyWaits' \subseteq DestroyWaits /\ SyncWaits' \subseteq SyncWaits
    BY <2>1 DEF DestroyWaits, SyncWaits
  <2> QED
    BY <1>6, <2>2, OrdersKept DEF DestroyForgotten, objectVars, MustDestroy
<1>7. CASE Ready
  BY <1>7, OrdersKept DEF Ready, objectVars, DestroyWaits, SyncWaits, MustDestroy
<1>8. ASSUME NEW D, NEW traced, Logout(D, traced)
      PROVE  Orders'
  BY <1>8, LogoutChanges DEF Orders
<1>9. CASE ForgetDeleted
  BY <1>9, OrdersKept
  DEF ForgetDeleted, objectVars, slotVars, DestroyWaits, SyncWaits, MustDestroy
<1>10. ASSUME NEW m, Handle(m)
       PROVE  Orders'
  BY <1>10, OrdersKept
  DEF Handle, objectVars, slotVars, DestroyWaits, SyncWaits, MustDestroy
<1> QED
  BY <1>1, <1>2, <1>3, <1>4, <1>5, <1>6, <1>7, <1>8, <1>9, <1>10, StepCases,
     CreateObjectOrders, DestroyObjectOrders, AckSyncOrders, LoginOrders DEF Quiet

LEMMA OrdersHold ==
  ASSUME Quiet
  PROVE  Spec => []Orders
<1>1. Init => Orders
  BY DEF Init, Orders
<1>2. Server /\ Orders /\ [Next]_vars => Orders'
  BY StepOrders
<1> QED
  BY <1>1, <1>2, ServerHolds, PTL DEF Spec

-----------------------------------------------------------------------------
(***************************************************************************)
(* The client's copies.                                                    *)
(***************************************************************************)
\* Objects the client is still to be told to destroy, and to create.
Owed == {d \in Objects : \/ d \in destroyers
                         \/ \E m \in DestroyWaits : m.num \notin handled /\ d \in m.about}

Creating == {n \in Objects :
               \E m \in waiting : m.kind = "create" /\ m.num \notin handled /\ n \in m.about}

CopyIds == \A c1, c2 \in copies : idOf[c1] = idOf[c2] => c1 = c2

\* No copy has the id of another object that a creation or sync is about.
CopyIsAbout ==
  \A m \in SyncWaits \cup loose : \A o \in m.about, c \in copies : idOf[c] = idOf[o] => c = o

\* A creation underway will find its id free.
Room == \A n \in Creating : \A c \in copies \cup lingering : idOf[c] # idOf[n]

Apart == \A c \in copies, d \in Destroyed \cup lingering : idOf[c] # idOf[d]

\* An order to destroy is remembered only for what is on its way, and is not repeated.
Remembered == /\ Destroyed \subseteq Creating \ alive
              /\ \A d \in Owed, e \in Destroyed : idOf[d] # idOf[e]

OwedIsThere == Owed \subseteq copies \cup Creating

HandledIsHeld ==
  \A m \in SyncWaits : m.num \in handled => \A n \in m.about : n \in alive => n \in copies

HeldIsCounted == \A n \in copies \cap alive : MustDestroy(n)

OrphansAreOwed == (copies \cup Creating) \ alive \subseteq Destroyed \cup Owed

Copies ==
  /\ CopyIds /\ CopyIsAbout /\ Room /\ Apart /\ Remembered /\ OwedIsThere
  /\ HandledIsHeld /\ HeldIsCounted /\ OrphansAreOwed /\ KnownIsHeld

Client == connected => Copies

LEMMA CreatingMessage ==
  ASSUME Server, NEW n \in Creating
  PROVE  /\ n \in Created
         /\ \E m \in SyncWaits : m.about = {n} /\ m.kind = "create" /\ m.num \notin handled
<1>1. PICK m \in waiting : m.kind = "create" /\ m.num \notin handled /\ n \in m.about
  BY DEF Creating
<1>2. m \in SyncWaits
  BY <1>1 DEF SyncWaits
<1>3. m.about = {n}
  BY <1>1, <1>2 DEF Server, Base, MessagesOK, Single
<1> QED
  BY <1>1, <1>2, <1>3, Numbers

\* No two objects with one id are on their way, or on their way and alive.
LEMMA CreatingOnce ==
  ASSUME Server, NEW n \in Creating, NEW o \in Creating \cup alive, idOf[n] = idOf[o]
  PROVE  n = o
<1>1. PICK m \in SyncWaits : m.about = {n}
  BY CreatingMessage
<1>2. CASE o \in alive
  BY <1>1, <1>2, SameObject DEF Server
<1>3. CASE o \in Creating
  <2>1. PICK k \in SyncWaits : k.about = {o}
    BY <1>3, CreatingMessage
  <2>2. n \in Created /\ o \in Created
    BY <1>3, CreatingMessage
  <2>3. n <= o /\ o <= n
    BY <1>1, <2>1, <2>2 DEF Server, Acks, AboutLatest
  <2> QED
    BY <2>2, <2>3, Numbers
<1> QED
  BY <1>2, <1>3

LEMMA CreatingCounted ==
  ASSUME Server, connected, NEW n \in Creating, n \in alive
  PROVE  MustDestroy(n)
BY CreatingMessage, Counted

\* Steps that change neither what is underway nor what the client holds.
LEMMA CopiesKept ==
  ASSUME Copies, idOf' = idOf, alive' = alive, connected' = connected, connected,
         Owed' = Owed, Creating' = Creating,
         SyncWaits' \subseteq SyncWaits, loose' \subseteq loose,
         handled' = handled, copies' = copies, Destroyed' = Destroyed,
         lingering' \subseteq lingering,
         \A n \in alive : /\ MustDestroy(n) => MustDestroy(n)'
                          /\ knowsAbout'[n].knowsAboutExistence =>
                               knowsAbout[n].knowsAboutExistence \/ n \in copies
  PROVE  Copies'
<1> USE DEF Copies
<1>1. CopyIds' /\ CopyIsAbout'
  BY DEF CopyIds, CopyIsAbout
<1>2. Room' /\ Apart' /\ Remembered' /\ OwedIsThere' /\ OrphansAreOwed'
  BY DEF Room, Apart, Remembered, OwedIsThere, OrphansAreOwed
<1>3. HandledIsHeld' /\ HeldIsCounted'
  BY DEF HandledIsHeld, HeldIsCounted
<1>4. KnownIsHeld'
  BY DEF KnownIsHeld
<1> QED
  BY <1>1, <1>2, <1>3, <1>4

\* A destroy message that goes out names what was in the unsent one.
LEMMA SentIsOwed ==
  ASSUME Server, NEW D, destroyers \subseteq D, D \subseteq Created, D = {} => destroyers = {},
         SendDestroyer(D), handled' = handled
  PROVE  Owed' = Owed \cup D /\ Creating' = Creating
<1> DEFINE m == [num |-> lastMessage + 1, kind |-> "destroy", about |-> D, state |-> 0]
<1>0. D \subseteq Objects /\ lastMessage \in Nat /\ handled \subseteq 1 .. lastMessage
  BY Numbers DEF Server, Base, MessagesOK
<1>1. CASE D = {}
  BY <1>1 DEF SendDestroyer, Owed, Creating, DestroyWaits
<1>2. CASE D # {}
  <2>1. waiting' = waiting \cup {m} /\ destroyers' = {}
    BY <1>2 DEF SendDestroyer
  <2>2. m.kind = "destroy" /\ m.about = D /\ m.num \notin handled
    BY <1>0
  <2> HIDE DEF m
  <2>3. DestroyWaits' = DestroyWaits \cup {m}
    BY <2>1, <2>2 DEF DestroyWaits
  <2>4. Owed' = Owed \cup D
    BY <1>0, <2>1, <2>2, <2>3 DEF Owed
  <2>5. Creating' = Creating
    BY <2>1, <2>2 DEF Creating
  <2> QED
    BY <2>4, <2>5
<1> QED
  BY <1>1, <1>2

LEMMA CreateObjectCopies ==
  ASSUME QuietReuse, Server, Copies, connected, NEW id \in Ids, CreateObject(id)
  PROVE  Copies'
<1>0. Len(idOf) + 1 \in Objects
  BY DEF CreateObject
<1> PICK n \in Objects : n = Len(idOf) + 1
  BY <1>0
<1>1. /\ idOf' = Append(idOf, id) /\ idOf \in Seq(Ids)
      /\ alive' = alive \cup {n} /\ knowsAbout' = [knowsAbout EXCEPT ![n] = Unknown]
      /\ About(id) = {}
      /\ UNCHANGED <<connected, waiting, destroyers, loose, clientVars>>
  BY DEF CreateObject, slotVars, Server, Base, ObjectsOK
<1>2. n \notin Created /\ \A o \in Created : idOf'[o] = idOf[o] /\ o # n
  BY <1>1 DEF Created
<1>3. /\ copies \subseteq Created /\ Destroyed \subseteq Created /\ lingering \subseteq Created
      /\ \A m \in waiting \cup loose : m.about \subseteq Created
      /\ destroyers \subseteq Created
  BY Numbers DEF Server, Base, ClientOK
<1>4. DestroyWaits' = DestroyWaits /\ SyncWaits' = SyncWaits
  BY <1>1 DEF DestroyWaits, SyncWaits
<1>5. Owed' = Owed /\ Creating' = Creating /\ Owed \subseteq Created /\ Creating \subseteq Created
  <2>1. Owed' = Owed /\ Creating' = Creating
    BY <1>1, <1>4 DEF Owed, Creating, clientVars
  <2>2. Owed \subseteq Created
    BY <1>3 DEF Owed, DestroyWaits
  <2>3. Creating \subseteq Created
    BY <1>3 DEF Creating
  <2> QED
    BY <2>1, <2>2, <2>3
<1>6. UNCHANGED <<handled, copies, Destroyed, lingering>>
  BY <1>1 DEF clientVars
<1>7. knowsAbout'[n] = Unknown /\ \A o \in alive : knowsAbout'[o] = knowsAbout[o] /\ o # n
  BY <1>1, <1>2, Numbers DEF Server, Base, ObjectsOK
<1> USE DEF Copies
<1>8. CopyIds'
  BY <1>2, <1>3, <1>6 DEF CopyIds
<1>9. CopyIsAbout'
  BY <1>1, <1>2, <1>3, <1>4, <1>6 DEF CopyIsAbout, SyncWaits
<1>10. Room'
  BY <1>2, <1>3, <1>5, <1>6 DEF Room
<1>11. Apart'
  BY <1>2, <1>3, <1>6 DEF Apart
<1>12. Remembered'
  <2>1. Destroyed' \subseteq Creating' \ alive'
    BY <1>1, <1>2, <1>3, <1>5, <1>6 DEF Remembered
  <2>2. \A d \in Owed, e \in Destroyed : idOf'[d] # idOf'[e]
    BY <1>2, <1>3, <1>5 DEF Remembered
  <2> QED
    BY <1>5, <1>6, <2>1, <2>2 DEF Remembered
<1>13. OwedIsThere' /\ OrphansAreOwed'
  BY <1>1, <1>5, <1>6 DEF OwedIsThere, OrphansAreOwed
<1>14. HandledIsHeld'
  BY <1>1, <1>2, <1>3, <1>4, <1>6 DEF HandledIsHeld, SyncWaits
<1>15. HeldIsCounted'
  BY <1>1, <1>2, <1>3, <1>6, <1>7 DEF HeldIsCounted, MustDestroy
<1>16. KnownIsHeld'
  BY <1>1, <1>6, <1>7, KnowsValues DEF KnownIsHeld
<1> QED
  BY <1>8, <1>9, <1>10, <1>11, <1>12, <1>13, <1>14, <1>15, <1>16

\* An object the client may know of is there, or its creation is underway.
LEMMA CountedIsThere ==
  ASSUME Server, Orders, Copies, connected, NEW n \in alive, MustDestroy(n)
  PROVE  n \in copies \cup Creating
<1>1. n \in Objects /\ knowsAbout \in [Objects -> Knows]
  BY Numbers DEF Server, Base, ObjectsOK
<1>2. CASE knowsAbout[n].knowsAboutExistence
  BY <1>2 DEF Copies, KnownIsHeld
<1>3. CASE ~knowsAbout[n].knowsAboutExistence
  <2>1. knowsAbout[n].acksPending > 0
    BY <1>3 DEF MustDestroy
  <2>2. Cardinality(AcksOf(n)) > 0
    BY <2>1 DEF Server, Acks, AcksPendingCounts, AcksOf
  <2>3. AcksOf(n) # {}
    BY <2>2, FS_EmptySet
  <2>4. PICK m \in SyncWaits : n \in m.about
    BY <2>3 DEF AcksOf
  <2>5. m.kind # "sync"
    BY <1>3, <2>4 DEF Orders, SyncIsKnown
  <2>6. m.kind = "create" /\ m \in waiting
    BY <2>5 DEF SyncWaits, Server, Base, MessagesOK, Messages
  <2>7. CASE m.num \in handled
    BY <2>4, <2>7 DEF Copies, HandledIsHeld
  <2>8. CASE m.num \notin handled
    BY <1>1, <2>4, <2>6, <2>8 DEF Creating
  <2> QED
    BY <2>7, <2>8
<1> QED
  BY <1>2, <1>3

LEMMA DestroyObjectCopies ==
  ASSUME Server, Orders, Copies, connected, NEW n \in alive, DestroyObject(n)
  PROVE  Copies'
<1> DEFINE named == destroyers \cup {n}
<1>1. /\ alive' = alive \ {n} /\ knowsAbout' = Without({n}, knowsAbout, Fresh)
      /\ UNCHANGED <<idOf, connected, loose, clientVars>>
      /\ \/ MustDestroy(n) /\ SendDestroyer(named)
         \/ MustDestroy(n) /\ destroyers' = named /\ waiting' = waiting
         \/ ~MustDestroy(n) /\ destroyers' = destroyers /\ waiting' = waiting
  BY DEF DestroyObject
<1>2. \A o \in alive' : knowsAbout'[o] = knowsAbout[o]
  BY <1>1, Numbers DEF Without
<1>3. UNCHANGED <<handled, copies, Destroyed, lingering>>
  BY <1>1 DEF clientVars
<1>4. n \in Objects /\ n \in Created /\ named \subseteq Created /\ named # {}
  BY Numbers
<1>5. SyncWaits' = SyncWaits
  <2>1. ASSUME SendDestroyer(named)
        PROVE  SyncWaits' = SyncWaits
    BY <1>1, <1>3, <1>4, <2>1, SendDestroyerKeeps DEF Server
  <2> QED
    BY <1>1, <2>1 DEF SyncWaits
<1>6. Creating' = Creating
  <2>1. ASSUME SendDestroyer(named)
        PROVE  Creating' = Creating
    BY <1>3, <1>4, <2>1, SentIsOwed
  <2> QED
    BY <1>1, <1>3, <2>1 DEF Creating
<1>7. \/ MustDestroy(n) /\ Owed' = Owed \cup {n}
      \/ ~MustDestroy(n) /\ Owed' = Owed
  <2>1. ASSUME SendDestroyer(named)
        PROVE  Owed' = Owed \cup {n}
    <3>1. Owed' = Owed \cup named
      BY <1>3, <1>4, <2>1, SentIsOwed
    <3>2. destroyers \subseteq Owed
      BY Numbers DEF Owed
    <3> QED
      BY <3>1, <3>2
  <2>2. ASSUME destroyers' = named /\ waiting' = waiting
        PROVE  Owed' = Owed \cup {n}
    BY <1>3, <1>4, <2>2 DEF Owed, DestroyWaits
  <2>3. ASSUME destroyers' = destroyers /\ waiting' = waiting
        PROVE  Owed' = Owed
    BY <1>3, <2>3 DEF Owed, DestroyWaits
  <2> QED
    BY <1>1, <2>1, <2>2, <2>3
<1> HIDE DEF named
<1>8. CopyIds' /\ CopyIsAbout' /\ Room' /\ Apart'
  BY <1>1, <1>3, <1>5, <1>6 DEF Copies, CopyIds, CopyIsAbout, Room, Apart
<1>9. Remembered'
  <2>1. \A e \in Destroyed : e \in Creating /\ e \notin alive
    BY DEF Copies, Remembered
  <2>2. \A e \in Destroyed : idOf[n] # idOf[e]
    BY <2>1, CreatingOnce
  <2>3. \A d \in Owed, e \in Destroyed : idOf[d] # idOf[e]
    BY DEF Copies, Remembered
  <2> QED
    BY <1>1, <1>3, <1>6, <1>7, <2>1, <2>2, <2>3 DEF Remembered
<1>10. OwedIsThere'
  BY <1>3, <1>6, <1>7, CountedIsThere DEF Copies, OwedIsThere
<1>11. OrphansAreOwed'
  <2>1. n \in copies \cup Creating => MustDestroy(n)
    BY CreatingCounted DEF Copies, HeldIsCounted
  <2> QED
    BY <1>1, <1>3, <1>6, <1>7, <2>1 DEF Copies, OrphansAreOwed
<1>12. HandledIsHeld'
  BY <1>1, <1>3, <1>5 DEF Copies, HandledIsHeld
<1>13. HeldIsCounted' /\ KnownIsHeld'
  BY <1>1, <1>2, <1>3 DEF Copies, HeldIsCounted, KnownIsHeld, MustDestroy
<1> QED
  BY <1>8, <1>9, <1>10, <1>11, <1>12, <1>13 DEF Copies

LEMMA DestroyersSentCopies ==
  ASSUME Server, Copies, connected, SendDestroyer(destroyers),
         UNCHANGED <<idOf, alive, knowsAbout, connected, loose, handled, copies, Destroyed,
                     lingering>>
  PROVE  Copies'
<1>1. Owed' = Owed \cup destroyers /\ Creating' = Creating
  BY SentIsOwed, Numbers
<1>2. Owed' = Owed
  BY <1>1, Numbers DEF Owed
<1>3. SyncWaits' = SyncWaits
  BY SendDestroyerKeeps, Numbers DEF Server
<1> QED
  BY <1>1, <1>2, <1>3, CopiesKept DEF MustDestroy

\* The creation finds neither a copy nor a lingering object with the id: a copy that the
\* server no longer has would be owed an order, and there is none.
LEMMA SendsCreationCopies ==
  ASSUME QuietClient, Server, Orders, Copies, connected, NEW n \in alive, SendsCreation(n),
         UNCHANGED <<idOf, alive, connected, clientVars>>
  PROVE  Copies'
<1> DEFINE m == SyncMessage(n)
<1>1. /\ \A d \in Ordered : idOf[d] # idOf[n]
      /\ ~MustDestroy(n)
      /\ \A k \in SyncWaits : n \notin k.about
      /\ waiting' = waiting \cup {m} /\ m.kind = "create" /\ m.about = {n}
      /\ m.num = lastMessage + 1
      /\ UNCHANGED <<destroyers, loose>>
  BY CreationFinds
<1>2. /\ lastMessage \in Nat /\ handled \subseteq 1 .. lastMessage /\ n \in Objects
      /\ n \in Created /\ copies \subseteq Created /\ lingering \subseteq Created
  BY Numbers DEF Server, Base, MessagesOK, ClientOK
<1>3. \A o \in alive : /\ o # n => knowsAbout'[o] = knowsAbout[o]
                       /\ knowsAbout'[o].knowsAboutExistence = knowsAbout[o].knowsAboutExistence
  BY SentKnows, Numbers DEF Server
<1> HIDE DEF m
<1>4. m.num \notin handled
  BY <1>1, <1>2
<1>5. DestroyWaits' = DestroyWaits /\ SyncWaits' = SyncWaits \cup {m}
  BY <1>1 DEF DestroyWaits, SyncWaits
<1>6. UNCHANGED <<handled, copies, Destroyed, lingering>>
  BY DEF clientVars
<1>7. Owed' = Owed /\ Creating' = Creating \cup {n}
  <2>1. Owed' = Owed
    BY <1>1, <1>5, <1>6 DEF Owed
  <2>2. Creating' = Creating \cup {n}
    BY <1>1, <1>2, <1>4, <1>6 DEF Creating
  <2> QED
    BY <2>1, <2>2
<1>8. \A c \in copies : idOf[c] # idOf[n]
  <2> SUFFICES ASSUME NEW c \in copies, idOf[c] = idOf[n]
               PROVE  FALSE
    OBVIOUS
  <2>1. c \notin alive
    <3>1. c \in alive => c = n
      BY OneAlive
    <3> QED
      BY <1>1, <3>1 DEF Copies, HeldIsCounted
  <2>2. c \in Destroyed \cup Owed
    BY <2>1 DEF Copies, OrphansAreOwed
  <2>3. c \notin Owed
    BY <1>1 DEF Owed, Ordered
  <2>4. c \notin Destroyed
    BY DEF Copies, Apart
  <2> QED
    BY <2>2, <2>3, <2>4
<1>9. \A c \in lingering : idOf[c] # idOf[n]
  BY DEF SendsCreation, WithId
<1>10. CopyIds' /\ Apart'
  BY <1>6 DEF Copies, CopyIds, Apart
<1>11. CopyIsAbout'
  BY <1>1, <1>5, <1>6, <1>8 DEF Copies, CopyIsAbout
<1>12. Room'
  BY <1>6, <1>7, <1>8, <1>9 DEF Copies, Room
<1>13. Remembered' /\ OwedIsThere' /\ OrphansAreOwed'
  BY <1>6, <1>7 DEF Copies, Remembered, OwedIsThere, OrphansAreOwed
<1>14. HandledIsHeld'
  BY <1>4, <1>5, <1>6 DEF Copies, HandledIsHeld
<1>15. HeldIsCounted'
  BY <1>3, <1>6, <1>8 DEF Copies, HeldIsCounted, MustDestroy
<1>16. KnownIsHeld'
  BY <1>3, <1>6 DEF Copies, KnownIsHeld
<1> QED
  BY <1>10, <1>11, <1>12, <1>13, <1>14, <1>15, <1>16 DEF Copies

LEMMA SendsSyncCopies ==
  ASSUME Server, Copies, connected, NEW n \in alive, SendsSync(n),
         UNCHANGED <<idOf, alive, connected, clientVars>>
  PROVE  Copies'
<1> DEFINE m == SyncMessage(n)
<1>1. /\ knowsAbout[n].knowsAboutExistence /\ m.kind = "sync" /\ m.about = {n}
      /\ m.num = lastMessage + 1
      /\ \/ waiting' = waiting \cup {m} /\ loose' = loose
         \/ waiting' = waiting /\ loose' = loose \cup {m}
      /\ destroyers' = destroyers
  BY SyncSent
<1>2. lastMessage \in Nat /\ handled \subseteq 1 .. lastMessage
  BY DEF Server, Base, MessagesOK
<1>3. \A o \in alive : /\ o # n => knowsAbout'[o] = knowsAbout[o]
                       /\ knowsAbout'[o].knowsAboutExistence = knowsAbout[o].knowsAboutExistence
  BY SentKnows, Numbers DEF Server
<1> HIDE DEF m
<1>4. m.num \notin handled
  BY <1>1, <1>2
<1>5. /\ DestroyWaits' = DestroyWaits /\ SyncWaits' \subseteq SyncWaits \cup {m}
      /\ loose' \subseteq loose \cup {m}
  BY <1>1 DEF DestroyWaits, SyncWaits
<1>6. UNCHANGED <<handled, copies, Destroyed, lingering>>
  BY DEF clientVars
<1>7. Owed' = Owed /\ Creating' = Creating
  <2>1. Owed' = Owed
    BY <1>1, <1>5, <1>6 DEF Owed
  <2>2. Creating' = Creating
    BY <1>1, <1>6 DEF Creating
  <2> QED
    BY <2>1, <2>2
<1>8. n \in copies
  BY <1>1 DEF Copies, KnownIsHeld
<1>9. CopyIds' /\ Apart' /\ Room'
  BY <1>6, <1>7 DEF Copies, CopyIds, Apart, Room
<1>10. CopyIsAbout'
  BY <1>1, <1>5, <1>6, <1>8 DEF Copies, CopyIds, CopyIsAbout
<1>11. Remembered' /\ OwedIsThere' /\ OrphansAreOwed'
  BY <1>6, <1>7 DEF Copies, Remembered, OwedIsThere, OrphansAreOwed
<1>12. HandledIsHeld'
  BY <1>4, <1>5, <1>6 DEF Copies, HandledIsHeld
<1>13. HeldIsCounted' /\ KnownIsHeld'
  BY <1>1, <1>3, <1>6 DEF Copies, HeldIsCounted, KnownIsHeld, MustDestroy
<1> QED
  BY <1>9, <1>10, <1>11, <1>12, <1>13 DEF Copies

LEMMA AckSyncCopies ==
  ASSUME Server, Copies, NEW m, AckSync(m)
  PROVE  Copies'
<1>1. /\ connected /\ m \in SyncWaits /\ m.num \in handled /\ waiting' = waiting \ {m}
      /\ UNCHANGED <<idOf, alive, connected, destroyers, loose, clientVars>>
  BY AckSyncChanges
<1>2. m.kind # "destroy" /\ SyncWaits' \subseteq SyncWaits /\ DestroyWaits' = DestroyWaits
  BY <1>1 DEF SyncWaits, DestroyWaits
<1>3. UNCHANGED <<handled, copies, Destroyed, lingering>>
  BY <1>1 DEF clientVars
<1>4. Owed' = Owed /\ Creating' = Creating
  <2>1. Owed' = Owed
    BY <1>1, <1>2, <1>3 DEF Owed
  <2>2. Creating' = Creating
    BY <1>1, <1>3 DEF Creating
  <2> QED
    BY <2>1, <2>2
<1>5. PICK n \in Created :
        /\ m.about = {n}
        /\ \A o \in alive : o # n => knowsAbout'[o] = knowsAbout[o]
        /\ n \in alive => knowsAbout'[n].knowsAboutExistence /\ MustDestroy(n)
  BY AckSyncKnows
<1>6. \A o \in alive : /\ MustDestroy(o) => MustDestroy(o)'
                       /\ knowsAbout'[o].knowsAboutExistence =>
                            knowsAbout[o].knowsAboutExistence \/ o \in copies
  BY <1>1, <1>5 DEF MustDestroy, Copies, HandledIsHeld
<1> QED
  BY <1>1, <1>2, <1>3, <1>4, <1>6, CopiesKept

\* On a slot in use a destroy message is forgotten when it has been handled.
LEMMA AckDestroyCopies ==
  ASSUME Copies, connected, NEW m, DestroyForgotten(m)
  PROVE  Copies'
<1>1. /\ m \in DestroyWaits /\ m.num \in handled /\ waiting' = waiting \ {m}
      /\ UNCHANGED <<objectVars, connected, destroyers, clientVars, loose>>
  BY DEF DestroyForgotten, ForgetDestroy
<1>2. m.kind = "destroy" /\ SyncWaits' = SyncWaits /\ DestroyWaits' = DestroyWaits \ {m}
  BY <1>1 DEF SyncWaits, DestroyWaits
<1>3. UNCHANGED <<handled, copies, Destroyed, lingering>> /\ UNCHANGED <<idOf, alive, knowsAbout>>
  BY <1>1 DEF clientVars, objectVars
<1>4. Owed' = Owed /\ Creating' = Creating
  <2>1. Owed' = Owed
    BY <1>1, <1>2, <1>3 DEF Owed
  <2>2. Creating' = Creating
    BY <1>1, <1>2, <1>3 DEF Creating
  <2> QED
    BY <2>1, <2>2
<1> QED
  BY <1>1, <1>2, <1>3, <1>4, CopiesKept DEF MustDestroy

LEMMA LoginCopies ==
  ASSUME QuietSlot, Server, Login
  PROVE  Copies'
<1>1. /\ waiting' = {} /\ destroyers' = {} /\ loose' = {} /\ alive' = alive
      /\ knowsAbout' = [n \in Objects |-> IF n \in alive THEN Reset(knowsAbout[n]) ELSE Fresh]
      /\ NewClient
  BY DEF Login, Server, Base, Idle
<1>2. copies' = {} /\ Destroyed' = {} /\ lingering' = {}
  BY <1>1, NewClientType
<1>3. SyncWaits' = {} /\ Owed' = {} /\ Creating' = {}
  BY <1>1 DEF DestroyWaits, SyncWaits, Owed, Creating
<1>4. KnownIsHeld'
  BY <1>1, Numbers DEF KnownIsHeld, Reset
<1>5. CopyIds' /\ CopyIsAbout' /\ Room' /\ Apart' /\ Remembered' /\ OwedIsThere'
  BY <1>1, <1>2, <1>3 DEF CopyIds, CopyIsAbout, Room, Apart, Remembered, OwedIsThere
<1>6. HandledIsHeld' /\ HeldIsCounted' /\ OrphansAreOwed'
  BY <1>2, <1>3 DEF HandledIsHeld, HeldIsCounted, OrphansAreOwed
<1> QED
  BY <1>4, <1>5, <1>6 DEF Copies

\* What every message changes when it is handled.
LEMMA HandleChanges ==
  ASSUME Server, NEW m, Handle(m)
  PROVE  /\ connected /\ m \in waiting \cup loose /\ m.num \notin handled
         /\ handled' = handled \cup {m.num} /\ loose' \subseteq loose
         /\ SyncWaits' = SyncWaits /\ DestroyWaits' = DestroyWaits
         /\ UNCHANGED <<idOf, alive, state, knowsAbout, mustArrive, connected, destroyers,
                        waiting, lastMessage>>
         /\ \A k \in waiting : k.num \in handled' <=> k.num \in handled \/ k = m
         /\ m.about \subseteq Created
         /\ HandleCreate(m) \/ HandleSync(m) \/ HandleDestroy(m)
<1>1. /\ connected /\ m \in waiting \cup loose /\ m.num \notin handled
      /\ handled' = handled \cup {m.num} /\ loose' = loose \ {m}
      /\ UNCHANGED <<idOf, alive, state, knowsAbout, mustArrive, connected, destroyers,
                     waiting, lastMessage>>
      /\ HandleCreate(m) \/ HandleSync(m) \/ HandleDestroy(m)
  BY DEF Handle, Underway, objectVars, slotVars
<1>2. SyncWaits' = SyncWaits /\ DestroyWaits' = DestroyWaits
  BY <1>1 DEF SyncWaits, DestroyWaits
<1>3. \A k \in waiting : k.num \in handled' <=> k.num \in handled \/ k = m
  BY <1>1 DEF Server, Base, MessagesOK, Unique
<1> QED
  BY <1>1, <1>2, <1>3, Numbers

\* The handling of a sync changes states only.
LEMMA HandleSyncCopies ==
  ASSUME Server, Orders, Copies, NEW m, Handle(m), HandleSync(m)
  PROVE  Copies'
<1>1. /\ connected /\ m \in waiting \cup loose
      /\ loose' \subseteq loose /\ SyncWaits' = SyncWaits /\ DestroyWaits' = DestroyWaits
      /\ UNCHANGED <<idOf, alive, knowsAbout, connected, destroyers, waiting>>
      /\ \A k \in waiting : k.num \in handled' <=> k.num \in handled \/ k = m
  BY HandleChanges
<1>2. m.kind = "sync" /\ UNCHANGED <<copies, lingering, Destroyed>>
  BY DEF HandleSync
<1>3. Owed' = Owed /\ Creating' = Creating
  <2>1. Owed' = Owed
    BY <1>1, <1>2 DEF Owed, DestroyWaits
  <2>2. Creating' = Creating
    BY <1>1, <1>2 DEF Creating
  <2> QED
    BY <2>1, <2>2
<1>4. HandledIsHeld'
  <2>1. m \in SyncWaits \cup loose
    BY <1>1, <1>2 DEF SyncWaits
  <2>2. \A n \in m.about : n \in alive => n \in copies
    BY <1>1, <1>2, <2>1 DEF Orders, SyncIsKnown, Copies, KnownIsHeld
  <2>3. SyncWaits \subseteq waiting
    BY DEF SyncWaits
  <2> QED
    BY <1>1, <1>2, <2>2, <2>3 DEF Copies, HandledIsHeld
<1>5. CopyIds' /\ CopyIsAbout' /\ Room' /\ Apart' /\ Remembered' /\ OwedIsThere'
  BY <1>1, <1>2, <1>3
  DEF Copies, CopyIds, CopyIsAbout, Room, Apart, Remembered, OwedIsThere
<1>6. HeldIsCounted' /\ OrphansAreOwed' /\ KnownIsHeld'
  BY <1>1, <1>2, <1>3 DEF Copies, HeldIsCounted, OrphansAreOwed, KnownIsHeld, MustDestroy
<1> QED
  BY <1>4, <1>5, <1>6 DEF Copies

\* A creation finds room: its object becomes a copy, or lingers if the order to destroy
\* it came first.
LEMMA HandleCreateOutcome ==
  ASSUME Server, Orders, Copies, NEW m, Handle(m), HandleCreate(m)
  PROVE  \E n \in Creating :
           /\ m \in SyncWaits /\ m.about = {n}
           /\ Creating' = Creating \ {n} /\ Owed' = Owed
           /\ \/ /\ n \in Destroyed /\ copies' = copies
                 /\ lingering' = lingering \cup {n} /\ Destroyed' = Destroyed \ {n}
              \/ /\ n \notin Destroyed /\ copies' = copies \cup {n}
                 /\ lingering' = lingering /\ Destroyed' = Destroyed
           /\ \A c \in copies' :
                /\ copyState'[c] = IF c = n THEN m.state ELSE copyState[c]
                /\ lastSyncID'[c] = IF c = n THEN m.num ELSE lastSyncID[c]
<1>1. /\ connected /\ m \in waiting \cup loose /\ m.num \notin handled
      /\ UNCHANGED <<idOf, destroyers, waiting>> /\ DestroyWaits' = DestroyWaits
      /\ \A k \in waiting : k.num \in handled' <=> k.num \in handled \/ k = m
      /\ m.about \subseteq Created
  BY HandleChanges
<1>2. PICK n \in m.about :
        /\ m.kind = "create"
        /\ IF WithId(idOf[n], copies) = {}
           THEN DoDestroy(copies \cup {n}, lingering \ WithId(idOf[n], lingering), Destroyed,
                          [copyState EXCEPT ![n] = m.state], [lastSyncID EXCEPT ![n] = m.num])
           ELSE UNCHANGED <<copies, lingering, Destroyed, copyState, lastSyncID>>
  BY DEF HandleCreate
<1>3. m \in waiting /\ m \in SyncWaits
  BY <1>1, <1>2 DEF Server, Base, MessagesOK, Single, SyncWaits
<1>4. m.about = {n}
  BY <1>2, <1>3 DEF Server, Base, MessagesOK, Single
<1>5. n \in Objects /\ n \in Creating
  BY <1>1, <1>2, <1>3, Numbers DEF Creating
<1>6. /\ \A c \in copies \cup lingering : idOf[c] # idOf[n]
      /\ \A c \in copies, d \in Destroyed \cup lingering : idOf[c] # idOf[d]
      /\ Destroyed \subseteq Creating
  BY <1>5 DEF Copies, Room, Apart, Remembered
<1>7. DoDestroy(copies \cup {n}, lingering, Destroyed,
                [copyState EXCEPT ![n] = m.state], [lastSyncID EXCEPT ![n] = m.num])
  <2>1. WithId(idOf[n], copies) = {} /\ lingering \ WithId(idOf[n], lingering) = lingering
    BY <1>6 DEF WithId
  <2> QED
    BY <1>2, <2>1
<1>8. \A e \in Destroyed : idOf[e] = idOf[n] => e = n
  BY <1>5, <1>6, CreatingOnce
<1>9. \A e \in Destroyed, c \in lingering : idOf[c] # idOf[e]
  BY <1>6 DEF Copies, Room
<1>10. SameId(copies \cup {n}, Destroyed) = {n} \cap Destroyed
  BY <1>6, <1>8 DEF SameId
<1>11. SameId(Destroyed, copies \cup {n} \cup lingering) = {n} \cap Destroyed
  BY <1>6, <1>8, <1>9 DEF SameId
<1>12. /\ copies' = (copies \cup {n}) \ ({n} \cap Destroyed)
       /\ lingering' = lingering \cup ({n} \cap Destroyed)
       /\ Destroyed' = Destroyed \ ({n} \cap Destroyed)
       /\ copyState' = Without({n} \cap Destroyed, [copyState EXCEPT ![n] = m.state], 0)
       /\ lastSyncID' = Without({n} \cap Destroyed, [lastSyncID EXCEPT ![n] = m.num], 0)
  BY <1>7, <1>10, <1>11 DEF DoDestroy
<1>13. n \notin copies
  BY <1>6
<1>14. Creating' = Creating \ {n}
  <2>1. \A k \in waiting : k.kind = "create" /\ n \in k.about => k = m
    <3> SUFFICES ASSUME NEW k \in waiting, k.kind = "create", n \in k.about
                 PROVE  k = m
      OBVIOUS
    <3>1. k \in SyncWaits
      BY DEF SyncWaits
    <3>2. k.about = {n}
      BY <3>1 DEF Server, Base, MessagesOK, Single
    <3> QED
      BY <1>1, <1>2, <1>3, <1>4, <3>1, <3>2 DEF Orders, OneCreation
  <2> QED
    BY <1>1, <1>4, <2>1 DEF Creating
<1>15. Owed' = Owed
  BY <1>1, <1>2 DEF Owed, DestroyWaits
<1>16. copies \subseteq Objects /\ copyState \in [Objects -> 0 .. MaxState]
       /\ lastSyncID \in [Objects -> 0 .. MaxMessages]
  BY Numbers DEF Server, Base, ClientOK
<1>17. \A c \in copies' : /\ copyState'[c] = IF c = n THEN m.state ELSE copyState[c]
                          /\ lastSyncID'[c] = IF c = n THEN m.num ELSE lastSyncID[c]
  <2> SUFFICES ASSUME NEW c \in copies'
               PROVE  /\ copyState'[c] = IF c = n THEN m.state ELSE copyState[c]
                      /\ lastSyncID'[c] = IF c = n THEN m.num ELSE lastSyncID[c]
    OBVIOUS
  <2>1. c \in Objects /\ c \notin {n} \cap Destroyed
    BY <1>5, <1>12, <1>16
  <2>2. /\ copyState'[c] = [copyState EXCEPT ![n] = m.state][c]
        /\ lastSyncID'[c] = [lastSyncID EXCEPT ![n] = m.num][c]
    BY <1>12, <2>1 DEF Without
  <2> QED
    BY <1>5, <1>16, <2>1, <2>2
<1>18. \/ /\ n \in Destroyed /\ copies' = copies
          /\ lingering' = lingering \cup {n} /\ Destroyed' = Destroyed \ {n}
       \/ /\ n \notin Destroyed /\ copies' = copies \cup {n}
          /\ lingering' = lingering /\ Destroyed' = Destroyed
  BY <1>12, <1>13
<1> QED
  BY <1>3, <1>4, <1>5, <1>14, <1>15, <1>17, <1>18

LEMMA AboutOnce ==
  ASSUME Server, NEW m1 \in SyncWaits \cup loose, NEW m2 \in SyncWaits \cup loose,
         NEW n1 \in m1.about, NEW n2 \in m2.about, idOf[n1] = idOf[n2]
  PROVE  n1 = n2
<1>1. n1 \in Created /\ n2 \in Created
  BY Numbers DEF SyncWaits
<1>2. n1 <= n2 /\ n2 <= n1
  BY <1>1 DEF Server, Acks, AboutLatest
<1> QED
  BY <1>1, <1>2, Numbers

LEMMA HandleCreateCopies ==
  ASSUME Server, Orders, Copies, NEW m, Handle(m), HandleCreate(m)
  PROVE  Copies'
<1>1. /\ connected /\ loose' \subseteq loose /\ SyncWaits' = SyncWaits
      /\ UNCHANGED <<idOf, alive, knowsAbout, connected>>
      /\ \A k \in waiting : k.num \in handled' <=> k.num \in handled \/ k = m
  BY HandleChanges
<1>2. PICK n \in Creating :
        /\ m \in SyncWaits /\ m.about = {n}
        /\ Creating' = Creating \ {n} /\ Owed' = Owed
        /\ \/ /\ n \in Destroyed /\ copies' = copies
              /\ lingering' = lingering \cup {n} /\ Destroyed' = Destroyed \ {n}
           \/ /\ n \notin Destroyed /\ copies' = copies \cup {n}
              /\ lingering' = lingering /\ Destroyed' = Destroyed
  BY HandleCreateOutcome
<1>3. \A c \in copies \cup lingering : idOf[c] # idOf[n]
  BY DEF Copies, Room
<1>4. n \notin copies
  BY <1>3
<1>5. \A k \in Creating : idOf[k] = idOf[n] => k = n
  BY CreatingOnce
<1>6. Destroyed \subseteq Creating \ alive
  BY DEF Copies, Remembered
<1>7. \A d \in Owed, e \in Destroyed : idOf[d] # idOf[e]
  BY DEF Copies, Remembered
<1>8. copies' \subseteq copies \cup {n}
  BY <1>2
<1>9. CopyIds'
  BY <1>1, <1>3, <1>8 DEF Copies, CopyIds
<1>10. CopyIsAbout'
  <2>1. \A k \in SyncWaits \cup loose : \A o \in k.about : idOf[n] = idOf[o] => n = o
    BY <1>2, AboutOnce
  <2> QED
    BY <1>1, <1>8, <2>1 DEF Copies, CopyIsAbout
<1>11. Room'
  BY <1>1, <1>2, <1>5 DEF Copies, Room
<1>12. Apart'
  BY <1>1, <1>2, <1>3, <1>5, <1>6 DEF Copies, Apart
<1>13. Remembered'
  BY <1>1, <1>2, <1>6, <1>7 DEF Remembered
<1>14. OwedIsThere'
  BY <1>2, <1>7 DEF Copies, OwedIsThere
<1>15. HandledIsHeld'
  <2>1. n \in alive => n \in copies'
    BY <1>2, <1>6
  <2>2. SyncWaits \subseteq waiting /\ copies \subseteq copies'
    BY <1>2 DEF SyncWaits
  <2> QED
    BY <1>1, <1>2, <2>1, <2>2 DEF Copies, HandledIsHeld
<1>16. HeldIsCounted'
  <2>1. n \in alive => MustDestroy(n)
    BY <1>1, CreatingCounted
  <2>2. \A o \in copies \cap alive : MustDestroy(o)
    BY DEF Copies, HeldIsCounted
  <2> QED
    BY <1>1, <1>8, <2>1, <2>2 DEF HeldIsCounted, MustDestroy
<1>17. OrphansAreOwed'
  BY <1>1, <1>2, <1>4 DEF Copies, OrphansAreOwed
<1>18. KnownIsHeld'
  BY <1>1, <1>2 DEF Copies, KnownIsHeld
<1> QED
  BY <1>9, <1>10, <1>11, <1>12, <1>13, <1>14, <1>15, <1>16, <1>17, <1>18 DEF Copies

\* The objects a destroy message names are copies, or will be destroyed when they come;
\* nothing else has their ids, so nothing else goes.
LEMMA HandleDestroyOutcome ==
  ASSUME Server, Orders, Copies, NEW m, Handle(m), HandleDestroy(m)
  PROVE  /\ m \in DestroyWaits /\ m.about \subseteq Owed /\ m.about \cap alive = {}
         /\ SameId(lingering, m.about) = {}
         /\ copies' = copies \ m.about
         /\ lingering' = lingering \cup (copies \cap m.about)
         /\ Destroyed' = Destroyed \cup (m.about \ copies)
         /\ Creating' = Creating /\ Owed' = Owed \ m.about
         /\ \A c \in copies' : copyState'[c] = copyState[c] /\ lastSyncID'[c] = lastSyncID[c]
<1> DEFINE D == m.about
           entries == Destroyed \cup D
<1>1. /\ connected /\ m \in waiting \cup loose /\ m.num \notin handled
      /\ UNCHANGED <<idOf, destroyers, waiting>> /\ DestroyWaits' = DestroyWaits
      /\ \A k \in waiting : k.num \in handled' <=> k.num \in handled \/ k = m
      /\ D \subseteq Created
  BY HandleChanges
<1>2. /\ m.kind = "destroy"
      /\ DoDestroy(copies, lingering, Destroyed \cup (D \ SameId(D, lingering)),
                   copyState, lastSyncID)
  BY DEF HandleDestroy
<1>3. m \in waiting /\ m \in DestroyWaits
  BY <1>1, <1>2 DEF Server, Base, MessagesOK, Single, DestroyWaits
<1>4. D \subseteq Owed /\ D \subseteq Ordered
  BY <1>1, <1>3, Numbers DEF Owed, Ordered
<1>5. D \cap alive = {}
  BY <1>1, <1>4 DEF Orders, OrderedAreDead
<1>6. \A d \in D : d \in copies \cup Creating
  BY <1>4 DEF Copies, OwedIsThere
<1>7. \A n \in Creating, c \in copies \cup lingering : idOf[c] # idOf[n]
  BY DEF Copies, Room
<1>8. \A c \in copies, d \in Destroyed \cup lingering : idOf[c] # idOf[d]
  BY DEF Copies, Apart
<1>9. \A d \in D, c \in lingering : idOf[c] # idOf[d]
  BY <1>6, <1>7, <1>8
<1>10. SameId(D, lingering) = {} /\ SameId(lingering, D) = {}
  BY <1>9 DEF SameId
<1>11. DoDestroy(copies, lingering, entries, copyState, lastSyncID)
  BY <1>2, <1>10
<1>12. \A d \in D, c \in copies : idOf[c] = idOf[d] => c = d
  BY <1>6, <1>7 DEF Copies, CopyIds
<1>13. Destroyed \subseteq Creating
  BY DEF Copies, Remembered
<1> HIDE DEF D
<1>14. SameId(copies, entries) = copies \cap D
  BY <1>8, <1>12 DEF SameId
<1>15. SameId(entries, copies \cup lingering) = copies \cap D
  <2>1. \A d \in D, c \in copies \cup lingering : idOf[c] = idOf[d] => c = d /\ c \in copies
    BY <1>9, <1>12
  <2>2. \A d \in Destroyed, c \in copies \cup lingering : idOf[c] # idOf[d]
    BY <1>7, <1>13
  <2> QED
    BY <2>1, <2>2 DEF SameId
<1>16. /\ copies' = copies \ D /\ lingering' = lingering \cup (copies \cap D)
       /\ Destroyed' = entries \ (copies \cap D)
       /\ copyState' = Without(copies \cap D, copyState, 0)
       /\ lastSyncID' = Without(copies \cap D, lastSyncID, 0)
  <2>1. /\ copies' = copies \ (copies \cap D) /\ lingering' = lingering \cup (copies \cap D)
        /\ Destroyed' = entries \ (copies \cap D)
        /\ copyState' = Without(copies \cap D, copyState, 0)
        /\ lastSyncID' = Without(copies \cap D, lastSyncID, 0)
    BY <1>11, <1>14, <1>15 DEF DoDestroy
  <2> QED
    BY <2>1
<1>17. Destroyed' = Destroyed \cup (D \ copies)
  <2>1. Destroyed \cap copies = {}
    BY <1>8
  <2> QED
    BY <1>16, <2>1
<1>18. Creating' = Creating
  BY <1>1, <1>2 DEF Creating
<1>19. Owed' = Owed \ D
  <2>1. \A k \in DestroyWaits : k # m => k.about \cap D = {}
    BY <1>1, <1>3 DEF Orders, OneOrder, D
  <2>2. destroyers \cap D = {}
    BY <1>1, <1>3 DEF Orders, OneOrder, D
  <2>3. D = m.about /\ DestroyWaits \subseteq waiting
    BY DEF D, DestroyWaits
  <2> QED
    BY <1>1, <2>1, <2>2, <2>3 DEF Owed
<1>20. \A c \in copies' : copyState'[c] = copyState[c] /\ lastSyncID'[c] = lastSyncID[c]
  <2>1. copies \subseteq Objects
    BY Numbers DEF Server, Base, ClientOK
  <2> QED
    BY <1>16, <2>1 DEF Without
<1> QED
  BY <1>3, <1>4, <1>5, <1>10, <1>16, <1>17, <1>18, <1>19, <1>20 DEF D

LEMMA HandleDestroyCopies ==
  ASSUME Server, Orders, Copies, NEW m, Handle(m), HandleDestroy(m)
  PROVE  Copies'
<1> DEFINE D == m.about
<1>1. /\ connected /\ loose' \subseteq loose /\ SyncWaits' = SyncWaits
      /\ UNCHANGED <<idOf, alive, knowsAbout, connected>>
      /\ \A k \in waiting : k.num \in handled' <=> k.num \in handled \/ k = m
  BY HandleChanges
<1>2. /\ m \in DestroyWaits /\ D \subseteq Owed /\ D \cap alive = {}
      /\ copies' = copies \ D /\ lingering' = lingering \cup (copies \cap D)
      /\ Destroyed' = Destroyed \cup (D \ copies)
      /\ Creating' = Creating /\ Owed' = Owed \ D
  BY HandleDestroyOutcome
<1>3. D \subseteq copies \cup Creating
  BY <1>2 DEF Copies, OwedIsThere
<1>4. \A n \in Creating, c \in copies \cup lingering : idOf[c] # idOf[n]
  BY DEF Copies, Room
<1>5. \A d \in Owed', e \in D : idOf[d] # idOf[e]
  <2>1. /\ \A k \in DestroyWaits : \A d \in k.about, e \in D :
             idOf[d] = idOf[e] => k = m
        /\ \A d \in destroyers, e \in D : idOf[d] # idOf[e]
    BY <1>1, <1>2 DEF Orders, OneOrder
  <2>2. \A d \in Owed' : d \in Owed /\ d \notin D
    BY <1>2
  <2>3. \A d \in Owed : d \in destroyers \/ \E k \in DestroyWaits : d \in k.about
    BY DEF Owed
  <2> QED
    BY <2>1, <2>2, <2>3
<1> HIDE DEF D
<1>6. CopyIds' /\ CopyIsAbout'
  BY <1>1, <1>2 DEF Copies, CopyIds, CopyIsAbout
<1>7. Room'
  BY <1>1, <1>2, <1>4 DEF Room
<1>8. Apart'
  BY <1>1, <1>2, <1>3, <1>4 DEF Copies, Apart, CopyIds
<1>9. Remembered'
  BY <1>1, <1>2, <1>3, <1>5 DEF Copies, Remembered
<1>10. OwedIsThere'
  BY <1>2 DEF Copies, OwedIsThere
<1>11. HandledIsHeld'
  <2>1. \A k \in SyncWaits : k \in waiting /\ k # m
    BY <1>2 DEF SyncWaits, DestroyWaits
  <2> QED
    BY <1>1, <1>2, <2>1 DEF Copies, HandledIsHeld
<1>12. HeldIsCounted' /\ KnownIsHeld'
  BY <1>1, <1>2 DEF Copies, HeldIsCounted, KnownIsHeld, MustDestroy
<1>13. OrphansAreOwed'
  BY <1>1, <1>2, <1>4 DEF Copies, OrphansAreOwed
<1> QED
  BY <1>6, <1>7, <1>8, <1>9, <1>10, <1>11, <1>12, <1>13 DEF Copies

LEMMA StepClient ==
  ASSUME Quiet, Server, Orders, Client, [Next]_vars
  PROVE  Client'
<1> USE DEF Client
<1>0. QuietReuse /\ QuietSlot /\ QuietClient
  BY DEF Quiet
<1>1. CASE UNCHANGED vars
  BY <1>1, CopiesKept
  DEF vars, objectVars, slotVars, clientVars, Owed, Creating, SyncWaits, DestroyWaits, MustDestroy
<1>2. ASSUME NEW n \in alive, NEW ack \in BOOLEAN, RequestSync(n, ack)
      PROVE  Client'
  <2>1. knowsAbout \in [Objects -> Knows] /\ alive \subseteq Objects
    BY Numbers DEF Server, Base, ObjectsOK
  <2>2. \A o \in alive :
          /\ knowsAbout'[o].knowsAboutExistence = knowsAbout[o].knowsAboutExistence
          /\ knowsAbout'[o].acksPending = knowsAbout[o].acksPending
    BY <1>2, <2>1 DEF RequestSync, Requested, Knows
  <2> QED
    BY <1>2, <2>2, CopiesKept
    DEF RequestSync, slotVars, clientVars, Owed, Creating, SyncWaits, DestroyWaits, MustDestroy
<1>3. ASSUME NEW n \in syncList, SyncObject(n)
      PROVE  Client'
  <2>1. /\ connected /\ n \in alive
        /\ SendsDestroyer(n) \/ SendsCreation(n) \/ SendsSync(n)
        /\ UNCHANGED <<idOf, alive, connected, clientVars>>
    BY <1>3, SyncObjectCases DEF Server, Base, ObjectsOK
  <2> QED
    BY <1>0, <2>1, DestroyersSentCopies, SendsCreationCopies, SendsSyncCopies
    DEF SendsDestroyer, clientVars
<1>4. CASE DestroyerGoes
  BY <1>4, DestroyersSentCopies DEF DestroyerGoes, objectVars, clientVars
<1>5. CASE CleanSyncList
  BY <1>5, CopiesKept
  DEF CleanSyncList, slotVars, clientVars, Owed, Creating, SyncWaits, DestroyWaits, MustDestroy
<1>6. ASSUME NEW m, DestroyForgotten(m)
      PROVE  Client'
  BY <1>6, AckDestroyCopies DEF DestroyForgotten
<1>7. CASE Ready
  BY <1>7, CopiesKept
  DEF Ready, objectVars, clientVars, Owed, Creating, SyncWaits, DestroyWaits, MustDestroy
<1>8. ASSUME NEW D, NEW traced, Logout(D, traced)
      PROVE  Client'
  BY <1>8, LogoutChanges
<1>9. CASE ForgetDeleted
  BY <1>9, CopiesKept
  DEF ForgetDeleted, objectVars, slotVars, Owed, Creating, SyncWaits, DestroyWaits, MustDestroy
<1>10. ASSUME NEW m, Handle(m)
       PROVE  Client'
  BY <1>10, HandleChanges, HandleSyncCopies, HandleCreateCopies, HandleDestroyCopies
<1>11. ASSUME NEW id \in Ids, CreateObject(id)
       PROVE  Client'
  BY <1>0, <1>11, CreateObjectCopies DEF CreateObject, slotVars
<1>12. ASSUME NEW n \in alive, DestroyObject(n)
       PROVE  Client'
  BY <1>12, DestroyObjectCopies DEF DestroyObject
<1>13. ASSUME NEW m, AckSync(m)
       PROVE  Client'
  BY <1>13, AckSyncCopies, AckSyncChanges
<1>14. CASE Login
  BY <1>0, <1>14, LoginCopies
<1> QED
  BY <1>1, <1>2, <1>3, <1>4, <1>5, <1>6, <1>7, <1>8, <1>9, <1>10, <1>11, <1>12, <1>13, <1>14,
     StepCases

LEMMA ClientHolds ==
  ASSUME Quiet
  PROVE  Spec => []Client
<1>1. Init => Client
  BY DEF Init, Client
<1>2. Server /\ Orders /\ Client /\ [Next]_vars => Client'
  BY StepClient
<1> QED
  BY <1>1, <1>2, ServerHolds, OrdersHold, PTL DEF Spec

\* "is the creation message through?": what knowsAboutExistence says of a living object is
\* true of the client, through any order of messages and any reuse of ids and slots that
\* waits for the old messages.
THEOREM KnownIsHeldHolds ==
  ASSUME Quiet
  PROVE  Spec => []KnownIsHeld
<1>1. Client => KnownIsHeld
  BY DEF Client, Copies, KnownIsHeld
<1> QED
  BY <1>1, ClientHolds, PTL

\* An object that the server has destroyed and the client still holds, or is still sent,
\* is named in a destroy message to come, or the client remembers the one that came first.
THEOREM NoOrphanHolds ==
  ASSUME Quiet
  PROVE  Spec => []NoOrphan
<1>1. Server /\ Client => NoOrphan
  <2> SUFFICES ASSUME Server, Client, connected, NEW n \in Created \ alive,
                      n \in copies \/ \E m \in Underway : m.kind = "create" /\ n \in m.about
               PROVE  \/ n \in destroyers \cup Destroyed
                      \/ \E m \in DestroyWaits : n \in m.about /\ m.num \notin handled
    BY DEF NoOrphan
  <2>1. \A m \in Underway : m.kind = "create" => m \in waiting /\ m.num \notin handled
    BY DEF Underway, Server, Base, MessagesOK, Single
  <2>2. n \in copies \cup Creating
    BY <2>1, Numbers DEF Creating
  <2>3. n \in Destroyed \cup Owed
    BY <2>2 DEF Client, Copies, OrphansAreOwed
  <2> QED
    BY <2>3 DEF Owed
<1> QED
  BY <1>1, ServerHolds, ClientHolds, PTL

\* What may take copies away from a client that stays: handling a message, nothing else.
LEMMA OnlyHandling ==
  ASSUME Next, connected, connected'
  PROVE  UNCHANGED <<copies, handled, copyState>> \/ \E m \in Underway : Handle(m)
<1>1. /\ \A D \in SUBSET alive : \A traced \in SUBSET D : ~Logout(D, traced)
      /\ ~Login
  BY DEF Logout, Login
<1>2. /\ \A id \in Ids : CreateObject(id) => UNCHANGED clientVars
      /\ \A n \in alive, ack \in BOOLEAN : RequestSync(n, ack) => UNCHANGED clientVars
      /\ \A n \in alive : DestroyObject(n) => UNCHANGED clientVars
      /\ \A n \in syncList : SyncObject(n) => UNCHANGED clientVars
  BY DEF CreateObject, RequestSync, DestroyObject, SyncObject
<1>3. /\ DestroyerGoes \/ CleanSyncList \/ Ready => UNCHANGED clientVars
      /\ \A m \in waiting : AckSync(m) \/ DestroyForgotten(m) => UNCHANGED clientVars
  BY DEF DestroyerGoes, CleanSyncList, Ready, AckSync, DestroyForgotten
<1>4. ForgetDeleted => UNCHANGED <<copies, handled, copyState>>
  BY DEF ForgetDeleted
<1> QED
  BY <1>1, <1>2, <1>3, <1>4, StepCases DEF clientVars

\* No message, however late, makes the client destroy an object that the server still has.
THEOREM OnlyDeadDestroyedHolds ==
  ASSUME Quiet
  PROVE  Spec => OnlyDeadDestroyed
<1>1. ASSUME Server, Orders, Client, [Next]_vars
      PROVE  [connected /\ connected' => \A n \in copies \ copies' : n \notin alive]_vars
  <2>1. ASSUME Next, connected, connected', NEW n \in copies \ copies'
        PROVE  n \notin alive
    <3>0. Copies
      BY <1>1, <2>1 DEF Client
    <3>1. PICK m \in Underway : Handle(m)
      BY <2>1, OnlyHandling
    <3>2. CASE HandleSync(m)
      BY <2>1, <3>2 DEF HandleSync
    <3>3. CASE HandleCreate(m)
      BY <1>1, <2>1, <3>0, <3>1, <3>3, HandleCreateOutcome
    <3>4. CASE HandleDestroy(m)
      BY <1>1, <2>1, <3>0, <3>1, <3>4, HandleDestroyOutcome
    <3> QED
      BY <1>1, <3>1, <3>2, <3>3, <3>4, HandleChanges
  <2> QED
    BY <1>1, <2>1
<1> QED
  BY <1>1, ServerHolds, OrdersHold, ClientHolds, PTL DEF Spec, OnlyDeadDestroyed

\* With QuietClient the assertion of net_destroy_handler holds: no order to destroy finds
\* an object that the client has taken over.
THEOREM OrdersFindNoOwnedHolds ==
  ASSUME Quiet
  PROVE  Spec => OrdersFindNoOwned
<1>1. ASSUME Server, Orders, Client, [Next]_vars
      PROVE  [\A m \in Underway : m.kind = "destroy" /\ m.num \in handled' =>
                SameId(lingering, m.about) = {}]_vars
  <2>1. ASSUME Next, NEW m \in Underway, m.kind = "destroy", m.num \in handled'
        PROVE  SameId(lingering, m.about) = {}
    <3>1. m.num \notin handled
      BY DEF Underway
    <3>2. connected /\ connected'
      <4>1. handled' # {} /\ handled' # handled
        BY <2>1, <3>1
      <4>2. ~Login /\ \A D \in SUBSET alive : \A traced \in SUBSET D : ~Logout(D, traced)
        BY <4>1, LogoutChanges DEF Login, NewClient
      <4>3. \/ handled' = handled
            \/ \E k \in Underway : Handle(k)
        BY <2>1, <4>2, StepCases
        DEF CreateObject, RequestSync, DestroyObject, SyncObject, DestroyerGoes, CleanSyncList,
            Ready, AckSync, DestroyForgotten, ForgetDeleted, clientVars
      <4> QED
        BY <1>1, <4>1, <4>3, HandleChanges
    <3>3. PICK k \in Underway : Handle(k)
      BY <2>1, <3>1, <3>2, OnlyHandling
    <3>4. k = m
      BY <1>1, <2>1, <3>1, <3>3, HandleChanges DEF Underway, Server, Base, MessagesOK, Unique
    <3>5. HandleDestroy(m)
      BY <1>1, <2>1, <3>3, <3>4, HandleChanges DEF HandleCreate, HandleSync
    <3> QED
      BY <1>1, <3>2, <3>3, <3>4, <3>5, HandleDestroyOutcome DEF Client
  <2> QED
    BY <1>1, <2>1
<1> QED
  BY <1>1, ServerHolds, OrdersHold, ClientHolds, PTL DEF Spec, OrdersFindNoOwned

-----------------------------------------------------------------------------
(***************************************************************************)
(* The states of the copies.                                               *)
(***************************************************************************)
AboutMessages == SyncWaits \cup loose

\* Later messages about an object carry later states, none later than the object's.
InOrder == \A m1, m2 \in AboutMessages :
             m1.about = m2.about /\ m1.num <= m2.num => m1.state <= m2.state

NotAhead == \A m \in AboutMessages : \A n \in m.about : n \in alive => m.state <= state[n]

\* A message compares with a copy by state as it does by number.
CopyOrder ==
  \A m \in AboutMessages : \A n \in m.about : n \in copies =>
    /\ m.num >= lastSyncID[n] => m.state >= copyState[n]
    /\ m.num <= lastSyncID[n] => m.state <= copyState[n]

CopyNotAhead ==
  \A n \in copies : lastSyncID[n] <= lastMessage /\ (n \in alive => copyState[n] <= state[n])

HandledIsSeen ==
  \A m \in SyncWaits : m.num \in handled =>
    \A n \in m.about : n \in alive => m.num <= lastSyncID[n]

\* What must arrive is asked for, or waits for its ack, or is there.
ComesTo(n) ==
  \/ knowsAbout[n].syncReq /\ knowsAbout[n].nextSyncAck
  \/ \E m \in SyncWaits : n \in m.about /\ m.state >= mustArrive[n]
  \/ knowsAbout[n].knowsAboutExistence /\ copyState[n] >= mustArrive[n]

AllCome == \A n \in alive : ComesTo(n)

MustExist == \A n \in Objects : mustArrive[n] <= state[n]

States == InOrder /\ NotAhead /\ CopyOrder /\ CopyNotAhead /\ HandledIsSeen /\ AllCome

Current == MustExist /\ (connected => States)

LEMMA StateTypes ==
  ASSUME Server
  PROVE  /\ state \in [Objects -> Nat] /\ mustArrive \in [Objects -> Nat]
         /\ copyState \in [Objects -> Nat] /\ lastSyncID \in [Objects -> Nat]
         /\ copies \subseteq Objects /\ alive \subseteq Objects
         /\ lastMessage \in Nat
         /\ \A m \in AboutMessages : /\ m.num \in Nat /\ m.state \in Nat /\ m.num <= lastMessage
                                     /\ \E n \in Created : m.about = {n}
<1>1. /\ state \in [Objects -> 0 .. MaxState] /\ mustArrive \in [Objects -> 0 .. MaxState]
      /\ copyState \in [Objects -> 0 .. MaxState]
      /\ lastSyncID \in [Objects -> 0 .. MaxMessages]
      /\ copies \subseteq Created
  BY DEF Server, Base, ObjectsOK, ClientOK
<1>2. /\ lastMessage \in Nat /\ waiting \subseteq Messages /\ loose \subseteq Messages
      /\ Sent /\ Single
  BY DEF Server, Base, MessagesOK
<1>3. ASSUME NEW m \in AboutMessages
      PROVE  /\ m.num \in Nat /\ m.state \in Nat /\ m.num <= lastMessage
             /\ \E n \in Created : m.about = {n}
  <2>1. m \in waiting \cup loose /\ m \in Messages
    BY <1>2 DEF AboutMessages, SyncWaits
  <2>2. m.num \in 1 .. lastMessage /\ m.state \in 0 .. MaxState
    BY <1>2, <2>1 DEF Sent, Messages
  <2> QED
    BY <1>2, <2>2 DEF Single, AboutMessages
<1>4. /\ state \in [Objects -> Nat] /\ mustArrive \in [Objects -> Nat]
      /\ copyState \in [Objects -> Nat] /\ lastSyncID \in [Objects -> Nat]
  BY <1>1
<1> QED
  BY <1>1, <1>2, <1>3, <1>4, Numbers

\* Steps that leave the messages about objects, and the states that matter, alone.
LEMMA StatesKept ==
  ASSUME Server, States, SyncWaits' = SyncWaits, loose' \subseteq loose, handled' = handled,
         copies' = copies, copyState' = copyState, lastSyncID' = lastSyncID,
         alive' \subseteq alive, lastMessage' \in Nat, lastMessage' >= lastMessage,
         \A n \in alive' : /\ state'[n] = state[n] /\ mustArrive'[n] = mustArrive[n]
                           /\ knowsAbout'[n] = knowsAbout[n]
  PROVE  States'
<1>1. AboutMessages' \subseteq AboutMessages
  BY DEF AboutMessages
<1>2. InOrder' /\ NotAhead' /\ CopyOrder' /\ HandledIsSeen'
  BY <1>1 DEF States, InOrder, NotAhead, CopyOrder, HandledIsSeen
<1>3. CopyNotAhead'
  BY StateTypes DEF States, CopyNotAhead
<1>4. AllCome'
  BY DEF States, AllCome, ComesTo
<1> QED
  BY <1>2, <1>3, <1>4 DEF States

LEMMA CreateObjectStates ==
  ASSUME Server, States, connected, NEW id \in Ids, CreateObject(id)
  PROVE  States'
<1>0. Len(idOf) + 1 \in Objects
  BY DEF CreateObject
<1> PICK n \in Objects : n = Len(idOf) + 1
  BY <1>0
<1>1. /\ alive' = alive \cup {n} /\ knowsAbout' = [knowsAbout EXCEPT ![n] = Unknown]
      /\ UNCHANGED <<connected, waiting, loose, state, mustArrive, lastMessage, clientVars>>
  BY DEF CreateObject, slotVars
<1>2. n \notin Created /\ \A o \in Created : o # n
  BY DEF Created, Server, Base, ObjectsOK
<1>3. UNCHANGED <<handled, copies, copyState, lastSyncID>>
  BY <1>1 DEF clientVars
<1>4. SyncWaits' = SyncWaits /\ AboutMessages' = AboutMessages
  BY <1>1 DEF SyncWaits, AboutMessages
<1>5. /\ \A m \in AboutMessages : n \notin m.about
      /\ n \notin copies /\ n \notin alive /\ SyncWaits \subseteq AboutMessages
  BY <1>2, Numbers, StateTypes DEF AboutMessages, Server, Base, ClientOK
<1>6. InOrder' /\ NotAhead' /\ CopyOrder' /\ CopyNotAhead'
  BY <1>1, <1>3, <1>4, <1>5 DEF States, InOrder, NotAhead, CopyOrder, CopyNotAhead
<1>7. HandledIsSeen'
  BY <1>1, <1>3, <1>4, <1>5 DEF States, HandledIsSeen
<1>8. AllCome'
  <2>1. knowsAbout'[n].syncReq /\ knowsAbout'[n].nextSyncAck
    BY <1>1 DEF Unknown, Server, Base, ObjectsOK
  <2>2. \A o \in alive : knowsAbout'[o] = knowsAbout[o]
    BY <1>1, <1>5, StateTypes DEF Server, Base, ObjectsOK
  <2>3. \A o \in alive : ComesTo(o)'
    BY <1>1, <1>3, <1>4, <2>2 DEF States, AllCome, ComesTo
  <2>4. ComesTo(n)'
    BY <2>1 DEF ComesTo
  <2> QED
    BY <1>1, <2>3, <2>4 DEF AllCome
<1> QED
  BY <1>6, <1>7, <1>8 DEF States

LEMMA RequestSyncStates ==
  ASSUME Server, States, MustExist, connected, NEW n \in alive, NEW ack \in BOOLEAN,
         RequestSync(n, ack)
  PROVE  States'
<1>1. /\ state' = [state EXCEPT ![n] = @ + 1]
      /\ mustArrive' = IF ack THEN [mustArrive EXCEPT ![n] = state[n] + 1] ELSE mustArrive
      /\ knowsAbout' = [knowsAbout EXCEPT ![n] = Requested(@, ack)]
      /\ UNCHANGED <<alive, connected, waiting, loose, lastMessage, clientVars>>
  BY DEF RequestSync, slotVars
<1>2. UNCHANGED <<handled, copies, copyState, lastSyncID>>
  BY <1>1 DEF clientVars
<1>3. SyncWaits' = SyncWaits /\ AboutMessages' = AboutMessages
  BY <1>1 DEF SyncWaits, AboutMessages
<1>4. \A o \in alive : state[o] \in Nat /\ state'[o] \in Nat /\ state[o] <= state'[o]
  BY <1>1, StateTypes
<1>5. InOrder' /\ CopyOrder' /\ HandledIsSeen'
  BY <1>1, <1>2, <1>3 DEF States, InOrder, CopyOrder, HandledIsSeen
<1>6. NotAhead'
  <2> SUFFICES ASSUME NEW m \in AboutMessages, NEW o \in m.about, o \in alive
               PROVE  m.state <= state'[o]
    BY <1>1, <1>3 DEF NotAhead
  <2>1. m.state <= state[o] /\ m.state \in Nat
    BY StateTypes DEF States, NotAhead
  <2> QED
    BY <1>4, <2>1
<1>7. CopyNotAhead'
  <2> SUFFICES ASSUME NEW o \in copies
               PROVE  lastSyncID[o] <= lastMessage /\ (o \in alive => copyState[o] <= state'[o])
    BY <1>1, <1>2 DEF CopyNotAhead
  <2>1. /\ lastSyncID[o] <= lastMessage /\ (o \in alive => copyState[o] <= state[o])
        /\ copyState[o] \in Nat
    BY StateTypes DEF States, CopyNotAhead
  <2> QED
    BY <1>4, <2>1
<1>8. AllCome'
  <2>0. knowsAbout \in [Objects -> Knows] /\ alive \subseteq Objects
    BY StateTypes DEF Server, Base, ObjectsOK
  <2>1. \A o \in alive : o # n => mustArrive'[o] = mustArrive[o] /\ knowsAbout'[o] = knowsAbout[o]
    BY <1>1, <2>0, StateTypes
  <2>2. knowsAbout'[n] = Requested(knowsAbout[n], ack)
    BY <1>1, <2>0
  <2>3. /\ knowsAbout'[n].syncReq
        /\ knowsAbout'[n].nextSyncAck <=> (knowsAbout[n].nextSyncAck \/ ack)
        /\ knowsAbout'[n].knowsAboutExistence = knowsAbout[n].knowsAboutExistence
    BY <2>0, <2>2 DEF Requested, Knows
  <2>4. ~ack => mustArrive' = mustArrive
    BY <1>1
  <2>5. \A o \in alive : o # n => ComesTo(o)'
    BY <1>2, <1>3, <2>1 DEF States, AllCome, ComesTo
  <2>6. ComesTo(n)'
    BY <1>2, <1>3, <2>3, <2>4 DEF States, AllCome, ComesTo
  <2> QED
    BY <1>1, <2>5, <2>6 DEF AllCome
<1> QED
  BY <1>5, <1>6, <1>7, <1>8 DEF States

\* A message that goes out carries the object's state and the highest number.
LEMMA SentStates ==
  ASSUME Server, States, MustExist, connected, NEW n \in alive, NEW m,
         m.num = lastMessage + 1, m.state = state[n], m.about = {n}, m.kind # "destroy",
         \/ waiting' = waiting \cup {m} /\ loose' = loose
         \/ waiting' = waiting /\ loose' = loose \cup {m} /\ ~knowsAbout[n].nextSyncAck,
         lastMessage' = lastMessage + 1,
         UNCHANGED <<alive, state, mustArrive, clientVars>>,
         \A o \in alive : /\ o # n => knowsAbout'[o] = knowsAbout[o]
                          /\ knowsAbout'[o].knowsAboutExistence = knowsAbout[o].knowsAboutExistence
  PROVE  States'
<1>1. UNCHANGED <<handled, copies, copyState, lastSyncID>>
  BY DEF clientVars
<1>2. AboutMessages' = AboutMessages \cup {m} /\ SyncWaits \subseteq SyncWaits'
  BY DEF AboutMessages, SyncWaits
<1>3. /\ lastMessage \in Nat /\ state[n] \in Nat /\ mustArrive[n] \in Nat
      /\ mustArrive[n] <= state[n] /\ n \in Objects
      /\ \A k \in AboutMessages : k.num \in Nat /\ k.state \in Nat /\ k.num < m.num
  BY StateTypes DEF MustExist
<1>4. InOrder'
  <2>1. \A k \in AboutMessages : k.about = {n} => k.state <= m.state
    BY DEF States, NotAhead
  <2>2. \A k \in AboutMessages : ~ m.num <= k.num
    BY <1>3
  <2>3. m.state <= m.state
    BY <1>3
  <2> QED
    BY <1>2, <2>1, <2>2, <2>3 DEF States, InOrder
<1>5. NotAhead'
  BY <1>2, <1>3 DEF States, NotAhead
<1>6. CopyOrder'
  <2>1. n \in copies => copyState[n] <= m.state /\ ~ m.num <= lastSyncID[n]
    <3>1. n \in copies => lastSyncID[n] <= lastMessage /\ copyState[n] <= state[n]
      BY DEF States, CopyNotAhead
    <3>2. lastSyncID[n] \in Nat /\ copyState[n] \in Nat
      BY <1>3, StateTypes
    <3> QED
      BY <1>3, <3>1, <3>2
  <2>2. copyState[n] \in Nat
    BY <1>3, StateTypes
  <2>3. n \in copies => /\ m.num >= lastSyncID[n] => m.state >= copyState[n]
                        /\ m.num <= lastSyncID[n] => m.state <= copyState[n]
    BY <1>3, <2>1, <2>2
  <2> QED
    BY <1>1, <1>2, <2>3 DEF States, CopyOrder
<1>7. CopyNotAhead'
  <2> SUFFICES ASSUME NEW c \in copies
               PROVE  lastSyncID[c] <= lastMessage' /\ (c \in alive => copyState[c] <= state[c])
    BY <1>1 DEF CopyNotAhead
  <2>1. /\ lastSyncID[c] <= lastMessage /\ (c \in alive => copyState[c] <= state[c])
        /\ lastSyncID[c] \in Nat
    BY StateTypes DEF States, CopyNotAhead
  <2> QED
    BY <1>3, <2>1
<1>8. HandledIsSeen'
  <2>1. m.num \notin handled
    BY <1>3 DEF Server, Base, MessagesOK
  <2>2. SyncWaits' \subseteq SyncWaits \cup {m}
    BY DEF SyncWaits
  <2> QED
    BY <1>1, <2>1, <2>2 DEF States, HandledIsSeen
<1>9. AllCome'
  <2>1. \A o \in alive : o # n => ComesTo(o)'
    BY <1>1, <1>2 DEF States, AllCome, ComesTo
  <2>2. ComesTo(n)'
    <3>1. CASE waiting' = waiting \cup {m}
      <4>1. m \in SyncWaits' /\ n \in m.about /\ m.state >= mustArrive[n]
        BY <1>3, <3>1 DEF SyncWaits
      <4> QED
        BY <4>1 DEF ComesTo
    <3>2. CASE ~knowsAbout[n].nextSyncAck
      BY <1>1, <1>2, <3>2 DEF States, AllCome, ComesTo
    <3> QED
      BY <3>1, <3>2
  <2> QED
    BY <2>1, <2>2 DEF AllCome
<1> QED
  BY <1>4, <1>5, <1>6, <1>7, <1>8, <1>9 DEF States

LEMMA SyncObjectStates ==
  ASSUME Server, States, MustExist, NEW n \in syncList, SyncObject(n)
  PROVE  States'
<1>0. /\ connected /\ n \in alive
      /\ SendsDestroyer(n) \/ SendsCreation(n) \/ SendsSync(n)
      /\ UNCHANGED <<idOf, alive, state, mustArrive, connected, clientVars>>
  BY SyncObjectCases DEF Server, Base, ObjectsOK
<1>1. CASE SendsDestroyer(n)
  <2>1. /\ SendDestroyer(destroyers) /\ UNCHANGED <<knowsAbout, loose>>
    BY <1>1 DEF SendsDestroyer
  <2>2. SyncWaits' = SyncWaits
    BY <1>0, <2>1, SendDestroyerKeeps, Numbers DEF Server, clientVars
  <2>3. lastMessage' \in Nat /\ lastMessage' >= lastMessage
    BY <2>1, StateTypes DEF SendDestroyer
  <2> QED
    BY <1>0, <2>1, <2>2, <2>3, StatesKept DEF clientVars
<1>2. ASSUME SendsCreation(n) \/ SendsSync(n)
      PROVE  States'
  <2> DEFINE m == SyncMessage(n)
  <2>1. \A o \in alive : /\ o # n => knowsAbout'[o] = knowsAbout[o]
                         /\ knowsAbout'[o].knowsAboutExistence = knowsAbout[o].knowsAboutExistence
    BY <1>0, <1>2, SentKnows, Numbers DEF Server
  <2>2. /\ m.num = lastMessage + 1 /\ m.state = state[n] /\ m.about = {n} /\ m.kind # "destroy"
    BY <1>0, <1>2, SyncMessageType DEF SendsCreation, SendsSync, Server
  <2>3. /\ lastMessage' = lastMessage + 1
        /\ \/ waiting' = waiting \cup {m} /\ loose' = loose
           \/ waiting' = waiting /\ loose' = loose \cup {m} /\ ~knowsAbout[n].nextSyncAck
    BY <1>2 DEF SendsCreation, SendsSync
  <2> HIDE DEF m
  <2> QED
    BY <1>0, <2>1, <2>2, <2>3, SentStates
<1> QED
  BY <1>0, <1>1, <1>2

\* The ack of the message that carried what must arrive finds it there.
LEMMA AckSyncStates ==
  ASSUME Server, Copies, States, NEW m, AckSync(m)
  PROVE  States'
<1>1. /\ connected /\ m \in SyncWaits /\ m.num \in handled /\ waiting' = waiting \ {m}
      /\ UNCHANGED <<alive, state, mustArrive, connected, loose, clientVars, lastMessage>>
  BY AckSyncChanges
<1>2. UNCHANGED <<handled, copies, copyState, lastSyncID>>
  BY <1>1 DEF clientVars
<1>3. SyncWaits' = SyncWaits \ {m} /\ AboutMessages' \subseteq AboutMessages
  BY <1>1 DEF SyncWaits, AboutMessages
<1>4. PICK n \in Created :
        /\ m.about = {n}
        /\ \A o \in alive : o # n => knowsAbout'[o] = knowsAbout[o]
        /\ n \in alive => /\ knowsAbout'[n].knowsAboutExistence
                          /\ knowsAbout'[n].syncReq = knowsAbout[n].syncReq
                          /\ knowsAbout'[n].nextSyncAck = knowsAbout[n].nextSyncAck
  BY AckSyncKnows
<1>5. InOrder' /\ NotAhead' /\ CopyOrder' /\ CopyNotAhead' /\ HandledIsSeen'
  BY <1>1, <1>2, <1>3
  DEF States, InOrder, NotAhead, CopyOrder, CopyNotAhead, HandledIsSeen
<1>6. AllCome'
  <2>1. ASSUME NEW o \in alive, o # n
        PROVE  ComesTo(o)'
    <3>1. \A k \in SyncWaits : o \in k.about => k \in SyncWaits'
      BY <1>3, <1>4, <2>1
    <3> QED
      BY <1>1, <1>2, <1>3, <1>4, <2>1, <3>1 DEF States, AllCome, ComesTo
  <2>2. ASSUME n \in alive
        PROVE  ComesTo(n)'
    <3>1. m.state >= mustArrive[n] => copyState[n] >= mustArrive[n]
      <4>1. n \in copies /\ m.num <= lastSyncID[n] /\ m \in AboutMessages
        BY <1>1, <1>4, <2>2 DEF Copies, HandledIsHeld, States, HandledIsSeen, AboutMessages
      <4>2. m.state <= copyState[n]
        BY <1>4, <4>1 DEF States, CopyOrder
      <4>3. m.state \in Nat /\ copyState[n] \in Nat /\ mustArrive[n] \in Nat
        BY <2>2, <4>1, StateTypes
      <4> QED
        BY <4>2, <4>3
    <3>2. ComesTo(n)
      BY <2>2 DEF States, AllCome
    <3> QED
      BY <1>1, <1>2, <1>3, <1>4, <2>2, <3>1, <3>2 DEF ComesTo
  <2> QED
    BY <1>1, <2>1, <2>2 DEF AllCome
<1> QED
  BY <1>5, <1>6 DEF States

LEMMA LoginStates ==
  ASSUME QuietSlot, Server, Login
  PROVE  States'
<1>1. /\ waiting' = {} /\ loose' = {} /\ alive' = alive /\ mustArrive' = state
      /\ knowsAbout' = [n \in Objects |-> IF n \in alive THEN Reset(knowsAbout[n]) ELSE Fresh]
      /\ NewClient
  BY DEF Login, Server, Base, Idle
<1>2. copies' = {} /\ SyncWaits' = {} /\ AboutMessages' = {}
  BY <1>1, NewClientType DEF SyncWaits, AboutMessages
<1>3. InOrder' /\ NotAhead' /\ CopyOrder' /\ CopyNotAhead' /\ HandledIsSeen'
  BY <1>2 DEF InOrder, NotAhead, CopyOrder, CopyNotAhead, HandledIsSeen
<1>4. AllCome'
  BY <1>1, Numbers DEF AllCome, ComesTo, Reset
<1> QED
  BY <1>3, <1>4 DEF States

\* A sync changes the copy of its object, if it is newer, and no other.
LEMMA HandleSyncOutcome ==
  ASSUME Server, Copies, NEW m, Handle(m), HandleSync(m)
  PROVE  \E n \in Created :
           /\ m \in AboutMessages /\ m.kind = "sync" /\ m.about = {n}
           /\ copies' = copies
           /\ \A c \in copies :
                \/ /\ c = n /\ m.num > lastSyncID[c]
                   /\ copyState'[c] = m.state /\ lastSyncID'[c] = m.num
                \/ /\ c # n \/ ~ m.num > lastSyncID[c]
                   /\ copyState'[c] = copyState[c] /\ lastSyncID'[c] = lastSyncID[c]
<1> DEFINE targets == {c \in SameId(copies, m.about) : m.num > lastSyncID[c]}
<1>1. /\ m.kind = "sync"
      /\ copyState' = [o \in Objects |-> IF o \in targets THEN m.state ELSE copyState[o]]
      /\ lastSyncID' = [o \in Objects |-> IF o \in targets THEN m.num ELSE lastSyncID[o]]
      /\ copies' = copies
  BY DEF HandleSync
<1>2. m \in AboutMessages
  BY <1>1, HandleChanges DEF AboutMessages, SyncWaits
<1>3. PICK n \in Created : m.about = {n}
  BY <1>2, StateTypes
<1>4. \A c \in copies : idOf[c] = idOf[n] => c = n
  BY <1>2, <1>3 DEF Copies, CopyIsAbout, AboutMessages
<1>5. \A c \in copies : c \in targets <=> c = n /\ m.num > lastSyncID[c]
  BY <1>3, <1>4 DEF SameId
<1> HIDE DEF targets
<1>6. copies \subseteq Objects
  BY StateTypes
<1>7. \A c \in copies :
        \/ /\ c = n /\ m.num > lastSyncID[c]
           /\ copyState'[c] = m.state /\ lastSyncID'[c] = m.num
        \/ /\ c # n \/ ~ m.num > lastSyncID[c]
           /\ copyState'[c] = copyState[c] /\ lastSyncID'[c] = lastSyncID[c]
  BY <1>1, <1>5, <1>6
<1> QED
  BY <1>1, <1>2, <1>3, <1>7

LEMMA HandleSyncStates ==
  ASSUME Server, Orders, Copies, States, NEW m, Handle(m), HandleSync(m)
  PROVE  /\ States'
         /\ \A c \in copies : copyState[c] <= copyState'[c]
<1>1. /\ connected /\ m \in waiting \cup loose /\ loose' \subseteq loose
      /\ SyncWaits' = SyncWaits
      /\ UNCHANGED <<alive, state, knowsAbout, mustArrive, lastMessage>>
      /\ \A k \in waiting : k.num \in handled' <=> k.num \in handled \/ k = m
  BY HandleChanges
<1>2. PICK n \in Created :
        /\ m \in AboutMessages /\ m.kind = "sync" /\ m.about = {n}
        /\ copies' = copies
        /\ \A c \in copies :
             \/ /\ c = n /\ m.num > lastSyncID[c]
                /\ copyState'[c] = m.state /\ lastSyncID'[c] = m.num
             \/ /\ c # n \/ ~ m.num > lastSyncID[c]
                /\ copyState'[c] = copyState[c] /\ lastSyncID'[c] = lastSyncID[c]
  BY HandleSyncOutcome
<1>3. /\ m.num \in Nat /\ m.state \in Nat /\ m.num <= lastMessage /\ lastMessage \in Nat
      /\ \A c \in copies : copyState[c] \in Nat /\ lastSyncID[c] \in Nat
      /\ \A k \in AboutMessages : k.num \in Nat /\ k.state \in Nat /\ \E o \in Created : k.about = {o}
      /\ \A o \in alive : mustArrive[o] \in Nat /\ state[o] \in Nat
  BY <1>2, StateTypes
<1>4. AboutMessages' \subseteq AboutMessages
  BY <1>1 DEF AboutMessages
<1>5. \A c \in copies : copyState[c] <= copyState'[c] /\ lastSyncID[c] <= lastSyncID'[c]
  <2> SUFFICES ASSUME NEW c \in copies
               PROVE  copyState[c] <= copyState'[c] /\ lastSyncID[c] <= lastSyncID'[c]
    OBVIOUS
  <2>1. ASSUME c = n, m.num > lastSyncID[c]
        PROVE  copyState[c] <= m.state /\ lastSyncID[c] <= m.num
    BY <1>2, <1>3, <2>1 DEF States, CopyOrder
  <2> QED
    BY <1>2, <1>3, <2>1
<1>6. InOrder' /\ NotAhead'
  BY <1>1, <1>4 DEF States, InOrder, NotAhead
<1>7. CopyOrder'
  <2> SUFFICES ASSUME NEW k \in AboutMessages, NEW c \in k.about, c \in copies
               PROVE  /\ k.num >= lastSyncID'[c] => k.state >= copyState'[c]
                      /\ k.num <= lastSyncID'[c] => k.state <= copyState'[c]
    BY <1>2, <1>4 DEF CopyOrder
  <2>1. ASSUME c = n, copyState'[c] = m.state, lastSyncID'[c] = m.num
        PROVE  /\ k.num >= lastSyncID'[c] => k.state >= copyState'[c]
               /\ k.num <= lastSyncID'[c] => k.state <= copyState'[c]
    <3>1. k.about = m.about
      BY <1>2, <1>3, <2>1
    <3>2. /\ m.num <= k.num => m.state <= k.state
          /\ k.num <= m.num => k.state <= m.state
      BY <1>2, <3>1 DEF States, InOrder
    <3>3. k.num \in Nat /\ k.state \in Nat
      BY <1>3
    <3> QED
      BY <1>3, <2>1, <3>2, <3>3
  <2>2. ASSUME copyState'[c] = copyState[c], lastSyncID'[c] = lastSyncID[c]
        PROVE  /\ k.num >= lastSyncID'[c] => k.state >= copyState'[c]
               /\ k.num <= lastSyncID'[c] => k.state <= copyState'[c]
    BY <2>2 DEF States, CopyOrder
  <2> QED
    BY <1>2, <2>1, <2>2
<1>8. CopyNotAhead'
  <2>1. n \in alive => m.state <= state[n]
    BY <1>2 DEF States, NotAhead
  <2> QED
    BY <1>1, <1>2, <1>3, <2>1 DEF States, CopyNotAhead
<1>9. HandledIsSeen'
  <2> SUFFICES ASSUME NEW k \in SyncWaits, k.num \in handled', NEW c \in k.about, c \in alive
               PROVE  k.num <= lastSyncID'[c]
    BY <1>1 DEF HandledIsSeen
  <2>1. k \in waiting /\ k \in AboutMessages
    BY DEF SyncWaits, AboutMessages
  <2>2. CASE k = m
    <3>1. c = n /\ c \in copies
      BY <1>1, <1>2, <2>2 DEF Orders, SyncIsKnown, Copies, KnownIsHeld, AboutMessages
    <3> QED
      BY <1>2, <1>3, <2>2, <3>1
  <2>3. CASE k.num \in handled
    <3>1. c \in copies /\ k.num <= lastSyncID[c]
      BY <2>3 DEF Copies, HandledIsHeld, States, HandledIsSeen
    <3>2. lastSyncID[c] <= lastSyncID'[c] /\ lastSyncID[c] \in Nat /\ k.num \in Nat
      BY <1>3, <1>5, <2>1, <3>1
    <3>3. lastSyncID'[c] \in Nat
      BY <1>2, <1>3, <3>1
    <3> QED
      BY <3>1, <3>2, <3>3
  <2> QED
    BY <1>1, <2>1, <2>2, <2>3
<1>10. AllCome'
  <2> SUFFICES ASSUME NEW o \in alive, ComesTo(o)
               PROVE  ComesTo(o)'
    BY <1>1 DEF States, AllCome
  <2>1. ASSUME knowsAbout[o].knowsAboutExistence, copyState[o] >= mustArrive[o]
        PROVE  copyState'[o] >= mustArrive[o]
    <3>1. o \in copies
      BY <1>1, <2>1 DEF Copies, KnownIsHeld
    <3>2. copyState[o] <= copyState'[o] /\ copyState[o] \in Nat /\ mustArrive[o] \in Nat
      BY <1>3, <1>5, <3>1
    <3>3. copyState'[o] \in Nat
      BY <1>2, <1>3, <3>1
    <3> QED
      BY <2>1, <3>2, <3>3
  <2> QED
    BY <1>1, <2>1 DEF ComesTo
<1> QED
  BY <1>5, <1>6, <1>7, <1>8, <1>9, <1>10 DEF States

LEMMA HandleCreateStates ==
  ASSUME Server, Orders, Copies, States, NEW m, Handle(m), HandleCreate(m)
  PROVE  /\ States'
         /\ \A c \in copies \cap copies' : copyState'[c] = copyState[c]
<1>1. /\ connected /\ loose' \subseteq loose /\ SyncWaits' = SyncWaits
      /\ UNCHANGED <<alive, state, knowsAbout, mustArrive, lastMessage>>
      /\ \A k \in waiting : k.num \in handled' <=> k.num \in handled \/ k = m
  BY HandleChanges
<1>2. PICK n \in Creating :
        /\ m \in SyncWaits /\ m.about = {n}
        /\ \/ n \in Destroyed /\ copies' = copies
           \/ n \notin Destroyed /\ copies' = copies \cup {n}
        /\ \A c \in copies' :
             /\ copyState'[c] = IF c = n THEN m.state ELSE copyState[c]
             /\ lastSyncID'[c] = IF c = n THEN m.num ELSE lastSyncID[c]
  BY HandleCreateOutcome
<1>3. m \in AboutMessages /\ n \notin copies
  BY <1>2 DEF AboutMessages, Copies, Room
<1>4. /\ m.num \in Nat /\ m.state \in Nat /\ m.num <= lastMessage
      /\ \A k \in AboutMessages : k.num \in Nat /\ k.state \in Nat /\ \E o \in Created : k.about = {o}
  BY <1>3, StateTypes
<1>5. AboutMessages' \subseteq AboutMessages
  BY <1>1 DEF AboutMessages
<1>6. \A c \in copies : copyState'[c] = copyState[c] /\ lastSyncID'[c] = lastSyncID[c]
  BY <1>2, <1>3
<1>7. InOrder' /\ NotAhead'
  BY <1>1, <1>5 DEF States, InOrder, NotAhead
<1>8. CopyOrder'
  <2> SUFFICES ASSUME NEW k \in AboutMessages, NEW c \in k.about, c \in copies'
               PROVE  /\ k.num >= lastSyncID'[c] => k.state >= copyState'[c]
                      /\ k.num <= lastSyncID'[c] => k.state <= copyState'[c]
    BY <1>5 DEF CopyOrder
  <2>1. CASE c = n
    <3>1. k.about = m.about /\ copyState'[c] = m.state /\ lastSyncID'[c] = m.num
      BY <1>2, <1>4, <2>1
    <3>2. /\ m.num <= k.num => m.state <= k.state
          /\ k.num <= m.num => k.state <= m.state
      BY <1>3, <3>1 DEF States, InOrder
    <3>3. k.num \in Nat /\ k.state \in Nat
      BY <1>4
    <3> QED
      BY <1>4, <3>1, <3>2, <3>3
  <2>2. CASE c # n
    BY <1>2, <1>6, <2>2 DEF States, CopyOrder
  <2> QED
    BY <2>1, <2>2
<1>9. CopyNotAhead'
  <2>1. n \in alive => m.state <= state[n]
    BY <1>2, <1>3 DEF States, NotAhead
  <2> QED
    BY <1>1, <1>2, <1>4, <1>6, <2>1 DEF States, CopyNotAhead
<1>10. HandledIsSeen'
  <2> SUFFICES ASSUME NEW k \in SyncWaits, k.num \in handled', NEW c \in k.about, c \in alive
               PROVE  k.num <= lastSyncID'[c]
    BY <1>1 DEF HandledIsSeen
  <2>1. CASE k = m
    <3>1. c = n /\ c \notin Destroyed
      BY <1>2, <2>1 DEF Copies, Remembered
    <3> QED
      BY <1>2, <1>4, <2>1, <3>1
  <2>2. CASE k.num \in handled
    BY <1>6, <2>2 DEF Copies, HandledIsHeld, States, HandledIsSeen
  <2>3. k \in waiting
    BY DEF SyncWaits
  <2> QED
    BY <1>1, <2>1, <2>2, <2>3
<1>11. AllCome'
  <2>1. \A o \in alive : knowsAbout[o].knowsAboutExistence => o \in copies
    BY <1>1 DEF Copies, KnownIsHeld
  <2> QED
    BY <1>1, <1>6, <2>1 DEF States, AllCome, ComesTo
<1> QED
  BY <1>6, <1>7, <1>8, <1>9, <1>10, <1>11 DEF States

LEMMA HandleDestroyStates ==
  ASSUME Server, Orders, Copies, States, NEW m, Handle(m), HandleDestroy(m)
  PROVE  /\ States'
         /\ \A c \in copies \cap copies' : copyState'[c] = copyState[c]
<1>1. /\ connected /\ loose' \subseteq loose /\ SyncWaits' = SyncWaits
      /\ UNCHANGED <<alive, state, knowsAbout, mustArrive, lastMessage>>
      /\ \A k \in waiting : k.num \in handled' <=> k.num \in handled \/ k = m
  BY HandleChanges
<1>2. /\ m \in DestroyWaits /\ m.about \cap alive = {}
      /\ copies' = copies \ m.about
      /\ \A c \in copies' : copyState'[c] = copyState[c] /\ lastSyncID'[c] = lastSyncID[c]
  BY HandleDestroyOutcome
<1>3. AboutMessages' \subseteq AboutMessages
  BY <1>1 DEF AboutMessages
<1>4. InOrder' /\ NotAhead' /\ CopyOrder' /\ CopyNotAhead'
  BY <1>1, <1>2, <1>3 DEF States, InOrder, NotAhead, CopyOrder, CopyNotAhead
<1>5. HandledIsSeen'
  <2>1. \A k \in SyncWaits : k \in waiting /\ k # m
    BY <1>2 DEF SyncWaits, DestroyWaits
  <2>2. \A k \in SyncWaits : k.num \in handled =>
          \A c \in k.about : c \in alive => c \in copies'
    BY <1>2 DEF Copies, HandledIsHeld
  <2> QED
    BY <1>1, <1>2, <2>1, <2>2 DEF States, HandledIsSeen
<1>6. AllCome'
  <2>1. \A o \in alive : knowsAbout[o].knowsAboutExistence => o \in copies'
    BY <1>1, <1>2 DEF Copies, KnownIsHeld
  <2> QED
    BY <1>1, <1>2, <2>1 DEF States, AllCome, ComesTo
<1> QED
  BY <1>2, <1>4, <1>5, <1>6 DEF States

LEMMA MustExistKept ==
  ASSUME Server, MustExist, [Next]_vars
  PROVE  MustExist'
<1>1. \A n \in Objects : state[n] \in Nat /\ mustArrive[n] \in Nat
  BY StateTypes
<1>2. CASE UNCHANGED <<state, mustArrive>>
  BY <1>2 DEF MustExist
<1>3. ASSUME NEW n \in alive, NEW ack \in BOOLEAN, RequestSync(n, ack)
      PROVE  MustExist'
  <2>1. /\ state' = [state EXCEPT ![n] = @ + 1]
        /\ mustArrive' = mustArrive \/ mustArrive' = [mustArrive EXCEPT ![n] = state[n] + 1]
        /\ n \in Objects
    BY <1>3, StateTypes DEF RequestSync
  <2> QED
    BY <1>1, <2>1, StateTypes DEF MustExist
<1>4. ASSUME NEW D, state' = Without(D, state, 0), mustArrive' = Without(D, mustArrive, 0)
      PROVE  MustExist'
  BY <1>1, <1>4 DEF MustExist, Without
<1>5. CASE Login
  BY <1>1, <1>5 DEF Login, MustExist
<1>6. \/ UNCHANGED <<state, mustArrive>>
      \/ \E n \in alive, ack \in BOOLEAN : RequestSync(n, ack)
      \/ \E D : state' = Without(D, state, 0) /\ mustArrive' = Without(D, mustArrive, 0)
      \/ Login
  BY StepCases
  DEF CreateObject, DestroyObject, SyncObject, DestroyerGoes, CleanSyncList, AckSync,
      DestroyForgotten, Ready, Logout, ForgetDeleted, Handle, vars, objectVars
<1> QED
  BY <1>2, <1>3, <1>4, <1>5, <1>6

LEMMA StepCurrent ==
  ASSUME Quiet, Server, Orders, Client, Current, [Next]_vars
  PROVE  Current'
<1>0. MustExist /\ QuietSlot /\ MustExist'
  BY MustExistKept DEF Current, Quiet
<1>1. ASSUME connected
      PROVE  Copies /\ States
  BY <1>1 DEF Client, Current
<1>2. lastMessage \in Nat
  BY StateTypes
<1>3. CASE UNCHANGED vars
  BY <1>0, <1>1, <1>2, <1>3, StatesKept
  DEF vars, objectVars, slotVars, clientVars, SyncWaits, Current
<1>4. ASSUME NEW id \in Ids, CreateObject(id), connected
      PROVE  States'
  BY <1>1, <1>4, CreateObjectStates
<1>5. ASSUME NEW n \in alive, NEW ack \in BOOLEAN, RequestSync(n, ack), connected
      PROVE  States'
  BY <1>0, <1>1, <1>5, RequestSyncStates
<1>6. ASSUME NEW n \in alive, DestroyObject(n), connected
      PROVE  States'
  <2>1. /\ alive' = alive \ {n} /\ knowsAbout' = Without({n}, knowsAbout, Fresh)
        /\ state' = Without({n}, state, 0) /\ mustArrive' = Without({n}, mustArrive, 0)
        /\ UNCHANGED <<idOf, loose, clientVars>>
        /\ \/ SendDestroyer(destroyers \cup {n})
           \/ waiting' = waiting /\ lastMessage' = lastMessage
    BY <1>6 DEF DestroyObject
  <2>2. \A o \in alive' : /\ state'[o] = state[o] /\ mustArrive'[o] = mustArrive[o]
                          /\ knowsAbout'[o] = knowsAbout[o]
    BY <2>1, StateTypes DEF Without
  <2>3. ASSUME SendDestroyer(destroyers \cup {n})
        PROVE  SyncWaits' = SyncWaits /\ lastMessage' \in Nat /\ lastMessage' >= lastMessage
    <3>1. destroyers \cup {n} \subseteq Created
      BY Numbers
    <3>2. SyncWaits' = SyncWaits
      BY <2>1, <2>3, <3>1, SendDestroyerKeeps DEF Server, clientVars
    <3> QED
      BY <1>2, <2>3, <3>2 DEF SendDestroyer
  <2>4. SyncWaits' = SyncWaits /\ lastMessage' \in Nat /\ lastMessage' >= lastMessage
    BY <1>2, <2>1, <2>3 DEF SyncWaits
  <2> QED
    BY <1>1, <1>6, <2>1, <2>2, <2>4, StatesKept DEF clientVars
<1>7. ASSUME NEW n \in syncList, SyncObject(n), connected
      PROVE  States'
  BY <1>0, <1>1, <1>7, SyncObjectStates
<1>8. ASSUME DestroyerGoes, connected
      PROVE  States'
  <2>1. SyncWaits' = SyncWaits
    BY <1>8, SendDestroyerKeeps, Numbers DEF DestroyerGoes, Server, objectVars, clientVars
  <2>2. lastMessage' \in Nat /\ lastMessage' >= lastMessage
    BY <1>2, <1>8 DEF DestroyerGoes, SendDestroyer
  <2> QED
    BY <1>1, <1>8, <2>1, <2>2, StatesKept DEF DestroyerGoes, objectVars, clientVars
<1>9. ASSUME CleanSyncList \/ Ready \/ ForgetDeleted, connected
      PROVE  States'
  <2>1. UNCHANGED <<alive, state, mustArrive, knowsAbout, handled, copies, copyState, lastSyncID,
                    waiting, loose, lastMessage>>
    <3>1. CASE CleanSyncList
      BY <3>1 DEF CleanSyncList, slotVars, clientVars
    <3>2. CASE Ready
      BY <3>2 DEF Ready, objectVars, clientVars
    <3>3. CASE ForgetDeleted
      BY <3>3 DEF ForgetDeleted, objectVars, slotVars
    <3> QED
      BY <1>9, <3>1, <3>2, <3>3
  <2>2. SyncWaits' = SyncWaits
    BY <2>1 DEF SyncWaits
  <2> QED
    BY <1>1, <1>2, <1>9, <2>1, <2>2, StatesKept
<1>10. ASSUME NEW m, AckSync(m), connected
       PROVE  States'
  BY <1>1, <1>10, AckSyncStates
<1>11. ASSUME NEW m, DestroyForgotten(m), connected
       PROVE  States'
  <2>1. waiting' = waiting \ {m} /\ m.kind = "destroy"
    BY <1>11 DEF DestroyForgotten, ForgetDestroy, DestroyWaits
  <2>2. SyncWaits' = SyncWaits
    BY <2>1 DEF SyncWaits
  <2> QED
    BY <1>1, <1>2, <1>11, <2>2, StatesKept DEF DestroyForgotten, objectVars, clientVars
<1>12. CASE Login
  BY <1>0, <1>12, LoginStates DEF Current
<1>13. ASSUME NEW D, NEW traced, Logout(D, traced)
       PROVE  ~connected'
  BY <1>13, LogoutChanges
<1>14. ASSUME NEW m, Handle(m), connected
       PROVE  States'
  BY <1>1, <1>14, HandleChanges, HandleSyncStates, HandleCreateStates, HandleDestroyStates
<1>15. ASSUME Next, connected, connected'
       PROVE  States'
  BY <1>4, <1>5, <1>6, <1>7, <1>8, <1>9, <1>10, <1>11, <1>13, <1>14, <1>15, StepCases DEF Login
<1>16. ASSUME Next, ~connected, connected'
       PROVE  Login
  BY <1>16, StepCases
  DEF CreateObject, RequestSync, DestroyObject, SyncObject, DestroyerGoes, CleanSyncList, Ready,
      AckSync, DestroyForgotten, ForgetDeleted, Handle, slotVars, Logout
<1> QED
  BY <1>0, <1>3, <1>12, <1>15, <1>16 DEF Current

LEMMA CurrentHolds ==
  ASSUME Quiet
  PROVE  Spec => []Current
<1>1. Init => Current
  BY DEF Init, Current, MustExist
<1>2. Server /\ Orders /\ Client /\ Current /\ [Next]_vars => Current'
  BY StepCurrent
<1> QED
  BY <1>1, <1>2, ServerHolds, OrdersHold, ClientHolds, PTL DEF Spec

\* When nothing about an object is asked for or waits for an ack, the client has the state
\* that a sync with ack was last requested for, or a later one: no request that RequestSync
\* overwrites, no sync that is overtaken and no client that takes the slot loses it.
THEOREM SettledIsCurrentHolds ==
  ASSUME Quiet
  PROVE  Spec => []SettledIsCurrent
<1>1. Server /\ Current => SettledIsCurrent
  <2> SUFFICES ASSUME Server, Current, connected, NEW n \in alive,
                      ~knowsAbout[n].syncReq, knowsAbout[n].acksPending = 0
               PROVE  copyState[n] >= mustArrive[n]
    BY DEF SettledIsCurrent
  <2>1. ComesTo(n)
    BY DEF Current, States, AllCome
  <2>2. \A m \in SyncWaits : n \notin m.about
    BY Uncounted
  <2> QED
    BY <2>1, <2>2 DEF ComesTo
<1> QED
  BY <1>1, ServerHolds, CurrentHolds, PTL

\* SyncIsNew is enough: whatever syncs and creations overtake, and whatever objects had the
\* id before, a copy never goes back to an earlier state of its object.
THEOREM NeverBackwardsHolds ==
  ASSUME Quiet
  PROVE  Spec => NeverBackwards
<1>1. ASSUME Server, Orders, Client, Current, [Next]_vars
      PROVE  [\A n \in copies \cap copies' : copyState'[n] >= copyState[n]]_vars
  <2>1. \A n \in copies : copyState[n] \in Nat
    BY <1>1, StateTypes
  <2>2. ASSUME Next, NEW n \in copies \cap copies'
        PROVE  copyState'[n] >= copyState[n]
    <3>1. CASE UNCHANGED copyState
      BY <1>1, <2>1, <2>2, <3>1
    <3>2. ASSUME NEW m, Handle(m)
          PROVE  copyState'[n] >= copyState[n]
      <4>1. Copies /\ States
        BY <1>1, <3>2, HandleChanges DEF Client, Current
      <4>2. HandleCreate(m) \/ HandleSync(m) \/ HandleDestroy(m)
        BY <1>1, <3>2, HandleChanges
      <4>3. \/ copyState[n] <= copyState'[n]
            \/ copyState'[n] = copyState[n]
        BY <1>1, <2>2, <3>2, <4>1, <4>2, HandleSyncStates, HandleCreateStates, HandleDestroyStates
      <4> QED
        BY <2>1, <2>2, <4>3
    <3>3. CASE Login
      BY <2>2, <3>3 DEF Login, NewClient
    <3>4. ASSUME NEW D, NEW traced, Logout(D, traced)
          PROVE  FALSE
      BY <2>2, <3>4 DEF Logout, NewClient
    <3>5. \/ UNCHANGED copyState
          \/ \E m \in Underway : Handle(m)
          \/ Login
          \/ \E D \in SUBSET alive : \E traced \in SUBSET D : Logout(D, traced)
      BY <2>2, StepCases
      DEF CreateObject, RequestSync, DestroyObject, SyncObject, DestroyerGoes, CleanSyncList,
          Ready, AckSync, DestroyForgotten, ForgetDeleted, clientVars
    <3> QED
      BY <3>1, <3>2, <3>3, <3>4, <3>5
  <2> QED
    BY <1>1, <2>2
<1> QED
  BY <1>1, ServerHolds, OrdersHold, ClientHolds, CurrentHolds, PTL DEF Spec, NeverBackwards

-----------------------------------------------------------------------------
(***************************************************************************)
(* NetObjectSync implements ObjectMirror, under the same assumptions:      *)
(* every step of the server, of the message layer and of the client is one *)
(* step of the mirror or none.  What makes the ids, the numbers and the    *)
(* acks disappear are the invariants above: a message and a copy with one  *)
(* id are about one object, and numbers order what is said of an object as *)
(* its states do.                                                          *)
(***************************************************************************)

\* Creations and syncs that may reach the client.
Coming == {m \in AboutMessages : m.num \notin handled}

Carries(m, c) == m.about = {c.about} /\ m.state = c.state

LEMMA ContentsComing ==
  ASSUME NEW kind \in {"create", "sync"}
  PROVE  /\ Contents(kind) = {c \in [about : Objects, state : 0 .. MaxState] :
                                \E m \in Coming : m.kind = kind /\ Carries(m, c)}
         /\ Contents(kind)' = {c \in [about : Objects, state : 0 .. MaxState] :
                                 \E m \in Coming' : m.kind = kind /\ Carries(m, c)}
<1>1. \A m : m.kind = kind => (m \in Underway <=> m \in Coming)
  BY DEF Underway, Coming, AboutMessages, SyncWaits
<1>2. \A m : m.kind = kind => (m \in Underway' <=> m \in Coming')
  BY DEF Underway, Coming, AboutMessages, SyncWaits
<1>3. Contents(kind) = {c \in [about : Objects, state : 0 .. MaxState] :
                          \E m \in Coming : m.kind = kind /\ Carries(m, c)}
  BY <1>1 DEF Contents, Carries
<1>4. Contents(kind)' = {c \in [about : Objects, state : 0 .. MaxState] :
                           \E m \in Coming' : m.kind = kind /\ Carries(m, c)}
  BY <1>2 DEF Contents, Carries
<1> QED
  BY <1>3, <1>4

\* What a message about an object carries, as the mirror sees it.
LEMMA Carried ==
  ASSUME Server, NEW m \in AboutMessages, NEW n, m.about = {n}
  PROVE  /\ [about |-> n, state |-> m.state] \in [about : Objects, state : 0 .. MaxState]
         /\ \A c \in [about : Objects, state : 0 .. MaxState] :
              Carries(m, c) <=> c = [about |-> n, state |-> m.state]
<1>1. m \in Messages /\ n \in Objects
  BY Numbers DEF Server, Base, MessagesOK, AboutMessages, SyncWaits
<1>2. m.state \in 0 .. MaxState
  BY <1>1 DEF Messages
<1> QED
  BY <1>1, <1>2 DEF Carries

\* Steps that leave the objects, the copies and what is on its way to them alone.
LEMMA MirrorKept ==
  ASSUME Coming' = Coming,
         UNCHANGED <<idOf, alive, state, connected, copies, copyState>>
  PROVE  UNCHANGED Mirror!mirror
<1>1. Contents("create")' = Contents("create") /\ Contents("sync")' = Contents("sync")
  BY ContentsComing
<1> QED
  BY <1>1 DEF Mirror!mirror, Created

-----------------------------------------------------------------------------
(***************************************************************************)
(* The server.                                                             *)
(***************************************************************************)
LEMMA CreateObjectMirror ==
  ASSUME Server, NEW id \in Ids, CreateObject(id)
  PROVE  Mirror!Create
<1> DEFINE n == Len(idOf) + 1
<1>1. /\ n \in Objects /\ idOf' = Append(idOf, id) /\ alive' = alive \cup {n}
      /\ UNCHANGED <<state, slotVars, clientVars, loose>>
  BY DEF CreateObject
<1>2. idOf \in Seq(Ids) /\ Len(idOf) \in Nat /\ state \in [Objects -> 0 .. MaxState]
  BY Numbers DEF Server, Base, ObjectsOK
<1>3. Created' = Created \cup {n} /\ n \notin Created
  BY <1>1, <1>2 DEF Created
<1>4. Coming' = Coming
  BY <1>1 DEF Coming, AboutMessages, SyncWaits, slotVars, clientVars
<1>5. Contents("create")' = Contents("create") /\ Contents("sync")' = Contents("sync")
  BY <1>4, ContentsComing
<1>6. state[n] \in 0 .. MaxState /\ n \notin alive
  BY <1>1, <1>2, <1>3, Numbers
<1>7. [o \in alive |-> state[o]]' =
        Mirror!With([o \in alive |-> state[o]], n, state[n])
  BY <1>1 DEF Mirror!With
<1> QED
  BY <1>1, <1>3, <1>5, <1>6, <1>7 DEF Mirror!Create, slotVars, clientVars

LEMMA RequestSyncMirror ==
  ASSUME Server, NEW n \in alive, NEW ack \in BOOLEAN, RequestSync(n, ack)
  PROVE  Mirror!Change
<1>1. /\ state[n] < MaxState /\ state' = [state EXCEPT ![n] = @ + 1]
      /\ UNCHANGED <<idOf, alive, slotVars, clientVars, loose>>
  BY DEF RequestSync
<1>2. n \in Objects /\ state \in [Objects -> 0 .. MaxState] /\ alive \subseteq Objects
  BY Numbers DEF Server, Base, ObjectsOK
<1>3. state[n] + 1 \in 0 .. MaxState /\ state[n] + 1 > state[n]
  BY <1>1, <1>2
<1>4. Coming' = Coming
  BY <1>1 DEF Coming, AboutMessages, SyncWaits, slotVars, clientVars
<1>5. Contents("create")' = Contents("create") /\ Contents("sync")' = Contents("sync")
  BY <1>4, ContentsComing
<1>6. [o \in alive |-> state[o]]' =
        Mirror!With([o \in alive |-> state[o]], n, state[n] + 1)
  BY <1>1, <1>2 DEF Mirror!With
<1>7. UNCHANGED <<Created, connected, [o \in copies |-> copyState[o]]>>
  BY <1>1 DEF Created, slotVars, clientVars
<1>8. n \in Mirror!Alive /\ [o \in alive |-> state[o]][n] = state[n]
  BY DEF Mirror!Alive
<1> QED
  BY <1>3, <1>5, <1>6, <1>7, <1>8 DEF Mirror!Change

LEMMA DestroyObjectMirror ==
  ASSUME Server, NEW n \in alive, DestroyObject(n)
  PROVE  Mirror!Destroy
<1>1. /\ alive' = alive \ {n} /\ state' = Without({n}, state, 0)
      /\ UNCHANGED <<idOf, connected, loose, clientVars>>
      /\ SendDestroyer(destroyers \cup {n}) \/ waiting' = waiting
  BY DEF DestroyObject
<1>2. SyncWaits' = SyncWaits
  <2>1. destroyers \cup {n} \subseteq Created
    BY Numbers
  <2> QED
    BY <1>1, <2>1, SendDestroyerKeeps DEF SyncWaits, Server, clientVars
<1>3. Coming' = Coming
  BY <1>1, <1>2 DEF Coming, AboutMessages, clientVars
<1>4. Contents("create")' = Contents("create") /\ Contents("sync")' = Contents("sync")
  BY <1>3, ContentsComing
<1>5. [o \in alive |-> state[o]]' = Mirror!Less([o \in alive |-> state[o]], {n})
  BY <1>1, Numbers DEF Mirror!Less, Without
<1>6. UNCHANGED <<Created, connected, [o \in copies |-> copyState[o]]>>
  BY <1>1 DEF Created, clientVars
<1>7. n \in Mirror!Alive
  BY DEF Mirror!Alive
<1> QED
  BY <1>4, <1>5, <1>6, <1>7 DEF Mirror!Destroy

\* A message that is sent is one more on its way.
LEMMA SentComing ==
  ASSUME Server, NEW n \in alive, lastMessage < MaxMessages,
         \/ waiting' = waiting \cup {SyncMessage(n)} /\ loose' = loose
         \/ waiting' = waiting /\ loose' = loose \cup {SyncMessage(n)},
         handled' = handled
  PROVE  /\ Coming' = Coming \cup {SyncMessage(n)}
         /\ \A c \in [about : Objects, state : 0 .. MaxState] :
              Carries(SyncMessage(n), c) <=> c = [about |-> n, state |-> state[n]]
         /\ [about |-> n, state |-> state[n]] \in [about : Objects, state : 0 .. MaxState]
<1> DEFINE m == SyncMessage(n)
<1>1. /\ m.kind # "destroy" /\ m.num = lastMessage + 1 /\ m.about = {n} /\ m.state = state[n]
      /\ n \in Objects
  BY SyncMessageType DEF Server
<1>2. lastMessage \in Nat /\ handled \subseteq 1 .. lastMessage
  BY DEF Server, Base, MessagesOK
<1>3. m.num \notin handled
  BY <1>1, <1>2
<1> HIDE DEF m
<1>4. AboutMessages' = AboutMessages \cup {m}
  BY <1>1 DEF AboutMessages, SyncWaits, m
<1>5. Coming' = Coming \cup {m}
  BY <1>3, <1>4 DEF Coming
<1>6. state[n] \in 0 .. MaxState
  BY <1>1 DEF Server, Base, ObjectsOK
<1> QED
  BY <1>1, <1>5, <1>6 DEF Carries, m

\* One message more on its way is one content more.
LEMMA MoreContents ==
  ASSUME NEW kind \in {"create", "sync"}, NEW m, Coming' = Coming \cup {m},
         NEW c \in [about : Objects, state : 0 .. MaxState],
         \A d \in [about : Objects, state : 0 .. MaxState] : Carries(m, d) <=> d = c
  PROVE  Contents(kind)' = IF m.kind = kind THEN Contents(kind) \cup {c} ELSE Contents(kind)
<1> DEFINE All == [about : Objects, state : 0 .. MaxState]
<1>1. /\ Contents(kind) = {d \in All : \E k \in Coming : k.kind = kind /\ Carries(k, d)}
      /\ Contents(kind)' = {d \in All : \E k \in Coming \cup {m} : k.kind = kind /\ Carries(k, d)}
  BY ContentsComing
<1> HIDE DEF All
<1>2. \A d \in All : (\E k \in Coming \cup {m} : k.kind = kind /\ Carries(k, d))
                     <=> \/ \E k \in Coming : k.kind = kind /\ Carries(k, d)
                         \/ m.kind = kind /\ d = c
  BY DEF All
<1>3. c \in All
  BY DEF All
<1>4. CASE m.kind = kind
  BY <1>1, <1>2, <1>3, <1>4
<1>5. CASE m.kind # kind
  BY <1>1, <1>2, <1>3, <1>5
<1> QED
  BY <1>4, <1>5

LEMMA SyncObjectMirror ==
  ASSUME Server, Client, NEW n \in syncList, SyncObject(n)
  PROVE  [Mirror!Next]_Mirror!mirror
<1>0. /\ n \in alive /\ connected
      /\ SendsDestroyer(n) \/ SendsCreation(n) \/ SendsSync(n)
      /\ UNCHANGED <<idOf, alive, state, connected, clientVars>>
  BY SyncObjectCases DEF Server, Base, ObjectsOK
<1>1. /\ UNCHANGED <<Created, [o \in alive |-> state[o]], connected,
                     [o \in copies |-> copyState[o]]>>
      /\ handled' = handled
  BY <1>0 DEF Created, clientVars
<1>2. Copies
  BY <1>0 DEF Client
<1> DEFINE m == SyncMessage(n)
           c == [about |-> n, state |-> state[n]]
<1>3. CASE SendsDestroyer(n)
  <2>1. SyncWaits' = SyncWaits
    BY <1>0, <1>3, SendDestroyerKeeps, Numbers DEF SendsDestroyer, Server, clientVars
  <2>2. Coming' = Coming
    BY <1>1, <1>3, <2>1 DEF SendsDestroyer, Coming, AboutMessages
  <2> QED
    BY <1>0, <2>2, MirrorKept DEF clientVars
<1>4. CASE SendsCreation(n)
  <2>1. /\ lastMessage < MaxMessages /\ waiting' = waiting \cup {m} /\ loose' = loose
        /\ ~knowsAbout[n].knowsAboutExistence /\ knowsAbout[n].acksPending = 0
    BY <1>4 DEF SendsCreation, MayCreate
  <2>2. m.kind = "create"
    BY <2>1 DEF SyncMessage
  <2>3. /\ Coming' = Coming \cup {m}
        /\ \A d \in [about : Objects, state : 0 .. MaxState] : Carries(m, d) <=> d = c
        /\ c \in [about : Objects, state : 0 .. MaxState]
    BY <1>0, <1>1, <2>1, SentComing
  <2>4. ~MustDestroy(n)
    BY <2>1 DEF MustDestroy
  <2>5. n \notin copies
    BY <1>0, <1>2, <2>4 DEF Copies, HeldIsCounted
  <2>6. \A o \in Contents("create") : o.about # n
    <3> SUFFICES ASSUME NEW o \in Contents("create"), o.about = n
                 PROVE  FALSE
      OBVIOUS
    <3>1. PICK k \in AboutMessages : k.kind = "create" /\ k.about = {n}
      BY ContentsComing DEF Coming, Carries
    <3>2. k \in SyncWaits
      BY <3>1 DEF AboutMessages, Server, Base, MessagesOK, Single
    <3> QED
      BY <1>0, <2>4, <3>1, <3>2, Counted
  <2> HIDE DEF m, c
  <2>7. Contents("create")' = Contents("create") \cup {c} /\ Contents("sync")' = Contents("sync")
    BY <2>2, <2>3, MoreContents
  <2>8. n \in Mirror!Alive \ Mirror!Copied /\ [o \in alive |-> state[o]][n] = state[n]
    BY <1>0, <2>5 DEF Mirror!Alive, Mirror!Copied
  <2>9. Mirror!Offer
    BY <1>0, <1>1, <2>6, <2>7, <2>8 DEF Mirror!Offer, c
  <2> QED
    BY <2>9 DEF Mirror!Next
<1>5. CASE SendsSync(n)
  <2>1. /\ lastMessage < MaxMessages /\ knowsAbout[n].knowsAboutExistence
        /\ \/ waiting' = waiting \cup {m} /\ loose' = loose
           \/ waiting' = waiting /\ loose' = loose \cup {m}
    BY <1>5 DEF SendsSync
  <2>2. m.kind = "sync"
    BY <2>1 DEF SyncMessage
  <2>3. /\ Coming' = Coming \cup {m}
        /\ \A d \in [about : Objects, state : 0 .. MaxState] : Carries(m, d) <=> d = c
        /\ c \in [about : Objects, state : 0 .. MaxState]
    BY <1>0, <1>1, <2>1, SentComing
  <2>4. n \in copies
    BY <1>0, <1>2, <2>1 DEF Copies, KnownIsHeld
  <2> HIDE DEF m, c
  <2>5. Contents("sync")' = Contents("sync") \cup {c} /\ Contents("create")' = Contents("create")
    BY <2>2, <2>3, MoreContents
  <2>6. n \in Mirror!Alive \cap Mirror!Copied /\ [o \in alive |-> state[o]][n] = state[n]
    BY <1>0, <2>4 DEF Mirror!Alive, Mirror!Copied
  <2>7. Mirror!Tell
    BY <1>0, <1>1, <2>5, <2>6 DEF Mirror!Tell, c
  <2> QED
    BY <2>7 DEF Mirror!Next
<1> QED
  BY <1>0, <1>3, <1>4, <1>5

\* The steps of the server that the mirror does not see.
LEMMA UnseenMirror ==
  ASSUME Server, Orders,
         \/ DestroyerGoes \/ CleanSyncList \/ Ready \/ ForgetDeleted
         \/ \E m \in waiting : AckSync(m) \/ DestroyForgotten(m)
  PROVE  UNCHANGED Mirror!mirror
<1>1. CASE DestroyerGoes
  <2>1. SyncWaits' = SyncWaits
    BY <1>1, SendDestroyerKeeps, Numbers DEF DestroyerGoes, Server, objectVars, clientVars
  <2> QED
    BY <1>1, <2>1, MirrorKept DEF DestroyerGoes, Coming, AboutMessages, objectVars, clientVars
<1>2. CASE CleanSyncList
  BY <1>2, MirrorKept DEF CleanSyncList, Coming, AboutMessages, SyncWaits, slotVars, clientVars
<1>3. CASE Ready
  BY <1>3, MirrorKept DEF Ready, Coming, AboutMessages, SyncWaits, objectVars, clientVars
<1>4. CASE ForgetDeleted
  BY <1>4, MirrorKept DEF ForgetDeleted, Coming, AboutMessages, SyncWaits, objectVars, slotVars
<1>5. ASSUME NEW m \in waiting, AckSync(m)
      PROVE  UNCHANGED Mirror!mirror
  <2>1. /\ m.num \in handled /\ waiting' = waiting \ {m} /\ loose' = loose
        /\ UNCHANGED <<idOf, alive, state, connected, handled, copies, copyState>>
    BY <1>5 DEF AckSync, clientVars
  <2>2. Coming' = Coming
    BY <2>1 DEF Coming, AboutMessages, SyncWaits
  <2> QED
    BY <2>1, <2>2, MirrorKept
<1>6. ASSUME NEW m \in waiting, DestroyForgotten(m)
      PROVE  UNCHANGED Mirror!mirror
  <2>1. waiting' = waiting \ {m} /\ m.kind = "destroy"
    BY <1>6 DEF DestroyForgotten, ForgetDestroy, DestroyWaits
  <2>2. UNCHANGED <<idOf, alive, state, connected, loose, handled, copies, copyState>>
    BY <1>6 DEF DestroyForgotten, objectVars, clientVars
  <2>3. Coming' = Coming
    BY <2>1, <2>2 DEF Coming, AboutMessages, SyncWaits
  <2> QED
    BY <2>2, <2>3, MirrorKept
<1> QED
  BY <1>1, <1>2, <1>3, <1>4, <1>5, <1>6

-----------------------------------------------------------------------------
(***************************************************************************)
(* Sessions.                                                               *)
(***************************************************************************)
LEMMA NoneComing ==
  ASSUME Coming' = {}, copies' = {}
  PROVE  Mirror!NoClient'
<1>1. Contents("create")' = {} /\ Contents("sync")' = {}
  BY ContentsComing
<1>2. [n \in copies |-> copyState[n]]' = [n \in {} |-> 0]
  OBVIOUS
<1> QED
  BY <1>1, <1>2 DEF Mirror!NoClient

LEMMA LoginMirror ==
  ASSUME QuietSlot, Server, Login
  PROVE  Mirror!Connect
<1>1. /\ ~connected /\ connected' /\ waiting = {} /\ waiting' = {}
      /\ UNCHANGED <<idOf, alive, state, loose>> /\ copies' = {}
      /\ connected = FALSE /\ connected' = TRUE
  BY DEF Login, NewClient, Server, Base, SlotOK
<1>2. loose = {}
  BY <1>1 DEF Server, Base, Idle
<1>3. Coming' = {}
  BY <1>1, <1>2 DEF Coming, AboutMessages, SyncWaits
<1>4. Mirror!NoClient'
  BY <1>1, <1>3, NoneComing
<1> QED
  BY <1>1, <1>4 DEF Mirror!Connect, Created

LEMMA LogoutMirror ==
  ASSUME Server, NEW D \in SUBSET alive, NEW traced \in SUBSET D, Logout(D, traced)
  PROVE  Mirror!Disconnect
<1>1. /\ connected /\ connected' = FALSE /\ connected = TRUE
      /\ alive' = alive \ D /\ state' = Without(D, state, 0)
      /\ idOf' = idOf /\ copies' = {} /\ loose' = {}
      /\ \A m \in waiting' : m.kind = "destroy"
  BY DEF Logout, NewClient, Server, Base, SlotOK
<1>2. Coming' = {}
  BY <1>1 DEF Coming, AboutMessages, SyncWaits
<1>3. Mirror!NoClient'
  BY <1>1, <1>2, NoneComing
<1>4. [o \in alive |-> state[o]]' = Mirror!Less([o \in alive |-> state[o]], D)
  BY <1>1, Numbers DEF Mirror!Less, Without
<1>5. D \in SUBSET Mirror!Alive
  BY DEF Mirror!Alive
<1> QED
  BY <1>1, <1>3, <1>4, <1>5 DEF Mirror!Disconnect, Created

-----------------------------------------------------------------------------
(***************************************************************************)
(* The client.                                                             *)
(***************************************************************************)
\* A message that has been handled is no longer on its way.
LEMMA HandledComing ==
  ASSUME Server, NEW m, Handle(m)
  PROVE  /\ Coming' = Coming \ {m}
         /\ m \in AboutMessages => m \in Coming
         /\ UNCHANGED <<Created, connected, [o \in alive |-> state[o]]>>
<1>1. /\ m \in waiting \cup loose /\ m.num \notin handled /\ handled' = handled \cup {m.num}
      /\ loose' = loose \ {m} /\ SyncWaits' = SyncWaits
      /\ UNCHANGED <<idOf, alive, state, connected>>
  BY HandleChanges DEF Handle
<1>2. \A k \in waiting \cup loose : k.num = m.num => k = m
  BY <1>1 DEF Server, Base, MessagesOK, Unique
<1>3. Coming' = Coming \ {m}
  BY <1>1, <1>2 DEF Coming, AboutMessages, SyncWaits
<1> QED
  BY <1>1, <1>3 DEF Coming, Created

LEMMA HandleCreateMirror ==
  ASSUME Server, Orders, Copies, NEW m, Handle(m), HandleCreate(m)
  PROVE  Mirror!Take
<1>1. connected /\ Coming' = Coming \ {m}
      /\ UNCHANGED <<Created, connected, [o \in alive |-> state[o]]>>
  BY HandledComing, HandleChanges
<1>2. PICK n \in Creating :
        /\ m \in SyncWaits /\ m.about = {n}
        /\ \/ n \in Destroyed /\ copies' = copies
           \/ n \notin Destroyed /\ copies' = copies \cup {n}
        /\ \A c \in copies' : copyState'[c] = IF c = n THEN m.state ELSE copyState[c]
  BY HandleCreateOutcome
<1> DEFINE c == [about |-> n, state |-> m.state]
           All == [about : Objects, state : 0 .. MaxState]
<1>3. m \in AboutMessages /\ m \in Coming /\ m.kind = "create"
  BY <1>2, HandledComing DEF AboutMessages, HandleCreate
<1>4. c \in All /\ \A d \in All : Carries(m, d) <=> d = c
  BY <1>2, <1>3, Carried
<1>5. \A k \in Coming : k.kind = "create" /\ Carries(k, c) => k = m
  <2> SUFFICES ASSUME NEW k \in Coming, k.kind = "create", k.about = {n}
               PROVE  k = m
    BY DEF Carries
  <2>1. k \in SyncWaits
    BY DEF Coming, AboutMessages, Server, Base, MessagesOK, Single
  <2> QED
    BY <1>1, <1>2, <1>3, <2>1 DEF Orders, OneCreation
<1> HIDE DEF c, All
<1>6. Contents("create")' = Contents("create") \ {c} /\ Contents("sync")' = Contents("sync")
  <2>1. \A d \in All : (\E k \in Coming \ {m} : k.kind = "create" /\ Carries(k, d))
                      <=> (\E k \in Coming : k.kind = "create" /\ Carries(k, d)) /\ d # c
    BY <1>3, <1>4, <1>5
  <2>2. \A d \in All : (\E k \in Coming \ {m} : k.kind = "sync" /\ Carries(k, d))
                      <=> (\E k \in Coming : k.kind = "sync" /\ Carries(k, d))
    BY <1>3
  <2> QED
    BY <1>1, <2>1, <2>2, ContentsComing DEF All
<1>7. c \in Contents("create")
  BY <1>3, <1>4, ContentsComing DEF All
<1>8. n \notin copies
  BY <1>2 DEF Copies, Room
<1>9. CASE n \in Destroyed
  <2>1. n \notin alive
    BY <1>9 DEF Copies, Remembered
  <2>2. copies' = copies
    BY <1>2, <1>9
  <2>3. [o \in copies |-> copyState[o]]' = [o \in copies |-> copyState[o]]
    BY <1>2, <1>8, <2>2
  <2> QED
    BY <1>1, <1>6, <1>7, <2>1, <2>3 DEF Mirror!Take, Mirror!Alive, c
<1>10. CASE n \notin Destroyed
  <2>1. copies' = copies \cup {n}
    BY <1>2, <1>10
  <2>2. [o \in copies |-> copyState[o]]' =
          Mirror!With([o \in copies |-> copyState[o]], n, m.state)
    BY <1>2, <1>8, <2>1 DEF Mirror!With
  <2> QED
    BY <1>1, <1>6, <1>7, <2>2 DEF Mirror!Take, c
<1> QED
  BY <1>9, <1>10

LEMMA HandleSyncMirror ==
  ASSUME Server, Copies, States, NEW m, Handle(m), HandleSync(m)
  PROVE  Mirror!Hear
<1>1. connected /\ Coming' = Coming \ {m}
      /\ UNCHANGED <<Created, connected, [o \in alive |-> state[o]]>>
  BY HandledComing, HandleChanges
<1>2. PICK n \in Created :
        /\ m \in AboutMessages /\ m.kind = "sync" /\ m.about = {n}
        /\ copies' = copies
        /\ \A c \in copies :
             \/ /\ c = n /\ m.num > lastSyncID[c]
                /\ copyState'[c] = m.state /\ lastSyncID'[c] = m.num
             \/ /\ c # n \/ ~ m.num > lastSyncID[c]
                /\ copyState'[c] = copyState[c] /\ lastSyncID'[c] = lastSyncID[c]
  BY HandleSyncOutcome
<1> DEFINE w == [about |-> n, state |-> m.state]
           All == [about : Objects, state : 0 .. MaxState]
<1>3. w \in All /\ \A d \in All : Carries(m, d) <=> d = w
  BY <1>2, Carried
<1>4. m \in Coming
  BY <1>2, HandledComing
<1> HIDE DEF w, All
<1>5. Contents("create")' = Contents("create")
  <2>1. \A d \in All : (\E k \in Coming \ {m} : k.kind = "create" /\ Carries(k, d))
                      <=> (\E k \in Coming : k.kind = "create" /\ Carries(k, d))
    BY <1>2
  <2> QED
    BY <1>1, <2>1, ContentsComing DEF All
<1>6. Contents("sync")' \in {Contents("sync"), Contents("sync") \ {w}}
  <2>1. \A d \in All : d # w =>
          ((\E k \in Coming \ {m} : k.kind = "sync" /\ Carries(k, d))
             <=> (\E k \in Coming : k.kind = "sync" /\ Carries(k, d)))
    BY <1>3
  <2>2. (\E k \in Coming \ {m} : k.kind = "sync" /\ Carries(k, w))
          => (\E k \in Coming : k.kind = "sync" /\ Carries(k, w))
    OBVIOUS
  <2>3. /\ Contents("sync") = {d \in All : \E k \in Coming : k.kind = "sync" /\ Carries(k, d)}
        /\ Contents("sync")' = {d \in All : \E k \in Coming \ {m} : k.kind = "sync" /\ Carries(k, d)}
    BY <1>1, ContentsComing DEF All
  <2>4. CASE \E k \in Coming \ {m} : k.kind = "sync" /\ Carries(k, w)
    <3>1. Contents("sync")' = Contents("sync")
      BY <1>3, <2>1, <2>2, <2>3, <2>4
    <3> QED
      BY <3>1
  <2>5. CASE ~\E k \in Coming \ {m} : k.kind = "sync" /\ Carries(k, w)
    <3>1. Contents("sync")' = Contents("sync") \ {w}
      BY <1>3, <2>1, <2>3, <2>5
    <3> QED
      BY <3>1
  <2> QED
    BY <2>4, <2>5
<1>7. w \in Contents("sync")
  BY <1>2, <1>3, <1>4, ContentsComing DEF All
<1>8. w.about = n /\ w.state = m.state
  BY DEF w
<1>9. ASSUME n \in copies
      PROVE  copyState'[n] = IF m.state > copyState[n] THEN m.state ELSE copyState[n]
  <2>1. /\ m.num \in Nat /\ m.state \in Nat
        /\ copyState[n] \in Nat /\ lastSyncID[n] \in Nat
    BY <1>2, <1>9, StateTypes
  <2>2. /\ m.num >= lastSyncID[n] => m.state >= copyState[n]
        /\ m.num <= lastSyncID[n] => m.state <= copyState[n]
    BY <1>2, <1>9 DEF States, CopyOrder
  <2> QED
    BY <1>2, <1>9, <2>1, <2>2
<1>10. \A c \in copies : c # n => copyState'[c] = copyState[c]
  BY <1>2
<1> DEFINE old == [o \in copies |-> copyState[o]]
           new == [o \in copies |-> copyState'[o]]
<1>11. new = IF n \in copies /\ m.state > old[n] THEN Mirror!With(old, n, m.state) ELSE old
  <2>1. CASE n \in copies /\ m.state > copyState[n]
    BY <1>9, <1>10, <2>1 DEF Mirror!With
  <2>2. CASE ~(n \in copies /\ m.state > copyState[n])
    <3>1. \A c \in copies : copyState'[c] = copyState[c]
      BY <1>9, <1>10, <2>2
    <3> QED
      BY <2>2, <3>1
  <2> QED
    BY <2>1, <2>2
<1>12. old' = new
  BY <1>2
<1> QED
  BY <1>1, <1>5, <1>6, <1>7, <1>8, <1>11, <1>12 DEF Mirror!Hear, Mirror!Copied

LEMMA HandleDestroyMirror ==
  ASSUME Server, Orders, Copies, NEW m, Handle(m), HandleDestroy(m)
  PROVE  Mirror!Withdraw
<1> DEFINE D == copies \cap m.about
<1>1. connected /\ Coming' = Coming \ {m}
      /\ UNCHANGED <<Created, connected, [o \in alive |-> state[o]]>>
  BY HandledComing, HandleChanges
<1>2. /\ m.kind = "destroy" /\ m \in DestroyWaits /\ m.about \cap alive = {}
      /\ copies' = copies \ m.about
      /\ \A c \in copies' : copyState'[c] = copyState[c]
  BY HandleDestroyOutcome DEF HandleDestroy
<1>3. m \notin Coming
  BY <1>2 DEF Coming, AboutMessages, SyncWaits, Server, Base, MessagesOK, Single
<1>4. Coming' = Coming
  BY <1>1, <1>3
<1>5. Contents("create")' = Contents("create") /\ Contents("sync")' = Contents("sync")
  BY <1>4, ContentsComing
<1>6. [o \in copies |-> copyState[o]]' = Mirror!Less([o \in copies |-> copyState[o]], D)
  BY <1>2 DEF Mirror!Less
<1>7. D \in SUBSET Mirror!Copied /\ D \cap Mirror!Alive = {}
  BY <1>2 DEF Mirror!Copied, Mirror!Alive
<1> QED
  BY <1>1, <1>5, <1>6, <1>7 DEF Mirror!Withdraw

-----------------------------------------------------------------------------
(***************************************************************************)
(* The refinement.                                                         *)
(***************************************************************************)
LEMMA InitMirror ==
  ASSUME Init
  PROVE  Mirror!Init
<1>1. /\ idOf = <<>> /\ alive = {} /\ connected = FALSE /\ waiting = {} /\ loose = {}
      /\ copies = {}
  BY DEF Init
<1>2. Created = {}
  BY <1>1 DEF Created
<1>3. Contents("create") = {} /\ Contents("sync") = {}
  BY <1>1 DEF Contents, Underway
<1>4. [n \in alive |-> state[n]] = [n \in {} |-> 0] /\ [n \in copies |-> copyState[n]] = [n \in {} |-> 0]
  BY <1>1
<1> QED
  BY <1>1, <1>2, <1>3, <1>4 DEF Mirror!Init, Mirror!NoClient

LEMMA StepMirror ==
  ASSUME Quiet, Server, Orders, Client, Current, [Next]_vars
  PROVE  [Mirror!Next]_Mirror!mirror
<1> USE DEF Mirror!Next
<1>1. CASE UNCHANGED vars
  BY <1>1, MirrorKept
  DEF vars, objectVars, slotVars, clientVars, Coming, AboutMessages, SyncWaits
<1>2. ASSUME NEW id \in Ids, CreateObject(id)
      PROVE  Mirror!Next
  BY <1>2, CreateObjectMirror
<1>3. ASSUME NEW n \in alive, NEW ack \in BOOLEAN, RequestSync(n, ack)
      PROVE  Mirror!Next
  BY <1>3, RequestSyncMirror
<1>4. ASSUME NEW n \in alive, DestroyObject(n)
      PROVE  Mirror!Next
  BY <1>4, DestroyObjectMirror
<1>5. ASSUME NEW n \in syncList, SyncObject(n)
      PROVE  [Mirror!Next]_Mirror!mirror
  BY <1>5, SyncObjectMirror
<1>6. CASE Login
  BY <1>6, LoginMirror DEF Quiet
<1>7. ASSUME NEW D \in SUBSET alive, NEW traced \in SUBSET D, Logout(D, traced)
      PROVE  Mirror!Next
  BY <1>7, LogoutMirror
<1>8. ASSUME NEW m, Handle(m)
      PROVE  Mirror!Next
  <2>1. Copies /\ States
    BY <1>8, HandleChanges DEF Client, Current
  <2> QED
    BY <1>8, <2>1, HandleChanges, HandleCreateMirror, HandleSyncMirror, HandleDestroyMirror
<1> QED
  BY <1>1, <1>2, <1>3, <1>4, <1>5, <1>6, <1>7, <1>8, UnseenMirror, StepCases

\* For the code above nNetObject a client's copies mirror the server's objects: a copy
\* stands for one object although ids are used again, it shows only states that its object
\* has had since it was offered, each later than the one before, although syncs are lost
\* and overtaken, and it goes only after its object, for good.
THEOREM SyncImplementsMirror ==
  ASSUME Quiet
  PROVE  Spec => ImplementsMirror
<1>1. Init => Mirror!Init
  BY InitMirror
<1>2. Server /\ Orders /\ Client /\ Current /\ [Next]_vars => [Mirror!Next]_Mirror!mirror
  BY StepMirror
<1>3. Spec => Mirror!Spec
  BY <1>1, <1>2, ServerHolds, OrdersHold, ClientHolds, CurrentHolds, PTL DEF Spec, Mirror!Spec
<1> QED
  BY <1>3 DEF ImplementsMirror
=============================================================================
