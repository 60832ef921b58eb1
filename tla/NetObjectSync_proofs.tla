------------------------- MODULE NetObjectSync_proofs -------------------------
(***************************************************************************)
(* Proofs about the server's side of NetObjectSync, for any ids, bounds    *)
(* and number of clients.                                                  *)
(*                                                                         *)
(* Base needs none of the assumptions on quiet reuse; it holds what every  *)
(* other proof starts from: types, that messages have numbers of their own *)
(* and are about objects that exist, and that nobody waits for anything on *)
(* a slot without a client but the last destroy message.  Acks, the        *)
(* invariant of the counters, rests on ids: of the objects with an id only *)
(* the last one is alive, and messages are only about the last one.        *)
(***************************************************************************)
EXTENDS NetObjectSync, FiniteSetTheorems, SequenceTheorems, TLAPS

USE SyncAssumption

ObjectsOK ==
  /\ idOf \in Seq(Ids) /\ Len(idOf) <= MaxObjects
  /\ alive \subseteq Created
  /\ state \in [Objects -> 0 .. MaxState]
  /\ mustArrive \in [Objects -> 0 .. MaxState]
  /\ sn_freedIDs \in Seq(Ids)
  /\ knowsAbout \in [Objects -> Knows]
  /\ syncList \subseteq alive

SlotOK ==
  /\ connected \in BOOLEAN /\ logins \in 0 .. MaxLogins /\ ready \in BOOLEAN
  /\ destroyers \subseteq Created
  /\ destroyersCount \in Int

ClientOK ==
  /\ copies \subseteq Created
  /\ copyState \in [Objects -> 0 .. MaxState]
  /\ lastSyncID \in [Objects -> 0 .. MaxMessages]
  /\ Destroyed \subseteq Created
  /\ lingering \subseteq Created

\* Messages are numbered in the order they are sent and name objects that exist.
Sent == \A m \in waiting \cup loose : m.num \in 1 .. lastMessage /\ m.about \subseteq Created

Unique == \A m1, m2 \in waiting \cup loose : m1.num = m2.num => m1 = m2

\* Creations and syncs are about one object; what nobody waits for is a sync.
Single == /\ \A m \in SyncWaits \cup loose : \E n \in Created : m.about = {n}
          /\ \A m \in loose : m.kind = "sync"

MessagesOK ==
  /\ waiting \subseteq Messages /\ loose \subseteq Messages
  /\ handled \subseteq 1 .. lastMessage /\ lastMessage \in 0 .. MaxMessages
  /\ IsFiniteSet(waiting)
  /\ Sent /\ Unique /\ Single

\* Of a client that has left only the last destroy message remains.
Idle ==
  ~connected => /\ destroyers = {} /\ SyncWaits = {} /\ loose = {}
                /\ \A n \in alive : ~MustDestroy(n)

Base == ObjectsOK /\ SlotOK /\ ClientOK /\ MessagesOK /\ Idle /\ RequestNotForgotten

-----------------------------------------------------------------------------
(***************************************************************************)
(* Messages.                                                               *)
(***************************************************************************)
\* Objects are only added; what happens to messages but for sending one.
LEMMA NoneSent ==
  ASSUME MessagesOK, Len(idOf) \in Nat, Len(idOf') \in Nat, Len(idOf') >= Len(idOf),
         waiting' \subseteq waiting, loose' \subseteq loose, lastMessage' = lastMessage,
         handled' \subseteq handled \cup {m.num : m \in waiting \cup loose}
  PROVE  MessagesOK'
<1> USE DEF MessagesOK
<1>1. /\ waiting' \subseteq Messages /\ loose' \subseteq Messages
      /\ lastMessage' \in 0 .. MaxMessages
  OBVIOUS
<1>2. handled' \subseteq 1 .. lastMessage'
  BY DEF Sent
<1>3. IsFiniteSet(waiting')
  BY FS_Subset
<1>4. Sent'
  BY DEF Sent, Created
<1>5. Unique'
  BY DEF Unique
<1>6. Single'
  BY DEF Single, SyncWaits, Created
<1> QED
  BY <1>1, <1>2, <1>3, <1>4, <1>5, <1>6

LEMMA OneSent ==
  ASSUME MessagesOK, Len(idOf) \in Nat, idOf' = idOf,
         NEW m \in Messages, m.num = lastMessage + 1, m.about \subseteq Created,
         m.kind # "destroy" => \E n \in Created : m.about = {n},
         waiting' \subseteq waiting \cup {m}, loose' \subseteq loose \cup {m},
         m \in loose' => m.kind = "sync",
         lastMessage' = lastMessage + 1, lastMessage < MaxMessages, handled' \subseteq handled
  PROVE  MessagesOK'
<1> USE DEF MessagesOK
<1>1. /\ waiting' \subseteq Messages /\ loose' \subseteq Messages
      /\ lastMessage' \in 0 .. MaxMessages
  OBVIOUS
<1>2. handled' \subseteq 1 .. lastMessage'
  OBVIOUS
<1>3. IsFiniteSet(waiting')
  BY FS_Subset, FS_AddElement
<1>4. Sent'
  BY DEF Sent, Created
<1>5. Unique'
  BY DEF Unique, Sent
<1>6. Single'
  BY DEF Single, SyncWaits, Created
<1> QED
  BY <1>1, <1>2, <1>3, <1>4, <1>5, <1>6

LEMMA DestroyMessage ==
  ASSUME ObjectsOK, MessagesOK, NEW D, D \subseteq Created, lastMessage < MaxMessages
  PROVE  [num |-> lastMessage + 1, kind |-> "destroy", about |-> D, state |-> 0] \in Messages
BY DEF ObjectsOK, MessagesOK, Messages, Created, Objects

LEMMA SendDestroyerKeeps ==
  ASSUME Base, NEW D, D \subseteq Created, SendDestroyer(D),
         idOf' = idOf, loose' = loose, handled' = handled,
         D = {} => destroyers = {}
  PROVE  /\ MessagesOK'
         /\ destroyers' = {}
         /\ destroyersCount' \in Int
         /\ SyncWaits' = SyncWaits
<1> DEFINE m == [num |-> lastMessage + 1, kind |-> "destroy", about |-> D, state |-> 0]
<1>0. MessagesOK /\ ObjectsOK /\ SlotOK /\ Len(idOf) \in Nat
  BY DEF Base, ObjectsOK
<1>1. CASE D = {}
  <2>1. UNCHANGED <<destroyers, destroyersCount, waiting, lastMessage>>
    BY <1>1 DEF SendDestroyer
  <2>2. MessagesOK'
    BY <1>0, <2>1, NoneSent
  <2> QED
    BY <1>0, <1>1, <2>1, <2>2 DEF SyncWaits, SlotOK
<1>2. CASE D # {}
  <2>1. /\ lastMessage < MaxMessages /\ lastMessage' = lastMessage + 1
        /\ waiting' = waiting \cup {m}
        /\ destroyersCount' = destroyersCount + 1 /\ destroyers' = {}
    BY <1>2 DEF SendDestroyer
  <2>2. m \in Messages /\ m.num = lastMessage + 1 /\ m.about = D /\ m.kind = "destroy"
    BY <1>0, <2>1, DestroyMessage
  <2> HIDE DEF m
  <2>3. m \notin loose'
    BY <1>0, <2>2 DEF MessagesOK, Single
  <2>4. MessagesOK'
    BY <1>0, <2>1, <2>2, <2>3, OneSent
  <2> QED
    BY <1>0, <2>1, <2>2, <2>4 DEF SyncWaits, SlotOK
<1> QED
  BY <1>1, <1>2

-----------------------------------------------------------------------------
(***************************************************************************)
(* Base: the life of an object.                                            *)
(***************************************************************************)
LEMMA KnowsValues ==
  /\ Fresh \in Knows
  /\ Unknown.acksPending = 0 /\ ~Unknown.knowsAboutExistence
  /\ connected \in BOOLEAN => Unknown \in Knows
  /\ \A k \in Knows : Reset(k) \in Knows
  /\ \A k \in Knows : \A ack \in BOOLEAN : Requested(k, ack) \in Knows
<1>1. /\ Fresh \in Knows
      /\ Unknown.acksPending = 0 /\ ~Unknown.knowsAboutExistence
      /\ connected \in BOOLEAN => Unknown \in Knows
  BY DEF Fresh, Unknown, Knows
<1>2. ASSUME NEW k \in Knows
      PROVE  Reset(k) \in Knows
  BY DEF Reset, Knows
<1>3. ASSUME NEW k \in Knows, NEW ack \in BOOLEAN
      PROVE  Requested(k, ack) \in Knows
  <2>1. (k.nextSyncAck \/ ack) \in BOOLEAN
    OBVIOUS
  <2> QED
    BY <2>1 DEF Requested, Knows
<1> QED
  BY <1>1, <1>2, <1>3

LEMMA RecycledType ==
  ASSUME sn_freedIDs \in Seq(Ids)
  PROVE  Recycled \in Seq(Ids)
<1>1. CASE Len(sn_freedIDs) > FreeKeep
  <2>1. /\ FreeKeep \in Nat
        /\ Len(sn_freedIDs) - FreeKeep + 1 \in 1 .. Len(sn_freedIDs) + 1
        /\ Len(sn_freedIDs) \in 0 .. Len(sn_freedIDs)
    BY <1>1 DEF SyncAssumption
  <2>2. SubSeq(sn_freedIDs, Len(sn_freedIDs) - FreeKeep + 1, Len(sn_freedIDs)) \in Seq(Ids)
    BY <2>1, SubSeqProperties
  <2> QED
    BY <1>1, <2>2 DEF Recycled
<1> QED
  BY <1>1 DEF Recycled

LEMMA CreateObjectBase ==
  ASSUME Base, NEW id \in Ids, CreateObject(id)
  PROVE  Base'
<1> DEFINE n == Len(idOf) + 1
<1>0. ObjectsOK /\ SlotOK /\ ClientOK /\ MessagesOK
  BY DEF Base
<1>1. n \in Objects /\ Len(idOf) \in Nat /\ Len(idOf') = n
  BY <1>0 DEF CreateObject, ObjectsOK
<1>2. /\ idOf' = Append(idOf, id) /\ alive' = alive \cup {n}
      /\ knowsAbout' = [knowsAbout EXCEPT ![n] = Unknown]
      /\ syncList' = IF connected THEN syncList \cup {n} ELSE syncList
      /\ sn_freedIDs' = Recycled
  BY DEF CreateObject
<1>3. UNCHANGED <<state, mustArrive, slotVars, clientVars, loose, lastMessage>>
  BY DEF CreateObject
<1>4. Created \subseteq Created' /\ n \notin Created /\ n \in Created'
  BY <1>1, <1>2 DEF Created
<1>5. ObjectsOK'
  <2>1. idOf' \in Seq(Ids) /\ Len(idOf') <= MaxObjects
    BY <1>0, <1>1, <1>2 DEF ObjectsOK, Objects
  <2>2. sn_freedIDs' \in Seq(Ids)
    BY <1>0, <1>2, RecycledType DEF ObjectsOK
  <2>3. knowsAbout' \in [Objects -> Knows]
    BY <1>0, <1>1, <1>2, KnowsValues DEF ObjectsOK, SlotOK
  <2>4. alive' \subseteq Created' /\ syncList' \subseteq alive'
    BY <1>0, <1>2, <1>4 DEF ObjectsOK
  <2> QED
    BY <1>0, <1>3, <2>1, <2>2, <2>3, <2>4 DEF ObjectsOK
<1>6. SlotOK' /\ ClientOK'
  BY <1>0, <1>3, <1>4 DEF SlotOK, ClientOK, slotVars, clientVars
<1>7. MessagesOK'
  BY <1>0, <1>1, <1>3, NoneSent DEF slotVars, clientVars
<1>8. knowsAbout'[n] = Unknown /\ \A o \in alive : knowsAbout'[o] = knowsAbout[o]
  BY <1>0, <1>1, <1>2, <1>4 DEF ObjectsOK
<1>9. Idle'
  BY <1>2, <1>3, <1>8, KnowsValues DEF Idle, Base, slotVars, SyncWaits, MustDestroy
<1>10. RequestNotForgotten'
  BY <1>2, <1>3, <1>8 DEF RequestNotForgotten, Base, slotVars
<1> QED
  BY <1>5, <1>6, <1>7, <1>9, <1>10 DEF Base

LEMMA RequestSyncBase ==
  ASSUME Base, NEW n \in alive, NEW ack \in BOOLEAN, RequestSync(n, ack)
  PROVE  Base'
<1>0. ObjectsOK /\ SlotOK /\ ClientOK /\ MessagesOK
  BY DEF Base
<1>1. n \in Objects /\ state[n] < MaxState /\ Len(idOf) \in Nat
  BY <1>0 DEF RequestSync, ObjectsOK, Created, Objects
<1>2. /\ state' = [state EXCEPT ![n] = @ + 1]
      /\ mustArrive' = IF ack THEN [mustArrive EXCEPT ![n] = state[n] + 1] ELSE mustArrive
      /\ knowsAbout' = [knowsAbout EXCEPT ![n] = Requested(@, ack)]
      /\ syncList' = syncList \cup {n}
  BY DEF RequestSync
<1>3. UNCHANGED <<idOf, alive, sn_freedIDs, slotVars, clientVars, loose, lastMessage>>
  BY DEF RequestSync
<1>4. state[n] + 1 \in 0 .. MaxState
  BY <1>0, <1>1 DEF ObjectsOK, SyncAssumption
<1>5. Requested(knowsAbout[n], ack) \in Knows
  BY <1>0, <1>1, KnowsValues DEF ObjectsOK
<1>6. ObjectsOK'
  BY <1>0, <1>1, <1>2, <1>3, <1>4, <1>5 DEF ObjectsOK, Created
<1>7. SlotOK' /\ ClientOK'
  BY <1>0, <1>3 DEF SlotOK, ClientOK, slotVars, clientVars, Created
<1>8. MessagesOK'
  BY <1>0, <1>1, <1>3, NoneSent DEF slotVars, clientVars
<1>9. /\ \A o \in alive : o # n => knowsAbout'[o] = knowsAbout[o]
      /\ MustDestroy(n)' <=> MustDestroy(n)
  BY <1>0, <1>1, <1>2 DEF ObjectsOK, MustDestroy, Requested
<1>10. Idle'
  BY <1>3, <1>9 DEF Idle, Base, slotVars, SyncWaits, MustDestroy
<1>11. RequestNotForgotten'
  BY <1>2, <1>3, <1>9 DEF RequestNotForgotten, Base, slotVars
<1> QED
  BY <1>6, <1>7, <1>8, <1>10, <1>11 DEF Base

LEMMA WithoutType ==
  ASSUME NEW S, NEW f \in [Objects -> S], NEW v \in S, NEW D
  PROVE  /\ Without(D, f, v) \in [Objects -> S]
         /\ \A n \in Objects : n \notin D => Without(D, f, v)[n] = f[n]
BY DEF Without

LEMMA DestroyObjectBase ==
  ASSUME Base, NEW n \in alive, DestroyObject(n)
  PROVE  Base'
<1> DEFINE named == IF MustDestroy(n) THEN destroyers \cup {n} ELSE destroyers
<1>0. ObjectsOK /\ SlotOK /\ ClientOK /\ MessagesOK
  BY DEF Base
<1>1. n \in Objects /\ n \in Created /\ Len(idOf) \in Nat /\ idOf[n] \in Ids
  BY <1>0 DEF ObjectsOK, Created, Objects
<1>2. /\ alive' = alive \ {n} /\ syncList' = syncList \ {n}
      /\ sn_freedIDs' = Append(sn_freedIDs, idOf[n])
      /\ knowsAbout' = Without({n}, knowsAbout, Fresh)
      /\ state' = Without({n}, state, 0) /\ mustArrive' = Without({n}, mustArrive, 0)
  BY DEF DestroyObject
<1>3. UNCHANGED <<idOf, connected, logins, ready, clientVars, loose>>
  BY DEF DestroyObject
<1>4. \/ MustDestroy(n) /\ SendDestroyer(named)
      \/ destroyers' = named /\ UNCHANGED <<destroyersCount, waiting, lastMessage>>
  BY DEF DestroyObject
<1>5. named \subseteq Created /\ (MustDestroy(n) => named # {})
  BY <1>0, <1>1 DEF SlotOK
<1>6. 0 \in 0 .. MaxState
  BY DEF SyncAssumption
<1>7. ObjectsOK'
  <2>1. /\ state' \in [Objects -> 0 .. MaxState] /\ mustArrive' \in [Objects -> 0 .. MaxState]
        /\ knowsAbout' \in [Objects -> Knows]
    BY <1>0, <1>2, <1>6, WithoutType, KnowsValues DEF ObjectsOK
  <2>2. sn_freedIDs' \in Seq(Ids)
    BY <1>0, <1>1, <1>2 DEF ObjectsOK
  <2> QED
    BY <1>0, <1>2, <1>3, <2>1, <2>2 DEF ObjectsOK, Created
<1>8. ClientOK'
  BY <1>0, <1>3 DEF ClientOK, clientVars, Created
<1> HIDE DEF named
<1>9. /\ MessagesOK' /\ destroyers' \subseteq Created /\ destroyersCount' \in Int
      /\ SyncWaits' = SyncWaits
      /\ destroyers' \subseteq named
  <2>1. ASSUME MustDestroy(n), SendDestroyer(named)
        PROVE  MessagesOK' /\ destroyers' = {} /\ destroyersCount' \in Int /\ SyncWaits' = SyncWaits
    BY <1>3, <1>5, <2>1, SendDestroyerKeeps DEF clientVars
  <2>2. ASSUME UNCHANGED <<destroyersCount, waiting, lastMessage>>
        PROVE  MessagesOK' /\ destroyersCount' \in Int /\ SyncWaits' = SyncWaits
    BY <1>0, <1>1, <1>3, <2>2, NoneSent DEF clientVars, SlotOK, SyncWaits
  <2> QED
    BY <1>4, <1>5, <2>1, <2>2
<1>10. SlotOK'
  BY <1>0, <1>3, <1>9 DEF SlotOK, Created
<1>11. \A o \in alive' : knowsAbout'[o] = knowsAbout[o]
  <2>1. alive' \subseteq Objects /\ n \notin alive'
    BY <1>0, <1>2 DEF ObjectsOK, Created, Objects
  <2>2. \A o \in Objects : o \notin {n} => knowsAbout'[o] = knowsAbout[o]
    BY <1>2 DEF Without
  <2> QED
    BY <2>1, <2>2
<1>12. Idle'
  <2> SUFFICES ASSUME ~connected
               PROVE  /\ destroyers' = {} /\ SyncWaits' = {} /\ loose' = {}
                      /\ \A o \in alive' : ~MustDestroy(o)'
    BY <1>3 DEF Idle
  <2>1. destroyers = {} /\ SyncWaits = {} /\ loose = {} /\ \A o \in alive : ~MustDestroy(o)
    BY DEF Base, Idle
  <2>2. named = {}
    BY <2>1 DEF named
  <2> QED
    BY <1>2, <1>3, <1>9, <1>11, <2>1, <2>2 DEF MustDestroy
<1>13. RequestNotForgotten'
  BY <1>2, <1>3, <1>11 DEF RequestNotForgotten, Base
<1> QED
  BY <1>7, <1>8, <1>9, <1>10, <1>12, <1>13 DEF Base

-----------------------------------------------------------------------------
(***************************************************************************)
(* Base: SyncAll and the acks.                                             *)
(***************************************************************************)
\* The three things that a turn of SyncAll may do with the object n.
SyncMessage(n) ==
  [num |-> lastMessage + 1,
   kind |-> IF knowsAbout[n].knowsAboutExistence THEN "sync" ELSE "create",
   about |-> {n}, state |-> state[n]]

SendsDestroyer(n) ==
  /\ SendDestroyer(destroyers)
  /\ UNCHANGED <<knowsAbout, loose>>

SendsCreation(n) ==
  /\ ~knowsAbout[n].knowsAboutExistence
  /\ MayCreate(n)
  /\ QuietClient => WithId(idOf[n], lingering) = {}
  /\ lastMessage < MaxMessages /\ lastMessage' = lastMessage + 1
  /\ knowsAbout' = [knowsAbout EXCEPT ![n].acksPending = @ + 1, ![n].syncReq = FALSE]
  /\ waiting' = waiting \cup {SyncMessage(n)}
  /\ UNCHANGED <<destroyers, destroyersCount, loose>>

SendsSync(n) ==
  /\ knowsAbout[n].knowsAboutExistence
  /\ MaySync(n)
  /\ lastMessage < MaxMessages /\ lastMessage' = lastMessage + 1
  /\ \/ /\ knowsAbout[n].nextSyncAck
        /\ knowsAbout' = [knowsAbout EXCEPT ![n].syncReq = FALSE,
                            ![n].acksPending = @ + 1, ![n].nextSyncAck = FALSE]
        /\ waiting' = waiting \cup {SyncMessage(n)}
        /\ loose' = loose
     \/ /\ ~knowsAbout[n].nextSyncAck
        /\ knowsAbout' = [knowsAbout EXCEPT ![n].syncReq = FALSE]
        /\ loose' = loose \cup {SyncMessage(n)}
        /\ waiting' = waiting
  /\ UNCHANGED <<destroyers, destroyersCount>>

LEMMA SyncObjectCases ==
  ASSUME NEW n, SyncObject(n)
  PROVE  /\ connected /\ ready /\ n \in syncList
         /\ SendsDestroyer(n) \/ SendsCreation(n) \/ SendsSync(n)
         /\ UNCHANGED <<idOf, alive, state, sn_freedIDs, syncList, mustArrive,
                        connected, logins, ready, clientVars>>
BY DEF SyncObject, SendsDestroyer, SendsCreation, SendsSync, SyncMessage, SendCreation

LEMMA SyncMessageType ==
  ASSUME Base, NEW n \in alive, lastMessage < MaxMessages
  PROVE  /\ SyncMessage(n) \in Messages
         /\ SyncMessage(n).num = lastMessage + 1
         /\ SyncMessage(n).about = {n}
         /\ SyncMessage(n).state = state[n]
         /\ SyncMessage(n).kind = IF knowsAbout[n].knowsAboutExistence THEN "sync" ELSE "create"
         /\ SyncMessage(n).kind # "destroy"
         /\ n \in Created /\ n \in Objects
<1>1. n \in Created /\ n \in Objects /\ state[n] \in 0 .. MaxState
  BY DEF Base, ObjectsOK, Created, Objects
<1>2. lastMessage + 1 \in 1 .. MaxMessages
  BY DEF Base, MessagesOK, SyncAssumption
<1> QED
  BY <1>1, <1>2 DEF SyncMessage, Messages

\* The three ways of marking an object as sent.
LEMMA KnowsSet ==
  ASSUME NEW k \in Knows, k.acksPending \in 0 .. 1
  PROVE  /\ [k EXCEPT !.acksPending = @ + 1, !.syncReq = FALSE] \in Knows
         /\ [k EXCEPT !.syncReq = FALSE, !.acksPending = @ + 1, !.nextSyncAck = FALSE] \in Knows
         /\ [k EXCEPT !.syncReq = FALSE] \in Knows
<1>1. k.acksPending + 1 \in 0 .. 2
  OBVIOUS
<1>2. ASSUME NEW a \in 0 .. 2
      PROVE  /\ [k EXCEPT !.acksPending = a, !.syncReq = FALSE] \in Knows
             /\ [k EXCEPT !.syncReq = FALSE, !.acksPending = a, !.nextSyncAck = FALSE] \in Knows
  BY DEF Knows
<1>3. [k EXCEPT !.syncReq = FALSE] \in Knows
  BY DEF Knows
<1> QED
  BY <1>1, <1>2, <1>3

\* How knowsAbout changes when an object is sent; the counter stays below 3.
LEMMA SentKnows ==
  ASSUME Base, NEW n \in alive, SendsCreation(n) \/ SendsSync(n)
  PROVE  /\ knowsAbout' \in [Objects -> Knows]
         /\ \A o \in Objects : o # n => knowsAbout'[o] = knowsAbout[o]
         /\ ~knowsAbout'[n].syncReq
         /\ knowsAbout'[n].knowsAboutExistence = knowsAbout[n].knowsAboutExistence
<1>1. n \in Objects /\ knowsAbout \in [Objects -> Knows] /\ knowsAbout[n] \in Knows
  BY DEF Base, ObjectsOK, Created, Objects
<1>2. CASE SendsCreation(n)
  <2>1. knowsAbout[n].acksPending \in 0 .. 1
    BY <1>2 DEF SendsCreation, MayCreate
  <2>2. [knowsAbout[n] EXCEPT !.acksPending = @ + 1, !.syncReq = FALSE] \in Knows
    BY <1>1, <2>1, KnowsSet
  <2>3. knowsAbout' = [knowsAbout EXCEPT ![n] =
                         [knowsAbout[n] EXCEPT !.acksPending = @ + 1, !.syncReq = FALSE]]
    BY <1>1, <1>2 DEF SendsCreation, Knows
  <2> QED
    BY <1>1, <2>2, <2>3 DEF Knows
<1>3. CASE SendsSync(n)
  <2>1. knowsAbout[n].acksPending \in 0 .. 1
    BY <1>1, <1>3 DEF SendsSync, MaySync, Knows
  <2> DEFINE with == [knowsAbout[n] EXCEPT !.syncReq = FALSE, !.acksPending = @ + 1,
                                           !.nextSyncAck = FALSE]
             less == [knowsAbout[n] EXCEPT !.syncReq = FALSE]
  <2>2. with \in Knows /\ less \in Knows
    BY <1>1, <2>1, KnowsSet
  <2>3. \/ knowsAbout' = [knowsAbout EXCEPT ![n] = with]
        \/ knowsAbout' = [knowsAbout EXCEPT ![n] = less]
    BY <1>1, <1>3 DEF SendsSync, Knows
  <2>4. /\ ~with.syncReq /\ with.knowsAboutExistence = knowsAbout[n].knowsAboutExistence
        /\ ~less.syncReq /\ less.knowsAboutExistence = knowsAbout[n].knowsAboutExistence
    BY <1>1 DEF Knows
  <2> HIDE DEF with, less
  <2> QED
    BY <1>1, <2>2, <2>3, <2>4
<1> QED
  BY <1>2, <1>3

LEMMA SyncObjectBase ==
  ASSUME Base, NEW n, SyncObject(n)
  PROVE  Base'
<1>0. ObjectsOK /\ SlotOK /\ ClientOK /\ MessagesOK /\ Len(idOf) \in Nat
  BY DEF Base, ObjectsOK
<1>1. /\ connected /\ ready /\ n \in syncList /\ n \in alive
      /\ SendsDestroyer(n) \/ SendsCreation(n) \/ SendsSync(n)
      /\ UNCHANGED <<idOf, alive, state, sn_freedIDs, syncList, mustArrive,
                     connected, logins, ready, clientVars>>
  BY <1>0, SyncObjectCases DEF ObjectsOK
<1>2. ClientOK'
  BY <1>0, <1>1 DEF ClientOK, clientVars, Created
<1>3. Idle'
  BY <1>1 DEF Idle
<1>4. CASE SendsDestroyer(n)
  <2>1. /\ SendDestroyer(destroyers) /\ UNCHANGED <<knowsAbout, loose>>
        /\ destroyers \subseteq Created
    BY <1>0, <1>4 DEF SendsDestroyer, SlotOK
  <2>2. MessagesOK' /\ destroyers' = {} /\ destroyersCount' \in Int
    BY <1>1, <2>1, SendDestroyerKeeps DEF clientVars
  <2>3. ObjectsOK' /\ RequestNotForgotten'
    BY <1>0, <1>1, <2>1 DEF ObjectsOK, Created, Base, RequestNotForgotten
  <2>4. SlotOK'
    BY <1>0, <1>1, <2>2 DEF SlotOK, Created
  <2> QED
    BY <1>2, <1>3, <2>2, <2>3, <2>4 DEF Base
<1>5. ASSUME SendsCreation(n) \/ SendsSync(n)
      PROVE  Base'
  <2> DEFINE m == SyncMessage(n)
  <2>1. /\ lastMessage < MaxMessages /\ lastMessage' = lastMessage + 1
        /\ UNCHANGED <<destroyers, destroyersCount>>
        /\ waiting' \subseteq waiting \cup {m} /\ loose' \subseteq loose \cup {m}
        /\ loose' # loose => knowsAbout[n].knowsAboutExistence
    BY <1>5 DEF SendsCreation, SendsSync
  <2>2. /\ m \in Messages /\ m.num = lastMessage + 1 /\ m.about = {n}
        /\ m.kind = IF knowsAbout[n].knowsAboutExistence THEN "sync" ELSE "create"
        /\ n \in Created
    BY <1>1, <2>1, SyncMessageType
  <2> HIDE DEF m
  <2>3. m \in loose' => m.kind = "sync"
    BY <1>0, <2>1, <2>2 DEF MessagesOK, Single
  <2>4. MessagesOK'
    BY <1>0, <1>1, <2>1, <2>2, <2>3, OneSent DEF clientVars
  <2>5. /\ knowsAbout' \in [Objects -> Knows]
        /\ \A o \in Objects : o # n => knowsAbout'[o] = knowsAbout[o]
        /\ ~knowsAbout'[n].syncReq
    BY <1>1, <1>5, SentKnows
  <2>6. ObjectsOK'
    BY <1>0, <1>1, <2>5 DEF ObjectsOK, Created
  <2>7. SlotOK'
    BY <1>0, <1>1, <2>1 DEF SlotOK, Created
  <2>8. alive \subseteq Objects
    BY <1>0 DEF ObjectsOK, Created, Objects
  <2>9. RequestNotForgotten'
    BY <1>1, <2>5, <2>8 DEF Base, RequestNotForgotten
  <2> QED
    BY <1>2, <1>3, <2>4, <2>6, <2>7, <2>9 DEF Base
<1> QED
  BY <1>1, <1>4, <1>5

\* SyncDestroyer and ClearAllDeleted.
DestroyerGoes ==
  /\ connected
  /\ SendDestroyer(destroyers)
  /\ UNCHANGED <<objectVars, connected, logins, ready, clientVars, loose>>

LEMMA DestroyerGoesBase ==
  ASSUME Base, DestroyerGoes
  PROVE  Base'
<1>0. ObjectsOK /\ SlotOK /\ ClientOK /\ destroyers \subseteq Created
  BY DEF Base, SlotOK
<1>1. UNCHANGED <<objectVars, connected, logins, ready, clientVars, loose>> /\ connected
  BY DEF DestroyerGoes
<1>2. MessagesOK' /\ destroyers' = {} /\ destroyersCount' \in Int
  BY <1>0, <1>1, SendDestroyerKeeps DEF DestroyerGoes, clientVars, objectVars
<1>3. ObjectsOK' /\ ClientOK' /\ RequestNotForgotten'
  BY <1>0, <1>1
  DEF ObjectsOK, ClientOK, objectVars, clientVars, Created, Base, RequestNotForgotten
<1>4. SlotOK' /\ Idle'
  BY <1>0, <1>1, <1>2 DEF SlotOK, Created, Idle
<1> QED
  BY <1>2, <1>3, <1>4 DEF Base

LEMMA CleanSyncListBase ==
  ASSUME Base, CleanSyncList
  PROVE  Base'
<1>0. ObjectsOK /\ SlotOK /\ ClientOK /\ MessagesOK /\ Len(idOf) \in Nat
  BY DEF Base, ObjectsOK
<1>1. /\ syncList' = {n \in syncList : StillRequested(n)}
      /\ UNCHANGED <<idOf, alive, state, sn_freedIDs, knowsAbout, mustArrive,
                     slotVars, clientVars, loose, lastMessage>>
  BY DEF CleanSyncList
<1>2. ObjectsOK'
  BY <1>0, <1>1 DEF ObjectsOK, Created
<1>3. SlotOK' /\ ClientOK' /\ Idle'
  BY <1>0, <1>1
  DEF SlotOK, ClientOK, slotVars, clientVars, Created, Idle, Base, SyncWaits, MustDestroy
<1>4. MessagesOK'
  BY <1>0, <1>1, NoneSent DEF slotVars, clientVars
<1>5. RequestNotForgotten'
  BY <1>1 DEF RequestNotForgotten, Base, slotVars, StillRequested
<1> QED
  BY <1>2, <1>3, <1>4, <1>5 DEF Base

\* What the ack of a creation or sync tells about n.
Acknowledged(k) == [k EXCEPT !.acksPending = IF @ = 0 THEN 0 ELSE @ - 1,
                             !.knowsAboutExistence = TRUE]

IsAbout(m, n) == \E o \in m.about : idOf[o] = idOf[n]

LEMMA AckSyncChanges ==
  ASSUME NEW m, AckSync(m)
  PROVE  /\ connected /\ m \in SyncWaits /\ m.num \in handled
         /\ waiting' = waiting \ {m}
         /\ knowsAbout' = [n \in Objects |-> IF n \in alive /\ IsAbout(m, n)
                                             THEN Acknowledged(knowsAbout[n]) ELSE knowsAbout[n]]
         /\ UNCHANGED <<idOf, alive, state, sn_freedIDs, syncList, mustArrive, connected, logins,
                        ready, destroyers, destroyersCount, clientVars, loose, lastMessage>>
BY DEF AckSync, Acknowledged, IsAbout

LEMMA AcknowledgedType ==
  ASSUME NEW k \in Knows
  PROVE  /\ Acknowledged(k) \in Knows
         /\ Acknowledged(k).knowsAboutExistence
         /\ Acknowledged(k).syncReq = k.syncReq
         /\ Acknowledged(k).nextSyncAck = k.nextSyncAck
         /\ k.acksPending > 0 => Acknowledged(k).acksPending = k.acksPending - 1
<1>1. (IF k.acksPending = 0 THEN 0 ELSE k.acksPending - 1) \in 0 .. 2
  BY DEF Knows
<1>2. ASSUME NEW a \in 0 .. 2
      PROVE  [k EXCEPT !.acksPending = a, !.knowsAboutExistence = TRUE] \in Knows
  BY DEF Knows
<1>3. Acknowledged(k) \in Knows
  BY <1>1, <1>2 DEF Acknowledged
<1>4. /\ Acknowledged(k).knowsAboutExistence
      /\ Acknowledged(k).syncReq = k.syncReq /\ Acknowledged(k).nextSyncAck = k.nextSyncAck
      /\ Acknowledged(k).acksPending = IF k.acksPending = 0 THEN 0 ELSE k.acksPending - 1
  BY DEF Acknowledged, Knows
<1> QED
  BY <1>3, <1>4 DEF Knows

LEMMA AckSyncBase ==
  ASSUME Base, NEW m, AckSync(m)
  PROVE  Base'
<1>0. ObjectsOK /\ SlotOK /\ ClientOK /\ MessagesOK /\ Len(idOf) \in Nat
  BY DEF Base, ObjectsOK
<1>1. /\ connected
      /\ waiting' = waiting \ {m}
      /\ knowsAbout' = [n \in Objects |-> IF n \in alive /\ IsAbout(m, n)
                                          THEN Acknowledged(knowsAbout[n]) ELSE knowsAbout[n]]
      /\ UNCHANGED <<idOf, alive, state, sn_freedIDs, syncList, mustArrive, connected, logins,
                     ready, destroyers, destroyersCount, clientVars, loose, lastMessage>>
  BY AckSyncChanges
<1>2. \A n \in Objects : knowsAbout'[n] \in Knows /\ knowsAbout'[n].syncReq = knowsAbout[n].syncReq
  BY <1>0, <1>1, AcknowledgedType DEF ObjectsOK
<1>3. ObjectsOK'
  BY <1>0, <1>1, <1>2 DEF ObjectsOK, Created
<1>4. SlotOK' /\ ClientOK' /\ Idle'
  BY <1>0, <1>1 DEF SlotOK, ClientOK, clientVars, Created, Idle
<1>5. MessagesOK'
  BY <1>0, <1>1, NoneSent DEF clientVars
<1>6. alive \subseteq Objects
  BY <1>0 DEF ObjectsOK, Created, Objects
<1>7. RequestNotForgotten'
  BY <1>1, <1>2, <1>6 DEF RequestNotForgotten, Base
<1> QED
  BY <1>3, <1>4, <1>5, <1>7 DEF Base

\* AckDestroy and ResendToNobody.
DestroyForgotten(m) ==
  /\ m \in DestroyWaits
  /\ connected => m.num \in handled
  /\ ForgetDestroy(m)
  /\ UNCHANGED <<objectVars, connected, logins, ready, destroyers, clientVars, loose, lastMessage>>

LEMMA DestroyForgottenBase ==
  ASSUME Base, NEW m, DestroyForgotten(m)
  PROVE  Base'
<1>0. ObjectsOK /\ SlotOK /\ ClientOK /\ MessagesOK /\ Len(idOf) \in Nat
  BY DEF Base, ObjectsOK
<1>1. /\ waiting' = waiting \ {m} /\ destroyersCount' = destroyersCount - 1
      /\ UNCHANGED <<objectVars, connected, logins, ready, destroyers, clientVars, loose, lastMessage>>
  BY DEF DestroyForgotten, ForgetDestroy
<1>2. ObjectsOK' /\ ClientOK'
  BY <1>0, <1>1 DEF ObjectsOK, ClientOK, objectVars, clientVars, Created
<1>3. SlotOK'
  BY <1>0, <1>1 DEF SlotOK, Created, objectVars
<1>4. MessagesOK'
  BY <1>0, <1>1, NoneSent DEF clientVars, objectVars
<1>5. Idle' /\ RequestNotForgotten'
  BY <1>1 DEF Idle, Base, RequestNotForgotten, objectVars, SyncWaits, MustDestroy
<1> QED
  BY <1>2, <1>3, <1>4, <1>5 DEF Base

-----------------------------------------------------------------------------
(***************************************************************************)
(* Base: the slot and the client.                                          *)
(***************************************************************************)
LEMMA NewClientType ==
  ASSUME NewClient
  PROVE  /\ ClientOK'
         /\ handled' = {} /\ copies' = {} /\ Destroyed' = {} /\ lingering' = {}
BY DEF NewClient, ClientOK, SyncAssumption

LEMMA LoginBase ==
  ASSUME Base, Login
  PROVE  Base'
<1>0. ObjectsOK /\ SlotOK /\ ClientOK /\ MessagesOK /\ Len(idOf) \in Nat
  BY DEF Base, ObjectsOK
<1>1. /\ logins < MaxLogins /\ connected' = TRUE /\ logins' = logins + 1 /\ ready' = FALSE
      /\ knowsAbout' = [n \in Objects |-> IF n \in alive THEN Reset(knowsAbout[n]) ELSE Fresh]
      /\ syncList' = syncList \cup alive /\ mustArrive' = state /\ destroyersCount' = 0
      /\ NewClient
      /\ UNCHANGED <<idOf, alive, state, sn_freedIDs, destroyers, waiting, loose, lastMessage>>
  BY DEF Login
<1>2. knowsAbout' \in [Objects -> Knows]
  BY <1>0, <1>1, KnowsValues DEF ObjectsOK
<1>3. ObjectsOK'
  BY <1>0, <1>1, <1>2 DEF ObjectsOK, Created
<1>4. SlotOK'
  <2>1. logins + 1 \in 0 .. MaxLogins
    BY <1>0, <1>1 DEF SlotOK, SyncAssumption
  <2>2. connected' \in BOOLEAN /\ ready' \in BOOLEAN
    BY <1>1, Zenon
  <2>3. destroyers' \subseteq Created' /\ destroyersCount' \in Int
    BY <1>0, <1>1 DEF SlotOK, Created
  <2> QED
    BY <1>1, <2>1, <2>2, <2>3 DEF SlotOK
<1>5. ClientOK' /\ handled' = {}
  BY <1>1, NewClientType
<1>6. MessagesOK'
  BY <1>0, <1>1, <1>5, NoneSent
<1>7. Idle' /\ RequestNotForgotten'
  BY <1>1 DEF Idle, RequestNotForgotten
<1> QED
  BY <1>3, <1>4, <1>5, <1>6, <1>7 DEF Base

LEMMA ReadyBase ==
  ASSUME Base, Ready
  PROVE  Base'
<1>0. ObjectsOK /\ SlotOK /\ ClientOK /\ MessagesOK /\ Len(idOf) \in Nat
  BY DEF Base, ObjectsOK
<1>1. /\ ready' = TRUE
      /\ UNCHANGED <<objectVars, connected, logins, destroyers, destroyersCount, waiting,
                     clientVars, loose, lastMessage>>
  BY DEF Ready
<1>2. ObjectsOK' /\ ClientOK' /\ SlotOK'
  BY <1>0, <1>1 DEF ObjectsOK, ClientOK, SlotOK, objectVars, clientVars, Created
<1>3. MessagesOK'
  BY <1>0, <1>1, NoneSent DEF clientVars, objectVars
<1>4. Idle' /\ RequestNotForgotten'
  BY <1>1 DEF Idle, Base, RequestNotForgotten, objectVars, SyncWaits, MustDestroy
<1> QED
  BY <1>2, <1>3, <1>4 DEF Base

\* The objects a logout names in the last destroy message.
Left(traced) == destroyers \cup {n \in traced : MustDestroy(n)}

LastDestroy(traced) == [num |-> lastMessage + 1, kind |-> "destroy", about |-> Left(traced),
                        state |-> 0]

LEMMA LogoutChanges ==
  ASSUME NEW D, NEW traced, Logout(D, traced)
  PROVE  /\ connected /\ traced \subseteq D
         /\ \/ Left(traced) = {} /\ lastMessage' = lastMessage /\ waiting' = {}
            \/ /\ Left(traced) # {} /\ lastMessage < MaxMessages
               /\ lastMessage' = lastMessage + 1 /\ waiting' = {LastDestroy(traced)}
         /\ destroyers' = {} /\ destroyersCount' = 0 /\ connected' = FALSE /\ ready' = FALSE
         /\ loose' = {} /\ alive' = alive \ D
         /\ \E order \in [1 .. Cardinality(D) -> D] :
              sn_freedIDs' = sn_freedIDs \o [i \in DOMAIN order |-> idOf[order[i]]]
         /\ knowsAbout' = [n \in Objects |-> IF n \in alive \ D THEN Reset(knowsAbout[n]) ELSE Fresh]
         /\ state' = Without(D, state, 0) /\ mustArrive' = Without(D, mustArrive, 0)
         /\ syncList' = alive \ D
         /\ NewClient
         /\ UNCHANGED <<idOf, logins>>
BY DEF Logout, Left, LastDestroy

LEMMA FreedInOrder ==
  ASSUME ObjectsOK, NEW D, D \subseteq alive, NEW order \in [1 .. Cardinality(D) -> D]
  PROVE  sn_freedIDs \o [i \in DOMAIN order |-> idOf[order[i]]] \in Seq(Ids)
<1>1. Len(idOf) \in Nat /\ D \subseteq 1 .. Len(idOf) /\ idOf \in Seq(Ids)
  BY DEF ObjectsOK, Created
<1>2. IsFiniteSet(D)
  <2>1. IsFiniteSet(1 .. Len(idOf))
    BY <1>1, FS_Interval
  <2> QED
    BY <1>1, <2>1, FS_Subset
<1>3. Cardinality(D) \in Nat
  BY <1>2, FS_CardinalityType
<1>4. \A i \in 1 .. Cardinality(D) : idOf[order[i]] \in Ids
  <2>1. \A n \in 1 .. Len(idOf) : idOf[n] \in Ids
    BY <1>1
  <2>2. \A i \in 1 .. Cardinality(D) : order[i] \in D
    OBVIOUS
  <2> QED
    BY <1>1, <2>1, <2>2
<1>5. [i \in DOMAIN order |-> idOf[order[i]]] \in Seq(Ids)
  BY <1>3, <1>4
<1> QED
  BY <1>5 DEF ObjectsOK

LEMMA LogoutBase ==
  ASSUME Base, NEW D \in SUBSET alive, NEW traced \in SUBSET D, Logout(D, traced)
  PROVE  Base'
<1> DEFINE m == LastDestroy(traced)
<1>0. ObjectsOK /\ SlotOK /\ ClientOK /\ MessagesOK /\ Len(idOf) \in Nat
  BY DEF Base, ObjectsOK
<1>1. /\ \/ Left(traced) = {} /\ lastMessage' = lastMessage /\ waiting' = {}
         \/ /\ Left(traced) # {} /\ lastMessage < MaxMessages
            /\ lastMessage' = lastMessage + 1 /\ waiting' = {LastDestroy(traced)}
      /\ destroyers' = {} /\ destroyersCount' = 0 /\ connected' = FALSE /\ ready' = FALSE
      /\ loose' = {} /\ alive' = alive \ D
      /\ knowsAbout' = [n \in Objects |-> IF n \in alive \ D THEN Reset(knowsAbout[n]) ELSE Fresh]
      /\ state' = Without(D, state, 0) /\ mustArrive' = Without(D, mustArrive, 0)
      /\ syncList' = alive \ D
      /\ NewClient
      /\ UNCHANGED <<idOf, logins>>
  BY LogoutChanges
<1>2. sn_freedIDs' \in Seq(Ids)
  <2>1. PICK order \in [1 .. Cardinality(D) -> D] :
          sn_freedIDs' = sn_freedIDs \o [i \in DOMAIN order |-> idOf[order[i]]]
    BY LogoutChanges
  <2> QED
    BY <1>0, <2>1, FreedInOrder
<1>3. Left(traced) \subseteq Created
  BY <1>0 DEF Left, ObjectsOK, SlotOK
<1>4. /\ knowsAbout' \in [Objects -> Knows] /\ state' \in [Objects -> 0 .. MaxState]
      /\ mustArrive' \in [Objects -> 0 .. MaxState]
  <2>1. 0 \in 0 .. MaxState
    BY DEF SyncAssumption
  <2> QED
    BY <1>0, <1>1, <2>1, KnowsValues, WithoutType DEF ObjectsOK
<1>5. ObjectsOK'
  BY <1>0, <1>1, <1>2, <1>4 DEF ObjectsOK, Created
<1>6. SlotOK'
  <2>1. connected' \in BOOLEAN /\ ready' \in BOOLEAN
    BY <1>1, Zenon
  <2>2. destroyers' \subseteq Created' /\ destroyersCount' \in Int /\ logins' \in 0 .. MaxLogins
    BY <1>0, <1>1 DEF SlotOK, Created
  <2> QED
    BY <2>1, <2>2 DEF SlotOK
<1>7. ClientOK' /\ handled' = {}
  BY <1>1, NewClientType
<1>8. MessagesOK'
  <2>1. CASE Left(traced) = {}
    BY <1>0, <1>1, <1>7, <2>1, NoneSent
  <2>2. ASSUME Left(traced) # {}
        PROVE  MessagesOK'
    <3>1. lastMessage < MaxMessages /\ lastMessage' = lastMessage + 1 /\ waiting' = {m}
      BY <1>1, <2>2
    <3>2. m \in Messages /\ m.num = lastMessage + 1 /\ m.about = Left(traced) /\ m.kind = "destroy"
      BY <1>0, <1>3, <3>1, DestroyMessage DEF LastDestroy
    <3> HIDE DEF m
    <3> QED
      BY <1>0, <1>1, <1>3, <1>7, <3>1, <3>2, OneSent
  <2> QED
    BY <2>1, <2>2
<1>9. Idle'
  <2>1. \A o \in alive' : ~MustDestroy(o)'
    <3>1. alive' \subseteq Objects
      BY <1>0, <1>1 DEF ObjectsOK, Created, Objects
    <3>2. \A o \in alive' : knowsAbout'[o] = Reset(knowsAbout[o])
      BY <1>1, <3>1
    <3> QED
      BY <3>2 DEF MustDestroy, Reset
  <2>2. SyncWaits' = {}
    BY <1>1 DEF SyncWaits, LastDestroy
  <2> QED
    BY <1>1, <2>1, <2>2 DEF Idle
<1>10. RequestNotForgotten'
  BY <1>1 DEF RequestNotForgotten
<1> QED
  BY <1>5, <1>6, <1>7, <1>8, <1>9, <1>10 DEF Base

LEMMA ForgetDeletedBase ==
  ASSUME Base, ForgetDeleted
  PROVE  Base'
<1>0. ObjectsOK /\ SlotOK /\ ClientOK /\ MessagesOK /\ Len(idOf) \in Nat
  BY DEF Base, ObjectsOK
<1>1. /\ lingering' = {}
      /\ UNCHANGED <<objectVars, slotVars, handled, copies, copyState, lastSyncID, Destroyed,
                     loose, lastMessage>>
  BY DEF ForgetDeleted
<1>2. ObjectsOK' /\ SlotOK' /\ ClientOK'
  BY <1>0, <1>1 DEF ObjectsOK, SlotOK, ClientOK, objectVars, slotVars, Created
<1>3. MessagesOK'
  BY <1>0, <1>1, NoneSent DEF objectVars, slotVars
<1>4. Idle' /\ RequestNotForgotten'
  BY <1>1 DEF Idle, Base, RequestNotForgotten, objectVars, slotVars, SyncWaits, MustDestroy
<1> QED
  BY <1>2, <1>3, <1>4 DEF Base

LEMMA DoDestroyType ==
  ASSUME NEW held \in SUBSET Created, NEW kept \in SUBSET Created, NEW entries \in SUBSET Created,
         NEW states \in [Objects -> 0 .. MaxState], NEW syncs \in [Objects -> 0 .. MaxMessages],
         DoDestroy(held, kept, entries, states, syncs), idOf' = idOf
  PROVE  ClientOK'
<1>1. 0 \in 0 .. MaxState /\ 0 \in 0 .. MaxMessages
  BY DEF SyncAssumption
<1>2. /\ copyState' = Without(SameId(held, entries), states, 0)
      /\ lastSyncID' = Without(SameId(held, entries), syncs, 0)
  BY DEF DoDestroy
<1>3. copyState' \in [Objects -> 0 .. MaxState] /\ lastSyncID' \in [Objects -> 0 .. MaxMessages]
  BY <1>1, <1>2, WithoutType
<1>4. /\ copies' \subseteq Created /\ lingering' \subseteq Created /\ Destroyed' \subseteq Created
  BY DEF DoDestroy, SameId
<1> QED
  BY <1>3, <1>4 DEF ClientOK, Created

LEMMA HandleBase ==
  ASSUME Base, NEW m, Handle(m)
  PROVE  Base'
<1>0. ObjectsOK /\ SlotOK /\ ClientOK /\ MessagesOK /\ Len(idOf) \in Nat
  BY DEF Base, ObjectsOK
<1>1. /\ connected /\ m \in waiting \cup loose /\ handled' = handled \cup {m.num}
      /\ HandleCreate(m) \/ HandleSync(m) \/ HandleDestroy(m)
      /\ loose' = loose \ {m}
      /\ UNCHANGED <<objectVars, slotVars, lastMessage>>
  BY DEF Handle, Underway
<1>2. /\ m.num \in 1 .. MaxMessages /\ m.state \in 0 .. MaxState
      /\ m.about \subseteq Created /\ Created \subseteq Objects /\ m.num \in 0 .. MaxMessages
  BY <1>0, <1>1 DEF MessagesOK, Messages, Sent, ObjectsOK, Created, Objects
<1>3. ObjectsOK' /\ SlotOK'
  BY <1>0, <1>1 DEF ObjectsOK, SlotOK, objectVars, slotVars, Created
<1>4. ClientOK'
  <2>1. ASSUME HandleCreate(m)
        PROVE  ClientOK'
    <3>1. PICK n \in m.about :
            IF WithId(idOf[n], copies) = {}
            THEN DoDestroy(copies \cup {n}, lingering \ WithId(idOf[n], lingering), Destroyed,
                           [copyState EXCEPT ![n] = m.state], [lastSyncID EXCEPT ![n] = m.num])
            ELSE UNCHANGED <<copies, lingering, Destroyed, copyState, lastSyncID>>
      BY <2>1 DEF HandleCreate
    <3>2. /\ [copyState EXCEPT ![n] = m.state] \in [Objects -> 0 .. MaxState]
          /\ [lastSyncID EXCEPT ![n] = m.num] \in [Objects -> 0 .. MaxMessages]
          /\ copies \cup {n} \in SUBSET Created /\ lingering \ WithId(idOf[n], lingering) \in SUBSET Created
          /\ Destroyed \in SUBSET Created
      BY <1>0, <1>2 DEF ClientOK
    <3>3. CASE WithId(idOf[n], copies) = {}
      BY <1>1, <3>1, <3>2, <3>3, DoDestroyType DEF objectVars
    <3>4. CASE WithId(idOf[n], copies) # {}
      BY <1>0, <1>1, <3>1, <3>4 DEF ClientOK, Created, objectVars
    <3> QED
      BY <3>3, <3>4
  <2>2. ASSUME HandleSync(m)
        PROVE  ClientOK'
    BY <1>0, <1>1, <1>2, <2>2 DEF HandleSync, ClientOK, Created, objectVars
  <2>3. ASSUME HandleDestroy(m)
        PROVE  ClientOK'
    <3>1. /\ Destroyed \cup (m.about \ SameId(m.about, lingering)) \in SUBSET Created
          /\ copies \in SUBSET Created /\ lingering \in SUBSET Created
      BY <1>0, <1>2 DEF ClientOK
    <3> QED
      BY <1>0, <1>1, <2>3, <3>1, DoDestroyType DEF HandleDestroy, ClientOK, objectVars
  <2> QED
    BY <1>1, <2>1, <2>2, <2>3
<1>5. MessagesOK'
  BY <1>0, <1>1, NoneSent DEF objectVars, slotVars
<1>6. Idle' /\ RequestNotForgotten'
  BY <1>1 DEF Idle, Base, RequestNotForgotten, objectVars, slotVars
<1> QED
  BY <1>3, <1>4, <1>5, <1>6 DEF Base

-----------------------------------------------------------------------------
(***************************************************************************)
(* Base always holds.                                                      *)
(***************************************************************************)
LEMMA StepCases ==
  ASSUME Next
  PROVE  \/ \E id \in Ids : CreateObject(id)
         \/ \E n \in alive, ack \in BOOLEAN : RequestSync(n, ack)
         \/ \E n \in alive : DestroyObject(n)
         \/ \E n \in syncList : SyncObject(n)
         \/ DestroyerGoes
         \/ CleanSyncList
         \/ \E m \in waiting : AckSync(m)
         \/ \E m \in waiting : DestroyForgotten(m)
         \/ Login \/ Ready
         \/ \E D \in SUBSET alive : \E traced \in SUBSET D : Logout(D, traced)
         \/ ForgetDeleted
         \/ \E m \in Underway : Handle(m)
<1>1. CASE ObjectNext
  BY <1>1 DEF ObjectNext
<1>2. CASE SyncNext
  BY <1>2
  DEF SyncNext, SyncDestroyer, ClearAllDeleted, DestroyerGoes, AckDestroy, ResendToNobody,
      DestroyForgotten
<1>3. CASE SessionNext
  BY <1>3 DEF SessionNext
<1>4. CASE ClientNext
  BY <1>4 DEF ClientNext
<1> QED
  BY <1>1, <1>2, <1>3, <1>4 DEF Next

LEMMA InitBase == Init => Base
<1> SUFFICES ASSUME Init
             PROVE  Base
  OBVIOUS
<1> USE DEF Init
<1>1. 0 \in 0 .. MaxState /\ 0 \in 0 .. MaxMessages /\ 0 \in 0 .. MaxLogins
  BY DEF SyncAssumption
<1>2. ObjectsOK
  <2>1. idOf \in Seq(Ids) /\ Len(idOf) = 0 /\ sn_freedIDs \in Seq(Ids)
    OBVIOUS
  <2> QED
    BY <1>1, <2>1, KnowsValues DEF ObjectsOK, SyncAssumption
<1>3. SlotOK
  <2>1. connected \in BOOLEAN /\ ready \in BOOLEAN
    BY Zenon
  <2> QED
    BY <1>1, <2>1 DEF SlotOK
<1>4. ClientOK
  BY <1>1 DEF ClientOK
<1>5. MessagesOK
  BY <1>1, FS_EmptySet DEF MessagesOK, Sent, Unique, Single, SyncWaits
<1>6. Idle /\ RequestNotForgotten
  BY DEF Idle, RequestNotForgotten, SyncWaits
<1> QED
  BY <1>2, <1>3, <1>4, <1>5, <1>6 DEF Base

LEMMA StutterBase ==
  ASSUME Base, UNCHANGED vars
  PROVE  Base'
<1> USE DEF vars, objectVars, slotVars, clientVars
<1>1. ObjectsOK' /\ SlotOK' /\ ClientOK'
  BY DEF Base, ObjectsOK, SlotOK, ClientOK, Created
<1>2. MessagesOK'
  BY NoneSent DEF Base, ObjectsOK
<1>3. Idle' /\ RequestNotForgotten'
  BY DEF Base, Idle, RequestNotForgotten, SyncWaits, MustDestroy
<1> QED
  BY <1>1, <1>2, <1>3 DEF Base

LEMMA StepBase == Base /\ [Next]_vars => Base'
<1> SUFFICES ASSUME Base, [Next]_vars
             PROVE  Base'
  OBVIOUS
<1>1. CASE UNCHANGED vars
  BY <1>1, StutterBase
<1>2. ASSUME Next
      PROVE  Base'
  BY <1>2, StepCases, CreateObjectBase, RequestSyncBase, DestroyObjectBase, SyncObjectBase,
     DestroyerGoesBase, CleanSyncListBase, AckSyncBase, DestroyForgottenBase, LoginBase,
     ReadyBase, LogoutBase, ForgetDeletedBase, HandleBase
<1> QED
  BY <1>1, <1>2

\* The inductive invariant of the server's side, whatever ids and slots are reused.
THEOREM BaseHolds == Spec => []Base
BY InitBase, StepBase, PTL DEF Spec

\* Every variable keeps its type; in particular acksPending, which the code keeps in
\* 4 bits, never passes 2, and every object a message names has been created.
THEOREM TypesHold == Spec => []TypeOK
<1>1. Base => TypeOK
  BY DEF Base, ObjectsOK, SlotOK, ClientOK, MessagesOK, TypeOK
<1> QED
  BY <1>1, BaseHolds, PTL

\* What RequestSync asked for stays on the list of SyncAll until it is sent, through the
\* cleaning of the list, destructions and clients that come and go.
THEOREM RequestNotForgottenHolds == Spec => []RequestNotForgotten
<1>1. Base => RequestNotForgotten
  BY DEF Base
<1> QED
  BY <1>1, BaseHolds, PTL

-----------------------------------------------------------------------------
(***************************************************************************)
(* The count of the unacknowledged destroy messages.                       *)
(***************************************************************************)
LEMMA SendDestroyerCounts ==
  ASSUME Base, connected, DestroyersCounted, NEW D, SendDestroyer(D)
  PROVE  destroyersCount' = Cardinality(DestroyWaits')
<1>0. MessagesOK /\ IsFiniteSet(waiting) /\ destroyersCount = Cardinality(DestroyWaits)
  BY DEF Base, MessagesOK, DestroyersCounted
<1>1. CASE D = {}
  BY <1>0, <1>1 DEF SendDestroyer, DestroyWaits
<1>2. CASE D # {}
  <2> DEFINE m == [num |-> lastMessage + 1, kind |-> "destroy", about |-> D, state |-> 0]
  <2>1. waiting' = waiting \cup {m} /\ destroyersCount' = destroyersCount + 1
    BY <1>2 DEF SendDestroyer
  <2>2. m.num = lastMessage + 1 /\ m.kind = "destroy"
    OBVIOUS
  <2> HIDE DEF m
  <2>3. m \notin waiting
    BY <1>0, <2>2 DEF MessagesOK, Sent
  <2>4. DestroyWaits' = DestroyWaits \cup {m} /\ m \notin DestroyWaits
    BY <2>1, <2>2, <2>3 DEF DestroyWaits
  <2>5. IsFiniteSet(DestroyWaits)
    BY <1>0, FS_Subset DEF DestroyWaits
  <2> QED
    BY <1>0, <2>1, <2>4, <2>5, FS_AddElement
<1> QED
  BY <1>1, <1>2

LEMMA CountKept ==
  ASSUME DestroyersCounted, connected' = connected, destroyersCount' = destroyersCount,
         DestroyWaits' = DestroyWaits
  PROVE  DestroyersCounted'
BY DEF DestroyersCounted

LEMMA SyncObjectCounts ==
  ASSUME Base, DestroyersCounted, NEW n \in syncList, SyncObject(n)
  PROVE  DestroyersCounted'
<1>1. /\ connected /\ n \in alive /\ connected' = connected
      /\ SendsDestroyer(n) \/ SendsCreation(n) \/ SendsSync(n)
  BY SyncObjectCases DEF Base, ObjectsOK
<1>2. CASE SendsDestroyer(n)
  BY <1>1, <1>2, SendDestroyerCounts DEF SendsDestroyer, DestroyersCounted
<1>3. ASSUME SendsCreation(n) \/ SendsSync(n)
      PROVE  DestroyersCounted'
  <2>1. /\ lastMessage < MaxMessages /\ destroyersCount' = destroyersCount
        /\ waiting' = waiting \/ waiting' = waiting \cup {SyncMessage(n)}
    BY <1>3 DEF SendsCreation, SendsSync
  <2>2. SyncMessage(n).kind # "destroy"
    BY <1>1, <2>1, SyncMessageType
  <2>3. DestroyWaits' = DestroyWaits
    BY <2>1, <2>2 DEF DestroyWaits
  <2> QED
    BY <1>1, <2>1, <2>3, CountKept
<1> QED
  BY <1>1, <1>2, <1>3

LEMMA DestroyForgottenCounts ==
  ASSUME Base, DestroyersCounted, NEW m, DestroyForgotten(m)
  PROVE  DestroyersCounted'
<1>1. /\ m \in DestroyWaits /\ waiting' = waiting \ {m}
      /\ destroyersCount' = destroyersCount - 1 /\ connected' = connected
  BY DEF DestroyForgotten, ForgetDestroy
<1>2. IsFiniteSet(DestroyWaits)
  BY FS_Subset DEF Base, MessagesOK, DestroyWaits
<1>3. DestroyWaits' = DestroyWaits \ {m}
  BY <1>1 DEF DestroyWaits
<1>4. Cardinality(DestroyWaits') = Cardinality(DestroyWaits) - 1
  BY <1>1, <1>2, <1>3, FS_RemoveElement
<1> QED
  BY <1>1, <1>4 DEF DestroyersCounted

LEMMA StepCounts ==
  ASSUME QuietSlot, Base, DestroyersCounted, [Next]_vars
  PROVE  DestroyersCounted'
<1>1. CASE UNCHANGED vars
  BY <1>1 DEF DestroyersCounted, DestroyWaits, vars, slotVars
<1>2. ASSUME NEW id \in Ids, CreateObject(id)
      PROVE  DestroyersCounted'
  BY <1>2 DEF CreateObject, DestroyersCounted, DestroyWaits, slotVars
<1>3. ASSUME NEW n, NEW ack, RequestSync(n, ack)
      PROVE  DestroyersCounted'
  BY <1>3 DEF RequestSync, DestroyersCounted, DestroyWaits, slotVars
<1>4. ASSUME NEW n, DestroyObject(n)
      PROVE  DestroyersCounted'
  <2>1. connected' = connected
    BY <1>4 DEF DestroyObject
  <2>2. \/ \E D : SendDestroyer(D)
        \/ UNCHANGED <<destroyersCount, waiting>>
    BY <1>4 DEF DestroyObject
  <2> QED
    BY <2>1, <2>2, SendDestroyerCounts DEF DestroyersCounted, DestroyWaits
<1>5. CASE DestroyerGoes
  BY <1>5, SendDestroyerCounts DEF DestroyerGoes, DestroyersCounted
<1>6. CASE CleanSyncList
  BY <1>6 DEF CleanSyncList, DestroyersCounted, DestroyWaits, slotVars
<1>7. ASSUME NEW m, AckSync(m)
      PROVE  DestroyersCounted'
  <2>1. m.kind # "destroy" /\ waiting' = waiting \ {m}
    BY <1>7 DEF AckSync, SyncWaits
  <2>2. DestroyWaits' = DestroyWaits
    BY <2>1 DEF DestroyWaits
  <2> QED
    BY <1>7, <2>2, CountKept DEF AckSync
<1>8. CASE Login
  <2>1. DestroyWaits' = {} /\ destroyersCount' = 0
    BY <1>8 DEF Login, DestroyWaits
  <2> QED
    BY <2>1, FS_EmptySet DEF DestroyersCounted
<1>9. CASE Ready
  BY <1>9 DEF Ready, DestroyersCounted, DestroyWaits
<1>10. ASSUME NEW D, NEW traced, Logout(D, traced)
       PROVE  DestroyersCounted'
  BY <1>10 DEF Logout, DestroyersCounted
<1>11. CASE ForgetDeleted
  BY <1>11 DEF ForgetDeleted, DestroyersCounted, DestroyWaits, slotVars
<1>12. ASSUME NEW m, Handle(m)
       PROVE  DestroyersCounted'
  BY <1>12 DEF Handle, DestroyersCounted, DestroyWaits, slotVars
<1> QED
  BY <1>1, <1>2, <1>3, <1>4, <1>5, <1>6, <1>7, <1>8, <1>9, <1>10, <1>11, <1>12,
     StepCases, SyncObjectCounts, DestroyForgottenCounts

\* When slots are reused only after the last client's messages are gone,
\* destroyersCount counts the unacknowledged destroy messages of every client.
THEOREM DestroyersCountedHolds ==
  ASSUME QuietSlot
  PROVE  Spec => []DestroyersCounted
<1>1. Init => DestroyersCounted
  BY DEF Init, DestroyersCounted
<1>2. Base /\ DestroyersCounted /\ [Next]_vars => DestroyersCounted'
  BY StepCounts
<1> QED
  BY <1>1, <1>2, BaseHolds, PTL DEF Spec

\* The only messages a step adds, and when it may add a creation.
LEMMA CreationAdded ==
  ASSUME Base, Next, NEW m \in waiting' \ waiting, m.kind = "create"
  PROVE  connected /\ destroyersCount = 0
<1>1. ASSUME NEW D, SendDestroyer(D)
      PROVE  FALSE
  BY <1>1 DEF SendDestroyer
<1>2. ASSUME NEW n \in alive, DestroyObject(n)
      PROVE  FALSE
  BY <1>1, <1>2 DEF DestroyObject
<1>3. CASE DestroyerGoes
  BY <1>1, <1>3 DEF DestroyerGoes
<1>4. ASSUME NEW n \in syncList, SyncObject(n)
      PROVE  connected /\ destroyersCount = 0
  <2>1. /\ connected /\ n \in alive
        /\ SendsDestroyer(n) \/ SendsCreation(n) \/ SendsSync(n)
    BY <1>4, SyncObjectCases DEF Base, ObjectsOK
  <2>2. ~SendsDestroyer(n)
    BY <1>1 DEF SendsDestroyer
  <2>3. ASSUME SendsSync(n)
        PROVE  FALSE
    <3>1. m = SyncMessage(n) /\ lastMessage < MaxMessages /\ knowsAbout[n].knowsAboutExistence
      BY <2>3 DEF SendsSync
    <3> QED
      BY <2>1, <3>1, SyncMessageType
  <2> QED
    BY <2>1, <2>2, <2>3 DEF SendsCreation, MayCreate
<1>5. ASSUME NEW D, NEW traced, Logout(D, traced)
      PROVE  FALSE
  <2>1. waiting' = {} \/ waiting' = {LastDestroy(traced)}
    BY <1>5, LogoutChanges
  <2> QED
    BY <2>1 DEF LastDestroy
<1>6. ~ waiting' \subseteq waiting
  OBVIOUS
<1>7. /\ \A id \in Ids : ~CreateObject(id)
      /\ \A n \in alive, ack \in BOOLEAN : ~RequestSync(n, ack)
      /\ ~CleanSyncList /\ ~Login /\ ~Ready /\ ~ForgetDeleted
  BY <1>6
  DEF CreateObject, RequestSync, CleanSyncList, Login, Ready, ForgetDeleted, slotVars
<1>8. /\ \A k \in waiting : ~AckSync(k) /\ ~DestroyForgotten(k)
      /\ \A k \in Underway : ~Handle(k)
  BY <1>6 DEF AckSync, DestroyForgotten, ForgetDestroy, Handle, slotVars
<1> QED
  BY <1>2, <1>3, <1>4, <1>5, <1>7, <1>8, StepCases

\* "don't send creation messages while destruction messages are unacknowledged": true of
\* every creation, if slots are reused only after the last client's messages are gone.
THEOREM CreationWaitsHolds ==
  ASSUME QuietSlot
  PROVE  Spec => CreationWaits
<1>1. ASSUME Base, DestroyersCounted, [Next]_vars
      PROVE  [\A m \in waiting' \ waiting : m.kind = "create" => DestroyWaits = {}]_vars
  <2>1. CASE UNCHANGED vars
    BY <2>1
  <2>2. ASSUME Next, NEW m \in waiting' \ waiting, m.kind = "create"
        PROVE  DestroyWaits = {}
    <3>1. connected /\ destroyersCount = 0
      BY <1>1, <2>2, CreationAdded
    <3>2. IsFiniteSet(DestroyWaits)
      BY <1>1, FS_Subset DEF Base, MessagesOK, DestroyWaits
    <3>3. Cardinality(DestroyWaits) = 0
      BY <1>1, <3>1 DEF DestroyersCounted
    <3> QED
      BY <3>2, <3>3, FS_EmptySet
  <2> QED
    BY <1>1, <2>1, <2>2
<1> QED
  BY <1>1, BaseHolds, DestroyersCountedHolds, PTL DEF Spec, CreationWaits

-----------------------------------------------------------------------------
(***************************************************************************)
(* The count of the messages about an object that wait for an ack.         *)
(***************************************************************************)
\* An object that is alive is the last one with its id.
AliveIsLatest == \A n \in alive, o \in Created : idOf[o] = idOf[n] => o <= n

\* So is an object that a creation or sync underway, or not yet acknowledged, is about.
AboutLatest ==
  \A m \in SyncWaits \cup loose :
    \A n \in m.about, o \in Created : idOf[o] = idOf[n] => o <= n

Acks == AliveIsLatest /\ AboutLatest /\ AcksPendingCounts

AcksOf(n) == {m \in SyncWaits : n \in m.about}

\* An ack, which names an id, is about one living object at most: the one in the message.
LEMMA SameObject ==
  ASSUME Base, Acks, NEW m \in SyncWaits \cup loose, NEW o \in m.about, NEW n \in alive,
         idOf[o] = idOf[n]
  PROVE  o = n /\ m.about = {n}
<1>1. n \in Created /\ o \in Created
  BY DEF Base, ObjectsOK, MessagesOK, Sent, SyncWaits
<1>2. n <= o /\ o <= n
  BY <1>1 DEF Acks, AliveIsLatest, AboutLatest
<1>3. n \in Nat /\ o \in Nat
  BY <1>1 DEF Created
<1>4. o = n
  BY <1>2, <1>3
<1> QED
  BY <1>4 DEF Base, MessagesOK, Single

LEMMA AcksKept ==
  ASSUME Acks, idOf' = idOf, alive' \subseteq alive, connected' = connected,
         SyncWaits' = SyncWaits, loose' \subseteq loose,
         \A n \in alive' : knowsAbout'[n].acksPending = knowsAbout[n].acksPending
  PROVE  Acks'
<1>1. AliveIsLatest' /\ AboutLatest'
  BY DEF Acks, AliveIsLatest, AboutLatest, Created
<1>2. AcksPendingCounts'
  BY DEF Acks, AcksPendingCounts
<1> QED
  BY <1>1, <1>2 DEF Acks

LEMMA CreateObjectAcks ==
  ASSUME QuietReuse, Base, Acks, NEW id \in Ids, CreateObject(id)
  PROVE  Acks'
<1> DEFINE n == Len(idOf) + 1
<1>0. ObjectsOK /\ MessagesOK
  BY DEF Base
<1>1. /\ n \in Objects /\ Len(idOf) \in Nat /\ idOf' = Append(idOf, id)
      /\ WithId(id, alive) = {} /\ About(id) = {}
      /\ alive' = alive \cup {n} /\ knowsAbout' = [knowsAbout EXCEPT ![n] = Unknown]
      /\ UNCHANGED <<connected, waiting, loose>>
  BY <1>0 DEF CreateObject, ObjectsOK, slotVars
<1>2. /\ Created' = Created \cup {n} /\ n \notin Created /\ idOf'[n] = id
      /\ \A o \in Created : idOf'[o] = idOf[o] /\ o \in Nat /\ o < n
      /\ alive \subseteq Created /\ Created \subseteq Objects
  BY <1>0, <1>1 DEF Created, ObjectsOK, Objects
<1>3. SyncWaits' = SyncWaits
  BY <1>1 DEF SyncWaits
<1>4. \A m \in SyncWaits \cup loose : m.about \subseteq Created /\ \A o \in m.about : idOf[o] # id
  BY <1>0, <1>1 DEF About, MessagesOK, Sent, SyncWaits
<1>5. \A o \in alive : idOf[o] # id
  BY <1>1 DEF WithId
<1> HIDE DEF n
<1>6. AliveIsLatest'
  <2> SUFFICES ASSUME NEW a \in alive', NEW o \in Created', idOf'[o] = idOf'[a]
               PROVE  o <= a
    BY DEF AliveIsLatest
  <2>0. n \in Nat
    BY <1>1 DEF Objects
  <2>1. CASE a = n
    BY <1>2, <2>0, <2>1
  <2>2. CASE a \in alive
    BY <1>1, <1>2, <1>5, <2>2 DEF Acks, AliveIsLatest
  <2> QED
    BY <1>1, <2>1, <2>2
<1>7. AboutLatest'
  BY <1>1, <1>2, <1>3, <1>4 DEF Acks, AboutLatest
<1>8. AcksPendingCounts'
  <2> SUFFICES ASSUME connected, NEW a \in alive'
               PROVE  knowsAbout'[a].acksPending = Cardinality(AcksOf(a)')
    BY <1>1 DEF AcksPendingCounts, AcksOf
  <2>1. AcksOf(a)' = AcksOf(a)
    BY <1>3 DEF AcksOf
  <2>2. CASE a = n
    <3>1. AcksOf(a) = {}
      BY <1>2, <1>4, <2>2 DEF AcksOf
    <3>2. knowsAbout'[a].acksPending = 0
      BY <1>0, <1>1, <2>2, KnowsValues DEF ObjectsOK
    <3> QED
      BY <2>1, <3>1, <3>2, FS_EmptySet
  <2>3. CASE a \in alive
    <3>1. knowsAbout'[a] = knowsAbout[a]
      BY <1>0, <1>1, <1>2, <2>3 DEF ObjectsOK
    <3> QED
      BY <2>1, <2>3, <3>1 DEF Acks, AcksPendingCounts, AcksOf
  <2> QED
    BY <1>1, <2>2, <2>3
<1> QED
  BY <1>6, <1>7, <1>8 DEF Acks

\* A message m about n that goes out and, if counted, waits for its ack.
LEMMA SentAcks ==
  ASSUME Base, Acks, connected, NEW n \in alive, NEW m,
         m \notin waiting, m.kind # "destroy", m.about = {n},
         idOf' = idOf, alive' = alive,
         \A o \in alive : o # n => knowsAbout'[o] = knowsAbout[o],
         \/ /\ waiting' = waiting \cup {m} /\ loose' = loose
            /\ knowsAbout'[n].acksPending = knowsAbout[n].acksPending + 1
         \/ /\ waiting' = waiting /\ loose' = loose \cup {m}
            /\ knowsAbout'[n].acksPending = knowsAbout[n].acksPending
  PROVE  Acks'
<1>1. AliveIsLatest'
  BY DEF Acks, AliveIsLatest, Created
<1>2. AboutLatest'
  <2>1. SyncWaits' \cup loose' = SyncWaits \cup loose \cup {m}
    BY DEF SyncWaits
  <2> QED
    BY <2>1 DEF Acks, AliveIsLatest, AboutLatest, Created
<1>3. AcksPendingCounts'
  <2> SUFFICES ASSUME NEW o \in alive
               PROVE  knowsAbout'[o].acksPending = Cardinality(AcksOf(o)')
    BY DEF AcksPendingCounts, AcksOf
  <2>1. IsFiniteSet(AcksOf(o))
    BY FS_Subset DEF Base, MessagesOK, AcksOf, SyncWaits
  <2>2. knowsAbout[o].acksPending = Cardinality(AcksOf(o))
    BY DEF Acks, AcksPendingCounts, AcksOf
  <2>3. ASSUME o # n
        PROVE  AcksOf(o)' = AcksOf(o) /\ knowsAbout'[o] = knowsAbout[o]
    BY <2>3 DEF AcksOf, SyncWaits
  <2>4. ASSUME o = n, waiting' = waiting
        PROVE  AcksOf(o)' = AcksOf(o)
    BY <2>4 DEF AcksOf, SyncWaits
  <2>5. ASSUME o = n, waiting' = waiting \cup {m}
        PROVE  AcksOf(o)' = AcksOf(o) \cup {m} /\ m \notin AcksOf(o)
    BY <2>5 DEF AcksOf, SyncWaits
  <2>6. ASSUME o = n, waiting' = waiting \cup {m}
        PROVE  Cardinality(AcksOf(o)') = Cardinality(AcksOf(o)) + 1
    BY <2>1, <2>5, <2>6, FS_AddElement
  <2>7. waiting' = waiting \cup {m} => waiting' # waiting
    OBVIOUS
  <2> QED
    BY <2>2, <2>3, <2>4, <2>6, <2>7
<1> QED
  BY <1>1, <1>2, <1>3 DEF Acks

LEMMA SyncObjectAcks ==
  ASSUME Base, Acks, NEW n \in syncList, SyncObject(n)
  PROVE  Acks'
<1> DEFINE m == SyncMessage(n)
<1>0. ObjectsOK /\ SlotOK /\ MessagesOK
  BY DEF Base
<1>1. /\ connected /\ n \in alive
      /\ SendsDestroyer(n) \/ SendsCreation(n) \/ SendsSync(n)
      /\ UNCHANGED <<idOf, alive, connected, clientVars>>
  BY SyncObjectCases DEF Base, ObjectsOK
<1>2. CASE SendsDestroyer(n)
  <2>1. SyncWaits' = SyncWaits /\ UNCHANGED <<knowsAbout, loose>>
    BY <1>0, <1>1, <1>2, SendDestroyerKeeps DEF SendsDestroyer, SlotOK, clientVars
  <2> QED
    BY <1>1, <2>1, AcksKept
<1>3. ASSUME SendsCreation(n) \/ SendsSync(n)
      PROVE  Acks'
  <2>1. lastMessage < MaxMessages
    BY <1>3 DEF SendsCreation, SendsSync
  <2>2. m.num = lastMessage + 1 /\ m.about = {n} /\ m.kind # "destroy" /\ n \in Objects
    BY <1>1, <2>1, SyncMessageType
  <2>3. m \notin waiting
    BY <1>0, <2>2 DEF MessagesOK, Sent
  <2>4. \A o \in alive : o # n => knowsAbout'[o] = knowsAbout[o]
    BY <1>0, <1>1, <1>3, SentKnows DEF ObjectsOK, Created, Objects
  <2>5. knowsAbout \in [Objects -> Knows]
    BY <1>0 DEF ObjectsOK
  <2>6. \/ /\ waiting' = waiting \cup {m} /\ loose' = loose
           /\ knowsAbout'[n].acksPending = knowsAbout[n].acksPending + 1
        \/ /\ waiting' = waiting /\ loose' = loose \cup {m}
           /\ knowsAbout'[n].acksPending = knowsAbout[n].acksPending
    BY <1>3, <2>2, <2>5 DEF SendsCreation, SendsSync, Knows
  <2> HIDE DEF m
  <2> QED
    BY <1>1, <2>2, <2>3, <2>4, <2>6, SentAcks
<1> QED
  BY <1>1, <1>2, <1>3

LEMMA AckSyncAcks ==
  ASSUME Base, Acks, NEW m, AckSync(m)
  PROVE  Acks'
<1>0. ObjectsOK /\ MessagesOK
  BY DEF Base
<1>1. /\ connected /\ m \in SyncWaits /\ waiting' = waiting \ {m}
      /\ knowsAbout' = [n \in Objects |-> IF n \in alive /\ IsAbout(m, n)
                                          THEN Acknowledged(knowsAbout[n]) ELSE knowsAbout[n]]
      /\ UNCHANGED <<idOf, alive, connected, loose>>
  BY AckSyncChanges
<1>2. AliveIsLatest' /\ AboutLatest'
  BY <1>1 DEF Acks, AliveIsLatest, AboutLatest, Created, SyncWaits
<1>3. AcksPendingCounts'
  <2> SUFFICES ASSUME NEW n \in alive
               PROVE  knowsAbout'[n].acksPending = Cardinality(AcksOf(n)')
    BY <1>1 DEF AcksPendingCounts, AcksOf
  <2>1. n \in Objects /\ knowsAbout[n] \in Knows
    BY <1>0 DEF ObjectsOK, Created, Objects
  <2>2. IsFiniteSet(AcksOf(n))
    BY FS_Subset DEF Base, MessagesOK, AcksOf, SyncWaits
  <2>3. knowsAbout[n].acksPending = Cardinality(AcksOf(n))
    BY <1>1 DEF Acks, AcksPendingCounts, AcksOf
  <2>4. CASE IsAbout(m, n)
    <3>1. m.about = {n}
      BY <1>1, <2>4, SameObject DEF IsAbout
    <3>2. m \in AcksOf(n) /\ AcksOf(n)' = AcksOf(n) \ {m}
      BY <1>1, <3>1 DEF AcksOf, SyncWaits
    <3>3. Cardinality(AcksOf(n)') = Cardinality(AcksOf(n)) - 1 /\ Cardinality(AcksOf(n)) # 0
      BY <2>2, <3>2, FS_RemoveElement, FS_EmptySet
    <3>4. knowsAbout[n].acksPending > 0
      BY <2>1, <2>3, <3>3 DEF Knows
    <3>5. knowsAbout'[n] = Acknowledged(knowsAbout[n])
      BY <1>1, <2>1, <2>4
    <3> QED
      BY <2>1, <2>3, <3>3, <3>4, <3>5, AcknowledgedType
  <2>5. CASE ~IsAbout(m, n)
    <3>1. n \notin m.about
      BY <2>5 DEF IsAbout
    <3>2. AcksOf(n)' = AcksOf(n)
      BY <1>1, <3>1 DEF AcksOf, SyncWaits
    <3>3. knowsAbout'[n] = knowsAbout[n]
      BY <1>1, <2>1, <2>5
    <3> QED
      BY <2>3, <3>2, <3>3
  <2> QED
    BY <2>4, <2>5
<1> QED
  BY <1>2, <1>3 DEF Acks

LEMMA LoginAcks ==
  ASSUME QuietSlot, Base, Acks, Login
  PROVE  Acks'
<1>1. /\ waiting' = {} /\ ~connected
      /\ knowsAbout' = [n \in Objects |-> IF n \in alive THEN Reset(knowsAbout[n]) ELSE Fresh]
      /\ UNCHANGED <<idOf, alive, loose>>
  BY DEF Login
<1>2. alive \subseteq Objects /\ loose = {}
  BY <1>1 DEF Base, ObjectsOK, Created, Objects, Idle
<1>3. AliveIsLatest' /\ AboutLatest'
  BY <1>1, <1>2 DEF Acks, AliveIsLatest, AboutLatest, Created, SyncWaits
<1>4. \A n \in alive : AcksOf(n)' = {} /\ knowsAbout'[n].acksPending = 0
  BY <1>1, <1>2 DEF AcksOf, SyncWaits, Reset
<1>5. AcksPendingCounts'
  BY <1>1, <1>4, FS_EmptySet DEF AcksPendingCounts, AcksOf
<1> QED
  BY <1>3, <1>5 DEF Acks

LEMMA LogoutAcks ==
  ASSUME Acks, NEW D, NEW traced, Logout(D, traced)
  PROVE  Acks'
<1>1. /\ waiting' = {} \/ waiting' = {LastDestroy(traced)}
      /\ loose' = {} /\ alive' = alive \ D /\ connected' = FALSE /\ idOf' = idOf
  BY LogoutChanges
<1>2. SyncWaits' = {}
  BY <1>1 DEF SyncWaits, LastDestroy
<1>3. AliveIsLatest' /\ AboutLatest' /\ AcksPendingCounts'
  BY <1>1, <1>2 DEF Acks, AliveIsLatest, AboutLatest, AcksPendingCounts, Created
<1> QED
  BY <1>3 DEF Acks

\* All the other steps leave the messages that are counted, and their counts, alone.
LEMMA StepAcks ==
  ASSUME QuietReuse, QuietSlot, Base, Acks, [Next]_vars
  PROVE  Acks'
<1>0. ObjectsOK /\ SlotOK
  BY DEF Base
<1>1. CASE UNCHANGED vars
  BY <1>1, AcksKept DEF vars, objectVars, slotVars, SyncWaits
<1>2. ASSUME NEW n \in alive, NEW ack \in BOOLEAN, RequestSync(n, ack)
      PROVE  Acks'
  <2>1. \A o \in alive : knowsAbout'[o].acksPending = knowsAbout[o].acksPending
    BY <1>0, <1>2 DEF RequestSync, Requested, ObjectsOK, Knows
  <2> QED
    BY <1>2, <2>1, AcksKept DEF RequestSync, slotVars, SyncWaits
<1>3. ASSUME NEW n \in alive, DestroyObject(n)
      PROVE  Acks'
  <2>1. /\ alive' = alive \ {n} /\ knowsAbout' = Without({n}, knowsAbout, Fresh)
        /\ UNCHANGED <<idOf, connected, loose, clientVars>>
        /\ \/ MustDestroy(n) /\ SendDestroyer(destroyers \cup {n})
           \/ waiting' = waiting
    BY <1>3 DEF DestroyObject
  <2>2. alive' \subseteq Objects /\ n \in Created
    BY <1>0, <2>1 DEF ObjectsOK, Created, Objects
  <2>3. \A o \in alive' : knowsAbout'[o].acksPending = knowsAbout[o].acksPending
    BY <2>1, <2>2 DEF Without
  <2>4. ASSUME SendDestroyer(destroyers \cup {n})
        PROVE  SyncWaits' = SyncWaits
    BY <1>0, <2>1, <2>2, <2>4, SendDestroyerKeeps DEF SlotOK, clientVars
  <2>5. SyncWaits' = SyncWaits
    BY <2>1, <2>4 DEF SyncWaits
  <2> QED
    BY <2>1, <2>3, <2>5, AcksKept
<1>4. CASE DestroyerGoes
  <2>1. SyncWaits' = SyncWaits
    BY <1>0, <1>4, SendDestroyerKeeps DEF DestroyerGoes, SlotOK, clientVars, objectVars
  <2> QED
    BY <1>4, <2>1, AcksKept DEF DestroyerGoes, objectVars
<1>5. CASE CleanSyncList
  BY <1>5, AcksKept DEF CleanSyncList, slotVars, SyncWaits
<1>6. ASSUME NEW m, DestroyForgotten(m)
      PROVE  Acks'
  <2>1. m.kind = "destroy" /\ waiting' = waiting \ {m}
    BY <1>6 DEF DestroyForgotten, ForgetDestroy, DestroyWaits
  <2>2. SyncWaits' = SyncWaits
    BY <2>1 DEF SyncWaits
  <2> QED
    BY <1>6, <2>2, AcksKept DEF DestroyForgotten, objectVars
<1>7. CASE Ready
  BY <1>7, AcksKept DEF Ready, objectVars, SyncWaits
<1>8. CASE ForgetDeleted
  BY <1>8, AcksKept DEF ForgetDeleted, objectVars, slotVars, SyncWaits
<1>9. ASSUME NEW m, Handle(m)
      PROVE  Acks'
  BY <1>9, AcksKept DEF Handle, objectVars, slotVars, SyncWaits
<1> QED
  BY <1>1, <1>2, <1>3, <1>4, <1>5, <1>6, <1>7, <1>8, <1>9, StepCases,
     CreateObjectAcks, SyncObjectAcks, AckSyncAcks, LoginAcks, LogoutAcks

LEMMA AcksHold ==
  ASSUME QuietReuse, QuietSlot
  PROVE  Spec => []Acks
<1>1. Init => Acks
  BY DEF Init, Acks, AliveIsLatest, AboutLatest, AcksPendingCounts, SyncWaits
<1>2. Base /\ Acks /\ [Next]_vars => Acks'
  BY StepAcks
<1> QED
  BY <1>1, <1>2, BaseHolds, PTL DEF Spec

\* acksPending counts the unacknowledged messages about an object, through destructions,
\* reused ids and reused slots, when both are reused only after the messages are gone.
THEOREM AcksPendingCountsHolds ==
  ASSUME QuietReuse, QuietSlot
  PROVE  Spec => []AcksPendingCounts
<1>1. Acks => AcksPendingCounts
  BY DEF Acks
<1> QED
  BY <1>1, AcksHold, PTL
=============================================================================
