----------------------------- MODULE NetObjectSync -----------------------------
(***************************************************************************)
(* How nNetObject.cpp keeps the copies of the server's network objects on  *)
(* one client: creation, synchronisation and destruction of objects whose  *)
(* ids are reused, over the message layer of nNetwork.cpp, with the client *)
(* logging out and another one taking the slot.                            *)
(*                                                                         *)
(* Of the message layer the module uses what ReliableChannel promises: a   *)
(* message is handled at most once, in any order; one that waits for its   *)
(* ack is resent until it is handled and the ack is back; one that does    *)
(* not may be lost.                                                        *)
(*                                                                         *)
(* Objects are numbered in the order of their creation, which the code     *)
(* does not do; on the wire there are only ids, and idOf gives an object's *)
(* id.  What an object is about is a number that grows with every change.  *)
(* All objects are owned by the server and are broadcast.  Bandwidth, the  *)
(* limit on unacknowledged messages and ClearToTransmit may hold any       *)
(* message back.                                                           *)
(***************************************************************************)
EXTENDS Integers, Sequences, FiniteSets

CONSTANTS
  Ids,            \* object ids (1 .. 32000)
  FreeKeep,       \* freed ids kept from reuse (1000)
  BatchIdle,      \* a destroy message with more ids is sent at once (100),
  BatchWaiting,   \* unless another one is unacknowledged (1000)
  QuietReuse,     \* assumed: an id is reused when the old messages about it are gone
  QuietSlot,      \* assumed: a slot is reused when nothing waits for an ack on it
  QuietClient,    \* assumed: a client has forgotten what it destroyed when the id comes again
  MaxObjects,     \* bound on the objects created
  MaxMessages,    \* bound on the messages sent
  MaxState,       \* bound on the changes of an object
  MaxLogins       \* bound on the clients that use the slot

ASSUME SyncAssumption ==
  /\ {FreeKeep, BatchIdle, BatchWaiting, MaxObjects, MaxMessages, MaxState, MaxLogins} \subseteq Nat
  /\ {QuietReuse, QuietSlot, QuietClient} \subseteq BOOLEAN

VARIABLES
  (* the server's objects *)
  idOf,             \* the ids of the objects created so far
  alive,            \* objects in sn_netObjects
  state,            \* what an object would write now
  sn_freedIDs,
  knowsAbout,       \* knowsAbout[user] of every object
  syncList,         \* sn_SyncRequestedObject
  (* the server's view of the slot *)
  connected,        \* sn_Connections[user].socket is set
  logins,           \* clients that have used the slot
  ready,            \* is_ready_to_get_objects[user]
  destroyers,       \* objects named in the unsent destroy message, if any
  destroyersCount,
  waiting,          \* sn_pendingAcks of this slot
  (* the network and the client *)
  loose,            \* messages underway that nobody waits for
  handled,          \* numbers of the messages this client has handled
  lastMessage,      \* number of the last message sent
  copies,           \* objects in the client's sn_netObjects
  copyState,        \* what it knows of each of them
  lastSyncID,
  Destroyed,        \* sn_Destroyed
  lingering,        \* objects destroyed but kept for a while by sn_netObjectsDeleted
  (* history *)
  mustArrive        \* the state of each object when a sync with ack was last requested

slotVars == <<connected, logins, ready, destroyers, destroyersCount, waiting>>
clientVars == <<handled, copies, copyState, lastSyncID, Destroyed, lingering>>
objectVars == <<idOf, alive, state, sn_freedIDs, knowsAbout, syncList, mustArrive>>
vars == <<objectVars, slotVars, clientVars, loose, lastMessage>>

Objects == 1 .. MaxObjects
Created == 1 .. Len(idOf)

-----------------------------------------------------------------------------
(* Messages *)

Messages == [num : 1 .. MaxMessages, kind : {"create", "sync", "destroy"},
             about : SUBSET Objects, state : 0 .. MaxState]

SyncWaits == {m \in waiting : m.kind # "destroy"}       \* nWaitForAckSync
DestroyWaits == {m \in waiting : m.kind = "destroy"}    \* nWaitForAckDestroy

\* The objects with this id among S.
WithId(id, S) == {n \in S : idOf[n] = id}

\* Creations and syncs of objects with this id that may still arrive or be acknowledged.
About(id) == {m \in SyncWaits \cup loose : \E n \in m.about : idOf[n] = id}

-----------------------------------------------------------------------------
(* What the server knows about the client's copies *)

Knows == [knowsAboutExistence : BOOLEAN, nextSyncAck : BOOLEAN, syncReq : BOOLEAN,
          acksPending : 0 .. 2]

\* Mutant of Reset: messages of the previous client stay counted.
ResetKeepsAcks(k) == [knowsAboutExistence |-> FALSE, nextSyncAck |-> TRUE, syncReq |-> TRUE,
                      acksPending |-> k.acksPending]

\* nKnowsAboutInfo::Reset.
Reset(k) == [knowsAboutExistence |-> FALSE, nextSyncAck |-> TRUE, syncReq |-> TRUE,
             acksPending |-> 0]

\* nKnowsAboutInfo::nKnowsAboutInfo; also what stands for an object that is no more.
Fresh == [knowsAboutExistence |-> FALSE, nextSyncAck |-> TRUE, syncReq |-> FALSE,
          acksPending |-> 0]

\* f with the values of the objects D replaced by v: they die with the objects.
Without(D, f, v) == [n \in Objects |-> IF n \in D THEN v ELSE f[n]]

\* A new nKnowsAboutInfo, asked for at once if there is a client to send it to.
Unknown == [knowsAboutExistence |-> FALSE, nextSyncAck |-> TRUE, syncReq |-> connected,
            acksPending |-> 0]

\* Mutant of Requested: a later request without ack undoes an earlier one with.
RequestedAnew(k, ack) == [k EXCEPT !.syncReq = TRUE, !.nextSyncAck = ack]

Requested(k, ack) == [k EXCEPT !.syncReq = TRUE, !.nextSyncAck = k.nextSyncAck \/ ack]

\* Mutant of MustDestroy: only clients that have acknowledged the creation are told.
MustDestroyIfKnown(n) == knowsAbout[n].knowsAboutExistence

\* A destroyed object's client has to be told when it knows of it or may soon do.
MustDestroy(n) == knowsAbout[n].knowsAboutExistence \/ knowsAbout[n].acksPending > 0

-----------------------------------------------------------------------------
Init ==
  /\ idOf = <<>> /\ alive = {} /\ state = [n \in Objects |-> 0] /\ sn_freedIDs = <<>>
  /\ knowsAbout = [n \in Objects |-> Fresh]
  /\ syncList = {} /\ mustArrive = [n \in Objects |-> 0]
  /\ connected = FALSE /\ logins = 0 /\ ready = FALSE
  /\ destroyers = {} /\ destroyersCount = 0 /\ waiting = {}
  /\ loose = {} /\ handled = {} /\ lastMessage = 0
  /\ copies = {} /\ copyState = [n \in Objects |-> 0] /\ lastSyncID = [n \in Objects |-> 0]
  /\ Destroyed = {} /\ lingering = {}

-----------------------------------------------------------------------------
(* The server: life of an object *)

\* next_free_server_nokill: ids leave the queue of freed ids when it is too long.
Recycled == IF Len(sn_freedIDs) > FreeKeep
            THEN SubSeq(sn_freedIDs, Len(sn_freedIDs) - FreeKeep + 1, Len(sn_freedIDs))
            ELSE sn_freedIDs

\* GetID of a new object, and InitAfterCreation.
CreateObject(id) ==
  LET n == Len(idOf) + 1
  IN  /\ n \in Objects
      /\ WithId(id, alive) = {}
      /\ \A i \in DOMAIN Recycled : Recycled[i] # id
      /\ QuietReuse => About(id) = {}
      /\ sn_freedIDs' = Recycled
      /\ idOf' = Append(idOf, id)
      /\ alive' = alive \cup {n}
      /\ knowsAbout' = [knowsAbout EXCEPT ![n] = Unknown]
      /\ syncList' = IF connected THEN syncList \cup {n} ELSE syncList
      /\ UNCHANGED <<state, mustArrive, slotVars, clientVars, loose, lastMessage>>

\* The object changes and calls RequestSync(ack).
RequestSync(n, ack) ==
  /\ n \in alive
  /\ state[n] < MaxState
  /\ state' = [state EXCEPT ![n] = @ + 1]
  /\ mustArrive' = IF ack THEN [mustArrive EXCEPT ![n] = state[n] + 1] ELSE mustArrive
  /\ knowsAbout' = [knowsAbout EXCEPT ![n] = Requested(@, ack)]
  /\ syncList' = syncList \cup {n}
  /\ UNCHANGED <<idOf, alive, sn_freedIDs, slotVars, clientVars, loose, lastMessage>>

\* sn_SendDestroyer for the message that names the objects D.
SendDestroyer(D) ==
  IF D = {}
  THEN UNCHANGED <<destroyers, destroyersCount, waiting, lastMessage>>
  ELSE LET m == [num |-> lastMessage + 1, kind |-> "destroy", about |-> D, state |-> 0]
       IN  /\ lastMessage < MaxMessages
           /\ lastMessage' = lastMessage + 1
           /\ waiting' = waiting \cup {m}
           /\ destroyersCount' = destroyersCount + 1
           /\ destroyers' = {}

\* ~nNetObject of an object the server no longer needs.
DestroyObject(n) ==
  LET named == IF MustDestroy(n) THEN destroyers \cup {n} ELSE destroyers
      limit == IF destroyersCount # 0 THEN BatchWaiting ELSE BatchIdle
  IN  /\ n \in alive
      /\ alive' = alive \ {n}
      /\ syncList' = syncList \ {n}
      /\ sn_freedIDs' = Append(sn_freedIDs, idOf[n])
      /\ IF MustDestroy(n) /\ Cardinality(named) > limit
         THEN SendDestroyer(named)
         ELSE destroyers' = named /\ UNCHANGED <<destroyersCount, waiting, lastMessage>>
      /\ knowsAbout' = Without({n}, knowsAbout, Fresh)
      /\ state' = Without({n}, state, 0)
      /\ mustArrive' = Without({n}, mustArrive, 0)
      /\ UNCHANGED <<idOf, connected, logins, ready, clientVars, loose>>

-----------------------------------------------------------------------------
(* The server: nNetObject::SyncAll *)

\* Mutant of MayCreate: creation does not wait for the acks of destroy messages.
MayCreateAnyTime(n) == WithId(idOf[n], destroyers) = {} /\ knowsAbout[n].acksPending = 0

\* A creation message may go out.
MayCreate(n) == /\ WithId(idOf[n], destroyers) = {}
                /\ destroyersCount = 0
                /\ knowsAbout[n].acksPending = 0

\* Mutant of SendCreation: the client is taken to know what it was sent.
SendCreationAndForget(n, m) ==
  /\ knowsAbout' = [knowsAbout EXCEPT ![n].acksPending = @ + 1, ![n].syncReq = FALSE,
                                      ![n].knowsAboutExistence = TRUE]
  /\ waiting' = waiting \cup {m}

SendCreation(n, m) ==
  /\ knowsAbout' = [knowsAbout EXCEPT ![n].acksPending = @ + 1, ![n].syncReq = FALSE]
  /\ waiting' = waiting \cup {m}

\* Mutant of MaySync: any number of syncs may be underway.
MaySyncAnyTime(n) == knowsAbout[n].syncReq

MaySync(n) == knowsAbout[n].syncReq /\ knowsAbout[n].acksPending <= 1

\* One turn of the loop of SyncAll, for a client that is ready.
SyncObject(n) ==
  LET k == knowsAbout[n]
      m == [num |-> lastMessage + 1, kind |-> IF k.knowsAboutExistence THEN "sync" ELSE "create",
            about |-> {n}, state |-> state[n]]
  IN  /\ connected /\ ready
      /\ n \in syncList
      /\ \/ /\ ~k.knowsAboutExistence
            /\ WithId(idOf[n], destroyers) # {}
            /\ SendDestroyer(destroyers)
            /\ UNCHANGED <<knowsAbout, loose>>
         \/ /\ ~k.knowsAboutExistence
            /\ MayCreate(n)
            /\ QuietClient => WithId(idOf[n], lingering) = {}
            /\ lastMessage < MaxMessages
            /\ lastMessage' = lastMessage + 1
            /\ SendCreation(n, m)
            /\ UNCHANGED <<destroyers, destroyersCount, loose>>
         \/ /\ k.knowsAboutExistence
            /\ MaySync(n)
            /\ lastMessage < MaxMessages
            /\ lastMessage' = lastMessage + 1
            /\ IF k.nextSyncAck
               THEN /\ knowsAbout' = [knowsAbout EXCEPT ![n].syncReq = FALSE,
                                        ![n].acksPending = @ + 1, ![n].nextSyncAck = FALSE]
                    /\ waiting' = waiting \cup {m}
                    /\ UNCHANGED loose
               ELSE /\ knowsAbout' = [knowsAbout EXCEPT ![n].syncReq = FALSE]
                    /\ loose' = loose \cup {m}
                    /\ UNCHANGED waiting
            /\ UNCHANGED <<destroyers, destroyersCount>>
      /\ UNCHANGED <<idOf, alive, state, sn_freedIDs, syncList, mustArrive,
                     connected, logins, ready, clientVars>>

\* The destroy message when the opportunity is good.
SyncDestroyer ==
  /\ connected /\ ready
  /\ destroyers # {}
  /\ destroyersCount = 0
  /\ SendDestroyer(destroyers)
  /\ UNCHANGED <<objectVars, connected, logins, ready, clientVars, loose>>

\* Mutant of StillRequested: one pass over the list is enough for everyone.
StillRequestedNever(n) == FALSE

StillRequested(n) == connected /\ knowsAbout[n].syncReq

\* The end of SyncAll, which happens with and without clients.
CleanSyncList ==
  /\ syncList' = {n \in syncList : StillRequested(n)}
  /\ UNCHANGED <<idOf, alive, state, sn_freedIDs, knowsAbout, mustArrive,
                 slotVars, clientVars, loose, lastMessage>>

\* ClearAllDeleted at the turn of a round.
ClearAllDeleted ==
  /\ connected
  /\ destroyers # {}
  /\ SendDestroyer(destroyers)
  /\ UNCHANGED <<objectVars, connected, logins, ready, clientVars, loose>>

-----------------------------------------------------------------------------
(* The server: acks *)

\* nWaitForAckSync::AckExtraAction, which goes by the id.
AckSync(m) ==
  /\ connected
  /\ m \in SyncWaits /\ m.num \in handled
  /\ waiting' = waiting \ {m}
  /\ knowsAbout' = [n \in Objects |->
       IF n \in alive /\ \E o \in m.about : idOf[o] = idOf[n]
       THEN [knowsAbout[n] EXCEPT !.acksPending = IF @ = 0 THEN 0 ELSE @ - 1,
                                  !.knowsAboutExistence = TRUE]
       ELSE knowsAbout[n]]
  /\ UNCHANGED <<idOf, alive, state, sn_freedIDs, syncList, mustArrive, connected, logins,
                 ready, destroyers, destroyersCount, clientVars, loose, lastMessage>>

\* Mutant of ForgetDestroy: the ack does not count the message off.
ForgetDestroyUncounted(m) ==
  /\ waiting' = waiting \ {m}
  /\ UNCHANGED destroyersCount

\* ~nWaitForAckDestroy.
ForgetDestroy(m) ==
  /\ waiting' = waiting \ {m}
  /\ destroyersCount' = destroyersCount - 1

AckDestroy(m) ==
  /\ connected
  /\ m \in DestroyWaits /\ m.num \in handled
  /\ ForgetDestroy(m)
  /\ UNCHANGED <<objectVars, connected, logins, ready, destroyers, clientVars, loose, lastMessage>>

\* nWaitForAck::Resend to a slot without a client.
ResendToNobody(m) ==
  /\ ~connected
  /\ m \in DestroyWaits
  /\ ForgetDestroy(m)
  /\ UNCHANGED <<objectVars, connected, logins, ready, destroyers, clientVars, loose, lastMessage>>

-----------------------------------------------------------------------------
(* The server: login_callback *)

\* The client's state is that of a program that has just connected.
NewClient ==
  /\ handled' = {} /\ copies' = {} /\ Destroyed' = {} /\ lingering' = {}
  /\ copyState' = [n \in Objects |-> 0] /\ lastSyncID' = [n \in Objects |-> 0]

\* login_handler, UserLoggedIn, and with it ClearKnows.
Login ==
  /\ ~connected
  /\ logins < MaxLogins
  /\ QuietSlot => waiting = {}
  /\ connected' = TRUE
  /\ logins' = logins + 1
  /\ ready' = FALSE
  /\ knowsAbout' = [n \in Objects |-> IF n \in alive THEN Reset(knowsAbout[n]) ELSE Fresh]
  /\ syncList' = syncList \cup alive
  /\ mustArrive' = state
  /\ destroyersCount' = 0
  /\ NewClient
  /\ UNCHANGED <<idOf, alive, state, sn_freedIDs, destroyers, waiting, loose, lastMessage>>

\* ready_handler.
Ready ==
  /\ connected /\ ~ready
  /\ ready' = TRUE
  /\ UNCHANGED <<objectVars, connected, logins, destroyers, destroyersCount, waiting,
                 clientVars, loose, lastMessage>>

\* sn_DisconnectUserNoWarn: AckAllPeer first, then UserLoggedOut with the socket still
\* set.  The objects D die with the client, those of D that had been reset before
\* without a trace; what is left of the destroy message is sent and its count forgotten.
Logout(D, traced) ==
  LET left == destroyers \cup {n \in traced : MustDestroy(n)}
      m == [num |-> lastMessage + 1, kind |-> "destroy", about |-> left, state |-> 0]
  IN  /\ connected
      /\ traced \subseteq D
      /\ left # {} => lastMessage < MaxMessages
      /\ lastMessage' = IF left = {} THEN lastMessage ELSE lastMessage + 1
      /\ waiting' = IF left = {} THEN {} ELSE {m}
      /\ destroyers' = {}
      /\ destroyersCount' = 0
      /\ connected' = FALSE
      /\ ready' = FALSE
      /\ loose' = {}
      /\ alive' = alive \ D
      /\ \E order \in [1 .. Cardinality(D) -> D] :
           /\ \A n \in D : \E i \in DOMAIN order : order[i] = n
           /\ sn_freedIDs' = sn_freedIDs \o [i \in DOMAIN order |-> idOf[order[i]]]
      /\ knowsAbout' = [n \in Objects |-> IF n \in alive \ D THEN Reset(knowsAbout[n]) ELSE Fresh]
      /\ state' = Without(D, state, 0)
      /\ mustArrive' = Without(D, mustArrive, 0)
      /\ syncList' = alive \ D
      /\ NewClient
      /\ UNCHANGED <<idOf, logins>>

-----------------------------------------------------------------------------
(* The client *)

\* The messages that may reach the client now.
Underway == {m \in waiting \cup loose : m.num \notin handled}

\* Objects of S that have the id of one in D.
SameId(S, D) == {c \in S : \E d \in D : idOf[d] = idOf[c]}

\* sn_DoDestroy, when the client holds the objects held, those in kept are destroyed
\* already, and the entries are in its list: an entry is spent on what has its id, even on
\* what is destroyed, and waits while there is nothing.
DoDestroy(held, kept, entries, states, syncs) ==
  LET gone == SameId(held, entries)
  IN  /\ copies' = held \ gone
      /\ lingering' = kept \cup gone
      /\ Destroyed' = entries \ SameId(entries, held \cup kept)
      /\ copyState' = Without(gone, states, 0)
      /\ lastSyncID' = Without(gone, syncs, 0)

\* nNOInitialisator<T>::Init: a destroyed object makes room, a live one does not.
HandleCreate(m) ==
  \E n \in m.about :
    /\ m.kind = "create"
    /\ IF WithId(idOf[n], copies) = {}
       THEN DoDestroy(copies \cup {n}, lingering \ WithId(idOf[n], lingering), Destroyed,
                      [copyState EXCEPT ![n] = m.state], [lastSyncID EXCEPT ![n] = m.num])
       ELSE UNCHANGED <<copies, lingering, Destroyed, copyState, lastSyncID>>

\* Mutant of HandleSync: syncs are read in the order of arrival.
HandleAnySync(m) ==
  LET targets == SameId(copies, m.about)
  IN  /\ m.kind = "sync"
      /\ copyState' = [n \in Objects |-> IF n \in targets THEN m.state ELSE copyState[n]]
      /\ lastSyncID' = [n \in Objects |-> IF n \in targets THEN m.num ELSE lastSyncID[n]]
      /\ UNCHANGED <<copies, lingering, Destroyed>>

\* net_sync_handler with SyncIsNew.
HandleSync(m) ==
  LET targets == {c \in SameId(copies, m.about) : m.num > lastSyncID[c]}
  IN  /\ m.kind = "sync"
      /\ copyState' = [n \in Objects |-> IF n \in targets THEN m.state ELSE copyState[n]]
      /\ lastSyncID' = [n \in Objects |-> IF n \in targets THEN m.num ELSE lastSyncID[n]]
      /\ UNCHANGED <<copies, lingering, Destroyed>>

\* Mutant of HandleDestroy: an order to destroy what is not there yet is forgotten.
HandleDestroyNow(m) ==
  /\ m.kind = "destroy"
  /\ DoDestroy(copies, lingering, SameId(m.about, copies), copyState, lastSyncID)

\* net_destroy_handler.  A destroyed object is owned by the client, which undoes the order.
HandleDestroy(m) ==
  /\ m.kind = "destroy"
  /\ DoDestroy(copies, lingering, Destroyed \cup (m.about \ SameId(m.about, lingering)),
               copyState, lastSyncID)

\* ClearAllDeleted on the client.
ForgetDeleted ==
  /\ lingering # {}
  /\ lingering' = {}
  /\ UNCHANGED <<objectVars, slotVars, handled, copies, copyState, lastSyncID, Destroyed,
                 loose, lastMessage>>

\* rec_peer for one packet with one message, up to the call of sn_DoDestroy.
Handle(m) ==
  /\ connected
  /\ m \in Underway
  /\ handled' = handled \cup {m.num}
  /\ HandleCreate(m) \/ HandleSync(m) \/ HandleDestroy(m)
  /\ loose' = loose \ {m}
  /\ UNCHANGED <<objectVars, slotVars, lastMessage>>

-----------------------------------------------------------------------------
ObjectNext ==
  \/ \E id \in Ids : CreateObject(id)
  \/ \E n \in alive : DestroyObject(n) \/ \E ack \in BOOLEAN : RequestSync(n, ack)

SyncNext ==
  \/ \E n \in syncList : SyncObject(n)
  \/ SyncDestroyer
  \/ CleanSyncList
  \/ ClearAllDeleted
  \/ \E m \in waiting : AckSync(m) \/ AckDestroy(m) \/ ResendToNobody(m)

SessionNext ==
  \/ Login \/ Ready
  \/ \E D \in SUBSET alive : \E traced \in SUBSET D : Logout(D, traced)

ClientNext == ForgetDeleted \/ \E m \in Underway : Handle(m)

Next == ObjectNext \/ SyncNext \/ SessionNext \/ ClientNext

Spec == Init /\ [][Next]_vars

\* Every frame calls SyncAll, and the limits that hold a message back pass; what waits
\* for an ack is resent until it arrives, and so is the ack; a client that has logged in
\* says that it is ready, and clears what it deleted whenever the players change.
Fairness ==
  /\ WF_vars(Ready)
  /\ WF_vars(ForgetDeleted)
  /\ WF_vars(SyncDestroyer)
  /\ \A n \in Objects : WF_vars(\E o \in syncList : o = n /\ SyncObject(o))
  /\ \A k \in 1 .. MaxMessages :
       /\ WF_vars(\E m \in waiting : m.num = k /\ Handle(m))
       /\ WF_vars(\E m \in waiting : m.num = k /\ (AckSync(m) \/ AckDestroy(m)))

FairSpec == Spec /\ Fairness

-----------------------------------------------------------------------------
(* What the copies are for the code above: ObjectMirror *)

\* The creations, and the syncs, that may reach the client, without ids and numbers.
Contents(kind) ==
  {c \in [about : Objects, state : 0 .. MaxState] :
     \E m \in Underway : m.kind = kind /\ m.about = {c.about} /\ m.state = c.state}

Mirror == INSTANCE ObjectMirror
            WITH States <- 0 .. MaxState,
                 born <- Created,
                 state <- [n \in alive |-> state[n]],
                 online <- connected,
                 offers <- Contents("create"),
                 news <- Contents("sync"),
                 view <- [n \in copies |-> copyState[n]]

-----------------------------------------------------------------------------
(* Properties *)

\* Every variable holds a value of its type.  The counter of 4 bits stays below 3.
TypeOK ==
  /\ idOf \in Seq(Ids) /\ Len(idOf) <= MaxObjects /\ alive \subseteq Created
  /\ state \in [Objects -> 0 .. MaxState] /\ mustArrive \in [Objects -> 0 .. MaxState]
  /\ sn_freedIDs \in Seq(Ids) /\ knowsAbout \in [Objects -> Knows] /\ syncList \subseteq alive
  /\ connected \in BOOLEAN /\ logins \in 0 .. MaxLogins /\ ready \in BOOLEAN
  /\ destroyers \subseteq Created /\ destroyersCount \in Int
  /\ waiting \subseteq Messages /\ loose \subseteq Messages
  /\ handled \subseteq 1 .. lastMessage /\ lastMessage \in 0 .. MaxMessages
  /\ copies \subseteq Created /\ copyState \in [Objects -> 0 .. MaxState]
  /\ lastSyncID \in [Objects -> 0 .. MaxMessages] /\ Destroyed \subseteq Created
  /\ lingering \subseteq Created

\* "is the creation message through?": an object the client is taken to know of is there.
KnownIsHeld ==
  \A n \in alive : connected /\ knowsAbout[n].knowsAboutExistence => n \in copies

\* A client that holds, or will be sent again, an object the server has destroyed will
\* be told to destroy it, or has been and remembers: nothing stays behind for ever.
NoOrphan ==
  connected =>
    \A n \in Created \ alive :
      n \in copies \/ (\E m \in Underway : m.kind = "create" /\ n \in m.about) =>
        \/ n \in destroyers \cup Destroyed
        \/ \E m \in DestroyWaits : n \in m.about /\ m.num \notin handled

\* acksPending counts the messages about the object that wait for an ack, across
\* destructions, reused ids and clients.
AcksPendingCounts ==
  connected => \A n \in alive :
    knowsAbout[n].acksPending = Cardinality({m \in SyncWaits : n \in m.about})

\* The sync that was asked for is still on the list when it has not been sent.
RequestNotForgotten ==
  connected => \A n \in alive : knowsAbout[n].syncReq => n \in syncList

\* When nothing about an object is underway, the client has the state it had when a
\* sync with ack was last requested, or a later one.
SettledIsCurrent ==
  connected => \A n \in alive :
    LET k == knowsAbout[n]
    IN  k.knowsAboutExistence /\ ~k.syncReq /\ k.acksPending = 0 => copyState[n] >= mustArrive[n]

\* destroyersCount, which holds creations back, counts the unacknowledged destroy messages.
DestroyersCounted == connected => destroyersCount = Cardinality(DestroyWaits)

\* "don't send creation messages while destruction messages are unacknowledged."
CreationWaits ==
  [][\A m \in waiting' \ waiting : m.kind = "create" => DestroyWaits = {}]_vars

\* The client destroys no object the server still has.
OnlyDeadDestroyed ==
  [][connected /\ connected' => \A n \in copies \ copies' : n \notin alive]_vars

\* The copies of the client mirror the objects of the server: whatever ids are reused, and
\* whatever is lost, late or overtaken, a copy stands for one object, shows only states
\* that its object has had, each later than the one before, goes only after its object,
\* and does not come back.
ImplementsMirror == Mirror!Spec

\* tASSERT( !no->Owned() ) in net_destroy_handler: an order to destroy finds no object
\* that the client has taken over.
OrdersFindNoOwned ==
  [][\A m \in Underway : m.kind = "destroy" /\ m.num \in handled' =>
        SameId(lingering, m.about) = {}]_vars

\* A copy never goes back to an earlier state of its object, whatever overtakes what.
NeverBackwards == [][\A n \in copies \cap copies' : copyState'[n] >= copyState[n]]_vars

\* "immediately transfer the thing": an object of the server is created on every client
\* that is ready, unless it goes or the client does.
EventuallyKnown ==
  \A n \in Objects : (n \in alive /\ connected /\ ready)
                        ~> (n \notin alive \/ ~connected \/ knowsAbout[n].knowsAboutExistence)

\* A copy of an object that is no more is destroyed.
EventuallyGone ==
  \A n \in Objects : (connected /\ n \in copies /\ n \notin alive) ~> (n \notin copies \/ ~connected)
=============================================================================
