--------------------------------- MODULE IdPool ---------------------------------
(***************************************************************************)
(* How nNetObject.cpp shares the ids of network objects among the server   *)
(* and its clients.  The server takes ids for its own objects, reserves    *)
(* others for clients that ask for them, and takes them back when objects  *)
(* are destroyed and clients leave.  A client keeps a ring of reserved ids *)
(* and asks for more, a few at a time, whenever it takes one and few are   *)
(* left.                                                                   *)
(*                                                                         *)
(* Messages are those of ReliableChannel that wait for an ack: each one    *)
(* arrives once, in any order, unless the client leaves.  Clients play by  *)
(* the rules.  The range of ids, which slowly grows and shrinks, and the   *)
(* order in which ids are tried and freed ids are taken back are left out: *)
(* any free id may be next.  As ids are used in turn, and an order to      *)
(* destroy an object lives for a minute at most, an id is assumed not to   *)
(* be used again before the orders for it are gone.                        *)
(***************************************************************************)
EXTENDS Integers, Sequences, FiniteSets

CONSTANTS
  Ids,         \* ids of objects
  Users,       \* slots for clients
  Server,      \* owner 0: the server, or nobody if there is no object
  Freed,       \* owner 0xFFFF: freed, and not to be used yet
  Prefetch,    \* size of the ring of reserved ids, ID_PREFETCH (50)
  NeedBelow,   \* more are asked for when fewer are left (25)
  Batch,       \* asked for then (12)
  First,       \* asked for at the login (40)
  FreeKeep,    \* freed ids kept from use (1000)
  HogLimit,    \* reserved and unused ids that make a hog (101)
  MaxAsked     \* bound on the requests of a client underway

ASSUME PoolAssumption ==
  /\ Server \notin Users /\ Freed \notin Users /\ Server # Freed
  /\ {Prefetch, NeedBelow, Batch, First, FreeKeep, HogLimit, MaxAsked} \subseteq Nat
  /\ IsFiniteSet(Ids) /\ 3 <= Prefetch /\ 2 <= NeedBelow /\ 2 <= Batch /\ 2 <= First

VARIABLES
  (* the server *)
  owner,         \* sn_netObjectsOwner
  objects,       \* ids in sn_netObjects
  kept,          \* ids of objects whose deletion was undone: the server's now, but the
                 \* client's in sn_netObjectsOwner
  deleted,       \* ids of objects that are given up, but that sn_netObjectsDeleted or some
                 \* other reference still holds
  sn_freedIDs,
  sn_Destroyed,  \* orders of clients to destroy objects that are not there yet
  hogPlanned,    \* sg_todoKillHog
  (* the clients *)
  online,        \* clients that are logged in
  ring,          \* net_reserved_id from distribute to request
  waiting,       \* in the loop of next_free
  own,           \* ids of the client's own objects
  unsent,        \* those of them the server was not sent yet
  (* messages underway *)
  asked,         \* requests for ids: how many of each size
  replies,       \* ids sent to a client
  creates,       \* ids of objects in creation messages
  destroys       \* ids in destroy messages

serverVars == <<owner, objects, kept, deleted, sn_freedIDs, sn_Destroyed, hogPlanned>>
clientVars == <<online, ring, waiting, own, unsent>>
messageVars == <<asked, replies, creates, destroys>>
vars == <<serverVars, clientVars, messageVars>>

Sizes == {First, Batch}
IdsIn(s) == {s[i] : i \in DOMAIN s}

Init ==
  /\ owner = [id \in Ids |-> Server] /\ objects = {} /\ kept = {} /\ deleted = {}
  /\ sn_freedIDs = {} /\ sn_Destroyed = {} /\ hogPlanned = FALSE
  /\ online = {} /\ ring = [u \in Users |-> <<>>] /\ waiting = {}
  /\ own = [u \in Users |-> {}] /\ unsent = [u \in Users |-> {}]
  /\ asked = [u \in Users |-> [n \in Sizes |-> 0]] /\ replies = [u \in Users |-> {}]
  /\ creates = [u \in Users |-> {}] /\ destroys = [u \in Users |-> {}]

-----------------------------------------------------------------------------
(* The server takes ids *)

\* The freed ids that next_free_server_nokill takes back first.
Recyclable(R) ==
  /\ R \subseteq sn_freedIDs
  /\ IF Cardinality(sn_freedIDs) > FreeKeep
     THEN Cardinality(sn_freedIDs \ R) = FreeKeep
     ELSE R = {}

\* Mutant of Free: a reserved id counts as free while there is no object.
FreeWithoutObject(R) == {id \in Ids : id \notin objects /\ (owner[id] = Freed => id \in R)}

\* free_server, when the ids R have been taken back.
Free(R) == {id \in Ids : /\ owner[id] = Server \/ id \in R
                         /\ id \notin objects
                         /\ \A o \in sn_Destroyed : o[1] # id}

\* The owners when R was taken back and then S given to u.
Assign(R, S, u) == [id \in Ids |-> IF id \in S THEN u ELSE IF id \in R THEN Server ELSE owner[id]]

\* next_free_server for all of S, given to u; the range may have to grow for them, and
\* then a hog shall be killed.
NextFree(S, u) ==
  \E R \in SUBSET sn_freedIDs :
    /\ Recyclable(R)
    /\ S \subseteq Free(R)
    /\ owner' = Assign(R, S, u)
    /\ sn_freedIDs' = sn_freedIDs \ R
    /\ hogPlanned' \in {hogPlanned, TRUE}

\* GetID of an object of the server's.
CreateObject(id) ==
  /\ NextFree({id}, Server)
  /\ objects' = objects \cup {id}
  /\ UNCHANGED <<kept, deleted, sn_Destroyed, clientVars, messageVars>>

\* ~nNetObject of a server's object.
DestroyObject(id) ==
  /\ id \in objects \ deleted /\ owner[id] = Server
  /\ objects' = objects \ {id}
  /\ owner' = [owner EXCEPT ![id] = Freed]
  /\ sn_freedIDs' = sn_freedIDs \cup {id}
  /\ UNCHANGED <<kept, deleted, sn_Destroyed, hogPlanned, clientVars, messageVars>>

\* ~nNetObject of an object that was given up, when the last reference is gone.
ForgetDeleted(id) ==
  /\ id \in deleted
  /\ deleted' = deleted \ {id}
  /\ objects' = objects \ {id}
  /\ owner' = [owner EXCEPT ![id] = Freed]
  /\ sn_freedIDs' = sn_freedIDs \cup {id}
  /\ UNCHANGED <<kept, sn_Destroyed, hogPlanned, clientVars, messageVars>>

-----------------------------------------------------------------------------
(* Logins and logouts *)

\* login_accept_handler calls first_fill_ids.
Login(u) ==
  /\ u \in Users \ online
  /\ online' = online \cup {u}
  /\ asked' = [asked EXCEPT ![u][First] = 1]
  /\ UNCHANGED <<serverVars, ring, waiting, own, unsent, replies, creates, destroys>>

\* What is underway to and from u, and what u had, is gone.
Gone(u) ==
  /\ online' = online \ {u}
  /\ ring' = [ring EXCEPT ![u] = <<>>]
  /\ waiting' = waiting \ {u}
  /\ own' = [own EXCEPT ![u] = {}]
  /\ unsent' = [unsent EXCEPT ![u] = {}]
  /\ asked' = [asked EXCEPT ![u] = [n \in Sizes |-> 0]]
  /\ replies' = [replies EXCEPT ![u] = {}]
  /\ creates' = [creates EXCEPT ![u] = {}]
  /\ destroys' = [destroys EXCEPT ![u] = {}]

\* Mutant of Released: what a client reserved stays its own when it leaves.
ReleasedObjectsOnly(u, R, D) ==
  [id \in Ids |-> IF id \in D THEN Freed
                  ELSE IF (owner[id] = u /\ id \in objects) \/ id \in R THEN Server
                  ELSE owner[id]]

\* The objects D are destroyed with u; the rest, and the ids of u, are the server's.
Released(u, R, D) ==
  [id \in Ids |-> IF id \in D THEN Freed
                  ELSE IF owner[id] = u \/ id \in R THEN Server ELSE owner[id]]

\* The legacy spectators of u: players that were its last ones when it destroyed them.
KeptFor(u) == {id \in kept : owner[id] = u}

\* ClearKnows of both kinds, from login_callback, after R was taken back.  Only what the
\* server has not yet made its own can be destroyed with its client.  The logout callback
\* of ePlayer.cpp gives up the legacy spectators.
ClearKnows(u, R) ==
  \E D \in SUBSET {id \in objects \ (kept \cup deleted) : owner[id] = u} :
    /\ owner' = Released(u, R, D)
    /\ objects' = objects \ D
    /\ sn_freedIDs' = (sn_freedIDs \ R) \cup D
    /\ kept' = kept \ KeptFor(u)
    /\ deleted' = deleted \cup KeptFor(u)

\* sn_DisconnectUser, whoever wants it.
Logout(u) ==
  /\ u \in online
  /\ ClearKnows(u, {})
  /\ Gone(u)
  /\ UNCHANGED <<sn_Destroyed, hogPlanned>>

\* kill_id_hog kicks who has reserved too many ids, or else who has most objects.
Grabbed(u) == Cardinality({id \in Ids \ objects : owner[id] = u})
Used(u) == Cardinality({id \in objects : owner[id] = u})

KillIdHog ==
  /\ hogPlanned
  /\ hogPlanned' = FALSE
  /\ LET grabbers == {u \in Users : Grabbed(u) > HogLimit}
         users == {u \in Users : Used(u) > 0}
         worst == IF grabbers # {}
                  THEN {u \in grabbers : \A v \in grabbers : Grabbed(u) >= Grabbed(v)}
                  ELSE {u \in users : \A v \in users : Used(u) >= Used(v)}
     IN  IF worst = {}
         THEN UNCHANGED <<owner, objects, kept, deleted, sn_freedIDs, clientVars, messageVars>>
         ELSE \E u \in worst : ClearKnows(u, {}) /\ Gone(u)
  /\ UNCHANGED sn_Destroyed

-----------------------------------------------------------------------------
(* A client gets ids and uses them *)

\* Mutant of NeedSoon: the ring is asked for more only when it is empty.
NeedSoonEmpty(u) == ring[u] = <<>>

\* need_soon < ID_PREFETCH >> 1; of an empty ring, need_soon is ID_PREFETCH.
NeedSoon(u) == ring[u] # <<>> /\ Len(ring[u]) < NeedBelow

\* next_free up to its loop.
AskForId(u) ==
  /\ u \in online \ waiting
  /\ waiting' = waiting \cup {u}
  /\ IF NeedSoon(u)
     THEN /\ asked[u][Batch] < MaxAsked
          /\ asked' = [asked EXCEPT ![u][Batch] = @ + 1]
     ELSE UNCHANGED asked
  /\ UNCHANGED <<serverVars, online, ring, own, unsent, replies, creates, destroys>>

\* The rest of next_free, for a new object.
TakeId(u) ==
  /\ u \in waiting
  /\ ring[u] # <<>>
  /\ waiting' = waiting \ {u}
  /\ ring' = [ring EXCEPT ![u] = Tail(@)]
  /\ own' = [own EXCEPT ![u] = @ \cup {Head(ring[u])}]
  /\ unsent' = [unsent EXCEPT ![u] = @ \cup {Head(ring[u])}]
  /\ UNCHANGED <<serverVars, online, messageVars>>

\* id_req_handler: the ids are reserved and sent.
HandleRequest(u, n) ==
  /\ asked[u][n] > 0
  /\ \E S \in SUBSET Ids :
       /\ Cardinality(S) = n
       /\ NextFree(S, u)
       /\ replies' = [replies EXCEPT ![u] = @ \cup {S}]
  /\ asked' = [asked EXCEPT ![u][n] = @ - 1]
  /\ UNCHANGED <<objects, kept, deleted, sn_Destroyed, clientVars, creates, destroys>>

\* Mutant of RunOut: the request goes unanswered.
RunOutIgnored(u, n) ==
  /\ asked[u][n] > 0
  /\ \E R \in SUBSET sn_freedIDs : Recyclable(R) /\ Cardinality(Free(R)) < n
  /\ asked' = [asked EXCEPT ![u][n] = @ - 1]
  /\ hogPlanned' = TRUE
  /\ UNCHANGED <<owner, objects, kept, deleted, sn_freedIDs, sn_Destroyed, clientVars,
                 replies, creates, destroys>>

\* The server runs out of ids for the request, and kicks the client.
RunOut(u, n) ==
  /\ asked[u][n] > 0
  /\ \E R \in SUBSET sn_freedIDs :
       Recyclable(R) /\ Cardinality(Free(R)) < n /\ ClearKnows(u, R)
  /\ Gone(u)
  /\ hogPlanned' = TRUE
  /\ UNCHANGED sn_Destroyed

\* Mutant of Room: the ring is filled up.
RoomUpTo(u) == Prefetch - Len(ring[u])

\* One place of the ring stays empty.
Room(u) == Prefetch - 1 - Len(ring[u])

\* req_id_handler: ids of objects that are there are passed over, and ids that find no
\* room are lost.
HandleReply(u, S) ==
  /\ S \in replies[u]
  /\ replies' = [replies EXCEPT ![u] = @ \ {S}]
  /\ LET usable == S \ own[u]
         taken == IF Cardinality(usable) > Room(u) THEN Room(u) ELSE Cardinality(usable)
     IN  \E s \in [1 .. taken -> usable] :
           /\ \A i, j \in DOMAIN s : s[i] = s[j] => i = j
           /\ ring' = [ring EXCEPT ![u] = @ \o s]
  /\ UNCHANGED <<serverVars, online, waiting, own, unsent, asked, creates, destroys>>

\* The client's SyncAll sends a creation message.
SendCreate(u, id) ==
  /\ id \in unsent[u]
  /\ unsent' = [unsent EXCEPT ![u] = @ \ {id}]
  /\ creates' = [creates EXCEPT ![u] = @ \cup {id}]
  /\ UNCHANGED <<serverVars, online, ring, waiting, own, asked, replies, destroys>>

\* ~nNetObject on the client; the server is told if it may know of the object.
DestroyOwn(u, id) ==
  /\ id \in own[u]
  /\ own' = [own EXCEPT ![u] = @ \ {id}]
  /\ unsent' = [unsent EXCEPT ![u] = @ \ {id}]
  /\ destroys' = IF id \in unsent[u] THEN destroys ELSE [destroys EXCEPT ![u] = @ \cup {id}]
  /\ UNCHANGED <<serverVars, online, ring, waiting, asked, replies, creates>>

-----------------------------------------------------------------------------
(* The server hears of the clients' objects *)

\* sn_DoDestroy destroys the objects D of clients: the server's now, they are held for a
\* while.  The legacy spectators K are given up.
Delete(D, K) ==
  /\ owner' = [id \in Ids |-> IF id \in D THEN Server ELSE owner[id]]
  /\ deleted' = deleted \cup D \cup K
  /\ kept' = kept \ K

\* nNOInitialisator<T>::Init, and then sn_DoDestroy.  A new player (and no other object)
\* takes the place of the legacy spectator.
HandleCreate(u, id) ==
  /\ id \in creates[u]
  /\ IF owner[id] # u
     THEN Logout(u)
     ELSE /\ objects' = objects \cup {id}
          /\ \E K \in {{}, KeptFor(u)} :
               Delete(IF <<id, u>> \in sn_Destroyed THEN {id} ELSE {}, K)
          /\ sn_Destroyed' = sn_Destroyed \ {<<id, u>>}
          /\ creates' = [creates EXCEPT ![u] = @ \ {id}]
          /\ UNCHANGED <<sn_freedIDs, hogPlanned, clientVars, asked, replies, destroys>>

\* nNetObject::Owned of an object on the server.
Owned(id) == owner[id] = Server \/ id \in kept \cup deleted

\* ePlayerNetID::ActionOnDelete makes a client's last player its legacy spectator, in the
\* place of an earlier one, and takes ownership, which undoes the deletion.
Undo(u, id) ==
  /\ kept' = (kept \ KeptFor(u)) \cup {id}
  /\ deleted' = deleted \cup KeptFor(u)
  /\ UNCHANGED owner

\* Mutant of HandleDestroy: an order that comes before its object is forgotten.
HandleDestroyNow(u, id) ==
  /\ id \in destroys[u]
  /\ destroys' = [destroys EXCEPT ![u] = @ \ {id}]
  /\ IF id \in objects /\ ~Owned(id) /\ owner[id] = u
     THEN Delete({id}, {}) \/ Undo(u, id)
     ELSE UNCHANGED <<owner, kept, deleted>>
  /\ UNCHANGED <<objects, sn_freedIDs, sn_Destroyed, hogPlanned, clientVars, asked, replies, creates>>

\* net_destroy_handler, and then sn_DoDestroy.  The order waits for an object that is not
\* there yet, is dropped if the object is the server's or becomes so now, and makes a
\* cheater of whoever would destroy another client's.
HandleDestroy(u, id) ==
  /\ id \in destroys[u]
  /\ IF id \in objects /\ ~Owned(id) /\ owner[id] # u
     THEN Logout(u)
     ELSE /\ IF id \in objects /\ ~Owned(id)
             THEN Delete({id}, {}) \/ Undo(u, id)
             ELSE UNCHANGED <<owner, kept, deleted>>
          /\ sn_Destroyed' = IF id \in objects THEN sn_Destroyed ELSE sn_Destroyed \cup {<<id, u>>}
          /\ destroys' = [destroys EXCEPT ![u] = @ \ {id}]
          /\ UNCHANGED <<objects, sn_freedIDs, hogPlanned, clientVars, asked, replies, creates>>

\* An order that found no object within nDeletedTimeout is dropped; a creation message
\* arrives before that, or never.
OrderTimesOut(o) ==
  /\ o \in sn_Destroyed
  /\ o[1] \notin creates[o[2]]
  /\ sn_Destroyed' = sn_Destroyed \ {o}
  /\ UNCHANGED <<owner, objects, kept, deleted, sn_freedIDs, hogPlanned, clientVars, messageVars>>

-----------------------------------------------------------------------------
ServerNext ==
  \/ \E id \in Ids : CreateObject(id) \/ DestroyObject(id) \/ ForgetDeleted(id)
  \/ KillIdHog
  \/ \E o \in sn_Destroyed : OrderTimesOut(o)
  \/ \E u \in Users, n \in Sizes : HandleRequest(u, n) \/ RunOut(u, n)
  \/ \E u \in Users, id \in Ids : HandleCreate(u, id) \/ HandleDestroy(u, id)

ClientNext ==
  \E u \in Users :
    \/ Login(u) \/ Logout(u) \/ AskForId(u) \/ TakeId(u)
    \/ \E S \in replies[u] : HandleReply(u, S)
    \/ \E id \in own[u] : SendCreate(u, id) \/ DestroyOwn(u, id)

Next == ServerNext \/ ClientNext

Spec == Init /\ [][Next]_vars

\* Messages that wait for an ack arrive in the end; next_free runs until it has an id.
Fairness ==
  \A u \in Users :
    /\ WF_vars(TakeId(u))
    /\ WF_vars(\E n \in Sizes : HandleRequest(u, n) \/ RunOut(u, n))
    /\ WF_vars(\E S \in replies[u] : HandleReply(u, S))

FairSpec == Spec /\ Fairness

-----------------------------------------------------------------------------
(* What the pool is for the code above: IdLeases *)

\* The ids that u may give to an object: they are on their way to it or in its ring.
Reserved(u) == IdsIn(ring[u]) \cup UNION replies[u]

\* Ids of the server's objects that are not destroyed.
Servers == {id \in objects \ deleted : owner[id] = Server}

\* The ids, and the objects, that are u's for the server.
Assigned(u) == {id \in Ids : owner[id] = u}
Seen(u) == {id \in objects : owner[id] = u}

Leases == INSTANCE IdLeases
            WITH present <- online,
                 servers <- Servers,
                 leased <- [u \in Users |-> Assigned(u)],
                 fresh <- [u \in Users |-> Reserved(u)],
                 seen <- [u \in Users |-> Seen(u)]

-----------------------------------------------------------------------------
(* Properties *)

\* Every variable holds a value of its type, and the ring never runs over.
TypeOK ==
  /\ owner \in [Ids -> Users \cup {Server, Freed}]
  /\ objects \subseteq Ids /\ deleted \subseteq objects /\ kept \subseteq objects \ deleted
  /\ sn_freedIDs \subseteq Ids /\ sn_Destroyed \subseteq Ids \X Users /\ hogPlanned \in BOOLEAN
  /\ online \subseteq Users /\ waiting \subseteq online
  /\ ring \in [Users -> Seq(Ids)] /\ \A u \in Users : Len(ring[u]) < Prefetch
  /\ own \in [Users -> SUBSET Ids] /\ unsent \in [Users -> SUBSET Ids]
  /\ asked \in [Users -> [Sizes -> Nat]] /\ replies \in [Users -> SUBSET SUBSET Ids]
  /\ creates \in [Users -> SUBSET Ids] /\ destroys \in [Users -> SUBSET Ids]

\* An id that a client may use is reserved for it on the server and belongs to nothing,
\* so that no two objects ever share an id.
ReservedIsFree ==
  \A u \in Users : \A id \in Reserved(u) :
    owner[id] = u /\ id \notin objects /\ id \notin own[u]

\* "tried to cheat": a client that plays by the rules is never taken for a cheater; its
\* objects pass the check on their owner when their creation arrives.
CreationIsAccepted ==
  \A u \in Users : \A id \in creates[u] \cup unsent[u] : owner[id] = u /\ id \notin objects

\* What of a client's objects was announced is on the server until the client destroys
\* them.  Of all else that sn_netObjectsOwner believes to be the client's, an order to
\* destroy it is underway, or the one order there is was undone: no order hits another
\* object, and none that overtakes the creation of its object is lost.
OwnIsThere ==
  \A u \in Users :
    /\ \A id \in own[u] \ (unsent[u] \cup creates[u]) : id \in objects /\ owner[id] = u
    /\ \A id \in objects : owner[id] = u =>
         IF id \in kept \cup deleted THEN id \notin own[u] \cup destroys[u]
                                   ELSE id \in own[u] \cup destroys[u]

\* The queue of freed ids holds just those that are marked as freed, and a client that
\* left has no ids any more.
NoIdIsLost ==
  /\ \A id \in Ids : owner[id] = Freed <=> id \in sn_freedIDs
  /\ \A id \in Ids : owner[id] \in Users => owner[id] \in online

\* A client whose ring is empty has asked: need_soon is wrong for an empty ring, and
\* nothing asks again, so without a request underway next_free would never return.
EmptyRingIsServed ==
  \A u \in online : ring[u] = <<>> => (\E n \in Sizes : asked[u][n] > 0) \/ replies[u] # {}

\* Ids are leased: nobody gets one that another holds or an object still has, a client's id is
\* for one object, which the server sees once at most, and whose id it takes back only
\* when the client has destroyed it.
ImplementsLeases == Leases!Spec

\* next_free returns, unless the client is disconnected.
EventuallyTaken == \A u \in Users : (u \in waiting) ~> (u \notin waiting)
=============================================================================
