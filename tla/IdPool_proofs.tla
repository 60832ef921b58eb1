----------------------------- MODULE IdPool_proofs -----------------------------
(***************************************************************************)
(* Proofs about IdPool, for any number of ids, of clients and of ids that  *)
(* are asked for, and any size of the ring from 3 on.                      *)
(*                                                                         *)
(* The invariant follows an id through the hands of its client.  It is     *)
(* reserved (sent, or in the ring), then carried by an object (own), whose *)
(* creation is still to be sent (unsent) or underway (creates); when the   *)
(* object is gone an order is underway (destroys), or waits on the server  *)
(* (Orders) for a creation that it overtook.  These places are apart from  *)
(* each other (Apart), and each of them says who owns the id on the server *)
(* and whether there is an object (Held).                                  *)
(***************************************************************************)
EXTENDS IdPool, FiniteSetTheorems, SequenceTheorems, TLAPS

\* Orders of u to destroy what is not there yet.
Orders(u) == {id \in Ids : <<id, u>> \in sn_Destroyed}

Apart(u) ==
  /\ \A i, j \in DOMAIN ring[u] : ring[u][i] = ring[u][j] => i = j
  /\ \A S \in replies[u] : \A i \in DOMAIN ring[u] : ring[u][i] \notin S
  /\ \A S, T \in replies[u] : \A id \in S : id \in T => S = T
  /\ \A id \in Reserved(u) : id \notin own[u] \cup creates[u] \cup destroys[u] \cup Orders(u)
  /\ \A id \in own[u] : id \notin destroys[u] \cup Orders(u)
  /\ \A id \in destroys[u] : id \notin Orders(u)
  /\ \A id \in unsent[u] : id \in own[u] /\ id \notin creates[u]

Held(u) ==
  /\ \A id \in Reserved(u) : owner[id] = u /\ id \notin objects
  /\ \A id \in creates[u] \cup unsent[u] : owner[id] = u /\ id \notin objects
  /\ \A id \in creates[u] : id \in own[u] \cup destroys[u] \cup Orders(u)
  /\ \A id \in own[u] \ (unsent[u] \cup creates[u]) : id \in objects /\ owner[id] = u
  /\ \A id \in destroys[u] : owner[id] = u
  /\ \A id \in objects : owner[id] = u =>
       IF id \in kept \cup deleted THEN id \notin own[u] \cup destroys[u]
                                 ELSE id \in own[u] \cup destroys[u]

\* A client that has no id, or is about to use its last one, gets more.
Served(u) ==
  /\ \A n \in Sizes : asked[u][n] > 0 => u \in online
  /\ \A S \in replies[u] : IsFiniteSet(S) /\ Cardinality(S) >= 2
  /\ u \in online /\ (ring[u] = <<>> \/ (u \in waiting /\ Len(ring[u]) = 1))
       => ((\E n \in Sizes : asked[u][n] > 0) \/ replies[u] # {})

ServerInv ==
  /\ \A id \in kept : owner[id] \in Users
  /\ \A id \in objects : owner[id] # Freed
  /\ NoIdIsLost

UserInv(u) == Apart(u) /\ Held(u) /\ Served(u)

IInv == TypeOK /\ ServerInv /\ \A u \in Users : UserInv(u)

-----------------------------------------------------------------------------
(* Lemmas *)

LEMMA InitInv == Init => IInv
<1> SUFFICES ASSUME Init PROVE IInv
  OBVIOUS
<1> USE PoolAssumption DEF Init
<1>1. TypeOK
  <2>1. owner \in [Ids -> Users \cup {Server, Freed}] /\ asked \in [Users -> [Sizes -> Nat]]
    OBVIOUS
  <2>2. \A u \in Users : ring[u] = <<>> /\ Len(ring[u]) < Prefetch
    OBVIOUS
  <2>3. ring \in [Users -> Seq(Ids)]
    OBVIOUS
  <2> QED
    BY <2>1, <2>2, <2>3 DEF TypeOK
<1>2. ServerInv
  BY DEF ServerInv, NoIdIsLost
<1>3. ASSUME NEW u \in Users PROVE UserInv(u)
  <2>1. Reserved(u) = {} /\ Orders(u) = {}
    BY DEF Reserved, Orders, IdsIn
  <2>2. Apart(u) /\ Held(u)
    BY <2>1 DEF Apart, Held
  <2>3. Served(u)
    BY DEF Served, Sizes
  <2> QED
    BY <2>2, <2>3 DEF UserInv
<1> QED
  BY <1>1, <1>2, <1>3 DEF IInv

\* Nothing changes for a client if what it has and what is underway does not, and
\* neither do its ids on the server.
LEMMA Bystander ==
  ASSUME NEW v \in Users, UserInv(v), TypeOK,
         UNCHANGED <<ring[v], own[v], unsent[v], asked[v], replies[v], creates[v], destroys[v]>>,
         v \in online' <=> v \in online,
         v \in waiting' <=> v \in waiting,
         \A id \in Ids : owner'[id] = v <=> owner[id] = v,
         \A id \in Ids : owner[id] = v => (id \in objects' <=> id \in objects),
         \A id \in Ids : owner[id] = v => (id \in kept' \cup deleted' <=> id \in kept \cup deleted),
         objects' \subseteq Ids,
         \A id \in Ids : <<id, v>> \in sn_Destroyed' => <<id, v>> \in sn_Destroyed,
         \A id \in creates[v] : <<id, v>> \in sn_Destroyed => <<id, v>> \in sn_Destroyed'
  PROVE  UserInv(v)'
<1>1. Reserved(v)' = Reserved(v) /\ Reserved(v) \subseteq Ids
  BY DEF Reserved, TypeOK, IdsIn
<1>2. Orders(v)' \subseteq Orders(v) /\ creates[v] \cap Orders(v) \subseteq Orders(v)'
  BY DEF Orders, TypeOK
<1>3. /\ creates[v] \subseteq Ids /\ own[v] \subseteq Ids /\ unsent[v] \subseteq Ids
      /\ destroys[v] \subseteq Ids /\ objects \subseteq Ids
  BY DEF TypeOK
<1>4. Apart(v)'
  BY <1>1, <1>2 DEF Apart, UserInv
<1>5. Held(v)'
  BY <1>1, <1>2, <1>3 DEF Held, UserInv
<1>6. Served(v)'
  BY DEF Served, UserInv
<1> QED
  BY <1>4, <1>5, <1>6 DEF UserInv

\* All that a client has is its own on the server.
LEMMA AllOwned ==
  ASSUME TypeOK, NEW u \in Users, UserInv(u)
  PROVE  /\ \A id \in Reserved(u) \cup own[u] \cup creates[u] \cup destroys[u] :
              id \in Ids /\ owner[id] = u
         /\ unsent[u] \subseteq own[u]
<1>1. Reserved(u) \subseteq Ids
  BY DEF Reserved, IdsIn, TypeOK
<1> QED
  BY <1>1 DEF TypeOK, UserInv, Apart, Held

\* What next_free_server gives to u was nobody's, and nobody else's ids change hands.
LEMMA NextFreeGives ==
  ASSUME TypeOK, ServerInv, NEW u \in Users \cup {Server}, NEW S \in SUBSET Ids, NextFree(S, u)
  PROVE  /\ owner' \in [Ids -> Users \cup {Server, Freed}]
         /\ sn_freedIDs' \subseteq Ids /\ hogPlanned' \in BOOLEAN
         /\ \A id \in S : owner'[id] = u
         /\ \A id \in S : owner[id] \notin Users /\ id \notin objects
         /\ \A id \in S : \A v \in Users : <<id, v>> \notin sn_Destroyed
         /\ \A id \in Ids \ S : \A v \in Users : owner'[id] = v <=> owner[id] = v
         /\ \A id \in Ids : owner[id] = Server => owner'[id] = Server \/ id \in S
         /\ \A id \in Ids \ S : owner[id] # Freed => owner'[id] = owner[id]
         /\ \A id \in Ids : owner'[id] = Freed <=> id \in sn_freedIDs'
<1> PICK R \in SUBSET sn_freedIDs : /\ S \subseteq Free(R)
                                    /\ owner' = Assign(R, S, u)
                                    /\ sn_freedIDs' = sn_freedIDs \ R
                                    /\ hogPlanned' \in {hogPlanned, TRUE}
  BY DEF NextFree
<1>1. \A id \in S : (owner[id] = Server \/ owner[id] = Freed) /\ id \notin objects
  BY DEF Free, ServerInv, NoIdIsLost, TypeOK
<1>2. \A id \in S : \A v \in Users : <<id, v>> \notin sn_Destroyed
  <2> SUFFICES ASSUME NEW id \in S, NEW v \in Users, <<id, v>> \in sn_Destroyed PROVE FALSE
    OBVIOUS
  <2>1. \A o \in sn_Destroyed : o[1] # id
    BY DEF Free
  <2> QED
    BY <2>1
<1>3. S \cap (sn_freedIDs \ R) = {}
  BY PoolAssumption DEF Free, ServerInv, NoIdIsLost, TypeOK
<1>4. \A id \in Ids : owner'[id] = IF id \in S THEN u ELSE IF id \in R THEN Server ELSE owner[id]
  BY DEF Assign
<1>5. \A id \in R : owner[id] = Freed
  BY DEF ServerInv, NoIdIsLost, TypeOK
<1>6. owner' \in [Ids -> Users \cup {Server, Freed}]
  BY DEF Assign, TypeOK
<1>7. \A id \in Ids : owner'[id] = Freed <=> id \in sn_freedIDs'
  BY <1>3, <1>4, <1>5, PoolAssumption DEF ServerInv, NoIdIsLost, TypeOK
<1>8. sn_freedIDs' \subseteq Ids /\ hogPlanned' \in BOOLEAN
  BY DEF TypeOK
<1>9. \A id \in Ids \ S : \A v \in Users : owner'[id] = v <=> owner[id] = v
  BY <1>4, <1>5, PoolAssumption
<1>10. \A id \in Ids : owner[id] = Server => owner'[id] = Server \/ id \in S
  BY <1>4
<1>11. \A id \in S : owner'[id] = u
  BY <1>4
<1>13. \A id \in Ids \ S : owner[id] # Freed => owner'[id] = owner[id]
  BY <1>4, <1>5
<1>12. \A id \in S : owner[id] \notin Users /\ id \notin objects
  BY <1>1, PoolAssumption
<1> QED
  BY <1>2, <1>6, <1>7, <1>8, <1>9, <1>10, <1>11, <1>12, <1>13

\* A client that is thrown out, or leaves, takes nothing with it.
LEMMA KickKeeps ==
  ASSUME IInv, NEW u \in Users, NEW R \in SUBSET sn_freedIDs,
         ClearKnows(u, R), Gone(u),
         UNCHANGED sn_Destroyed, hogPlanned' \in BOOLEAN
  PROVE  IInv'
<1> PICK D \in SUBSET {id \in objects \ (kept \cup deleted) : owner[id] = u} :
         /\ owner' = Released(u, R, D)
         /\ objects' = objects \ D
         /\ sn_freedIDs' = (sn_freedIDs \ R) \cup D
         /\ kept' = kept \ KeptFor(u)
         /\ deleted' = deleted \cup KeptFor(u)
  BY DEF ClearKnows
<1> USE DEF IInv
<1>1. \A id \in Ids : owner'[id] = IF id \in D THEN Freed
                                   ELSE IF owner[id] = u \/ id \in R THEN Server ELSE owner[id]
  BY DEF Released
<1>2. \A id \in R : owner[id] = Freed
  BY DEF ServerInv, NoIdIsLost, TypeOK
<1>3. /\ deleted' \subseteq objects' /\ kept' \subseteq objects' \ deleted'
      /\ \A id \in kept' : id \in Ids /\ id \notin D /\ id \notin R
                         /\ owner[id] \in Users /\ owner[id] # u
  BY <1>2, PoolAssumption DEF ServerInv, TypeOK, KeptFor
<1>4. TypeOK'
  <2>1. owner' \in [Ids -> Users \cup {Server, Freed}]
    BY DEF Released, TypeOK
  <2>2. /\ objects' \subseteq Ids /\ sn_freedIDs' \subseteq Ids
        /\ deleted' \subseteq objects' /\ kept' \subseteq objects' \ deleted'
    BY <1>3 DEF TypeOK
  <2>3. ring' \in [Users -> Seq(Ids)] /\ \A v \in Users : (Len(ring[v]) < Prefetch)'
    <3>1. <<>> \in Seq(Ids) /\ Len(<<>>) < Prefetch
      BY PoolAssumption
    <3> QED
      BY <3>1 DEF Gone, TypeOK
  <2>4. online' \subseteq Users /\ waiting' \subseteq online'
    BY DEF Gone, TypeOK
  <2>5. asked' \in [Users -> [Sizes -> Nat]]
    BY DEF Gone, TypeOK
  <2>6. /\ own' \in [Users -> SUBSET Ids] /\ unsent' \in [Users -> SUBSET Ids]
        /\ replies' \in [Users -> SUBSET SUBSET Ids]
        /\ creates' \in [Users -> SUBSET Ids] /\ destroys' \in [Users -> SUBSET Ids]
    BY DEF Gone, TypeOK
  <2> QED
    BY <2>1, <2>2, <2>3, <2>4, <2>5, <2>6 DEF TypeOK
<1>5. ServerInv'
  <2>1. \A id \in Ids : (owner[id] = Freed <=> id \in sn_freedIDs)'
    BY <1>1, <1>2, PoolAssumption DEF ServerInv, NoIdIsLost, TypeOK
  <2>2. \A id \in Ids : owner'[id] \in Users => owner'[id] \in online'
    BY <1>1, PoolAssumption DEF ServerInv, NoIdIsLost, Gone
  <2>3. \A id \in kept' : owner'[id] \in Users
    BY <1>1, <1>3
  <2>4. \A id \in objects' : owner'[id] # Freed
    BY <1>1, PoolAssumption DEF ServerInv, TypeOK
  <2> QED
    BY <2>1, <2>2, <2>3, <2>4 DEF ServerInv, NoIdIsLost
<1>6. UserInv(u)'
  <2>1. /\ ring'[u] = <<>> /\ own'[u] = {} /\ unsent'[u] = {} /\ replies'[u] = {}
        /\ creates'[u] = {} /\ destroys'[u] = {} /\ u \notin online'
        /\ \A n \in Sizes : asked'[u][n] = 0
    BY DEF Gone, TypeOK
  <2>2. Reserved(u)' = {}
    BY <2>1 DEF Reserved, IdsIn
  <2>3. \A id \in objects' : owner'[id] # u
    BY <1>1, PoolAssumption DEF TypeOK
  <2>4. Apart(u)' /\ Held(u)' /\ Served(u)'
    BY <2>1, <2>2, <2>3 DEF Apart, Held, Served
  <2> QED
    BY <2>4 DEF UserInv
<1>7. ASSUME NEW v \in Users \ {u} PROVE UserInv(v)'
  <2>1. /\ UNCHANGED <<ring[v], own[v], unsent[v], asked[v], replies[v], creates[v], destroys[v]>>
        /\ v \in online' <=> v \in online
        /\ v \in waiting' <=> v \in waiting
    BY DEF Gone, TypeOK
  <2>2. \A id \in Ids : owner'[id] = v <=> owner[id] = v
    BY <1>1, <1>2, PoolAssumption
  <2>3. \A id \in Ids : owner[id] = v => (id \in objects' <=> id \in objects)
    OBVIOUS
  <2>4. objects' \subseteq Ids /\ kept' \cup deleted' = kept \cup deleted
    BY DEF TypeOK, KeptFor
  <2> QED
    BY <2>1, <2>2, <2>3, <2>4, Bystander
<1> QED
  BY <1>4, <1>5, <1>6, <1>7

\* A step that leaves the server as it is, and is of one client.
ServerKept == UNCHANGED <<owner, objects, kept, deleted, sn_freedIDs, sn_Destroyed>>

OthersKept(u) ==
  \A v \in Users \ {u} :
    /\ UNCHANGED <<ring[v], own[v], unsent[v], asked[v], replies[v], creates[v], destroys[v]>>
    /\ v \in online' <=> v \in online
    /\ v \in waiting' <=> v \in waiting

LEMMA ClientStep ==
  ASSUME IInv, NEW u \in Users, ServerKept, OthersKept(u), online \subseteq online',
         TypeOK', UserInv(u)'
  PROVE  IInv'
<1>1. ServerInv'
  BY DEF IInv, ServerInv, NoIdIsLost, ServerKept, TypeOK
<1>2. ASSUME NEW v \in Users \ {u} PROVE UserInv(v)'
  <2>1. UserInv(v) /\ TypeOK /\ objects' \subseteq Ids
    BY DEF IInv, TypeOK, ServerKept
  <2> QED
    BY <1>2, <2>1, Bystander DEF OthersKept, ServerKept
<1> QED
  BY <1>1, <1>2 DEF IInv

-----------------------------------------------------------------------------
(* The server's own actions *)

LEMMA CreateObjectInv == ASSUME IInv, NEW id \in Ids, CreateObject(id) PROVE IInv'
<1> USE DEF IInv, CreateObject
<1>0. UNCHANGED <<kept, deleted, sn_Destroyed, clientVars, messageVars>>
  OBVIOUS
<1>1. /\ owner' \in [Ids -> Users \cup {Server, Freed}]
      /\ sn_freedIDs' \subseteq Ids /\ hogPlanned' \in BOOLEAN
      /\ owner'[id] = Server /\ owner[id] \notin Users /\ id \notin objects
      /\ \A i \in Ids \ {id} : \A v \in Users : owner'[i] = v <=> owner[i] = v
      /\ \A i \in Ids : owner[i] = Server => owner'[i] = Server \/ i \in {id}
      /\ \A i \in Ids \ {id} : owner[i] # Freed => owner'[i] = owner[i]
      /\ \A i \in Ids : owner'[i] = Freed <=> i \in sn_freedIDs'
  <2>1. {id} \in SUBSET Ids /\ Server \in Users \cup {Server}
    OBVIOUS
  <2> QED
    BY <2>1, NextFreeGives
<1>2. \A i \in Ids : \A v \in Users : owner'[i] = v <=> owner[i] = v
  BY <1>1, PoolAssumption
<1>3. TypeOK'
  BY <1>0, <1>1 DEF TypeOK, clientVars, messageVars
<1>4. ServerInv'
  BY <1>0, <1>1, <1>2, PoolAssumption DEF ServerInv, NoIdIsLost, TypeOK, clientVars
<1>5. ASSUME NEW v \in Users PROVE UserInv(v)'
  <2>1. \A i \in Ids : owner[i] = v => (i \in objects' <=> i \in objects)
    BY <1>1
  <2>2. objects' \subseteq Ids
    BY DEF TypeOK
  <2> QED
    BY <1>0, <1>2, <2>1, <2>2, Bystander DEF clientVars, messageVars
<1> QED
  BY <1>3, <1>4, <1>5

\* What an object that no client wants any more leaves is a freed id.
LEMMA FreeingKeeps ==
  ASSUME IInv, NEW id \in objects, owner[id] = Server \/ id \in deleted,
         objects' = objects \ {id}, owner' = [owner EXCEPT ![id] = Freed],
         sn_freedIDs' = sn_freedIDs \cup {id}, deleted' = deleted \ {id},
         UNCHANGED <<kept, sn_Destroyed, hogPlanned, clientVars, messageVars>>
  PROVE  IInv'
<1> USE DEF IInv
<1>1. id \in Ids /\ \A i \in Ids : owner'[i] = IF i = id THEN Freed ELSE owner[i]
  BY DEF TypeOK
<1>2. id \notin kept
  BY PoolAssumption DEF ServerInv, TypeOK
<1>3. TypeOK'
  BY <1>1, <1>2 DEF TypeOK, clientVars, messageVars
<1>4. ServerInv'
  <2>1. \A i \in Ids : owner'[i] = Freed <=> i \in sn_freedIDs'
    BY <1>1 DEF ServerInv, NoIdIsLost
  <2>2. \A i \in Ids : owner'[i] \in Users => owner'[i] \in online'
    BY <1>1, PoolAssumption DEF ServerInv, NoIdIsLost, clientVars
  <2>3. \A i \in kept' : owner'[i] \in Users
    BY <1>1, <1>2 DEF ServerInv, TypeOK
  <2>4. \A i \in objects' : owner'[i] # Freed
    BY <1>1 DEF ServerInv, TypeOK
  <2> QED
    BY <2>1, <2>2, <2>3, <2>4 DEF ServerInv, NoIdIsLost
<1>5. ASSUME NEW v \in Users PROVE UserInv(v)'
  <2>1. /\ UserInv(v) /\ Reserved(v)' = Reserved(v) /\ Orders(v)' = Orders(v)
        /\ UNCHANGED <<online, ring, waiting, own, unsent, asked, replies, creates, destroys>>
    BY DEF Reserved, Orders, clientVars, messageVars
  <2>2. \A i \in Reserved(v) \cup own[v] \cup creates[v] \cup destroys[v] :
          i \in Ids /\ owner[i] = v /\ i # id
    <3>1. \A i \in Reserved(v) \cup own[v] \cup creates[v] \cup destroys[v] : i \in Ids /\ owner[i] = v
      BY <2>1, AllOwned
    <3>2. owner[id] = v => id \in deleted
      BY PoolAssumption
    <3>3. owner[id] = v => id \notin Reserved(v) \cup own[v] \cup creates[v] \cup destroys[v]
      BY <2>1, <3>2 DEF UserInv, Held
    <3> QED
      BY <3>1, <3>3
  <2>3. unsent[v] \subseteq own[v]
    BY <2>1, AllOwned
  <2>4. Apart(v)'
    BY <2>1 DEF UserInv, Apart
  <2>5. Held(v)'
    <3>1. /\ \A i \in Reserved(v)' : owner'[i] = v /\ i \notin objects'
          /\ \A i \in creates'[v] \cup unsent'[v] : owner'[i] = v /\ i \notin objects'
      BY <1>1, <2>1, <2>2, <2>3 DEF UserInv, Held
    <3>2. \A i \in creates'[v] : i \in own'[v] \cup destroys'[v] \cup Orders(v)'
      BY <2>1 DEF UserInv, Held
    <3>3. \A i \in own'[v] \ (unsent'[v] \cup creates'[v]) : i \in objects' /\ owner'[i] = v
      BY <1>1, <2>1, <2>2 DEF UserInv, Held
    <3>4. \A i \in destroys'[v] : owner'[i] = v
      BY <1>1, <2>1, <2>2
    <3>5. \A i \in objects' : owner'[i] = v =>
            IF i \in kept' \cup deleted' THEN i \notin own'[v] \cup destroys'[v]
                                      ELSE i \in own'[v] \cup destroys'[v]
      BY <1>1, <2>1 DEF UserInv, Held, TypeOK
    <3> QED
      BY <3>1, <3>2, <3>3, <3>4, <3>5 DEF Held
  <2>6. Served(v)'
    BY <2>1 DEF UserInv, Served
  <2> QED
    BY <2>4, <2>5, <2>6 DEF UserInv
<1> QED
  BY <1>3, <1>4, <1>5

LEMMA DestroyObjectInv == ASSUME IInv, NEW id \in Ids, DestroyObject(id) PROVE IInv'
<1>1. deleted' = deleted \ {id}
  BY DEF DestroyObject
<1> QED
  BY <1>1, FreeingKeeps DEF DestroyObject

LEMMA ForgetDeletedInv == ASSUME IInv, NEW id \in Ids, ForgetDeleted(id) PROVE IInv'
<1>1. id \in objects
  BY DEF ForgetDeleted, IInv, TypeOK
<1> QED
  BY <1>1, FreeingKeeps DEF ForgetDeleted

LEMMA LogoutInv == ASSUME IInv, NEW u \in Users, Logout(u) PROVE IInv'
  BY KickKeeps DEF Logout, IInv, TypeOK

LEMMA RunOutInv == ASSUME IInv, NEW u \in Users, NEW n \in Sizes, RunOut(u, n) PROVE IInv'
<1>1. PICK R \in SUBSET sn_freedIDs : ClearKnows(u, R)
  BY DEF RunOut
<1> QED
  BY <1>1, KickKeeps DEF RunOut

LEMMA KillIdHogInv == ASSUME IInv, KillIdHog PROVE IInv'
<1>1. \/ UNCHANGED <<owner, objects, kept, deleted, sn_freedIDs, clientVars, messageVars>>
      \/ \E u \in Users : ClearKnows(u, {}) /\ Gone(u)
  <2> DEFINE grabbers == {u \in Users : Grabbed(u) > HogLimit}
             users == {u \in Users : Used(u) > 0}
             worst == IF grabbers # {}
                      THEN {u \in grabbers : \A v \in grabbers : Grabbed(u) >= Grabbed(v)}
                      ELSE {u \in users : \A v \in users : Used(u) >= Used(v)}
  <2>1. worst \subseteq Users
    OBVIOUS
  <2>2. IF worst = {}
        THEN UNCHANGED <<owner, objects, kept, deleted, sn_freedIDs, clientVars, messageVars>>
        ELSE \E u \in worst : ClearKnows(u, {}) /\ Gone(u)
    BY DEF KillIdHog
  <2> HIDE DEF worst
  <2> QED
    BY <2>1, <2>2
<1>2. UNCHANGED sn_Destroyed /\ hogPlanned' \in BOOLEAN
  BY DEF KillIdHog
<1>3. ASSUME UNCHANGED <<owner, objects, kept, deleted, sn_freedIDs, clientVars, messageVars>> PROVE IInv'
  <2>1. TypeOK' /\ ServerInv'
    BY <1>2, <1>3 DEF IInv, TypeOK, ServerInv, NoIdIsLost, clientVars, messageVars
  <2>2. ASSUME NEW v \in Users PROVE UserInv(v)'
    <3>1. UserInv(v) /\ TypeOK /\ objects' \subseteq Ids
      BY <1>3 DEF IInv, TypeOK
    <3> QED
      BY <1>2, <1>3, <3>1, Bystander DEF clientVars, messageVars
  <2> QED
    BY <2>1, <2>2 DEF IInv
<1>4. ASSUME NEW u \in Users, ClearKnows(u, {}), Gone(u) PROVE IInv'
  BY <1>2, <1>4, KickKeeps
<1> QED
  BY <1>1, <1>3, <1>4

LEMMA OrderTimesOutInv == ASSUME IInv, NEW o \in sn_Destroyed, OrderTimesOut(o) PROVE IInv'
<1> USE DEF IInv, OrderTimesOut
<1>1. TypeOK' /\ ServerInv'
  BY DEF TypeOK, ServerInv, NoIdIsLost, clientVars, messageVars
<1>2. ASSUME NEW v \in Users PROVE UserInv(v)'
  <2>1. \A id \in creates[v] : <<id, v>> \in sn_Destroyed => <<id, v>> \in sn_Destroyed'
    BY DEF messageVars
  <2> QED
    BY <2>1, Bystander DEF clientVars, messageVars, TypeOK
<1> QED
  BY <1>1, <1>2

-----------------------------------------------------------------------------
(* Clients get ids *)

LEMMA LoginInv == ASSUME IInv, NEW u \in Users, Login(u) PROVE IInv'
<1> USE DEF IInv, Login
<1>1. /\ First \in Sizes /\ asked'[u][First] = 1 /\ u \in online'
      /\ \A v \in Users \ {u} : asked'[v] = asked[v]
  BY DEF Sizes, TypeOK
<1>2. TypeOK'
  <2>1. asked' \in [Users -> [Sizes -> Nat]]
    BY DEF Sizes, TypeOK
  <2> QED
    BY <2>1 DEF TypeOK, serverVars
<1>3. Apart(u)' /\ Held(u)'
  BY DEF UserInv, Apart, Held, Reserved, Orders, serverVars
<1>4. Served(u)'
  BY <1>1 DEF UserInv, Served
<1>5. ServerKept /\ OthersKept(u)
  BY <1>1 DEF ServerKept, OthersKept, serverVars
<1> QED
  BY <1>2, <1>3, <1>4, <1>5, ClientStep DEF UserInv

LEMMA AskForIdInv == ASSUME IInv, NEW u \in Users, AskForId(u) PROVE IInv'
<1> USE DEF IInv, AskForId
<1>1. Batch \in Sizes /\ asked[u][Batch] \in Nat /\ Sizes \subseteq Nat
  BY PoolAssumption DEF Sizes, TypeOK
<1> DEFINE more == [asked[u] EXCEPT ![Batch] = asked[u][Batch] + 1]
<1>2. asked' = IF NeedSoon(u) THEN [asked EXCEPT ![u] = more] ELSE asked
  OBVIOUS
<1>3. more \in [Sizes -> Nat] /\ \A n \in Sizes : asked[u][n] > 0 => more[n] > 0
  BY <1>1 DEF TypeOK
<1>8. /\ asked' \in [Users -> [Sizes -> Nat]]
      /\ \A n \in Sizes : asked[u][n] > 0 => asked'[u][n] > 0
      /\ NeedSoon(u) => asked'[u][Batch] > 0
      /\ \A v \in Users \ {u} : asked'[v] = asked[v]
  BY <1>1, <1>2, <1>3 DEF TypeOK
<1>4. TypeOK'
  BY <1>8 DEF TypeOK, serverVars
<1>5. Apart(u)' /\ Held(u)'
  BY DEF UserInv, Apart, Held, Reserved, Orders, serverVars
<1>6. Served(u)'
  <2>1. ASSUME u \in online', ring'[u] = <<>> PROVE (\E n \in Sizes : asked'[u][n] > 0) \/ replies'[u] # {}
    BY <2>1, <1>8 DEF UserInv, Served
  <2>2. ASSUME Len(ring'[u]) = 1 PROVE \E n \in Sizes : asked'[u][n] > 0
    <3>1. ring[u] \in Seq(Ids)
      BY DEF TypeOK
    <3>2. NeedSoon(u)
      <4>0. Len(ring[u]) = 1
        BY <2>2
      <4>1. ring[u] # <<>> /\ Len(ring[u]) = 1
        <5>1. Len(<<>>) # 1
          OBVIOUS
        <5> QED
          BY <4>0, <5>1, Zenon
      <4>2. NeedBelow \in Nat /\ 2 <= NeedBelow
        BY PoolAssumption
      <4> QED
        BY <4>1, <4>2 DEF NeedSoon
    <3> QED
      BY <1>1, <1>8, <3>2
  <2> QED
    BY <2>1, <2>2 DEF UserInv, Served
<1>7. ServerKept /\ OthersKept(u)
  BY <1>8 DEF ServerKept, OthersKept, serverVars, TypeOK
<1> QED
  BY <1>4, <1>5, <1>6, <1>7, ClientStep DEF UserInv

LEMMA TakeIdInv == ASSUME IInv, NEW u \in Users, TakeId(u) PROVE IInv'
<1> USE DEF IInv, TakeId
<1> DEFINE r == ring[u]
           id == Head(r)
<1>1. r \in Seq(Ids) /\ r # <<>> /\ Len(r) < Prefetch
  BY DEF TypeOK
<1>2. /\ ring'[u] = Tail(r) /\ own'[u] = own[u] \cup {id} /\ unsent'[u] = unsent[u] \cup {id}
      /\ replies'[u] = replies[u] /\ creates'[u] = creates[u] /\ destroys'[u] = destroys[u]
  BY DEF TypeOK, messageVars
<1>3. /\ Tail(r) \in Seq(Ids) /\ Len(Tail(r)) = Len(r) - 1
      /\ \A i \in DOMAIN Tail(r) : Tail(r)[i] = r[i + 1] /\ i + 1 \in DOMAIN r /\ i + 1 # 1
      /\ 1 \in DOMAIN r /\ id = r[1] /\ id \in Ids
  BY <1>1
<1>4. id \in Reserved(u) /\ Reserved(u)' \subseteq Reserved(u)
  BY <1>2, <1>3 DEF Reserved, IdsIn
<1>5. id \notin Reserved(u)'
  <2>1. \A i \in DOMAIN Tail(r) : Tail(r)[i] # id
    BY <1>3 DEF UserInv, Apart
  <2>2. \A S \in replies[u] : id \notin S
    BY <1>3 DEF UserInv, Apart
  <2> QED
    BY <1>2, <2>1, <2>2 DEF Reserved, IdsIn
<1>6. TypeOK'
  <2>1. ring' \in [Users -> Seq(Ids)] /\ \A v \in Users : (Len(ring[v]) < Prefetch)'
    BY <1>1, <1>3, PoolAssumption DEF TypeOK
  <2>2. own' \in [Users -> SUBSET Ids] /\ unsent' \in [Users -> SUBSET Ids]
    BY <1>3 DEF TypeOK
  <2> QED
    BY <2>1, <2>2 DEF TypeOK, serverVars, messageVars
<1>7. Orders(u)' = Orders(u) /\ UNCHANGED <<owner, objects, kept, deleted>>
  BY DEF Orders, serverVars
<1>8. Apart(u)'
  <2>1. \A i, j \in DOMAIN Tail(r) : Tail(r)[i] = Tail(r)[j] => i = j
    BY <1>1, <1>3 DEF UserInv, Apart
  <2>2. \A S \in replies[u] : \A i \in DOMAIN Tail(r) : Tail(r)[i] \notin S
    BY <1>3 DEF UserInv, Apart
  <2>3. /\ id \notin own[u] \cup creates[u] \cup destroys[u] \cup Orders(u)
    BY <1>4 DEF UserInv, Apart
  <2> QED
    BY <1>2, <1>4, <1>5, <1>7, <2>1, <2>2, <2>3 DEF UserInv, Apart
<1>9. Held(u)'
  BY <1>2, <1>4, <1>7 DEF UserInv, Held
<1>10. Served(u)'
  <2>1. u \notin waiting' /\ u \in online /\ u \in waiting /\ asked' = asked
    BY DEF TypeOK, messageVars
  <2>2. Tail(r) = <<>> => Len(r) = 1
    <3>1. Len(Tail(r)) = Len(r) - 1 /\ Len(r) \in Nat
      BY <1>1, <1>3
    <3>2. Tail(r) = <<>> => Len(Tail(r)) = Len(<<>>)
      BY Zenon
    <3>3. Len(<<>>) = 0
      OBVIOUS
    <3>4. Len(Tail(r)) = 0 => Len(r) = 1
      BY <3>1
    <3> QED
      BY <3>2, <3>3, <3>4, Zenon
  <2>3. Tail(r) = <<>> => ((\E n \in Sizes : asked[u][n] > 0) \/ replies[u] # {})
    BY <2>1, <2>2 DEF UserInv, Served
  <2> QED
    BY <1>2, <2>1, <2>3 DEF UserInv, Served
<1>11. ServerKept /\ OthersKept(u)
  BY DEF ServerKept, OthersKept, serverVars, messageVars, TypeOK
<1> QED
  BY <1>6, <1>8, <1>9, <1>10, <1>11, ClientStep DEF UserInv

LEMMA SendCreateInv == ASSUME IInv, NEW u \in Users, NEW id \in own[u], SendCreate(u, id) PROVE IInv'
<1> USE DEF IInv, SendCreate
<1>1. /\ unsent'[u] = unsent[u] \ {id} /\ creates'[u] = creates[u] \cup {id} /\ id \in unsent[u]
      /\ own'[u] = own[u] /\ destroys'[u] = destroys[u]
      /\ Reserved(u)' = Reserved(u) /\ Orders(u)' = Orders(u) /\ UNCHANGED <<owner, objects, kept, deleted>>
  BY DEF TypeOK, Reserved, Orders, serverVars
<1>2. TypeOK'
  BY DEF TypeOK, serverVars
<1>3. Apart(u)'
  BY <1>1 DEF UserInv, Apart
<1>4. Held(u)'
  BY <1>1 DEF UserInv, Held
<1>5. Served(u)'
  BY DEF UserInv, Served
<1>6. ServerKept /\ OthersKept(u)
  BY DEF ServerKept, OthersKept, serverVars, TypeOK
<1> QED
  BY <1>2, <1>3, <1>4, <1>5, <1>6, ClientStep DEF UserInv

LEMMA DestroyOwnInv == ASSUME IInv, NEW u \in Users, NEW id \in own[u], DestroyOwn(u, id) PROVE IInv'
<1> USE DEF IInv, DestroyOwn
<1>1. /\ unsent'[u] = unsent[u] \ {id} /\ own'[u] = own[u] \ {id} /\ creates'[u] = creates[u]
      /\ destroys'[u] = IF id \in unsent[u] THEN destroys[u] ELSE destroys[u] \cup {id}
      /\ Reserved(u)' = Reserved(u) /\ Orders(u)' = Orders(u) /\ UNCHANGED <<owner, objects, kept, deleted>>
  BY DEF TypeOK, Reserved, Orders, serverVars
<1>2. TypeOK'
  BY DEF TypeOK, serverVars
<1>3. Apart(u)'
  BY <1>1 DEF UserInv, Apart
<1>4. Held(u)'
  BY <1>1 DEF UserInv, Held, Apart
<1>5. Served(u)'
  BY DEF UserInv, Served
<1>6. ServerKept /\ OthersKept(u)
  BY DEF ServerKept, OthersKept, serverVars, TypeOK
<1> QED
  BY <1>2, <1>3, <1>4, <1>5, <1>6, ClientStep DEF UserInv

LEMMA HandleRequestInv ==
  ASSUME IInv, NEW u \in Users, NEW n \in Sizes, HandleRequest(u, n) PROVE IInv'
<1> PICK S \in SUBSET Ids : /\ Cardinality(S) = n
                            /\ NextFree(S, u)
                            /\ replies' = [replies EXCEPT ![u] = @ \cup {S}]
  BY DEF HandleRequest
<1>0. /\ TypeOK /\ ServerInv /\ UserInv(u) /\ \A v \in Users : UserInv(v)
      /\ asked[u][n] > 0 /\ asked' = [asked EXCEPT ![u][n] = asked[u][n] - 1]
      /\ UNCHANGED <<objects, kept, deleted, sn_Destroyed, clientVars, creates, destroys>>
  BY DEF IInv, HandleRequest
<1>1. /\ owner' \in [Ids -> Users \cup {Server, Freed}]
      /\ sn_freedIDs' \subseteq Ids /\ hogPlanned' \in BOOLEAN
      /\ \A id \in S : owner'[id] = u
      /\ \A id \in S : owner[id] \notin Users /\ id \notin objects
      /\ \A id \in S : \A v \in Users : <<id, v>> \notin sn_Destroyed
      /\ \A id \in Ids \ S : \A v \in Users : owner'[id] = v <=> owner[id] = v
      /\ \A id \in Ids : owner[id] = Server => owner'[id] = Server \/ id \in S
      /\ \A id \in Ids \ S : owner[id] # Freed => owner'[id] = owner[id]
      /\ \A id \in Ids : owner'[id] = Freed <=> id \in sn_freedIDs'
  BY <1>0, NextFreeGives
<1>2. IsFiniteSet(S) /\ n >= 2 /\ n \in Nat
  BY PoolAssumption, FS_Subset DEF Sizes
<1>3. /\ replies'[u] = replies[u] \cup {S}
      /\ UNCHANGED <<online, ring, waiting, own, unsent, creates, destroys>>
      /\ \A v \in Users \ {u} : replies'[v] = replies[v] /\ asked'[v] = asked[v]
  BY <1>0 DEF TypeOK, clientVars
<1>4. asked' \in [Users -> [Sizes -> Nat]] /\ \A m \in Sizes : asked'[u][m] > 0 => asked[u][m] > 0
  <2> DEFINE less == [asked[u] EXCEPT ![n] = asked[u][n] - 1]
  <2>1. asked[u] \in [Sizes -> Nat] /\ asked' = [asked EXCEPT ![u] = less]
    BY <1>0 DEF TypeOK
  <2>2. less \in [Sizes -> Nat] /\ \A m \in Sizes : less[m] > 0 => asked[u][m] > 0
    BY <1>0, <1>2, <2>1
  <2>3. asked'[u] = less
    BY <2>1, <1>0 DEF TypeOK
  <2> QED
    BY <2>1, <2>2, <2>3, <1>0 DEF TypeOK
<1>5. TypeOK'
  <2>1. replies' \in [Users -> SUBSET SUBSET Ids]
    BY <1>0 DEF TypeOK
  <2> QED
    BY <1>0, <1>1, <1>3, <1>4, <2>1 DEF TypeOK
<1>6. ServerInv'
  <2>1. u \in online
    BY <1>0 DEF UserInv, Served
  <2>2. \A id \in Ids : owner'[id] \in Users => owner'[id] \in online
    BY <1>0, <1>1, <2>1 DEF ServerInv, NoIdIsLost
  <2>3. \A id \in kept : owner'[id] \in Users
    BY <1>0, <1>1, PoolAssumption DEF ServerInv, TypeOK
  <2>4. \A id \in objects' : owner'[id] # Freed
    BY <1>0, <1>1, PoolAssumption DEF ServerInv, TypeOK
  <2> QED
    BY <1>0, <1>1, <1>3, <2>2, <2>3, <2>4 DEF ServerInv, NoIdIsLost
<1>7. UserInv(u)'
  <2>1. /\ Reserved(u)' = Reserved(u) \cup S
        /\ Orders(u)' = Orders(u) /\ \A id \in S : id \notin Orders(u)
    BY <1>0, <1>1, <1>3 DEF Reserved, Orders
  <2>2. \A id \in S : id \notin Reserved(u) \cup own[u] \cup creates[u] \cup destroys[u] \cup unsent[u]
    BY <1>0, <1>1, AllOwned
  <2>3. \A id \in Ids : id \notin S => (owner'[id] = u <=> owner[id] = u)
    BY <1>1
  <2>4. Apart(u)'
    <3>1. \A T \in replies[u] : \A id \in T : id \notin S
      BY <2>2 DEF Reserved
    <3>2. \A i \in DOMAIN ring[u] : ring[u][i] \notin S
      BY <2>2 DEF Reserved, IdsIn
    <3>3. \A A, B \in replies'[u] : \A id \in A : id \in B => A = B
      BY <1>0, <1>3, <3>1 DEF UserInv, Apart
    <3>4. \A A \in replies'[u] : \A i \in DOMAIN ring[u] : ring[u][i] \notin A
      BY <1>0, <1>3, <3>2 DEF UserInv, Apart
    <3>5. \A id \in Reserved(u)' : id \notin own[u] \cup creates[u] \cup destroys[u] \cup Orders(u)
      BY <1>0, <2>1, <2>2 DEF UserInv, Apart
    <3> QED
      BY <1>0, <1>3, <2>1, <3>3, <3>4, <3>5 DEF UserInv, Apart
  <2>5. Held(u)'
    <3>1. /\ Reserved(u) \subseteq Ids /\ own[u] \subseteq Ids /\ unsent[u] \subseteq Ids
          /\ creates[u] \subseteq Ids /\ destroys[u] \subseteq Ids /\ objects \subseteq Ids
      BY <1>0, AllOwned DEF TypeOK
    <3>2. UNCHANGED <<objects, kept, deleted>>
      BY <1>0
    <3> QED
      BY <1>0, <1>1, <1>3, <2>1, <2>2, <2>3, <3>1, <3>2 DEF UserInv, Held
  <2>6. Served(u)'
    BY <1>0, <1>2, <1>3, <1>4 DEF UserInv, Served
  <2> QED
    BY <2>4, <2>5, <2>6 DEF UserInv
<1>8. ASSUME NEW v \in Users \ {u} PROVE UserInv(v)'
  <2>1. \A id \in Ids : owner'[id] = v <=> owner[id] = v
    BY <1>1
  <2>2. objects' \subseteq Ids /\ UNCHANGED <<objects, sn_Destroyed>>
    BY <1>0 DEF TypeOK
  <2> QED
    BY <1>0, <1>3, <2>1, <2>2, Bystander
<1> QED
  BY <1>5, <1>6, <1>7, <1>8 DEF IInv

\* A ring without repetitions, followed by other ids without repetitions.
LEMMA Filled ==
  ASSUME NEW r \in Seq(Ids), NEW S \in SUBSET Ids, NEW k \in Nat, NEW s \in [1 .. k -> S],
         \A i, j \in DOMAIN r : r[i] = r[j] => i = j,
         \A i, j \in DOMAIN s : s[i] = s[j] => i = j,
         \A i \in DOMAIN r : r[i] \notin S
  PROVE  /\ r \o s \in Seq(Ids) /\ Len(r \o s) = Len(r) + k
         /\ \A i \in DOMAIN (r \o s) : (r \o s)[i] \in IdsIn(r) \cup S
         /\ \A i, j \in DOMAIN (r \o s) : (r \o s)[i] = (r \o s)[j] => i = j
<1> DEFINE t == r \o s
           n == Len(r)
<1>1. /\ s \in Seq(Ids) /\ Len(s) = k /\ n \in Nat
      /\ DOMAIN r = 1 .. n /\ DOMAIN s = 1 .. k /\ \A i \in 1 .. k : s[i] \in S
  OBVIOUS
<1>2. /\ t \in Seq(Ids) /\ Len(t) = n + k /\ DOMAIN t = 1 .. n + k
      /\ \A i \in 1 .. n + k : t[i] = IF i <= n THEN r[i] ELSE s[i - n]
  BY <1>1
<1>3. \A i \in 1 .. n + k : \/ i \in 1 .. n /\ t[i] = r[i]
                            \/ i - n \in 1 .. k /\ t[i] = s[i - n]
  BY <1>1, <1>2
<1>4. \A i \in 1 .. n + k : t[i] \in IdsIn(r) \cup S
  BY <1>1, <1>3 DEF IdsIn
<1>5. \A i, j \in 1 .. n + k : t[i] = t[j] => i = j
  <2> SUFFICES ASSUME NEW i \in 1 .. n + k, NEW j \in 1 .. n + k, t[i] = t[j] PROVE i = j
    OBVIOUS
  <2>1. ASSUME i \in 1 .. n, t[i] = r[i], j \in 1 .. n, t[j] = r[j] PROVE i = j
    BY <1>1, <2>1
  <2>2. ASSUME i - n \in 1 .. k, t[i] = s[i - n], j - n \in 1 .. k, t[j] = s[j - n] PROVE i = j
    <3>1. i - n = j - n
      BY <1>1, <2>2
    <3> QED
      BY <1>1, <3>1
  <2>3. ASSUME NEW a \in 1 .. n, NEW b \in 1 .. k PROVE r[a] # s[b]
    BY <1>1
  <2> HIDE DEF t
  <2> QED
    BY <1>3, <2>1, <2>2, <2>3
<1> QED
  BY <1>2, <1>4, <1>5

LEMMA HandleReplyInv ==
  ASSUME IInv, NEW u \in Users, NEW S \in replies[u], HandleReply(u, S) PROVE IInv'
<1> DEFINE r == ring[u]
           k == IF Cardinality(S) > Room(u) THEN Room(u) ELSE Cardinality(S)
<1>0. /\ TypeOK /\ ServerInv /\ UserInv(u) /\ \A v \in Users : UserInv(v)
      /\ replies' = [replies EXCEPT ![u] = replies[u] \ {S}]
      /\ UNCHANGED <<serverVars, online, waiting, own, unsent, asked, creates, destroys>>
  BY DEF IInv, HandleReply
<1>all. S \ own[u] = S
  BY <1>0 DEF UserInv, Apart, Reserved
<1> PICK s \in [1 .. k -> S] : /\ \A i, j \in DOMAIN s : s[i] = s[j] => i = j
                               /\ ring' = [ring EXCEPT ![u] = r \o s]
  BY <1>all DEF HandleReply
<1> DEFINE t == r \o s
<1>1. /\ r \in Seq(Ids) /\ Len(r) \in Nat /\ Len(r) < Prefetch
      /\ S \in SUBSET Ids /\ Cardinality(S) \in Nat /\ Cardinality(S) >= 2
  BY <1>0, FS_CardinalityType DEF TypeOK, UserInv, Served
<1>2. /\ k \in Nat /\ Len(r) + k < Prefetch
      /\ Len(r) < 2 => Len(r) + k >= 2
  <2>1. Prefetch \in Nat /\ 3 <= Prefetch /\ Room(u) = Prefetch - 1 - Len(r)
    BY PoolAssumption DEF Room
  <2>2. Room(u) \in Nat
    BY <1>1, <2>1
  <2>3. /\ Cardinality(S) > Room(u) => k = Room(u)
        /\ ~(Cardinality(S) > Room(u)) => k = Cardinality(S)
    OBVIOUS
  <2> HIDE DEF k, r
  <2> QED
    BY <1>1, <2>1, <2>2, <2>3
<1>3. /\ t \in Seq(Ids) /\ Len(t) = Len(r) + k
      /\ \A i \in DOMAIN t : t[i] \in IdsIn(r) \cup S
      /\ \A i, j \in DOMAIN t : t[i] = t[j] => i = j
  <2>1. /\ \A i, j \in DOMAIN r : r[i] = r[j] => i = j
        /\ \A i \in DOMAIN r : r[i] \notin S
    BY <1>0 DEF UserInv, Apart
  <2> HIDE DEF k, r
  <2> QED
    BY <1>1, <1>2, <2>1, Filled
<1> HIDE DEF k, t
<1>4. /\ ring'[u] = t /\ replies'[u] = replies[u] \ {S}
      /\ \A v \in Users \ {u} : ring'[v] = ring[v] /\ replies'[v] = replies[v]
      /\ UNCHANGED <<owner, objects, kept, deleted, sn_freedIDs, sn_Destroyed, hogPlanned>>
      /\ UNCHANGED <<online, waiting, own, unsent, asked, creates, destroys>>
  BY <1>0 DEF TypeOK, serverVars, t
<1>5. TypeOK'
  <2>1. \A v \in Users : ring'[v] \in Seq(Ids) /\ Len(ring'[v]) < Prefetch
    BY <1>0, <1>2, <1>3, <1>4 DEF TypeOK
  <2>2. ring' = [v \in Users |-> ring'[v]]
    BY <1>0 DEF TypeOK
  <2>3. replies' \in [Users -> SUBSET SUBSET Ids]
    BY <1>0 DEF TypeOK
  <2> QED
    BY <1>0, <1>4, <2>1, <2>2, <2>3 DEF TypeOK
<1>6. Reserved(u)' \subseteq Reserved(u) /\ Orders(u)' = Orders(u)
  <2>1. IdsIn(t) \subseteq IdsIn(r) \cup S
    BY <1>3 DEF IdsIn
  <2> QED
    BY <1>4, <2>1 DEF Reserved, Orders
<1>7. Apart(u)'
  <2>1. ASSUME NEW T \in replies[u] \ {S}, NEW i \in DOMAIN t PROVE t[i] \notin T
    BY <1>0, <1>3 DEF UserInv, Apart, IdsIn
  <2>2. \A i, j \in DOMAIN ring'[u] : ring'[u][i] = ring'[u][j] => i = j
    BY <1>3, <1>4
  <2>3. \A T \in replies'[u] : \A i \in DOMAIN ring'[u] : ring'[u][i] \notin T
    BY <1>4, <2>1
  <2>4. \A A, B \in replies'[u] : \A id \in A : id \in B => A = B
    BY <1>0, <1>4 DEF UserInv, Apart
  <2> QED
    BY <1>0, <1>4, <1>6, <2>2, <2>3, <2>4 DEF UserInv, Apart
<1>8. Held(u)'
  BY <1>0, <1>4, <1>6 DEF UserInv, Held
<1>9. Served(u)'
  <2>1. t # <<>> /\ Len(t) # 1
    <3>1. Len(<<>>) = 0
      OBVIOUS
    <3>2. Len(t) # 0 /\ Len(t) # 1
      BY <1>1, <1>2, <1>3
    <3> QED
      BY <3>1, <3>2, Zenon
  <2> QED
    BY <1>0, <1>4, <2>1 DEF UserInv, Served
<1>10. ServerKept /\ OthersKept(u)
  BY <1>4 DEF ServerKept, OthersKept
<1> QED
  BY <1>4, <1>5, <1>7, <1>8, <1>9, <1>10, ClientStep DEF UserInv

-----------------------------------------------------------------------------
(* The server hears of the clients' objects *)

LEMMA HandleCreateInv == ASSUME IInv, NEW u \in Users, NEW id \in Ids, HandleCreate(u, id) PROVE IInv'
<1>0. /\ TypeOK /\ ServerInv /\ UserInv(u) /\ \A v \in Users : UserInv(v) /\ id \in creates[u]
  BY DEF IInv, HandleCreate
<1>1. ASSUME owner[id] # u PROVE IInv'
  BY <1>1, LogoutInv DEF HandleCreate
<1>2. ASSUME owner[id] = u PROVE IInv'
  <2> DEFINE ordered == <<id, u>> \in sn_Destroyed
  <2>0. PICK K \in {{}, KeptFor(u)} : Delete(IF ordered THEN {id} ELSE {}, K)
    BY <1>2 DEF HandleCreate
  <2>1. /\ objects' = objects \cup {id}
        /\ owner' = [i \in Ids |-> IF i = id /\ ordered THEN Server ELSE owner[i]]
        /\ deleted' = deleted \cup (IF ordered THEN {id} ELSE {}) \cup K
        /\ kept' = kept \ K
        /\ sn_Destroyed' = sn_Destroyed \ {<<id, u>>}
        /\ creates' = [creates EXCEPT ![u] = creates[u] \ {id}]
        /\ UNCHANGED <<sn_freedIDs, hogPlanned, asked, replies, destroys>>
        /\ UNCHANGED <<online, ring, waiting, own, unsent>>
    BY <1>2, <2>0 DEF HandleCreate, Delete, clientVars
  <2>2. \A i \in Ids : owner'[i] = IF i = id /\ ordered THEN Server ELSE owner[i]
    BY <2>1
  <2>9. /\ id \notin objects /\ id \notin kept /\ id \notin deleted
        /\ kept \subseteq objects /\ deleted \subseteq objects
        /\ K \subseteq kept /\ \A i \in K : owner[i] = u
    BY <1>0 DEF UserInv, Held, TypeOK, KeptFor
  <2>3. TypeOK'
    <3>1. owner' \in [Ids -> Users \cup {Server, Freed}] /\ creates' \in [Users -> SUBSET Ids]
      BY <1>0, <2>1 DEF TypeOK
    <3>2. /\ objects' \subseteq Ids /\ deleted' \subseteq objects'
          /\ kept' \subseteq objects' \ deleted'
      BY <1>0, <2>1, <2>9 DEF TypeOK
    <3> QED
      BY <1>0, <2>1, <3>1, <3>2 DEF TypeOK
  <2>4. ServerInv'
    <3>1. \A i \in Ids : owner'[i] = Freed <=> i \in sn_freedIDs'
      BY <1>0, <1>2, <2>1, <2>2, PoolAssumption DEF ServerInv, NoIdIsLost
    <3>2. \A i \in Ids : owner'[i] \in Users => owner'[i] \in online'
      BY <1>0, <2>1, <2>2, PoolAssumption DEF ServerInv, NoIdIsLost
    <3>3. \A i \in kept' : owner'[i] \in Users
      BY <1>0, <2>1, <2>2, <2>9 DEF ServerInv, TypeOK
    <3>4. \A i \in objects' : owner'[i] # Freed
      BY <1>0, <1>2, <2>1, <2>2, PoolAssumption DEF ServerInv, TypeOK
    <3> QED
      BY <3>1, <3>2, <3>3, <3>4 DEF ServerInv, NoIdIsLost
  <2>5. UserInv(u)'
    <3>1. /\ creates'[u] = creates[u] \ {id} /\ Reserved(u)' = Reserved(u)
          /\ Orders(u)' = Orders(u) \ {id} /\ (ordered <=> id \in Orders(u))
      BY <1>0, <2>1 DEF TypeOK, Reserved, Orders
    <3>2. id \notin Reserved(u) /\ id \notin unsent[u] /\ id \notin objects
      BY <1>0 DEF UserInv, Apart, Held
    <3>3. ordered => id \notin own[u] \cup destroys[u]
      BY <1>0, <3>1 DEF UserInv, Apart
    <3>4. ~ordered => id \in own[u] \cup destroys[u]
      BY <1>0, <3>1 DEF UserInv, Held
    <3>5. Apart(u)'
      BY <1>0, <2>1, <3>1 DEF UserInv, Apart
    <3>6. /\ Reserved(u) \subseteq Ids /\ own[u] \subseteq Ids /\ unsent[u] \subseteq Ids
          /\ creates[u] \subseteq Ids /\ destroys[u] \subseteq Ids /\ objects \subseteq Ids
      BY <1>0, AllOwned DEF TypeOK
    <3>7. Held(u)'
      <4>1. /\ \A i \in Reserved(u)' : owner'[i] = u /\ i \notin objects'
            /\ \A i \in creates'[u] \cup unsent[u] : owner'[i] = u /\ i \notin objects'
        BY <1>0, <2>1, <2>2, <3>1, <3>2, <3>6 DEF UserInv, Held
      <4>2. \A i \in creates'[u] : i \in own[u] \cup destroys[u] \cup Orders(u)'
        BY <1>0, <3>1 DEF UserInv, Held
      <4>3. \A i \in own[u] \ (unsent[u] \cup creates'[u]) : i \in objects' /\ owner'[i] = u
        BY <1>0, <1>2, <2>1, <2>2, <3>1, <3>3, <3>6 DEF UserInv, Held
      <4>4. \A i \in destroys[u] : owner'[i] = u
        BY <1>0, <2>2, <3>3, <3>6 DEF UserInv, Held
      <4>5. \A i \in objects' : owner'[i] = u =>
              IF i \in kept' \cup deleted' THEN i \notin own[u] \cup destroys[u]
                                        ELSE i \in own[u] \cup destroys[u]
        <5>1. ASSUME NEW i \in objects', i # id, owner'[i] = u
              PROVE  IF i \in kept' \cup deleted' THEN i \notin own[u] \cup destroys[u]
                                               ELSE i \in own[u] \cup destroys[u]
          <6>1. i \in objects /\ owner[i] = u
            BY <2>1, <2>2, <3>6, <5>1
          <6>2. i \in kept' \cup deleted' <=> i \in kept \cup deleted
            BY <2>1, <2>9, <5>1
          <6> QED
            BY <1>0, <6>1, <6>2 DEF UserInv, Held
        <5>2. owner'[id] = u => ~ordered
          BY <2>2, PoolAssumption
        <5>3. ~ordered => id \notin kept' \cup deleted'
          BY <2>1, <2>9
        <5> QED
          BY <3>4, <5>1, <5>2, <5>3
      <4> QED
        BY <2>1, <4>1, <4>2, <4>3, <4>4, <4>5 DEF Held
    <3>8. Served(u)'
      BY <1>0, <2>1 DEF UserInv, Served
    <3> QED
      BY <3>5, <3>7, <3>8 DEF UserInv
  <2>6. ASSUME NEW v \in Users \ {u} PROVE UserInv(v)'
    <3>1. \A i \in Ids : owner'[i] = v <=> owner[i] = v
      BY <1>2, <2>2, PoolAssumption
    <3>2. \A i \in Ids : owner[i] = v => (i \in objects' <=> i \in objects)
      BY <1>2, <2>1
    <3>3. creates'[v] = creates[v] /\ objects' \subseteq Ids
      BY <1>0, <2>1 DEF TypeOK
    <3>6. \A i \in Ids : owner[i] = v => (i \in kept' \cup deleted' <=> i \in kept \cup deleted)
      BY <1>2, <2>1, <2>9
    <3>4. \A i \in Ids : <<i, v>> \in sn_Destroyed' <=> <<i, v>> \in sn_Destroyed
      BY <2>1
    <3>5. \A i \in creates[v] : <<i, v>> \in sn_Destroyed => <<i, v>> \in sn_Destroyed'
      BY <2>1
    <3> QED
      BY <1>0, <2>1, <3>1, <3>2, <3>3, <3>4, <3>5, <3>6, Bystander
  <2> QED
    BY <2>3, <2>4, <2>5, <2>6 DEF IInv
<1> QED
  BY <1>1, <1>2

LEMMA HandleDestroyInv == ASSUME IInv, NEW u \in Users, NEW id \in Ids, HandleDestroy(u, id) PROVE IInv'
<1>0. /\ TypeOK /\ ServerInv /\ UserInv(u) /\ \A v \in Users : UserInv(v) /\ id \in destroys[u]
  BY DEF IInv, HandleDestroy
<1>1. owner[id] = u
  BY <1>0 DEF UserInv, Held
<1> DEFINE there == id \in objects
<1>8. id \notin kept \cup deleted /\ ~(there /\ Owned(id))
  BY <1>0, <1>1, PoolAssumption DEF UserInv, Held, Owned, TypeOK
<1>2. /\ sn_Destroyed' = IF there THEN sn_Destroyed ELSE sn_Destroyed \cup {<<id, u>>}
      /\ destroys' = [destroys EXCEPT ![u] = destroys[u] \ {id}]
      /\ UNCHANGED <<objects, sn_freedIDs, hogPlanned, asked, replies, creates>>
      /\ UNCHANGED <<online, ring, waiting, own, unsent>>
  BY <1>1 DEF HandleDestroy, clientVars
<1>9. /\ kept' \cup deleted' = kept \cup deleted \cup (IF there THEN {id} ELSE {})
      /\ kept' \cap deleted' = {}
      /\ \A i \in kept' : owner'[i] \in Users
      /\ \/ owner' = owner
         \/ there /\ owner' = [i \in Ids |-> IF i = id THEN Server ELSE owner[i]]
      /\ there => id \in kept' \/ owner' = [i \in Ids |-> IF i = id THEN Server ELSE owner[i]]
  <2>1. /\ kept \cap deleted = {} /\ kept \subseteq Ids /\ \A i \in kept : owner[i] \in Users
        /\ KeptFor(u) \subseteq kept
    BY <1>0 DEF TypeOK, ServerInv, KeptFor
  <2>2. CASE there /\ Delete({id}, {})
    BY <1>8, <2>1, <2>2 DEF Delete
  <2>3. CASE there /\ Undo(u, id)
    BY <1>1, <1>8, <2>1, <2>3 DEF Undo
  <2>4. CASE ~there /\ UNCHANGED <<owner, kept, deleted>>
    BY <2>1, <2>4
  <2> QED
    BY <1>1, <1>8, <2>2, <2>3, <2>4 DEF HandleDestroy
<1>3. /\ \A i \in Ids : i # id => owner'[i] = owner[i]
      /\ owner'[id] \in {u, Server} /\ (~there => owner'[id] = u)
  BY <1>0, <1>1, <1>9 DEF TypeOK
<1>4. TypeOK'
  <2>1. owner' \in [Ids -> Users \cup {Server, Freed}]
    BY <1>0, <1>9 DEF TypeOK
  <2>2. deleted' \subseteq objects' /\ kept' \subseteq objects' \ deleted'
    <3>1. kept' \cup deleted' \subseteq objects
      BY <1>0, <1>9 DEF TypeOK
    <3> QED
      BY <1>2, <1>9, <3>1
  <2>3. sn_Destroyed' \subseteq Ids \X Users /\ destroys' \in [Users -> SUBSET Ids]
    BY <1>0, <1>2 DEF TypeOK
  <2> QED
    BY <1>0, <1>2, <2>1, <2>2, <2>3 DEF TypeOK
<1>5. ServerInv'
  <2>1. \A i \in Ids : owner'[i] = Freed <=> i \in sn_freedIDs'
    BY <1>0, <1>1, <1>2, <1>3, PoolAssumption DEF ServerInv, NoIdIsLost
  <2>2. \A i \in Ids : owner'[i] \in Users => owner'[i] \in online'
    BY <1>0, <1>1, <1>2, <1>3, PoolAssumption DEF ServerInv, NoIdIsLost
  <2>3. \A i \in objects' : owner'[i] # Freed
    BY <1>0, <1>2, <1>3, PoolAssumption DEF ServerInv, TypeOK
  <2> QED
    BY <1>9, <2>1, <2>2, <2>3 DEF ServerInv, NoIdIsLost
<1>6. UserInv(u)'
  <2>1. /\ destroys'[u] = destroys[u] \ {id} /\ Reserved(u)' = Reserved(u)
        /\ Orders(u)' = IF there THEN Orders(u) ELSE Orders(u) \cup {id}
    BY <1>0, <1>2 DEF TypeOK, Reserved, Orders
  <2>2. id \notin Reserved(u) /\ id \notin own[u]
    BY <1>0 DEF UserInv, Apart
  <2>3. id \notin unsent[u] /\ (there => id \notin creates[u])
    BY <1>0 DEF UserInv, Apart, Held
  <2>4. /\ Reserved(u) \subseteq Ids /\ own[u] \subseteq Ids /\ unsent[u] \subseteq Ids
        /\ creates[u] \subseteq Ids /\ destroys[u] \subseteq Ids /\ objects \subseteq Ids
    BY <1>0, AllOwned DEF TypeOK
  <2>5. Apart(u)'
    BY <1>0, <1>2, <2>1, <2>2 DEF UserInv, Apart
  <2>6. Held(u)'
    <3>1. /\ \A i \in Reserved(u)' : owner'[i] = u /\ i \notin objects
          /\ \A i \in creates[u] \cup unsent[u] : owner'[i] = u /\ i \notin objects
      BY <1>0, <1>3, <2>1, <2>2, <2>3, <2>4 DEF UserInv, Held
    <3>2. \A i \in creates[u] : i \in own[u] \cup destroys'[u] \cup Orders(u)'
      BY <1>0, <2>1, <2>3 DEF UserInv, Held
    <3>3. \A i \in own[u] \ (unsent[u] \cup creates[u]) : i \in objects /\ owner'[i] = u
      BY <1>0, <1>3, <2>2, <2>4 DEF UserInv, Held
    <3>4. \A i \in destroys'[u] : owner'[i] = u
      BY <1>0, <1>3, <2>1, <2>4 DEF UserInv, Held
    <3>5. \A i \in objects : owner'[i] = u =>
            IF i \in kept' \cup deleted' THEN i \notin own[u] \cup destroys'[u]
                                      ELSE i \in own[u] \cup destroys'[u]
      <4>1. ASSUME NEW i \in objects, i # id, owner'[i] = u
            PROVE  IF i \in kept' \cup deleted' THEN i \notin own[u] \cup destroys'[u]
                                             ELSE i \in own[u] \cup destroys'[u]
        <5>1. owner[i] = u
          BY <1>3, <2>4, <4>1
        <5>2. i \in kept' \cup deleted' <=> i \in kept \cup deleted
          BY <1>9, <4>1
        <5> QED
          BY <1>0, <2>1, <4>1, <5>1, <5>2 DEF UserInv, Held
      <4>2. there => id \in kept' \cup deleted' /\ id \notin own[u] \cup destroys'[u]
        BY <1>9, <2>1, <2>2
      <4> QED
        BY <4>1, <4>2
    <3> QED
      BY <1>2, <3>1, <3>2, <3>3, <3>4, <3>5 DEF Held
  <2>7. Served(u)'
    BY <1>0, <1>2 DEF UserInv, Served
  <2> QED
    BY <2>5, <2>6, <2>7 DEF UserInv
<1>7. ASSUME NEW v \in Users \ {u} PROVE UserInv(v)'
  <2>1. \A i \in Ids : owner'[i] = v <=> owner[i] = v
    BY <1>1, <1>3, PoolAssumption
  <2>2. destroys'[v] = destroys[v] /\ objects' \subseteq Ids
    BY <1>0, <1>2 DEF TypeOK
  <2>5. \A i \in Ids : owner[i] = v => (i \in kept' \cup deleted' <=> i \in kept \cup deleted)
    BY <1>1, <1>9
  <2>3. \A i \in Ids : <<i, v>> \in sn_Destroyed' <=> <<i, v>> \in sn_Destroyed
    BY <1>2
  <2>4. \A i \in creates[v] : <<i, v>> \in sn_Destroyed => <<i, v>> \in sn_Destroyed'
    BY <1>2
  <2> QED
    BY <1>0, <1>2, <2>1, <2>2, <2>3, <2>4, <2>5, Bystander
<1> QED
  BY <1>4, <1>5, <1>6, <1>7 DEF IInv

-----------------------------------------------------------------------------
(* Theorems *)

LEMMA StutterInv == ASSUME IInv, UNCHANGED vars PROVE IInv'
<1>1. TypeOK' /\ ServerInv'
  BY DEF IInv, TypeOK, ServerInv, NoIdIsLost, vars, serverVars, clientVars, messageVars
<1>2. ASSUME NEW v \in Users PROVE UserInv(v)'
  BY DEF IInv, UserInv, Apart, Held, Served, Reserved, Orders, vars, serverVars, clientVars, messageVars
<1> QED
  BY <1>1, <1>2 DEF IInv

LEMMA NextInv == ASSUME IInv, [Next]_vars PROVE IInv'
<1>1. ASSUME NEW id \in Ids, CreateObject(id) \/ DestroyObject(id) \/ ForgetDeleted(id) PROVE IInv'
  BY <1>1, CreateObjectInv, DestroyObjectInv, ForgetDeletedInv
<1>2. ASSUME KillIdHog PROVE IInv'
  BY <1>2, KillIdHogInv
<1>3. ASSUME NEW o \in sn_Destroyed, OrderTimesOut(o) PROVE IInv'
  BY <1>3, OrderTimesOutInv
<1>4. ASSUME NEW u \in Users, NEW n \in Sizes, HandleRequest(u, n) \/ RunOut(u, n) PROVE IInv'
  BY <1>4, HandleRequestInv, RunOutInv
<1>5. ASSUME NEW u \in Users, NEW id \in Ids, HandleCreate(u, id) \/ HandleDestroy(u, id) PROVE IInv'
  BY <1>5, HandleCreateInv, HandleDestroyInv
<1>6. ASSUME NEW u \in Users, Login(u) \/ Logout(u) \/ AskForId(u) \/ TakeId(u) PROVE IInv'
  BY <1>6, LoginInv, LogoutInv, AskForIdInv, TakeIdInv
<1>7. ASSUME NEW u \in Users, NEW S \in replies[u], HandleReply(u, S) PROVE IInv'
  BY <1>7, HandleReplyInv
<1>8. ASSUME NEW u \in Users, NEW id \in own[u], SendCreate(u, id) \/ DestroyOwn(u, id) PROVE IInv'
  BY <1>8, SendCreateInv, DestroyOwnInv
<1>9. ASSUME UNCHANGED vars PROVE IInv'
  BY <1>9, StutterInv
<1> QED
  BY <1>1, <1>2, <1>3, <1>4, <1>5, <1>6, <1>7, <1>8, <1>9 DEF Next, ServerNext, ClientNext

LEMMA Inductive == Spec => []IInv
<1>1. IInv /\ [Next]_vars => IInv'
  BY NextInv
<1> QED
  BY InitInv, <1>1, PTL DEF Spec

\* Every variable keeps its type, and req_id_handler never runs over the client's ring.
THEOREM IdTypes == Spec => []TypeOK
<1>1. IInv => TypeOK
  BY DEF IInv
<1> QED
  BY Inductive, <1>1, PTL

\* An id in a client's hands is reserved for it on the server and in use nowhere.
THEOREM ReservedIsFreeHolds == Spec => []ReservedIsFree
<1>1. IInv => ReservedIsFree
  BY DEF IInv, UserInv, Held, Apart, ReservedIsFree
<1> QED
  BY Inductive, <1>1, PTL

\* The server never takes a client that plays by the rules for a cheater when the client
\* creates an object.
THEOREM CreationIsAcceptedHolds == Spec => []CreationIsAccepted
<1>1. IInv => CreationIsAccepted
  BY DEF IInv, UserInv, Held, CreationIsAccepted
<1> QED
  BY Inductive, <1>1, PTL

\* The server has the objects of its clients, though creations and orders to destroy
\* overtake each other; and what else it has in a client's name is about to be destroyed by
\* the client, or was kept when it was.
THEOREM OwnIsThereHolds == Spec => []OwnIsThere
<1>1. IInv => OwnIsThere
  BY DEF IInv, UserInv, Held, OwnIsThere
<1> QED
  BY Inductive, <1>1, PTL

\* The queue of freed ids and the table of owners agree, and who leaves leaves its ids.
THEOREM NoIdIsLostHolds == Spec => []NoIdIsLost
<1>1. IInv => NoIdIsLost
  BY DEF IInv, ServerInv
<1> QED
  BY Inductive, <1>1, PTL

\* A client without ids is about to get some.
THEOREM EmptyRingIsServedHolds == Spec => []EmptyRingIsServed
<1>1. IInv => EmptyRingIsServed
  BY DEF IInv, TypeOK, UserInv, Served, EmptyRingIsServed
<1> QED
  BY Inductive, <1>1, PTL

-----------------------------------------------------------------------------
(***************************************************************************)
(* IdPool implements IdLeases: the initial states are initial states, and  *)
(* every step is a step there, or none.                                    *)
(***************************************************************************)

LeasedTo == [u \in Users |-> Assigned(u)]
FreshOf == [u \in Users |-> Reserved(u)]
SeenOf == [u \in Users |-> Seen(u)]

\* What is of interest does not change.
LEMMA NothingShown ==
  ASSUME TypeOK, TypeOK', UNCHANGED <<online, owner, objects, deleted, ring, replies, own>>
  PROVE  UNCHANGED Leases!leases
  BY DEF Leases!leases, Servers, Assigned, Reserved, Seen

LEMMA TakeIdUses ==
  ASSUME IInv, IInv', NEW u \in Users, TakeId(u) PROVE Leases!Use(u)
<1> DEFINE r == ring[u]
           id == Head(r)
<1>1. /\ TypeOK /\ TypeOK' /\ UserInv(u) /\ UserInv(u)'
      /\ UNCHANGED <<owner, objects, deleted, online, replies>>
      /\ ring' = [ring EXCEPT ![u] = Tail(r)] /\ own' = [own EXCEPT ![u] = own[u] \cup {id}]
  BY DEF IInv, TakeId, serverVars, messageVars
<1>2. r \in Seq(Ids) /\ r # <<>>
  BY <1>1 DEF TakeId, TypeOK
<1>3. /\ \A i \in DOMAIN Tail(r) : Tail(r)[i] = r[i + 1] /\ i + 1 \in DOMAIN r /\ i + 1 # 1
      /\ 1 \in DOMAIN r /\ id = r[1]
      /\ \A i \in DOMAIN r : i = 1 \/ (i - 1 \in DOMAIN Tail(r) /\ Tail(r)[i - 1] = r[i])
  BY <1>2
<1>4. id \in IdsIn(r) /\ IdsIn(Tail(r)) = IdsIn(r) \ {id}
  <2>1. \A i, j \in DOMAIN r : r[i] = r[j] => i = j
    BY <1>1 DEF UserInv, Apart
  <2>2. id \in IdsIn(r) /\ id \notin IdsIn(Tail(r)) /\ IdsIn(Tail(r)) \subseteq IdsIn(r)
    BY <1>3, <2>1 DEF IdsIn
  <2>3. ASSUME NEW x \in IdsIn(r), x # id PROVE x \in IdsIn(Tail(r))
    BY <1>3, <2>3 DEF IdsIn
  <2> QED
    BY <2>2, <2>3
<1>5. \A S \in replies[u] : id \notin S
  BY <1>1, <1>3 DEF UserInv, Apart
<1>6. Reserved(u)' = Reserved(u) \ {id} /\ id \in Reserved(u)
  BY <1>1, <1>4, <1>5 DEF Reserved, TypeOK
<1>7. \A v \in Users \ {u} : Reserved(v)' = Reserved(v)
  BY <1>1 DEF Reserved, TypeOK
<1>8. FreshOf' = Leases!Less(FreshOf, u, {id})
  BY <1>6, <1>7 DEF FreshOf, Leases!Less
<1>9. own' = Leases!With(own, u, {id})
  BY <1>1 DEF Leases!With
<1>10. UNCHANGED <<online, Servers, LeasedTo, SeenOf>>
  BY <1>1 DEF Servers, LeasedTo, Assigned, SeenOf, Seen
<1>11. id \in FreshOf[u]
  BY <1>6 DEF FreshOf
<1> QED
  BY <1>8, <1>9, <1>10, <1>11 DEF Leases!Use, FreshOf, LeasedTo, SeenOf

\* What u does to its own objects and messages, besides, only it can see.
LEMMA ClientShows ==
  ASSUME IInv, IInv', NEW u \in Users,
         \/ Login(u) \/ AskForId(u)
         \/ \E id \in own[u] : SendCreate(u, id) \/ DestroyOwn(u, id)
  PROVE  UNCHANGED Leases!leases \/ Leases!Enter(u) \/ Leases!Drop(u)
<1>1. /\ TypeOK /\ UNCHANGED <<owner, objects, deleted, ring, replies>>
      /\ UNCHANGED <<Servers, LeasedTo, FreshOf, SeenOf>>
  BY DEF IInv, Login, AskForId, SendCreate, DestroyOwn, serverVars, messageVars,
         Servers, LeasedTo, Assigned, FreshOf, Reserved, SeenOf, Seen
<1>2. CASE Login(u)
  BY <1>1, <1>2 DEF Login, Leases!Enter, LeasedTo, FreshOf, SeenOf
<1>3. CASE AskForId(u)
  BY <1>1, <1>3 DEF AskForId, Leases!leases, LeasedTo, FreshOf, SeenOf
<1>4. CASE \E id \in own[u] : SendCreate(u, id)
  BY <1>1, <1>4 DEF SendCreate, Leases!leases, LeasedTo, FreshOf, SeenOf
<1>5. CASE \E id \in own[u] : DestroyOwn(u, id)
  <2> PICK id \in own[u] : own' = [own EXCEPT ![u] = own[u] \ {id}] /\ online' = online
    BY <1>5 DEF DestroyOwn
  <2>1. own' = Leases!Less(own, u, {id})
    BY DEF Leases!Less
  <2> QED
    BY <1>1, <2>1 DEF Leases!Drop, LeasedTo, FreshOf, SeenOf
<1> QED
  BY <1>2, <1>3, <1>4, <1>5

\* The ids that find no room in the ring are wasted.
LEMMA HandleReplyWastes ==
  ASSUME IInv, IInv', NEW u \in Users, NEW S \in replies[u], HandleReply(u, S)
  PROVE  Leases!Waste(u)
<1> DEFINE r == ring[u]
           k == IF Cardinality(S) > Room(u) THEN Room(u) ELSE Cardinality(S)
<1>1. /\ TypeOK /\ TypeOK' /\ UserInv(u)
      /\ replies' = [replies EXCEPT ![u] = replies[u] \ {S}]
      /\ UNCHANGED <<owner, objects, deleted, online, own>>
  BY DEF IInv, HandleReply, serverVars
<1>all. S \ own[u] = S
  BY <1>1 DEF UserInv, Apart, Reserved
<1> PICK s \in [1 .. k -> S] : /\ \A i, j \in DOMAIN s : s[i] = s[j] => i = j
                               /\ ring' = [ring EXCEPT ![u] = r \o s]
  BY <1>all DEF HandleReply
<1>2. /\ r \in Seq(Ids) /\ Len(r) < Prefetch /\ S \in SUBSET Ids /\ Cardinality(S) \in Nat
  BY <1>1, FS_CardinalityType DEF TypeOK, UserInv, Served
<1>3. k \in Nat
  BY <1>2, PoolAssumption DEF Room
<1>4. \A i \in DOMAIN (r \o s) : (r \o s)[i] \in IdsIn(r) \cup S
  <2>1. /\ \A i, j \in DOMAIN r : r[i] = r[j] => i = j
        /\ \A i \in DOMAIN r : r[i] \notin S
    BY <1>1 DEF UserInv, Apart
  <2> HIDE DEF k, r
  <2> QED
    BY <1>2, <1>3, <2>1, Filled
<1>5. IdsIn(ring'[u]) \subseteq IdsIn(r) \cup S /\ replies'[u] = replies[u] \ {S}
  BY <1>1, <1>4 DEF IdsIn, TypeOK
<1>6. Reserved(u)' \subseteq Reserved(u)
  BY <1>5 DEF Reserved
<1>7. \A v \in Users \ {u} : Reserved(v)' = Reserved(v)
  BY <1>1 DEF Reserved, TypeOK
<1> DEFINE W == Reserved(u) \ Reserved(u)'
<1>8. FreshOf' = Leases!Less(FreshOf, u, W) /\ W \in SUBSET FreshOf[u]
  BY <1>6, <1>7 DEF FreshOf, Leases!Less
<1>9. UNCHANGED <<Servers, LeasedTo, SeenOf>>
  BY <1>1 DEF Servers, LeasedTo, Assigned, SeenOf, Seen
<1> QED
  BY <1>1, <1>8, <1>9 DEF Leases!Waste, FreshOf, LeasedTo, SeenOf

LEMMA OrderTimesOutShows ==
  ASSUME IInv, IInv', NEW o \in sn_Destroyed, OrderTimesOut(o) PROVE UNCHANGED Leases!leases
  BY NothingShown DEF IInv, OrderTimesOut, clientVars, messageVars
-----------------------------------------------------------------------------
(* The server's steps are steps of the leases *)

LEMMA InitLeases == Init => Leases!Init
<1> SUFFICES ASSUME Init PROVE Leases!Init
  OBVIOUS
<1>1. Servers = {} /\ \A u \in Users : Assigned(u) = {} /\ Reserved(u) = {} /\ Seen(u) = {}
  BY PoolAssumption DEF Init, Servers, Assigned, Reserved, IdsIn, Seen
<1> QED
  BY <1>1 DEF Init, Leases!Init

\* An id that is nobody's and has no object is held by nobody.
LEMMA FreeIsNotHeld ==
  ASSUME TypeOK, NEW id \in Ids, owner[id] \notin Users, id \notin objects
  PROVE  id \in Ids \ Leases!Held
  BY DEF Leases!Held, Servers, Assigned

LEMMA CreateObjectMakes ==
  ASSUME IInv, IInv', NEW id \in Ids, CreateObject(id) PROVE Leases!Make
<1>1. /\ TypeOK /\ TypeOK' /\ ServerInv
      /\ objects' = objects \cup {id}
      /\ UNCHANGED <<deleted, sn_Destroyed, online, ring, own, replies>>
  BY DEF IInv, CreateObject, clientVars, messageVars
<1>2. /\ owner'[id] = Server /\ owner[id] \notin Users /\ id \notin objects
      /\ \A i \in Ids \ {id} : \A v \in Users : owner'[i] = v <=> owner[i] = v
      /\ \A i \in Ids \ {id} : owner[i] # Freed => owner'[i] = owner[i]
  <2>1. {id} \in SUBSET Ids /\ Server \in Users \cup {Server} /\ NextFree({id}, Server)
    BY DEF CreateObject
  <2> QED
    BY <1>1, <2>1, NextFreeGives
<1>3. Servers' = Servers \cup {id}
  BY <1>1, <1>2 DEF Servers, TypeOK, ServerInv
<1>4. UNCHANGED <<LeasedTo, FreshOf, SeenOf>>
  <2>1. \A i \in Ids : \A v \in Users : owner'[i] = v <=> owner[i] = v
    BY <1>2, PoolAssumption
  <2>2. \A v \in Users : Assigned(v)' = Assigned(v)
    BY <2>1 DEF Assigned
  <2>3. \A v \in Users : Seen(v)' = Seen(v)
    BY <1>1, <1>2, <2>1 DEF Seen, TypeOK
  <2>4. \A v \in Users : Reserved(v)' = Reserved(v)
    BY <1>1 DEF Reserved
  <2> QED
    BY <2>2, <2>3, <2>4 DEF LeasedTo, FreshOf, SeenOf
<1>5. id \in Ids \ Leases!Held
  BY <1>1, <1>2, FreeIsNotHeld
<1> QED
  BY <1>1, <1>3, <1>4, <1>5 DEF Leases!Make, LeasedTo, FreshOf, SeenOf

LEMMA DestroyObjectShows ==
  ASSUME IInv, IInv', NEW id \in Ids, DestroyObject(id) PROVE Leases!Destroy
<1>1. /\ TypeOK /\ id \in objects \ deleted /\ owner[id] = Server
      /\ objects' = objects \ {id} /\ owner' = [owner EXCEPT ![id] = Freed]
      /\ UNCHANGED <<deleted, online, ring, own, replies>>
  BY DEF IInv, DestroyObject, clientVars, messageVars
<1>2. Servers' = Servers \ {id} /\ id \in Servers
  BY <1>1 DEF Servers, TypeOK
<1>3. UNCHANGED <<LeasedTo, FreshOf, SeenOf>>
  BY <1>1, PoolAssumption DEF LeasedTo, Assigned, FreshOf, Reserved, SeenOf, Seen, TypeOK
<1> QED
  BY <1>1, <1>2, <1>3 DEF Leases!Destroy, LeasedTo, FreshOf, SeenOf

\* The id of a legacy spectator is its client's until then.
LEMMA ForgetDeletedShows ==
  ASSUME IInv, IInv', NEW id \in Ids, ForgetDeleted(id)
  PROVE  UNCHANGED Leases!leases \/ \E u \in Users : Leases!End(u)
<1>1. /\ TypeOK /\ id \in objects /\ id \in deleted /\ deleted' = deleted \ {id}
      /\ objects' = objects \ {id} /\ owner' = [owner EXCEPT ![id] = Freed]
      /\ UNCHANGED <<online, ring, own, replies>> /\ owner[id] \in Users \cup {Server}
  BY DEF IInv, ServerInv, ForgetDeleted, clientVars, messageVars, TypeOK
<1>2. Servers' = Servers
  BY <1>1 DEF Servers, TypeOK
<1>3. CASE owner[id] = Server
  <2>1. UNCHANGED <<LeasedTo, FreshOf, SeenOf>>
    BY <1>1, <1>3, PoolAssumption DEF LeasedTo, Assigned, FreshOf, Reserved, SeenOf, Seen, TypeOK
  <2> QED
    BY <1>1, <1>2, <2>1 DEF Leases!leases, LeasedTo, FreshOf, SeenOf
<1>4. CASE owner[id] \in Users
  <2> PICK u \in Users : owner[id] = u
    BY <1>4
  <2>1. id \notin Reserved(u) \cup own[u]
    BY <1>1, <1>4 DEF IInv, UserInv, Held
  <2>2. \A v \in Users : Reserved(v)' = Reserved(v)
    BY <1>1 DEF Reserved
  <2>3. Assigned(u)' = Assigned(u) \ {id} /\ \A v \in Users \ {u} : Assigned(v)' = Assigned(v)
    BY <1>1, <1>4, PoolAssumption DEF Assigned, TypeOK
  <2>4. Seen(u)' = Seen(u) \ {id} /\ \A v \in Users \ {u} : Seen(v)' = Seen(v)
    BY <1>1, <1>4, PoolAssumption DEF Seen, TypeOK
  <2>5. id \in LeasedTo[u] \ (FreshOf[u] \cup own[u])
    BY <1>4, <2>1 DEF LeasedTo, Assigned, FreshOf
  <2>6. /\ LeasedTo' = Leases!Less(LeasedTo, u, {id})
        /\ SeenOf' = Leases!Less(SeenOf, u, {id})
        /\ FreshOf' = FreshOf
    BY <1>4, <2>2, <2>3, <2>4 DEF LeasedTo, SeenOf, FreshOf, Leases!Less
  <2>7. Leases!End(u)
    BY <1>1, <1>2, <2>5, <2>6 DEF Leases!End, LeasedTo, FreshOf, SeenOf
  <2> QED
    BY <2>7
<1> QED
  BY <1>1, <1>3, <1>4

\* Who is thrown out, or leaves, gives all its ids back.
LEMMA KickLeaves ==
  ASSUME IInv, IInv', NEW u \in online, NEW R \in SUBSET sn_freedIDs,
         ClearKnows(u, R), Gone(u)
  PROVE  u \in Users /\ Leases!Leave(u)
<1> PICK D \in SUBSET {id \in objects \ (kept \cup deleted) : owner[id] = u} :
         /\ owner' = Released(u, R, D)
         /\ objects' = objects \ D
         /\ deleted' = deleted \cup KeptFor(u)
  BY DEF ClearKnows
<1>1. u \in Users /\ TypeOK /\ ServerInv
  BY DEF IInv, TypeOK
<1>2. \A id \in Ids : owner'[id] = IF id \in D THEN Freed
                                   ELSE IF owner[id] = u \/ id \in R THEN Server ELSE owner[id]
  BY DEF Released
<1>3. \A id \in R : owner[id] = Freed /\ id \notin objects
  BY <1>1 DEF ServerInv, NoIdIsLost, TypeOK
<1>4. \A id \in KeptFor(u) : owner[id] = u
  BY DEF KeptFor
<1> DEFINE K == Seen(u) \ (D \cup deleted')
<1>5. Servers' = Servers \cup K /\ K \in SUBSET SeenOf[u]
  BY <1>1, <1>2, <1>3, <1>4, PoolAssumption DEF Servers, Seen, SeenOf, TypeOK
<1>6. Assigned(u)' = {} /\ Seen(u)' = {}
  <2>1. \A id \in Ids : owner'[id] # u
    BY <1>1, <1>2, PoolAssumption
  <2> QED
    BY <1>1, <2>1 DEF Assigned, Seen, TypeOK
<1>7. Reserved(u)' = {} /\ own' = [own EXCEPT ![u] = {}] /\ online' = online \ {u}
  BY <1>1 DEF Gone, Reserved, IdsIn, TypeOK
<1>8. ASSUME NEW v \in Users \ {u}
      PROVE  Assigned(v)' = Assigned(v) /\ Reserved(v)' = Reserved(v) /\ Seen(v)' = Seen(v)
  <2>1. \A id \in Ids : owner'[id] = v <=> owner[id] = v
    BY <1>2, <1>3, PoolAssumption
  <2>2. Assigned(v)' = Assigned(v)
    BY <2>1 DEF Assigned
  <2>3. Seen(v)' = Seen(v)
    BY <1>1, <2>1 DEF Seen, TypeOK
  <2>4. Reserved(v)' = Reserved(v)
    BY <1>1 DEF Reserved, Gone, TypeOK
  <2> QED
    BY <2>2, <2>3, <2>4
<1>9. /\ LeasedTo' = [LeasedTo EXCEPT ![u] = {}]
      /\ FreshOf' = [FreshOf EXCEPT ![u] = {}]
      /\ SeenOf' = [SeenOf EXCEPT ![u] = {}]
  BY <1>6, <1>7, <1>8 DEF LeasedTo, FreshOf, SeenOf
<1> HIDE DEF K
<1> QED
  BY <1>1, <1>5, <1>7, <1>9 DEF Leases!Leave, LeasedTo, FreshOf, SeenOf

LEMMA LogoutLeaves == ASSUME IInv, IInv', NEW u \in Users, Logout(u) PROVE Leases!Leave(u)
  BY KickLeaves DEF Logout

LEMMA RunOutLeaves ==
  ASSUME IInv, IInv', NEW u \in Users, NEW n \in Sizes, RunOut(u, n) PROVE Leases!Leave(u)
<1>1. u \in online
  BY DEF RunOut, IInv, UserInv, Served
<1>2. PICK R \in SUBSET sn_freedIDs : ClearKnows(u, R)
  BY DEF RunOut
<1> QED
  BY <1>1, <1>2, KickLeaves DEF RunOut

\* Who has so many ids is here.
LEMMA KillIdHogLeaves ==
  ASSUME IInv, IInv', KillIdHog
  PROVE  UNCHANGED Leases!leases \/ \E u \in Users : Leases!Leave(u)
<1> DEFINE grabbers == {u \in Users : Grabbed(u) > HogLimit}
           users == {u \in Users : Used(u) > 0}
           worst == IF grabbers # {}
                    THEN {u \in grabbers : \A v \in grabbers : Grabbed(u) >= Grabbed(v)}
                    ELSE {u \in users : \A v \in users : Used(u) >= Used(v)}
<1>1. /\ TypeOK /\ TypeOK' /\ ServerInv
      /\ IF worst = {}
         THEN UNCHANGED <<owner, objects, kept, deleted, sn_freedIDs, clientVars, messageVars>>
         ELSE \E u \in worst : ClearKnows(u, {}) /\ Gone(u)
  BY DEF IInv, KillIdHog
<1>2. \A u \in worst : u \in Users /\ (Grabbed(u) > 0 \/ Used(u) > 0)
  <2>1. ASSUME NEW u \in Users, Grabbed(u) > HogLimit PROVE Grabbed(u) > 0
    <3>1. Grabbed(u) \in Nat
      <4>1. IsFiniteSet({id \in Ids \ objects : owner[id] = u})
        BY PoolAssumption, FS_Subset
      <4> QED
        BY <4>1, FS_CardinalityType DEF Grabbed
    <3> QED
      BY <2>1, <3>1, PoolAssumption
  <2> QED
    BY <2>1
<1> HIDE DEF worst
<1>3. \A u \in worst : u \in online
  <2> SUFFICES ASSUME NEW u \in worst PROVE \E id \in Ids : owner[id] = u
    BY <1>1, <1>2 DEF ServerInv, NoIdIsLost
  <2>1. Cardinality({}) = 0
    BY FS_EmptySet
  <2>2. \/ {id \in Ids \ objects : owner[id] = u} # {}
        \/ {id \in objects : owner[id] = u} # {}
    BY <1>2, <2>1 DEF Grabbed, Used
  <2> QED
    BY <1>1, <2>2 DEF TypeOK
<1>4. CASE worst = {}
  BY <1>1, <1>4, NothingShown DEF clientVars, messageVars
<1>5. CASE worst # {}
  BY <1>1, <1>2, <1>3, <1>5, KickLeaves
<1> QED
  BY <1>4, <1>5

-----------------------------------------------------------------------------
(* A lease begins, the server sees what became of it, and it ends *)

\* u's lease of id is over: the server keeps the object for a while, as its own.
LEMMA Ends ==
  ASSUME IInv, IInv', NEW u \in Users, NEW id \in Ids, owner[id] = u,
         id \notin Reserved(u) \cup own[u],
         NEW K, K \subseteq KeptFor(u), Delete({id}, K),
         objects' = objects \cup {id}, UNCHANGED <<online, ring, own, replies>>
  PROVE  Leases!End(u)
<1>1. /\ TypeOK /\ \A i \in Ids : owner'[i] = IF i = id THEN Server ELSE owner[i]
      /\ deleted' = deleted \cup {id} \cup K /\ \A i \in K : owner[i] = u
  BY DEF IInv, Delete, KeptFor
<1>2. Servers' = Servers
  BY <1>1, PoolAssumption DEF Servers, TypeOK
<1>3. \A v \in Users : Reserved(v)' = Reserved(v)
  BY DEF Reserved
<1>4. Assigned(u)' = Assigned(u) \ {id} /\ \A v \in Users \ {u} : Assigned(v)' = Assigned(v)
  BY <1>1, PoolAssumption DEF Assigned
<1>5. Seen(u)' = Seen(u) \ {id} /\ \A v \in Users \ {u} : Seen(v)' = Seen(v)
  BY <1>1, PoolAssumption DEF Seen, TypeOK
<1>6. /\ LeasedTo' = Leases!Less(LeasedTo, u, {id})
      /\ SeenOf' = Leases!Less(SeenOf, u, {id})
      /\ FreshOf' = FreshOf
  BY <1>3, <1>4, <1>5 DEF LeasedTo, SeenOf, FreshOf, Leases!Less
<1>7. id \in LeasedTo[u] \ (FreshOf[u] \cup own[u])
  BY DEF LeasedTo, Assigned, FreshOf
<1> QED
  BY <1>2, <1>6, <1>7 DEF Leases!End, LeasedTo, FreshOf, SeenOf

LEMMA HandleRequestLeases ==
  ASSUME IInv, IInv', NEW u \in Users, NEW n \in Sizes, HandleRequest(u, n) PROVE Leases!Lease(u)
<1> PICK S \in SUBSET Ids : /\ NextFree(S, u)
                            /\ replies' = [replies EXCEPT ![u] = @ \cup {S}]
  BY DEF HandleRequest
<1>1. /\ TypeOK /\ ServerInv /\ u \in online
      /\ UNCHANGED <<objects, deleted, online, ring, own>>
  BY DEF IInv, UserInv, Served, HandleRequest, clientVars
<1>2. /\ \A id \in S : owner'[id] = u
      /\ \A id \in S : owner[id] \notin Users /\ id \notin objects
      /\ \A id \in Ids \ S : \A v \in Users : owner'[id] = v <=> owner[id] = v
      /\ \A id \in Ids \ S : owner[id] # Freed => owner'[id] = owner[id]
  BY <1>1, NextFreeGives
<1>3. Servers' = Servers
  BY <1>1, <1>2, PoolAssumption DEF Servers, TypeOK, ServerInv
<1>4. Reserved(u)' = Reserved(u) \cup S /\ \A v \in Users \ {u} : Reserved(v)' = Reserved(v)
  BY <1>1 DEF Reserved, TypeOK
<1>5. Assigned(u)' = Assigned(u) \cup S /\ \A v \in Users \ {u} : Assigned(v)' = Assigned(v)
  BY <1>2 DEF Assigned
<1>6. \A v \in Users : Seen(v)' = Seen(v)
  BY <1>1, <1>2 DEF Seen, TypeOK
<1>7. /\ LeasedTo' = Leases!With(LeasedTo, u, S)
      /\ FreshOf' = Leases!With(FreshOf, u, S)
      /\ SeenOf' = SeenOf
  BY <1>4, <1>5, <1>6 DEF LeasedTo, SeenOf, FreshOf, Leases!With
<1>8. S \in SUBSET (Ids \ Leases!Held)
  BY <1>1, <1>2, FreeIsNotHeld
<1> QED
  BY <1>1, <1>3, <1>7, <1>8 DEF Leases!Lease, LeasedTo, FreshOf, SeenOf

LEMMA HandleCreateSees ==
  ASSUME IInv, IInv', NEW u \in Users, NEW id \in Ids, HandleCreate(u, id)
  PROVE  Leases!See(u) \/ Leases!End(u)
<1>1. /\ TypeOK /\ UserInv(u) /\ ServerInv /\ id \in creates[u]
      /\ owner[id] = u /\ id \notin objects
  BY DEF IInv, HandleCreate, UserInv, Held
<1>2. objects' = objects \cup {id} /\ UNCHANGED <<online, ring, own, replies>>
  BY <1>1 DEF HandleCreate, clientVars
<1> PICK K \in {{}, KeptFor(u)} : Delete(IF <<id, u>> \in sn_Destroyed THEN {id} ELSE {}, K)
  BY <1>1 DEF HandleCreate
<1>6. K \subseteq KeptFor(u)
  OBVIOUS
<1>3. id \notin Reserved(u)
  BY <1>1 DEF UserInv, Apart
<1>4. CASE <<id, u>> \in sn_Destroyed
  <2>1. id \notin own[u]
    BY <1>1, <1>4 DEF UserInv, Apart, Orders
  <2> QED
    BY <1>1, <1>2, <1>3, <1>4, <1>6, <2>1, Ends
<1>5. CASE <<id, u>> \notin sn_Destroyed
  <2>0. /\ \A i \in Ids : owner'[i] = owner[i]
        /\ deleted' = deleted \cup K /\ \A i \in K : owner[i] = u
    BY <1>5, <1>6 DEF Delete, KeptFor
  <2>1. Servers' = Servers
    BY <1>1, <1>2, <2>0, PoolAssumption DEF Servers, TypeOK
  <2>2. Seen(u)' = Seen(u) \cup {id} /\ \A v \in Users \ {u} : Seen(v)' = Seen(v)
    BY <1>1, <1>2, <2>0 DEF Seen, TypeOK
  <2>3. SeenOf' = Leases!With(SeenOf, u, {id})
    BY <2>2 DEF SeenOf, Leases!With
  <2>4. UNCHANGED <<LeasedTo, FreshOf>>
    BY <1>2, <2>0 DEF LeasedTo, Assigned, FreshOf, Reserved
  <2>5. id \in LeasedTo[u] \ (FreshOf[u] \cup SeenOf[u])
    BY <1>1, <1>3 DEF LeasedTo, Assigned, FreshOf, SeenOf, Seen
  <2> QED
    BY <1>2, <2>1, <2>3, <2>4, <2>5 DEF Leases!See, LeasedTo, FreshOf, SeenOf
<1> QED
  BY <1>4, <1>5

\* A deletion that is undone ends no lease.
LEMMA HandleDestroyEnds ==
  ASSUME IInv, IInv', NEW u \in Users, NEW id \in Ids, HandleDestroy(u, id)
  PROVE  Leases!End(u) \/ UNCHANGED Leases!leases
<1>1. /\ TypeOK /\ TypeOK' /\ UserInv(u) /\ id \in destroys[u] /\ owner[id] = u
      /\ id \in objects => ~Owned(id)
  BY PoolAssumption DEF IInv, HandleDestroy, UserInv, Held, Owned
<1>2. /\ UNCHANGED <<objects, online, ring, own, replies>>
      /\ IF id \in objects THEN Delete({id}, {}) \/ Undo(u, id)
                          ELSE UNCHANGED <<owner, kept, deleted>>
  BY <1>1 DEF HandleDestroy, clientVars
<1>3. id \notin Reserved(u) \cup own[u]
  BY <1>1 DEF UserInv, Apart
<1>4. CASE id \in objects /\ Delete({id}, {})
  <2>1. objects' = objects \cup {id} /\ {} \subseteq KeptFor(u)
    BY <1>2, <1>4
  <2> QED
    BY <1>1, <1>2, <1>3, <1>4, <2>1, Ends
<1>5. CASE id \notin objects
  BY <1>1, <1>2, <1>5, NothingShown
<1>6. CASE id \in objects /\ Undo(u, id)
  <2>1. owner' = owner /\ deleted' = deleted \cup KeptFor(u) /\ \A i \in KeptFor(u) : owner[i] = u
    BY <1>6 DEF Undo, KeptFor
  <2>2. Servers' = Servers
    BY <1>1, <1>2, <2>1, PoolAssumption DEF Servers, TypeOK
  <2> QED
    BY <1>2, <2>1, <2>2 DEF Leases!leases, Assigned, Reserved, Seen
<1> QED
  BY <1>2, <1>4, <1>5, <1>6

LEMMA StepLeases ==
  ASSUME IInv, IInv', [Next]_vars PROVE [Leases!Next]_(Leases!leases)
<1> USE DEF Leases!Next
<1>1. ASSUME NEW id \in Ids, CreateObject(id) \/ DestroyObject(id) \/ ForgetDeleted(id)
      PROVE  [Leases!Next]_(Leases!leases)
  BY <1>1, CreateObjectMakes, DestroyObjectShows, ForgetDeletedShows
<1>2. ASSUME KillIdHog PROVE [Leases!Next]_(Leases!leases)
  BY <1>2, KillIdHogLeaves
<1>3. ASSUME NEW o \in sn_Destroyed, OrderTimesOut(o) PROVE [Leases!Next]_(Leases!leases)
  BY <1>3, OrderTimesOutShows
<1>4. ASSUME NEW u \in Users, NEW n \in Sizes, HandleRequest(u, n) \/ RunOut(u, n)
      PROVE  [Leases!Next]_(Leases!leases)
  BY <1>4, HandleRequestLeases, RunOutLeaves
<1>5. ASSUME NEW u \in Users, NEW id \in Ids, HandleCreate(u, id) \/ HandleDestroy(u, id)
      PROVE  [Leases!Next]_(Leases!leases)
  BY <1>5, HandleCreateSees, HandleDestroyEnds
<1>6. ASSUME NEW u \in Users, Login(u) \/ Logout(u) \/ AskForId(u) \/ TakeId(u)
      PROVE  [Leases!Next]_(Leases!leases)
  BY <1>6, ClientShows, LogoutLeaves, TakeIdUses
<1>7. ASSUME NEW u \in Users, NEW S \in replies[u], HandleReply(u, S)
      PROVE  [Leases!Next]_(Leases!leases)
  BY <1>7, HandleReplyWastes
<1>8. ASSUME NEW u \in Users, NEW id \in own[u], SendCreate(u, id) \/ DestroyOwn(u, id)
      PROVE  [Leases!Next]_(Leases!leases)
  BY <1>8, ClientShows
<1>9. ASSUME UNCHANGED vars PROVE [Leases!Next]_(Leases!leases)
  BY <1>9, NothingShown DEF IInv, vars, serverVars, clientVars, messageVars
<1> HIDE DEF Leases!Next
<1> QED
  BY <1>1, <1>2, <1>3, <1>4, <1>5, <1>6, <1>7, <1>8, <1>9 DEF Next, ServerNext, ClientNext

\* Whatever is asked for, lost, overtaken or thrown out, the ids of network objects are
\* leased: no two objects have an id together.
THEOREM PoolImplementsLeases == Spec => ImplementsLeases
<1>1. IInv /\ IInv' /\ [Next]_vars => [Leases!Next]_(Leases!leases)
  BY StepLeases
<1> QED
  BY Inductive, InitLeases, <1>1, PTL DEF Spec, ImplementsLeases, Leases!Spec

\* What the leases are for, wherever the messages are: an id is the server's or one
\* client's, and no two objects, on whatever machine, have one id.
THEOREM ObjectsShareNoId == Spec => []Leases!OneHolder
<1>1. ASSUME IInv PROVE Leases!OneHolder
  <2>1. ASSUME NEW u \in Users
        PROVE  /\ Reserved(u) \cup own[u] \cup Seen(u) \subseteq Assigned(u)
               /\ Reserved(u) \cap (own[u] \cup Seen(u)) = {}
               /\ Assigned(u) \cap Servers = {}
               /\ \A v \in Users \ {u} : Assigned(u) \cap Assigned(v) = {}
    <3>1. Reserved(u) \cup own[u] \cup Seen(u) \subseteq Assigned(u)
      BY <1>1, AllOwned DEF IInv, TypeOK, Seen, Assigned
    <3>2. Reserved(u) \cap (own[u] \cup Seen(u)) = {}
      BY <1>1 DEF IInv, UserInv, Apart, Held, Seen
    <3>3. Assigned(u) \cap Servers = {} /\ \A v \in Users \ {u} : Assigned(u) \cap Assigned(v) = {}
      BY PoolAssumption DEF Assigned, Servers
    <3> QED
      BY <3>1, <3>2, <3>3
  <2> QED
    BY <2>1 DEF Leases!OneHolder
<1> QED
  BY Inductive, <1>1, PTL

=============================================================================
