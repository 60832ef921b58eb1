--------------------------- MODULE LoginSlots_proofs ---------------------------
(***************************************************************************)
(* Proofs of the safety properties of LoginSlots, for any numbers of       *)
(* slots, machines, addresses and sessions, and any limits.                *)
(*                                                                         *)
(* Three facts make them inductive: slots beyond sn_maxClients never had a *)
(* count (Unused), the count of a user is the one from when it came        *)
(* (Counted), and what was accepted for the running session of a client is *)
(* what the slot was given to it for (AcceptsAgree).                       *)
(***************************************************************************)
EXTENDS LoginSlots, FiniteSetTheorems, TLAPS

USE SlotsAssumption

Unused == \A i \in Slots : i > sn_maxClients => sameIP[i] = 0

Counted == \A i \in Users : crowd[i] = sameIP[i]

\* The session of a slot, and of an accept, is one that its client has had.
Past ==
  /\ \A i \in Users : salts[i] <= session[peers[i]]
  /\ \A p \in packets : p.salt <= session[p.at]

AcceptsAgree ==
  \A p \in packets :
    p.salt = session[p.at] /\ peers[p.slot] = p.at => salts[p.slot] = p.salt

Types == TypeOK /\ Unused

IInv == Types /\ Counted /\ HardLimit /\ RightUsers /\ Past /\ AcceptsAgree

-----------------------------------------------------------------------------
(***************************************************************************)
(* Slots.                                                                  *)
(***************************************************************************)
LEMMA UsersFinite ==
  ASSUME NEW machine
  PROVE  /\ IsFiniteSet(UsersOf(machine))
         /\ Cardinality(UsersOf(machine)) \in Nat
         /\ \A i : Cardinality(UsersOf(machine) \ {i}) \in Nat
<1>1. IsFiniteSet(Slots)
  BY FS_Interval DEF Slots
<1>2. UsersOf(machine) \subseteq Slots
  BY DEF UsersOf, Users
<1>3. IsFiniteSet(UsersOf(machine)) /\ \A i : IsFiniteSet(UsersOf(machine) \ {i})
  BY <1>1, <1>2, FS_Subset
<1> QED
  BY <1>3, FS_CardinalityType

\* GetFreeSlot returns a slot in use, or one of those that may be: never one beyond
\* MAX_CLIENTS.  Of the slots with the largest count the first is taken, and those beyond
\* have none.
LEMMA FreeSlotInRange ==
  ASSUME Types, NEW i \in Slots, FreeSlot(i)
  PROVE  i \in 1 .. sn_maxClients
<1>1. CASE i \in EmptySlots
  BY <1>1 DEF EmptySlots
<1>2. CASE Spared(i)
  <2>1. SUFFICES ASSUME i > sn_maxClients PROVE FALSE
    BY DEF Slots
  <2>2. sameIP[i] = 0
    BY <2>1 DEF Types, Unused
  <2>3. 1 \in Slots /\ 1 < i
    BY <2>1 DEF Slots
  <2>4. sameIP[1] < sameIP[i] /\ sameIP[1] \in Nat
    BY <1>2, <2>3 DEF Spared, Types, TypeOK
  <2> QED
    BY <2>2, <2>4
<1> QED
  BY <1>1, <1>2 DEF FreeSlot

\* Whoever is disconnected for a newcomer has a count above all allowed.
LEMMA SparedCount ==
  ASSUME Types, NEW i \in Users, FreeSlot(i)
  PROVE  sameIP[i] >= sn_allowSameIPCountSoft
<1>1. i \notin EmptySlots
  BY DEF Users, EmptySlots
<1>2. MaySpare(i)
  BY <1>1 DEF FreeSlot, Spared
<1>3. sameIP[i] \in Nat
  BY DEF Types, TypeOK, Users
<1> QED
  BY <1>2, <1>3 DEF MaySpare

\* Disconnecting users takes them out of their slots and changes nothing for the others.
LEMMA Departure ==
  ASSUME Types, NEW S, Disconnect(S)
  PROVE  /\ Users' = Users \ S
         /\ \A i \in Users' : /\ peers'[i] = peers[i] /\ salts'[i] = salts[i]
                              /\ crowd'[i] = crowd[i]
         /\ \A machine : UsersOf(machine)' = UsersOf(machine) \ S
         /\ peers' \in [Slots -> Addresses \cup {NoPeer}]
         /\ salts' \in [Slots -> Nat] /\ crowd' \in [Slots -> Nat]
<1>1. /\ peers' \in [Slots -> Addresses \cup {NoPeer}]
      /\ salts' \in [Slots -> Nat] /\ crowd' \in [Slots -> Nat]
  BY DEF Disconnect, Types, TypeOK
<1>2. Users' = Users \ S
  BY DEF Disconnect, Users
<1>3. \A i \in Users' : peers'[i] = peers[i] /\ salts'[i] = salts[i] /\ crowd'[i] = crowd[i]
  BY <1>2 DEF Disconnect, Users
<1>4. \A machine : UsersOf(machine)' = UsersOf(machine) \ S
  BY <1>2, <1>3 DEF UsersOf
<1> QED
  BY <1>1, <1>2, <1>3, <1>4

\* What a login that is accepted does to the users.
LEMMA Arrival ==
  ASSUME Types, NEW a \in Addresses, NEW i \in Slots, HandleLogin(a, i)
  PROVE  /\ i \in 1 .. sn_maxClients
         /\ Users' = Users \cup {i}
         /\ peers'[i] = a /\ salts'[i] = session[a] /\ crowd'[i] = sameIP'[i]
         /\ sameIP'[i] \in Nat
         /\ \A k \in Users \ {i} : /\ peers'[k] = peers[k] /\ salts'[k] = salts[k]
                                   /\ crowd'[k] = crowd[k] /\ sameIP'[k] = sameIP[k]
         /\ \A machine : UsersOf(machine)' \subseteq UsersOf(machine) \cup {i}
         /\ \A machine : machine # MachineOf[a] => UsersOf(machine)' \subseteq UsersOf(machine)
<1>1. i \in 1 .. sn_maxClients
  BY FreeSlotInRange DEF HandleLogin
<1>2. Cardinality(UsersOf(MachineOf[a]) \ {i}) \in Nat
  BY UsersFinite
<1>3. /\ peers'[i] = a /\ salts'[i] = session[a] /\ crowd'[i] = sameIP'[i]
      /\ sameIP'[i] \in Nat
  BY <1>2 DEF HandleLogin, Recounted, Types, TypeOK
<1>4. Users' = Users \cup {i}
  BY DEF HandleLogin, Types, TypeOK, Users
<1>5. \A k \in Users \ {i} : /\ peers'[k] = peers[k] /\ salts'[k] = salts[k]
                             /\ crowd'[k] = crowd[k] /\ sameIP'[k] = sameIP[k]
  BY DEF HandleLogin, Recounted, Types, TypeOK, Users
<1>6. \A machine : UsersOf(machine)' \subseteq UsersOf(machine) \cup {i}
  BY <1>4, <1>5 DEF UsersOf
<1>7. \A machine : machine # MachineOf[a] => UsersOf(machine)' \subseteq UsersOf(machine)
  BY <1>3, <1>4, <1>5 DEF UsersOf
<1> QED
  BY <1>1, <1>3, <1>4, <1>5, <1>6, <1>7

-----------------------------------------------------------------------------
(***************************************************************************)
(* Types.                                                                  *)
(***************************************************************************)
LEMMA TypesInit == Init => Types
<1> SUFFICES ASSUME Init PROVE Types
  OBVIOUS
<1>1. Users = {}
  BY DEF Init, Users
<1> QED
  BY <1>1 DEF Init, Types, TypeOK, Unused

LEMMA TypesStep == Types /\ [Next]_vars => Types'
<1> SUFFICES ASSUME Types, [Next]_vars PROVE Types'
  OBVIOUS
<1> USE DEF Types
<1>1. ASSUME NEW i \in Slots, Kick(i) PROVE Types'
  <2>1. Disconnect({i}) /\ UNCHANGED banned
    BY <1>1 DEF Kick
  <2> QED
    BY <2>1, Departure DEF Disconnect, TypeOK, Unused, clientVars
<1>2. ASSUME NEW machine \in Machines, Ban(machine) PROVE Types'
  <2>1. Disconnect(Found(machine)) /\ banned' \subseteq Machines
    BY <1>2 DEF Ban, TypeOK
  <2> QED
    BY <2>1, Departure DEF Disconnect, TypeOK, Unused, clientVars
<1>3. ASSUME NEW machine \in Machines, Unban(machine) PROVE Types'
  BY <1>3 DEF Unban, TypeOK, Unused, clientVars, Users
<1>4. ASSUME NEW a \in Addresses, NEW i \in Slots, HandleLogin(a, i) PROVE Types'
  <2>1. /\ i \in 1 .. sn_maxClients /\ Users' = Users \cup {i} /\ sameIP'[i] \in Nat
        /\ crowd'[i] = sameIP'[i]
    BY <1>4, Arrival
  <2>2. session[a] \in Nat
    BY DEF TypeOK
  <2>3. packets' \subseteq Packets
    BY <1>4, <2>2 DEF HandleLogin, TypeOK, Packets
  <2>4. /\ peers' \in [Slots -> Addresses \cup {NoPeer}]
        /\ salts' \in [Slots -> Nat]
    BY <1>4, <2>2 DEF HandleLogin, TypeOK
  <2>5. Cardinality(UsersOf(MachineOf[a]) \ {i}) \in Nat
    BY UsersFinite
  <2>6. sameIP' \in [Slots -> Nat] /\ crowd' \in [Slots -> Nat]
    BY <1>4, <2>5 DEF HandleLogin, Recounted, TypeOK
  <2>7. Unused'
    BY <1>4, <2>1 DEF HandleLogin, Recounted, Unused, TypeOK
  <2> QED
    BY <1>4, <2>1, <2>3, <2>4, <2>6, <2>7 DEF HandleLogin, TypeOK, clientVars
<1>5. ASSUME NEW p \in packets, HandleAccept(p) PROVE Types'
  BY <1>5 DEF HandleAccept, TypeOK, Unused, serverVars, Packets, Users
<1>6. ASSUME NEW a \in Addresses, Connect(a) PROVE Types'
  <2>1. /\ client' = [client EXCEPT ![a] = "trying"]
        /\ session' = [session EXCEPT ![a] = @ + 1]
        /\ UNCHANGED <<serverVars, packets, sn_myNetID>>
    BY <1>6 DEF Connect
  <2> QED
    BY <2>1 DEF TypeOK, Unused, serverVars, Users
<1>7. ASSUME NEW a \in Addresses, Leave(a) PROVE Types'
  BY <1>7 DEF Leave, TypeOK, Unused, serverVars, Users
<1>8. CASE UNCHANGED vars
  BY <1>8 DEF vars, serverVars, clientVars, TypeOK, Unused, Users
<1> QED
  BY <1>1, <1>2, <1>3, <1>4, <1>5, <1>6, <1>7, <1>8 DEF Next

\* Types, and that users are in the slots MAX_CLIENTS allows (GetFreeSlot).
THEOREM TypesHold == Spec => []TypeOK
<1>1. Types => TypeOK
  BY DEF Types
<1> QED
  BY <1>1, TypesInit, TypesStep, PTL DEF Spec

-----------------------------------------------------------------------------
(***************************************************************************)
(* Who is in the slots.                                                    *)
(***************************************************************************)
LEMMA IInvInit == Init => IInv
<1> SUFFICES ASSUME Init PROVE IInv
  OBVIOUS
<1>1. Users = {} /\ packets = {} /\ \A machine : UsersOf(machine) = {}
  BY DEF Init, Users, UsersOf
<1>2. HardLimit
  BY <1>1, FS_EmptySet DEF HardLimit
<1>3. RightUsers
  BY <1>1 DEF RightUsers, OneSlotEach, NoneBanned, SameSession
<1> QED
  BY <1>1, <1>2, <1>3, TypesInit DEF IInv, Counted, Past, AcceptsAgree

\* A step that only disconnects users keeps what does not depend on bans.
LEMMA DepartureKeeps ==
  ASSUME IInv, NEW S, Disconnect(S)
  PROVE  Counted' /\ HardLimit' /\ OneSlotEach' /\ SameSession' /\ Past' /\ AcceptsAgree'
<1>1. /\ Users' = Users \ S
      /\ \A i \in Users' : peers'[i] = peers[i] /\ salts'[i] = salts[i] /\ crowd'[i] = crowd[i]
      /\ \A machine : UsersOf(machine)' = UsersOf(machine) \ S
  BY Departure DEF IInv
<1>2. UNCHANGED <<sameIP, packets, client, session, sn_myNetID>>
  BY DEF Disconnect, clientVars
<1>3. Counted'
  BY <1>1, <1>2 DEF IInv, Counted
<1>4. HardLimit'
  <2> SUFFICES ASSUME NEW machine \in Machines
               PROVE  Cardinality(UsersOf(machine)') <= sn_allowSameIPCountHard
    BY DEF HardLimit
  <2>1. UsersOf(machine)' \subseteq UsersOf(machine)
    BY <1>1
  <2>2. IsFiniteSet(UsersOf(machine))
    BY UsersFinite
  <2>3. /\ Cardinality(UsersOf(machine)') <= Cardinality(UsersOf(machine))
        /\ Cardinality(UsersOf(machine)') \in Nat /\ Cardinality(UsersOf(machine)) \in Nat
    BY <2>1, <2>2, FS_Subset, FS_CardinalityType
  <2> QED
    BY <2>3 DEF IInv, HardLimit
<1>5. OneSlotEach'
  BY <1>1 DEF IInv, RightUsers, OneSlotEach
<1>6. SameSession'
  BY <1>1, <1>2 DEF IInv, RightUsers, SameSession
<1>7. Past'
  BY <1>1, <1>2 DEF IInv, Past
<1>8. AcceptsAgree'
  <2> SUFFICES ASSUME NEW p \in packets, p.salt = session[p.at], peers'[p.slot] = p.at
               PROVE  salts'[p.slot] = p.salt
    BY <1>2 DEF AcceptsAgree
  <2>1. p.slot \in Slots /\ p.at \in Addresses
    BY DEF IInv, Types, TypeOK, Packets
  <2>2. p.slot \in Users'
    BY <2>1 DEF Users
  <2> QED
    BY <1>1, <2>2 DEF IInv, AcceptsAgree
<1> QED
  BY <1>3, <1>4, <1>5, <1>6, <1>7, <1>8

\* A ban finds all users of the machine, unless the last slot is in use.
LEMMA BanKeeps ==
  ASSUME IInv, NEW machine \in Machines, Ban(machine)
  PROVE  NoneBanned'
<1> SUFFICES ASSUME sn_maxClients < MAXCLIENTS, NEW i \in Users'
             PROVE  MachineOf[peers'[i]] \notin banned'
  BY DEF NoneBanned
<1>1. Disconnect(Found(machine)) /\ banned' = banned \cup {machine}
  BY DEF Ban
<1>2. i \in Users \ Found(machine) /\ peers'[i] = peers[i]
  BY <1>1, Departure DEF IInv
<1>3. i < MAXCLIENTS
  BY <1>2 DEF IInv, Types, TypeOK
<1>4. MachineOf[peers[i]] # machine
  BY <1>2, <1>3 DEF Found, UsersOf
<1> QED
  BY <1>1, <1>2, <1>4 DEF IInv, RightUsers, NoneBanned

LEMMA LoginKeeps ==
  ASSUME IInv, NEW a \in Addresses, NEW i \in Slots, HandleLogin(a, i)
  PROVE  Counted' /\ HardLimit' /\ RightUsers' /\ Past' /\ AcceptsAgree'
<1>1. /\ Users' = Users \cup {i}
      /\ peers'[i] = a /\ salts'[i] = session[a] /\ crowd'[i] = sameIP'[i]
      /\ \A k \in Users \ {i} : /\ peers'[k] = peers[k] /\ salts'[k] = salts[k]
                                /\ crowd'[k] = crowd[k] /\ sameIP'[k] = sameIP[k]
      /\ \A machine : UsersOf(machine)' \subseteq UsersOf(machine) \cup {i}
      /\ \A machine : machine # MachineOf[a] => UsersOf(machine)' \subseteq UsersOf(machine)
  BY Arrival DEF IInv
<1>2. /\ UNCHANGED <<banned, client, session, sn_myNetID>>
      /\ packets' = packets \cup {[at |-> a, slot |-> i, salt |-> session[a]]}
      /\ MachineOf[a] \notin banned /\ \A k \in Users : peers[k] # a
      /\ Cardinality(UsersOf(MachineOf[a])) < sn_allowSameIPCountHard
  BY DEF HandleLogin, clientVars, Known
<1>3. Counted'
  BY <1>1 DEF IInv, Counted
<1>4. HardLimit'
  <2> SUFFICES ASSUME NEW machine \in Machines
               PROVE  Cardinality(UsersOf(machine)') <= sn_allowSameIPCountHard
    BY DEF HardLimit
  <2>1. IsFiniteSet(UsersOf(machine)) /\ Cardinality(UsersOf(machine)) \in Nat
    BY UsersFinite
  <2>2. CASE machine # MachineOf[a]
    <3>1. UsersOf(machine)' \subseteq UsersOf(machine)
      BY <1>1, <2>2
    <3>2. /\ Cardinality(UsersOf(machine)') <= Cardinality(UsersOf(machine))
          /\ Cardinality(UsersOf(machine)') \in Nat
      BY <2>1, <3>1, FS_Subset, FS_CardinalityType
    <3> QED
      BY <2>1, <3>2 DEF IInv, HardLimit
  <2>3. CASE machine = MachineOf[a]
    <3>1. UsersOf(machine)' \subseteq UsersOf(machine) \cup {i}
      BY <1>1
    <3>2. /\ IsFiniteSet(UsersOf(machine) \cup {i})
          /\ Cardinality(UsersOf(machine) \cup {i}) <= Cardinality(UsersOf(machine)) + 1
      BY <2>1, FS_AddElement
    <3>3. /\ Cardinality(UsersOf(machine)') <= Cardinality(UsersOf(machine) \cup {i})
          /\ Cardinality(UsersOf(machine)') \in Nat
          /\ Cardinality(UsersOf(machine) \cup {i}) \in Nat
      BY <3>1, <3>2, FS_Subset, FS_CardinalityType
    <3> QED
      BY <1>2, <2>1, <2>3, <3>2, <3>3
  <2> QED
    BY <2>2, <2>3
<1>5. OneSlotEach'
  BY <1>1, <1>2 DEF IInv, RightUsers, OneSlotEach
<1>6. NoneBanned'
  BY <1>1, <1>2 DEF IInv, RightUsers, NoneBanned
<1>7. SameSession'
  BY <1>1, <1>2 DEF IInv, RightUsers, SameSession
<1>8. session[a] \in Nat
  BY DEF IInv, Types, TypeOK
<1>9. Past'
  BY <1>1, <1>2, <1>8 DEF IInv, Past
<1>10. AcceptsAgree'
  <2> SUFFICES ASSUME NEW p \in packets', p.salt = session[p.at], peers'[p.slot] = p.at
               PROVE  salts'[p.slot] = p.salt
    BY <1>2 DEF AcceptsAgree
  <2>1. CASE p.slot = i
    BY <1>1, <2>1
  <2>2. CASE p.slot # i
    <3>1. p \in packets
      BY <1>2, <2>2
    <3>2. p.slot \in Slots /\ p.at \in Addresses
      BY <3>1 DEF IInv, Types, TypeOK, Packets
    <3>3. peers'[p.slot] = peers[p.slot] /\ salts'[p.slot] = salts[p.slot]
      BY <2>2, <3>2 DEF HandleLogin, IInv, Types, TypeOK
    <3> QED
      BY <3>1, <3>3 DEF IInv, AcceptsAgree
  <2> QED
    BY <2>1, <2>2
<1> QED
  BY <1>3, <1>4, <1>5, <1>6, <1>7, <1>9, <1>10 DEF RightUsers

\* The clients only change what they take themselves for.
LEMMA ClientKeeps ==
  ASSUME IInv, serverVars' = serverVars, packets' = packets
  PROVE  Counted' /\ HardLimit' /\ OneSlotEach' /\ NoneBanned'
<1>1. UNCHANGED <<peers, sameIP, banned, salts, crowd>>
  BY DEF serverVars
<1>2. Users' = Users /\ \A machine : UsersOf(machine)' = UsersOf(machine)
  BY <1>1 DEF Users, UsersOf
<1> QED
  BY <1>1, <1>2 DEF IInv, RightUsers, Counted, HardLimit, OneSlotEach, NoneBanned

LEMMA AcceptKeeps ==
  ASSUME IInv, NEW p \in packets, HandleAccept(p)
  PROVE  SameSession' /\ Past' /\ AcceptsAgree'
<1>1. /\ UNCHANGED <<peers, salts, packets, session>>
      /\ p.salt = session[p.at]
      /\ client' = [client EXCEPT ![p.at] = "in"]
      /\ sn_myNetID' = [sn_myNetID EXCEPT ![p.at] = p.slot]
  BY DEF HandleAccept, OwnSalt, serverVars
<1>2. Users' = Users
  BY <1>1 DEF Users
<1>3. SameSession'
  <2> SUFFICES ASSUME NEW a \in Addresses, NEW i \in Users,
                      client'[a] = "in", sn_myNetID'[a] = i, peers[i] = a
               PROVE  salts[i] = session[a]
    BY <1>1, <1>2 DEF SameSession
  <2>1. CASE a = p.at
    <3>1. i = p.slot
      BY <1>1, <2>1 DEF IInv, Types, TypeOK
    <3> QED
      BY <1>1, <2>1, <3>1 DEF IInv, AcceptsAgree
  <2>2. CASE a # p.at
    <3>1. client[a] = "in" /\ sn_myNetID[a] = i
      BY <1>1, <2>2 DEF IInv, Types, TypeOK
    <3> QED
      BY <3>1 DEF IInv, RightUsers, SameSession
  <2> QED
    BY <2>1, <2>2
<1> QED
  BY <1>1, <1>2, <1>3 DEF IInv, Past, AcceptsAgree

LEMMA ConnectKeeps ==
  ASSUME IInv, NEW a \in Addresses, Connect(a)
  PROVE  SameSession' /\ Past' /\ AcceptsAgree'
<1>1. /\ UNCHANGED <<peers, salts, packets, sn_myNetID>>
      /\ client' = [client EXCEPT ![a] = "trying"]
      /\ session' = [session EXCEPT ![a] = @ + 1]
  BY DEF Connect, serverVars
<1>2. Users' = Users
  BY <1>1 DEF Users
<1>3. /\ session'[a] = session[a] + 1 /\ session[a] \in Nat
      /\ client'[a] = "trying"
      /\ \A b \in Addresses \ {a} : session'[b] = session[b] /\ client'[b] = client[b]
  BY <1>1 DEF IInv, Types, TypeOK
<1>4. SameSession'
  BY <1>1, <1>2, <1>3 DEF IInv, RightUsers, SameSession
<1>5. \A i \in Users : peers[i] \in Addresses /\ salts[i] \in Nat
  BY DEF IInv, Types, TypeOK, Users
<1>6. \A p \in packets : p.at \in Addresses /\ p.salt \in Nat
  BY DEF IInv, Types, TypeOK, Packets
<1>7. \A b \in Addresses : session[b] \in Nat /\ session[b] <= session'[b]
  BY <1>3 DEF IInv, Types, TypeOK
<1>8. Past'
  <2>1. \A i \in Users : salts[i] <= session'[peers[i]]
    BY <1>5, <1>7, <1>3 DEF IInv, Past
  <2>2. \A p \in packets : p.salt <= session'[p.at]
    BY <1>6, <1>7, <1>3 DEF IInv, Past
  <2> QED
    BY <1>1, <1>2, <2>1, <2>2 DEF Past
<1>9. AcceptsAgree'
  <2> SUFFICES ASSUME NEW p \in packets, p.salt = session'[p.at], peers[p.slot] = p.at
               PROVE  salts[p.slot] = p.salt
    BY <1>1 DEF AcceptsAgree
  <2>1. p.salt <= session[p.at] /\ p.at \in Addresses /\ p.salt \in Nat
    BY <1>6 DEF IInv, Past
  <2>2. p.at # a
    BY <1>3, <2>1
  <2> QED
    BY <1>3, <2>1, <2>2 DEF IInv, AcceptsAgree
<1> QED
  BY <1>4, <1>8, <1>9

LEMMA LeaveKeeps ==
  ASSUME IInv, NEW a \in Addresses, Leave(a)
  PROVE  SameSession' /\ Past' /\ AcceptsAgree'
<1>1. /\ UNCHANGED <<peers, salts, packets, session>>
      /\ client' = [client EXCEPT ![a] = "out"]
      /\ sn_myNetID' = [sn_myNetID EXCEPT ![a] = 0]
  BY DEF Leave, serverVars
<1>2. Users' = Users
  BY <1>1 DEF Users
<1>3. client'[a] = "out" /\ \A b \in Addresses \ {a} : /\ client'[b] = client[b]
                                                     /\ sn_myNetID'[b] = sn_myNetID[b]
  BY <1>1 DEF IInv, Types, TypeOK
<1>4. SameSession'
  BY <1>1, <1>2, <1>3 DEF IInv, RightUsers, SameSession
<1> QED
  BY <1>1, <1>2, <1>4 DEF IInv, Past, AcceptsAgree

LEMMA IInvStep == IInv /\ [Next]_vars => IInv'
<1> SUFFICES ASSUME IInv, [Next]_vars PROVE IInv'
  OBVIOUS
<1>0. Types'
  BY TypesStep DEF IInv
<1>1. ASSUME NEW i \in Slots, Kick(i) PROVE IInv'
  <2>1. Disconnect({i}) /\ UNCHANGED banned
    BY <1>1 DEF Kick
  <2>2. NoneBanned'
    BY <2>1, Departure DEF IInv, RightUsers, NoneBanned
  <2> QED
    BY <1>0, <2>1, <2>2, DepartureKeeps DEF IInv, RightUsers
<1>2. ASSUME NEW machine \in Machines, Ban(machine) PROVE IInv'
  <2>1. Disconnect(Found(machine))
    BY <1>2 DEF Ban
  <2> QED
    BY <1>0, <1>2, <2>1, BanKeeps, DepartureKeeps DEF IInv, RightUsers
<1>3. ASSUME NEW machine \in Machines, Unban(machine) PROVE IInv'
  <2>1. /\ UNCHANGED <<peers, sameIP, salts, crowd, packets, client, session, sn_myNetID>>
        /\ banned' \subseteq banned
    BY <1>3 DEF Unban, clientVars
  <2>2. Users' = Users /\ \A m : UsersOf(m)' = UsersOf(m)
    BY <2>1 DEF Users, UsersOf
  <2>3. Counted' /\ HardLimit' /\ Past' /\ AcceptsAgree'
    BY <2>1, <2>2 DEF IInv, Counted, HardLimit, Past, AcceptsAgree
  <2>4. OneSlotEach' /\ SameSession' /\ NoneBanned'
    BY <2>1, <2>2 DEF IInv, RightUsers, OneSlotEach, SameSession, NoneBanned
  <2> QED
    BY <1>0, <2>3, <2>4 DEF IInv, RightUsers
<1>4. ASSUME NEW a \in Addresses, NEW i \in Slots, HandleLogin(a, i) PROVE IInv'
  BY <1>0, <1>4, LoginKeeps DEF IInv
<1>5. ASSUME NEW p \in packets, HandleAccept(p) PROVE IInv'
  <2>1. serverVars' = serverVars /\ packets' = packets
    BY <1>5 DEF HandleAccept
  <2> QED
    BY <1>0, <1>5, <2>1, ClientKeeps, AcceptKeeps DEF IInv, RightUsers
<1>6. ASSUME NEW a \in Addresses, Connect(a) PROVE IInv'
  <2>1. serverVars' = serverVars /\ packets' = packets
    BY <1>6 DEF Connect
  <2> QED
    BY <1>0, <1>6, <2>1, ClientKeeps, ConnectKeeps DEF IInv, RightUsers
<1>7. ASSUME NEW a \in Addresses, Leave(a) PROVE IInv'
  <2>1. serverVars' = serverVars /\ packets' = packets
    BY <1>7 DEF Leave
  <2> QED
    BY <1>0, <1>7, <2>1, ClientKeeps, LeaveKeeps DEF IInv, RightUsers
<1>8. CASE UNCHANGED vars
  <2>1. /\ serverVars' = serverVars
        /\ UNCHANGED <<peers, salts, packets, client, session, sn_myNetID>>
    BY <1>8 DEF vars, serverVars, clientVars
  <2>2. Users' = Users
    BY <2>1 DEF Users
  <2>3. SameSession' /\ Past' /\ AcceptsAgree'
    BY <2>1, <2>2 DEF IInv, RightUsers, SameSession, Past, AcceptsAgree
  <2> QED
    BY <1>0, <2>1, <2>3, ClientKeeps DEF IInv, RightUsers
<1> QED
  BY <1>1, <1>2, <1>3, <1>4, <1>5, <1>6, <1>7, <1>8 DEF Next

LEMMA IInvHolds == Spec => []IInv
BY IInvInit, IInvStep, PTL DEF Spec

\* Every client has one slot, bans empty all but the last slot, and a client that is in is the
\* one its slot was given to (login_handler, nMachine::Ban, login_accept_handler).
THEOREM RightUsersHold == Spec => []RightUsers
<1>1. IInv => RightUsers
  BY DEF IInv
<1> QED
  BY <1>1, IInvHolds, PTL

\* No machine has more users than MAX_CLIENTS_SAME_IP_HARD allows (login_handler).
THEOREM HardLimitHolds == Spec => []HardLimit
<1>1. IInv => HardLimit
  BY DEF IInv
<1> QED
  BY <1>1, IInvHolds, PTL

\* A user whose slot is given to a newcomer had enough others of its machine beside it when it
\* came (CountSameIP, GetFreeSlot).
THEOREM KickedForSharingHolds == Spec => KickedForSharing
<1> DEFINE Kicked == \A i \in Users : i \in Users' /\ peers'[i] # peers[i]
                                    => crowd[i] >= sn_allowSameIPCountSoft
<1>1. IInv /\ [Next]_vars => [Kicked]_vars
  <2> SUFFICES ASSUME IInv, Next, NEW i \in Users, i \in Users', peers'[i] # peers[i]
               PROVE  crowd[i] >= sn_allowSameIPCountSoft
    OBVIOUS
  <2>1. ASSUME NEW S, Disconnect(S) PROVE FALSE
    BY <2>1, Departure DEF IInv
  <2>2. ASSUME NEW a \in Addresses, NEW k \in Slots, HandleLogin(a, k) PROVE i = k /\ FreeSlot(k)
    BY <2>2, Arrival DEF IInv, HandleLogin
  <2>3. peers' # peers
    OBVIOUS
  <2>4. PICK a \in Addresses, k \in Slots : HandleLogin(a, k)
    BY <2>1, <2>3 DEF Next, Kick, Ban, Unban, HandleAccept, Connect, Leave, serverVars
  <2>5. sameIP[i] >= sn_allowSameIPCountSoft
    BY <2>2, <2>4, SparedCount DEF IInv
  <2> QED
    BY <2>5 DEF IInv, Counted
<1>2. Spec => [][Kicked]_vars
  BY <1>1, IInvHolds, PTL DEF Spec
<1> QED
  BY <1>2 DEF KickedForSharing

-----------------------------------------------------------------------------
(***************************************************************************)
(* LoginSlots implements Admission: users and their slots as guests.       *)
(***************************************************************************)
GuestsIn(S) == {Guest(i) : i \in S}

LEMMA SameCardinality ==
  ASSUME NEW S
  PROVE  Promise!Cardinality(S) = Cardinality(S)
BY DEF Promise!Cardinality, Cardinality

LEMMA ImageCount ==
  ASSUME NEW S, IsFiniteSet(S), NEW f, \A i, k \in S : f[i] = f[k] => i = k
  PROVE  Cardinality({f[i] : i \in S}) = Cardinality(S)
<1> DEFINE T == {f[i] : i \in S}
           g == [i \in S |-> f[i]]
<1>1. g \in [S -> T] /\ (\A i, k \in S : g[i] = g[k] => i = k) /\ \A t \in T : \E i \in S : g[i] = t
  OBVIOUS
<1> HIDE DEF T, g
<1>2. g \in Bijection(S, T)
  BY <1>1 DEF Bijection, Injection, Surjection, IsInjective
<1>3. ExistsBijection(S, T)
  BY <1>2 DEF ExistsBijection
<1>4. Cardinality(T) = Cardinality(S)
  BY <1>3, FS_Bijection
<1> QED
  BY <1>4 DEF T

\* As each client has one slot, guests can be counted like slots.
LEMMA Guests ==
  ASSUME IInv
  PROVE  /\ \A i, k \in Users : Guest(i) = Guest(k) => i = k
         /\ \A S \in SUBSET Users : Cardinality(GuestsIn(S)) = Cardinality(S)
         /\ \A S \in SUBSET Users, i \in Users : GuestsIn(S) \ {Guest(i)} = GuestsIn(S \ {i})
         /\ \A machine : {g \in GuestsIn(Users) : MachineOf[g.at] = machine}
                           = GuestsIn(UsersOf(machine))
<1>1. \A i, k \in Users : Guest(i) = Guest(k) => i = k
  BY DEF IInv, RightUsers, OneSlotEach, Guest
<1>2. ASSUME NEW S \in SUBSET Users
      PROVE  Cardinality(GuestsIn(S)) = Cardinality(S)
  <2> DEFINE f == [i \in Users |-> Guest(i)]
  <2>1. GuestsIn(S) = {f[i] : i \in S}
    BY DEF GuestsIn
  <2>2. \A i, k \in S : f[i] = f[k] => i = k
    BY <1>1
  <2>3. IsFiniteSet(S)
    <3>1. IsFiniteSet(Slots) /\ S \subseteq Slots
      BY FS_Interval DEF Slots, Users
    <3> QED
      BY <3>1, FS_Subset
  <2> HIDE DEF f
  <2> QED
    BY <2>1, <2>2, <2>3, ImageCount
<1>3. \A S \in SUBSET Users, i \in Users : GuestsIn(S) \ {Guest(i)} = GuestsIn(S \ {i})
  BY <1>1 DEF GuestsIn
<1>4. \A machine : {g \in GuestsIn(Users) : MachineOf[g.at] = machine} = GuestsIn(UsersOf(machine))
  BY DEF GuestsIn, UsersOf, Guest
<1> QED
  BY <1>1, <1>2, <1>3, <1>4

\* Those who are disconnected are no guests any more, and nothing else changes.
LEMMA GuestsLeave ==
  ASSUME IInv, NEW S, Disconnect(S)
  PROVE  /\ GuestsIn(Users)' = GuestsIn(Users \ S)
         /\ UNCHANGED <<client, session, packets>>
<1>1. /\ Users' = Users \ S
      /\ \A i \in Users' : /\ peers'[i] = peers[i] /\ salts'[i] = salts[i]
                           /\ crowd'[i] = crowd[i]
  BY Departure DEF IInv
<1>2. \A i \in Users' : Guest(i)' = Guest(i)
  BY <1>1 DEF Guest
<1>3. GuestsIn(Users)' = GuestsIn(Users \ S)
  BY <1>1, <1>2 DEF GuestsIn
<1> QED
  BY <1>3 DEF Disconnect, clientVars

LEMMA KickDismisses ==
  ASSUME IInv, NEW i \in Slots, Kick(i)
  PROVE  Promise!Next
<1>1. i \in Users /\ Disconnect({i}) /\ UNCHANGED banned
  BY DEF Kick
<1>2. GuestsIn(Users)' = GuestsIn(Users) \ {Guest(i)} /\ UNCHANGED <<client, session, packets>>
  BY <1>1, GuestsLeave, Guests
<1>3. Promise!Dismiss(Guest(i)) /\ Guest(i) \in GuestsIn(Users)
  BY <1>1, <1>2 DEF Promise!Dismiss, GuestsIn
<1> QED
  BY <1>3 DEF Promise!Next, GuestsIn

\* Where the last slot is not used, a ban finds them all.
LEMMA BanEmptiesSeats ==
  ASSUME IInv, sn_maxClients < MAXCLIENTS, NEW machine \in Machines, Ban(machine)
  PROVE  Promise!Next
<1>1. banned' = banned \cup {machine} /\ Disconnect(Found(machine))
  BY DEF Ban
<1>2. Found(machine) = UsersOf(machine)
  <2>1. \A i \in Users : i < MAXCLIENTS
    BY DEF IInv, Types, TypeOK
  <2> QED
    BY <2>1 DEF Found, UsersOf
<1>3. /\ GuestsIn(Users)' = GuestsIn(Users \ UsersOf(machine))
      /\ UNCHANGED <<client, session, packets>>
  BY <1>1, <1>2, GuestsLeave
<1>4. GuestsIn(Users \ UsersOf(machine)) = GuestsIn(Users) \ GuestsIn(UsersOf(machine))
  BY Guests DEF GuestsIn, UsersOf
<1>5. GuestsIn(UsersOf(machine)) = Promise!From(machine)
  BY Guests DEF Promise!From, GuestsIn
<1>6. Promise!Ban(machine)
  BY <1>1, <1>3, <1>4, <1>5 DEF Promise!Ban, GuestsIn
<1> QED
  BY <1>6 DEF Promise!Next

\* What does not concern the slots does not concern the guests.
LEMMA SameGuests ==
  ASSUME UNCHANGED <<peers, salts, crowd>>
  PROVE  GuestsIn(Users)' = GuestsIn(Users)
BY DEF GuestsIn, Guest, Users

LEMMA UnbanLifts ==
  ASSUME IInv, NEW machine \in Machines, Unban(machine)
  PROVE  Promise!Next
<1>1. /\ banned' = banned \ {machine} /\ UNCHANGED <<client, session, packets>>
      /\ GuestsIn(Users)' = GuestsIn(Users)
  BY SameGuests DEF Unban, clientVars
<1>2. Promise!Unban(machine)
  BY <1>1 DEF Promise!Unban, GuestsIn
<1> QED
  BY <1>2 DEF Promise!Next

LEMMA ConnectComes ==
  ASSUME IInv, NEW a \in Addresses, Connect(a)
  PROVE  Promise!Next
<1>1. /\ client[a] = "out" /\ client' = [client EXCEPT ![a] = "trying"]
      /\ session' = [session EXCEPT ![a] = @ + 1]
      /\ UNCHANGED <<banned, packets>> /\ GuestsIn(Users)' = GuestsIn(Users)
  BY SameGuests DEF Connect, serverVars
<1>2. Promise!Come(a)
  BY <1>1 DEF Promise!Come, GuestsIn
<1> QED
  BY <1>2 DEF Promise!Next

LEMMA LeaveGoes ==
  ASSUME IInv, NEW a \in Addresses, Leave(a)
  PROVE  Promise!Next
<1>1. /\ client[a] # "out" /\ client' = [client EXCEPT ![a] = "out"]
      /\ UNCHANGED <<banned, packets, session>> /\ GuestsIn(Users)' = GuestsIn(Users)
  BY SameGuests DEF Leave, serverVars
<1>2. Promise!Go(a)
  BY <1>1 DEF Promise!Go, GuestsIn
<1> QED
  BY <1>2 DEF Promise!Next

\* The salt of an accept that is taken is that of the running session.
LEMMA AcceptEnters ==
  ASSUME IInv, NEW p \in packets, HandleAccept(p)
  PROVE  Promise!Next
<1>1. p.at \in Addresses
  BY DEF IInv, Types, TypeOK, Packets
<1>2. /\ client[p.at] # "out" /\ client' = [client EXCEPT ![p.at] = "in"]
      /\ p.salt = session[p.at]
      /\ UNCHANGED <<banned, packets, session>> /\ GuestsIn(Users)' = GuestsIn(Users)
  BY SameGuests DEF HandleAccept, OwnSalt, serverVars
<1>3. <<p.at, session[p.at]>> \in {<<q.at, q.salt>> : q \in packets}
  BY <1>2
<1>4. Promise!Enter(p.at)
  BY <1>2, <1>3 DEF Promise!Enter, GuestsIn
<1> QED
  BY <1>1, <1>4 DEF Promise!Next

LEMMA CountsInNat ==
  ASSUME NEW S, S \subseteq Users
  PROVE  IsFiniteSet(S) /\ Cardinality(S) \in Nat
<1>1. IsFiniteSet(Slots) /\ S \subseteq Slots
  BY FS_Interval DEF Slots, Users
<1> QED
  BY <1>1, FS_Subset, FS_CardinalityType

\* A slot is taken from a user only when there are as many users as the server admits.
LEMMA SparedWhenFull ==
  ASSUME IInv, NEW i \in Users, FreeSlot(i)
  PROVE  Promise!Full
<1>1. Cardinality(Users) \in Nat
  BY CountsInNat
<1>2. NumUsers >= sn_maxClients
  <2>1. CASE EmptySlots = {}
    <3>1. Users = 1 .. sn_maxClients
      BY <2>1 DEF EmptySlots, Users, Slots, IInv, Types, TypeOK
    <3>2. Cardinality(Users) = sn_maxClients
      BY <3>1, FS_Interval
    <3> QED
      BY <1>1, <3>2 DEF NumUsers
  <2>2. CASE EmptySlots # {}
    <3>1. i \notin EmptySlots
      BY DEF Users, EmptySlots
    <3> QED
      BY <1>1, <2>2, <3>1 DEF FreeSlot, NumUsers
  <2> QED
    BY <2>1, <2>2
<1>3. Promise!Cardinality(GuestsIn(Users)) = Cardinality(Users)
  BY Guests, SameCardinality
<1> QED
  BY <1>2, <1>3 DEF Promise!Full, NumUsers, GuestsIn

\* Who is accepted takes a seat, and whoever was in its slot has left.
LEMMA LoginTakesSeat ==
  ASSUME IInv, IInv', NEW a \in Addresses, NEW i \in Slots, HandleLogin(a, i)
  PROVE  Promise!TakeSeat(a, IF i \in Users THEN {Guest(i)} ELSE {})
<1> DEFINE leaving == IF i \in Users THEN {Guest(i)} ELSE {}
           newcomer == [at |-> a, visit |-> session[a],
                        company |-> Cardinality(UsersOf(MachineOf[a]) \ {i})]
<1>1. /\ Users' = Users \cup {i}
      /\ peers'[i] = a /\ salts'[i] = session[a]
      /\ \A k \in Users \ {i} : /\ peers'[k] = peers[k] /\ salts'[k] = salts[k]
                                /\ crowd'[k] = crowd[k]
  BY Arrival DEF IInv
<1>2. crowd'[i] = Cardinality(UsersOf(MachineOf[a]) \ {i})
  BY DEF HandleLogin, IInv, Types, TypeOK
<1>3. Guest(i)' = newcomer /\ \A k \in Users \ {i} : Guest(k)' = Guest(k)
  BY <1>1, <1>2 DEF Guest
<1>4. GuestsIn(Users)' = GuestsIn(Users \ {i}) \cup {newcomer}
  BY <1>1, <1>3 DEF GuestsIn
<1>5. \A S \in SUBSET Users : GuestsIn(S) \ leaving = GuestsIn(S \ {i})
  <2>1. CASE i \in Users
    BY <2>1, Guests
  <2>2. CASE i \notin Users
    BY <2>2
  <2> QED
    BY <2>1, <2>2
<1>6. GuestsIn(Users) \ leaving = GuestsIn(Users \ {i})
  BY <1>5
<1>7. Promise!Cardinality(Promise!From(MachineOf[a]) \ leaving)
        = Cardinality(UsersOf(MachineOf[a]) \ {i})
  <2>1. Promise!From(MachineOf[a]) = GuestsIn(UsersOf(MachineOf[a]))
    BY Guests DEF Promise!From, GuestsIn
  <2>2. UsersOf(MachineOf[a]) \in SUBSET Users
    BY DEF UsersOf
  <2>3. Promise!From(MachineOf[a]) \ leaving = GuestsIn(UsersOf(MachineOf[a]) \ {i})
    BY <1>5, <2>1, <2>2
  <2>4. Cardinality(GuestsIn(UsersOf(MachineOf[a]) \ {i})) = Cardinality(UsersOf(MachineOf[a]) \ {i})
    BY <2>2, Guests
  <2> QED
    BY <2>3, <2>4, SameCardinality
<1>8. Promise!Cardinality(GuestsIn(Users)') <= sn_maxClients
  <2>1. Users' \subseteq 1 .. sn_maxClients
    BY DEF IInv, Types, TypeOK
  <2>2. IsFiniteSet(Users') /\ Cardinality(Users') <= sn_maxClients
    <3>1. IsFiniteSet(1 .. sn_maxClients) /\ Cardinality(1 .. sn_maxClients) = sn_maxClients
      BY FS_Interval
    <3> QED
      BY <2>1, <3>1, FS_Subset
  <2>3. Cardinality(GuestsIn(Users)') = Cardinality(Users')
    <3>1. GuestsIn(Users)' = {Guest(k)' : k \in Users'}
      BY DEF GuestsIn
    <3> DEFINE f == [k \in Users' |-> Guest(k)']
    <3>2. GuestsIn(Users)' = {f[k] : k \in Users'}
      BY <3>1
    <3>3. \A k, l \in Users' : f[k] = f[l] => k = l
      BY DEF IInv, RightUsers, OneSlotEach, Guest
    <3> HIDE DEF f
    <3> QED
      BY <2>2, <3>2, <3>3, ImageCount
  <2> QED
    BY <2>2, <2>3, SameCardinality
<1> HIDE DEF leaving
<1>9. Promise!TakeSeat(a, leaving)
  BY <1>4, <1>6, <1>7, <1>8 DEF Promise!TakeSeat, GuestsIn
<1> QED
  BY <1>9 DEF leaving

LEMMA LoginAdmits ==
  ASSUME IInv, IInv', NEW a \in Addresses, NEW i \in Slots, HandleLogin(a, i)
  PROVE  Promise!Next
<1>1. /\ session[a] > 0 /\ MachineOf[a] \notin banned /\ ~Known(a)
      /\ Cardinality(UsersOf(MachineOf[a])) < sn_allowSameIPCountHard
      /\ FreeSlot(i)
      /\ packets' = packets \cup {[at |-> a, slot |-> i, salt |-> session[a]]}
      /\ UNCHANGED <<client, session, banned>>
  BY DEF HandleLogin, clientVars
<1>2. \A g \in GuestsIn(Users) : g.at # a
  BY <1>1 DEF Known, GuestsIn, Guest
<1>3. Promise!Cardinality(Promise!From(MachineOf[a])) < sn_allowSameIPCountHard
  <2>1. Promise!From(MachineOf[a]) = GuestsIn(UsersOf(MachineOf[a]))
    BY Guests DEF Promise!From, GuestsIn
  <2>2. Cardinality(GuestsIn(UsersOf(MachineOf[a]))) = Cardinality(UsersOf(MachineOf[a]))
    BY Guests DEF UsersOf
  <2> QED
    BY <1>1, <2>1, <2>2, SameCardinality
<1>4. \/ Promise!TakeSeat(a, {})
      \/ Promise!Full /\ \E g \in GuestsIn(Users) : /\ g.company >= sn_allowSameIPCountSoft
                                                    /\ Promise!TakeSeat(a, {g})
  <2>1. CASE i \in Users
    <3>1. Promise!Full
      BY <1>1, <2>1, SparedWhenFull
    <3>2. sameIP[i] >= sn_allowSameIPCountSoft
      BY <1>1, <2>1, SparedCount DEF IInv
    <3>3. Guest(i) \in GuestsIn(Users) /\ Guest(i).company >= sn_allowSameIPCountSoft
      BY <2>1, <3>2 DEF GuestsIn, Guest, IInv, Counted
    <3>4. Promise!TakeSeat(a, {Guest(i)})
      BY <2>1, LoginTakesSeat
    <3> QED
      BY <3>1, <3>3, <3>4
  <2>2. CASE i \notin Users
    BY <2>2, LoginTakesSeat
  <2> QED
    BY <2>1, <2>2
<1>5. {<<p.at, p.salt>> : p \in packets}' = {<<p.at, p.salt>> : p \in packets} \cup {<<a, session[a]>>}
  <2> DEFINE q == [at |-> a, slot |-> i, salt |-> session[a]]
  <2>1. packets' = packets \cup {q} /\ q.at = a /\ q.salt = session[a]
    BY <1>1
  <2> HIDE DEF q
  <2>2. {<<p.at, p.salt>> : p \in packets'} = {<<p.at, p.salt>> : p \in packets} \cup {<<q.at, q.salt>>}
    BY <2>1
  <2> QED
    BY <2>1, <2>2
<1>6. Promise!Admit(a)
  BY <1>1, <1>2, <1>3, <1>4, <1>5 DEF Promise!Admit, GuestsIn
<1> QED
  BY <1>6 DEF Promise!Next

\* Users are guests: one slot for each client that is admitted, up to the limits of the
\* server and of its machine; only on a full server somebody has to make room, who had
\* others beside it; bans empty the slots of a machine; and only who was admitted is in
\* (login_handler, GetFreeSlot, CountSameIP, nMachine::Ban, login_accept_handler).  On
\* servers that use the last slot a ban may miss its user.
THEOREM SlotsImplementAdmission ==
  ASSUME sn_maxClients < MAXCLIENTS
  PROVE  Spec => ImplementsAdmission
<1>1. Init => Promise!Init
  <2> SUFFICES ASSUME Init PROVE Promise!Init
    OBVIOUS
  <2>1. Users = {}
    BY DEF Init, Users
  <2> QED
    BY <2>1 DEF Init, Promise!Init
<1>2. IInv /\ IInv' /\ [Next]_vars => [Promise!Next]_Promise!promised
  <2> SUFFICES ASSUME IInv, IInv', [Next]_vars
               PROVE  Promise!Next \/ UNCHANGED Promise!promised
    OBVIOUS
  <2>1. CASE UNCHANGED vars
    <3>1. /\ UNCHANGED <<client, session, banned, packets>>
          /\ GuestsIn(Users)' = GuestsIn(Users)
      BY <2>1, SameGuests DEF vars, serverVars, clientVars
    <3> QED
      BY <3>1 DEF Promise!promised, GuestsIn
  <2>2. CASE Next
    BY <2>2, KickDismisses, BanEmptiesSeats, UnbanLifts, LoginAdmits, AcceptEnters, ConnectComes,
       LeaveGoes DEF Next
  <2> QED
    BY <2>1, <2>2
<1>3. Spec => Promise!Spec
  BY <1>1, <1>2, IInvHolds, PTL DEF Spec, Promise!Spec
<1> QED
  BY <1>3 DEF ImplementsAdmission
=============================================================================
