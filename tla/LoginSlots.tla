------------------------------- MODULE LoginSlots -------------------------------
(***************************************************************************)
(* How nNetwork.cpp gives the slots of a server to the clients that log    *)
(* in, and takes them away: repeated and delayed logins, a slot freed for  *)
(* a newcomer when the server is full, logouts, timeouts, kicks and bans.  *)
(*                                                                         *)
(* A packet that was sent may arrive at any time and any number of times,  *)
(* or never: nothing here relies on an arrival.  Login messages have the   *)
(* id 0, which is never recognised as a repetition.  A client is what runs *)
(* at an address, which may be used again by the next session there.       *)
(* Logouts and refusals are not kept as packets: a user may be kicked, and *)
(* a client may leave, at any time and to the same effect.  That a login   *)
(* is refused for its version or ignored by the flood protection is like   *)
(* its loss.                                                               *)
(***************************************************************************)
EXTENDS Integers, FiniteSets, Functions

CONSTANTS
  Addresses, Machines,
  MachineOf,                \* the machine an address belongs to
  NoPeer,                   \* the address of a slot without a socket
  MAXCLIENTS,               \* slots
  sn_maxClients,            \* those in use
  sn_allowSameIPCountSoft,
  sn_allowSameIPCountHard,
  Hosts,                    \* whether the server plays, too (it is not a dedicated one)
  MaxSessions               \* bound on the sessions of all clients together

ASSUME SlotsAssumption ==
  /\ MachineOf \in [Addresses -> Machines]
  /\ MAXCLIENTS \in Nat /\ sn_maxClients \in 1 .. MAXCLIENTS
  /\ sn_allowSameIPCountSoft \in Nat /\ sn_allowSameIPCountHard \in Nat
  /\ Hosts \in BOOLEAN /\ MaxSessions \in Nat
  /\ NoPeer \notin Addresses

Slots == 1 .. MAXCLIENTS

VARIABLES
  (* the server *)
  peers,        \* addresses of the users
  sameIP,       \* the counts CountSameIP remembers
  banned,       \* machines
  (* the network *)
  packets,      \* the login_accepts sent
  (* the client at each address *)
  client,       \* "out", "trying" or "in"
  session,      \* number of its session, for the loginSalt
  sn_myNetID,
  (* history *)
  salts,        \* the session each slot was given to
  crowd         \* for each user, how many others of its machine were there when it came

serverVars == <<peers, sameIP, banned, salts, crowd>>
clientVars == <<client, session, sn_myNetID>>
vars == <<serverVars, packets, clientVars>>


Packets == [at : Addresses, slot : Slots, salt : Nat]

Users == {i \in Slots : peers[i] # NoPeer}
UsersOf(machine) == {i \in Users : MachineOf[peers[i]] = machine}

-----------------------------------------------------------------------------
(* Slots *)

\* sn_NumUsers
NumUsers == Cardinality(Users) + (IF Hosts THEN 1 ELSE 0)

EmptySlots == {i \in 1 .. sn_maxClients : peers[i] = NoPeer}

\* The count of slot i is above all allowed: what CountSameIP last counted for it, which
\* may have been for a user that is gone, or together with users that are gone.
MaySpare(i) == sameIP[i] > sn_allowSameIPCountSoft - 1

\* GetFreeSlot, level 3: the first slot of those with the largest count.
Spared(i) ==
  /\ MaySpare(i)
  /\ \A k \in Slots : /\ sameIP[k] <= sameIP[i]
                      /\ k < i => sameIP[k] < sameIP[i]

\* GetFreeSlot
FreeSlot(i) ==
  IF NumUsers < sn_maxClients /\ EmptySlots # {}
  THEN i \in EmptySlots /\ \A k \in EmptySlots : i <= k
  ELSE Spared(i)

-----------------------------------------------------------------------------
(* The server *)

Init ==
  /\ peers = [i \in Slots |-> NoPeer]
  /\ sameIP = [i \in Slots |-> 0]
  /\ banned = {}
  /\ packets = {}
  /\ client = [a \in Addresses |-> "out"]
  /\ session = [a \in Addresses |-> 0]
  /\ sn_myNetID = [a \in Addresses |-> 0]
  /\ salts = [i \in Slots |-> 0]
  /\ crowd = [i \in Slots |-> 0]

\* sn_DisconnectUserNoWarn for each slot in S.
Disconnect(S) ==
  /\ peers' = [i \in Slots |-> IF i \in S THEN NoPeer ELSE peers[i]]
  /\ salts' = [i \in Slots |-> IF i \in S THEN 0 ELSE salts[i]]
  /\ crowd' = [i \in Slots |-> IF i \in S THEN 0 ELSE crowd[i]]
  /\ UNCHANGED <<sameIP, packets, clientVars>>

\* logout_handler, for a logout that may be as old as the address; or the user times out, is
\* kicked, or breaks the rules (nKillHim).
Kick(i) ==
  /\ i \in Users
  /\ Disconnect({i})
  /\ UNCHANGED banned

\* The users nMachine::Ban finds: its loop starts below the last slot.
Found(machine) == {i \in UsersOf(machine) : i < MAXCLIENTS}

\* nMachine::Ban, by an administrator, or by login_handler when a banned machine tries again.
Ban(machine) ==
  /\ banned' = banned \cup {machine}
  /\ Disconnect(Found(machine))

\* A ban runs out or is lifted.
Unban(machine) ==
  /\ machine \in banned
  /\ banned' = banned \ {machine}
  /\ UNCHANGED <<peers, sameIP, salts, crowd, packets, clientVars>>

\* Mutant of Known: a login at a known address is only ignored if it is the same session.
KnownSession(a) == \E i \in Users : peers[i] = a /\ salts[i] = session[a]

\* CountSameConnection > 0: the sender has a slot already.
Known(a) == \E i \in Users : peers[i] = a

\* Mutant of Recounted: the newcomer is counted, too.
RecountedWithItself(i, machine) == [sameIP EXCEPT ![i] = Cardinality(UsersOf(machine) \ {i}) + 1]

\* Mutant of Recounted: one is taken off for the newcomer, which is not in its slot yet.
RecountedTooEarly(i, machine) == [sameIP EXCEPT ![i] = Cardinality(UsersOf(machine)) - 1]

\* CountSameIP(new_id, true), when slot i has been given to a client of the machine.
Recounted(i, machine) == [sameIP EXCEPT ![i] = Cardinality(UsersOf(machine) \ {i})]

\* login_handler for a login from address a, sent by the last session there, which gets slot
\* i, whose user is disconnected first.  A login of a user is ignored, and all others are
\* refused.  Assumed: logins of earlier sessions from the same address arrive no more.
HandleLogin(a, i) ==
  /\ session[a] > 0
  /\ MachineOf[a] \notin banned /\ ~Known(a)
  /\ Cardinality(UsersOf(MachineOf[a])) < sn_allowSameIPCountHard
  /\ FreeSlot(i)
  /\ peers' = [peers EXCEPT ![i] = a]
  /\ sameIP' = Recounted(i, MachineOf[a])
  /\ packets' = packets \cup {[at |-> a, slot |-> i, salt |-> session[a]]}
  /\ salts' = [salts EXCEPT ![i] = session[a]]
  /\ crowd' = [crowd EXCEPT ![i] = Cardinality(UsersOf(MachineOf[a]) \ {i})]
  /\ UNCHANGED <<banned, clientVars>>

-----------------------------------------------------------------------------
(* The clients *)

\* sn_Connect, which sends logins until an answer comes.
Connect(a) ==
  /\ client[a] = "out"
  /\ FoldFunction(+, 0, session) < MaxSessions
  /\ client' = [client EXCEPT ![a] = "trying"]
  /\ session' = [session EXCEPT ![a] = @ + 1]
  /\ UNCHANGED <<serverVars, packets, sn_myNetID>>

\* login_accept_handler compares the salt with the one it sent.
OwnSalt(p) == p.salt = session[p.at]

\* login_accept_handler, also for a client that has been accepted before.
HandleAccept(p) ==
  /\ p \in packets
  /\ client[p.at] # "out"
  /\ OwnSalt(p)
  /\ client' = [client EXCEPT ![p.at] = "in"]
  /\ sn_myNetID' = [sn_myNetID EXCEPT ![p.at] = p.slot]
  /\ UNCHANGED <<serverVars, packets, session>>

\* sn_SetNetState(nSTANDALONE): the client leaves, gives up, times out, crashes, or gets a
\* login_deny, which may be meant for an earlier session.
Leave(a) ==
  /\ client[a] # "out"
  /\ client' = [client EXCEPT ![a] = "out"]
  /\ sn_myNetID' = [sn_myNetID EXCEPT ![a] = 0]
  /\ UNCHANGED <<serverVars, packets, session>>

-----------------------------------------------------------------------------
Next ==
  \/ \E i \in Slots : Kick(i)
  \/ \E machine \in Machines : Ban(machine) \/ Unban(machine)
  \/ \E a \in Addresses, i \in Slots : HandleLogin(a, i)
  \/ \E p \in packets : HandleAccept(p)
  \/ \E a \in Addresses : Connect(a) \/ Leave(a)

Spec == Init /\ [][Next]_vars

-----------------------------------------------------------------------------
(* Properties *)

\* Types; whatever slots GetFreeSlot frees for newcomers, users are in those MAX_CLIENTS
\* allows only.
TypeOK ==
  /\ peers \in [Slots -> Addresses \cup {NoPeer}]
  /\ sameIP \in [Slots -> Nat] /\ crowd \in [Slots -> Nat]
  /\ salts \in [Slots -> Nat]
  /\ banned \subseteq Machines
  /\ packets \subseteq Packets
  /\ client \in [Addresses -> {"out", "trying", "in"}]
  /\ session \in [Addresses -> Nat]
  /\ sn_myNetID \in [Addresses -> Slots \cup {0}]
  /\ Users \subseteq 1 .. sn_maxClients

\* MAX_CLIENTS_SAME_IP_HARD: no machine has more users, whoever makes room for a newcomer.
\* (Proved; a run whose machine reaches the limit before the server is full is too large.)
HardLimit ==
  \A machine \in Machines : Cardinality(UsersOf(machine)) <= sn_allowSameIPCountHard

\* However often and late its login arrives, a client has one slot.
OneSlotEach == \A i, k \in Users : peers[i] = peers[k] => i = k

\* No user is of a banned machine.  Ban does not look at the last slot; a server that
\* does not use it is right.
NoneBanned == sn_maxClients < MAXCLIENTS => \A i \in Users : MachineOf[peers[i]] \notin banned

\* A client that takes itself for the user of a slot is not confused with an earlier
\* session from its address there.
SameSession ==
  \A a \in Addresses, i \in Users :
    client[a] = "in" /\ sn_myNetID[a] = i /\ peers[i] = a => salts[i] = session[a]

\* The slots are with the clients they are meant for.
RightUsers == OneSlotEach /\ NoneBanned /\ SameSession

\* Who has to go for a newcomer had at least MAX_CLIENTS_SAME_IP_SOFT others beside it on its
\* machine when it came itself.  (They need not be there any more.)
KickedForSharing ==
  [][\A i \in Users : i \in Users' /\ peers'[i] # peers[i]
       => crowd[i] >= sn_allowSameIPCountSoft]_vars

\* The user of slot i, whatever its slot.
Guest(i) == [at |-> peers[i], visit |-> salts[i], company |-> crowd[i]]

Promise == INSTANCE Admission
             WITH Seats <- sn_maxClients, Soft <- sn_allowSameIPCountSoft,
                  Hard <- sn_allowSameIPCountHard,
                  visit <- session, guests <- {Guest(i) : i \in Users},
                  invited <- {<<p.at, p.salt>> : p \in packets}

\* The slots, the counts and the packets only serve to admit clients as Admission says:
\* one seat each, up to the limits, and nobody has to go but on a full server, and only who
\* had too many others of its machine beside it when it came (nNetwork.cpp:1974-2137).
\* (Servers that use the last slot do not clear it for a ban.)
ImplementsAdmission == Promise!Spec

=============================================================================
