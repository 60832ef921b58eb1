------------------------------- MODULE Admission -------------------------------
(***************************************************************************)
(* What a server promises to those who want to play on it (LoginSlots      *)
(* shows that the logins in nNetwork.cpp do): a seat for one client of an  *)
(* address, as long as there are seats and its machine has not got too     *)
(* many.  Only on a full server somebody has to make room, and then        *)
(* somebody who shared its machine with many when it came.  Bans empty the *)
(* seats of a machine, and nobody thinks he is in who was not admitted.    *)
(*                                                                         *)
(* There are no slots here, no counts that go stale, no logins that are    *)
(* repeated or late, no answers that get lost: to be admitted, to go and   *)
(* to hear of it are steps that may happen or not.                         *)
(***************************************************************************)
EXTENDS Integers, FiniteSets

CONSTANTS
  Addresses, Machines, MachineOf,
  Seats,   \* for as many guests
  Hosts,   \* whether the server itself takes part
  Soft,    \* with fewer others of its machine nobody has to make room
  Hard     \* guests of one machine

VARIABLES
  client,    \* what runs at an address: "out", "trying" or "in"
  visit,     \* how many have run there
  guests,    \* those with a seat: the address, the visit, and the others of its machine
             \* it found there
  invited,   \* <<a, v>>: visit v of a has been given a seat
  banned     \* machines

promised == <<client, visit, guests, invited, banned>>

Init ==
  /\ client = [a \in Addresses |-> "out"]
  /\ visit = [a \in Addresses |-> 0]
  /\ guests = {} /\ invited = {} /\ banned = {}

From(machine) == {g \in guests : MachineOf[g.at] = machine}

Come(a) ==
  /\ client[a] = "out"
  /\ client' = [client EXCEPT ![a] = "trying"]
  /\ visit' = [visit EXCEPT ![a] = @ + 1]
  /\ UNCHANGED <<guests, invited, banned>>

Full == Cardinality(guests) + (IF Hosts THEN 1 ELSE 0) >= Seats

\* The last client of a takes a seat, those in leaving have left.
TakeSeat(a, leaving) ==
  /\ guests' = (guests \ leaving) \cup
       {[at |-> a, visit |-> visit[a],
         company |-> Cardinality(From(MachineOf[a]) \ leaving)]}
  /\ Cardinality(guests') <= Seats

Admit(a) ==
  /\ visit[a] > 0
  /\ MachineOf[a] \notin banned
  /\ \A g \in guests : g.at # a
  /\ Cardinality(From(MachineOf[a])) < Hard
  /\ \/ TakeSeat(a, {})
     \/ Full /\ \E g \in guests : g.company >= Soft /\ TakeSeat(a, {g})
  /\ invited' = invited \cup {<<a, visit[a]>>}
  /\ UNCHANGED <<client, visit, banned>>

\* A client hears that it has, or has had, a seat.
Enter(a) ==
  /\ client[a] # "out" /\ <<a, visit[a]>> \in invited
  /\ client' = [client EXCEPT ![a] = "in"]
  /\ UNCHANGED <<visit, guests, invited, banned>>

\* A client goes; its guest need not hear of it yet.
Go(a) ==
  /\ client[a] # "out"
  /\ client' = [client EXCEPT ![a] = "out"]
  /\ UNCHANGED <<visit, guests, invited, banned>>

Dismiss(g) ==
  /\ guests' = guests \ {g}
  /\ UNCHANGED <<client, visit, invited, banned>>

Ban(machine) ==
  /\ banned' = banned \cup {machine}
  /\ guests' = guests \ From(machine)
  /\ UNCHANGED <<client, visit, invited>>

Unban(machine) ==
  /\ banned' = banned \ {machine}
  /\ UNCHANGED <<client, visit, guests, invited>>

Next ==
  \/ \E a \in Addresses : Come(a) \/ Admit(a) \/ Enter(a) \/ Go(a)
  \/ \E g \in guests : Dismiss(g)
  \/ \E machine \in Machines : Ban(machine) \/ Unban(machine)

Spec == Init /\ [][Next]_promised
=============================================================================
