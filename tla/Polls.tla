--------------------------------- MODULE Polls ---------------------------------
(***************************************************************************)
(* What the polls of a server promise to those who vote (Voting shows that *)
(* eVoter.cpp does): a machine has one vote, which only its players change *)
(* and which is gone when they are; a poll that is over stays over; and    *)
(* only a poll that more are for than against sends anybody away, and then *)
(* from the machine of the player it was about.                            *)
(*                                                                         *)
(* There is no list of polls here, nothing that walks over it, no clock,   *)
(* no number of voters that is counted when a poll is sent.  A poll may be *)
(* closed at any time, for reasons that are not said here.                 *)
(***************************************************************************)
EXTENDS Integers, FiniteSets

CONSTANTS Users, Machines, None, Ids

VARIABLES
  place,      \* the machine a user is on, None if it is not there
  playing,    \* users with a player
  state,      \* of each poll: "none", "open", "closed" or "accepted"
  accused,    \* the machine of the player a poll wants kicked, None for other polls
  for,        \* <<id, m>>: the vote of machine m is for the open poll id
  against     \* or against it

promised == <<place, playing, state, accused, for, against>>

Init ==
  /\ place = [u \in Users |-> None]
  /\ playing = {}
  /\ state = [id \in Ids |-> "none"]
  /\ accused = [id \in Ids |-> None]
  /\ for = {} /\ against = {}

Arrive(u) ==
  /\ place[u] = None
  /\ \E m \in Machines : place' = [place EXCEPT ![u] = m]
  /\ UNCHANGED <<playing, state, accused, for, against>>

Play(u) ==
  /\ place[u] # None /\ u \notin playing
  /\ playing' = playing \cup {u}
  /\ UNCHANGED <<place, state, accused, for, against>>

\* What is left of the votes when those of the machines in gone are withdrawn, and those
\* on the polls that are over dropped.
Left(votes, gone, over) == {b \in votes : b[1] \notin over /\ b[2] \notin gone}

\* The users U are gone, and with them the votes of their machines, of those in pro and con.
Depart(U, over, pro, con) ==
  LET gone == {place[u] : u \in U \cap playing}
  IN  /\ place' = [u \in Users |-> IF u \in U THEN None ELSE place[u]]
      /\ playing' = playing \ U
      /\ for' = Left(pro, gone, over)
      /\ against' = Left(con, gone, over)

Leave(u) ==
  /\ place[u] # None
  /\ Depart({u}, {}, for, against)
  /\ UNCHANGED <<state, accused>>

Votes(votes, id) == Cardinality({b \in votes : b[1] = id})

\* Poll id, about a player on machine m, is looked at when the votes are pro and con.
Settle(id, m, pro, con) ==
  \/ state' = [state EXCEPT ![id] = "open"] /\ Depart({}, {}, pro, con)
  \/ state' = [state EXCEPT ![id] = "closed"] /\ Depart({}, {id}, pro, con)
  \/ /\ state' = [state EXCEPT ![id] = "accepted"]
     /\ Votes(pro, id) > Votes(con, id)
     /\ \E U \in SUBSET {u \in Users : place[u] # None /\ place[u] = m} :
          Depart(U, {id}, pro, con)

\* A player starts a poll, perhaps about another one, and is for it.
Start(id) ==
  /\ state[id] = "none"
  /\ \E u \in playing, m \in {None} \cup {place[w] : w \in playing} :
       /\ accused' = [accused EXCEPT ![id] = m]
       /\ Settle(id, m, for \cup {<<id, place[u]>>}, against)

\* A player votes, or changes its vote or that of another one on its machine.
Vote(id) ==
  /\ state[id] = "open"
  /\ UNCHANGED accused
  /\ \E u \in playing :
       LET b == {<<id, place[u]>>}
       IN  \/ Settle(id, accused[id], for \cup b, against \ b)
           \/ Settle(id, accused[id], for \ b, against \cup b)

\* A poll is looked at for another reason.
Review(id) ==
  /\ state[id] = "open"
  /\ Settle(id, accused[id], for, against)
  /\ UNCHANGED accused

\* The administrator cancels the open polls.
Cancel ==
  /\ state' = [id \in Ids |-> IF state[id] = "open" THEN "closed" ELSE state[id]]
  /\ for' = {} /\ against' = {}
  /\ UNCHANGED <<place, playing, accused>>

Next ==
  \/ Cancel
  \/ \E u \in Users : Arrive(u) \/ Play(u) \/ Leave(u)
  \/ \E id \in Ids : Start(id) \/ Vote(id) \/ Review(id)

Spec == Init /\ [][Next]_promised

\* What was decided once is not taken back, or decided again: a poll that is closed or
\* accepted (eVoter.cpp:534-601) stays so.
OverIsOver ==
  [][\A id \in Ids : state[id] \in {"closed", "accepted"} => state'[id] = state[id]]_promised
=============================================================================
