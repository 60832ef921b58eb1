--------------------------------- MODULE Rounds ---------------------------------
(***************************************************************************)
(* What a server promises to the clients that play on it (GameState shows  *)
(* that gGame.cpp does): it and they go through the stages of a round      *)
(* together, round after round.  The server tells how far to go, and does  *)
(* not tell more before all who are there have got where it is itself; no  *)
(* client goes further than it was told.  Who comes late in a round waits  *)
(* for the next one.  It promises that for as long as it has the patience  *)
(* to wait.                                                                *)
(*                                                                         *)
(* There are no numbers of states to compare in a circle, no messages and  *)
(* no timeouts here.  Stages are counted without end: lead and place are   *)
(* distances to the stage told last.                                       *)
(***************************************************************************)
EXTENDS Integers

CONSTANTS
  Clients,
  Stages,    \* of a round
  Joining    \* who comes while no stage after this one was told takes part in the round

VARIABLES
  patient,   \* whether the promise still holds
  told,      \* the stage of the round told last
  place,     \* how many stages further the server is
  present,   \* clients
  new,       \* those that have not moved yet
  lead       \* how many stages further than told last each of them is

rounds == <<patient, told, place, present, new, lead>>

Init ==
  /\ patient = TRUE
  /\ told = 0 /\ place = 0
  /\ present = {} /\ new = {}
  /\ lead = [c \in Clients |-> 0]

-----------------------------------------------------------------------------
(* The clients *)

\* A client begins with this round, or with the next one.
Come(c) ==
  /\ c \notin present
  /\ present' = present \cup {c} /\ new' = new \cup {c}
  /\ lead' = [lead EXCEPT ![c] = IF told <= Joining THEN 0 - told ELSE Stages - told]
  /\ UNCHANGED <<patient, told, place>>

\* A client goes as far as it was told; only who is new, and knows no better, begins with a
\* round that is to come at once.
Proceed(c) ==
  /\ c \in present
  /\ lead[c] < 0 \/ (c \in new /\ told \in {0, Stages - 1})
  /\ lead' = [lead EXCEPT ![c] = @ + 1]
  /\ new' = new \ {c}
  /\ UNCHANGED <<patient, told, place, present>>

Go(c) ==
  /\ c \in present
  /\ present' = present \ {c} /\ new' = new \ {c}
  /\ lead' = [lead EXCEPT ![c] = 0]
  /\ UNCHANGED <<patient, told, place>>

-----------------------------------------------------------------------------
(* The server *)

\* The server goes as far as it has told, and into a round it has told the beginning of.
Move ==
  /\ place' = place + 1
  /\ place < 0 \/ (place = 0 /\ told = 0)
  /\ UNCHANGED <<patient, told, present, new, lead>>

\* The server is where it has told to go, and so are all others: now k stages further.
Tell(k) ==
  /\ place >= 0
  /\ told' = (told + k) % Stages /\ place' = place - k
  /\ \A c \in present : lead[c] >= place
  /\ lead' = [c \in Clients |-> IF c \in present THEN lead[c] - k ELSE lead[c]]
  /\ UNCHANGED <<patient, present, new>>

\* The server has not waited any longer, and from now on anything may be.
LosePatience == patient' = FALSE

-----------------------------------------------------------------------------
Next ==
  \/ LosePatience
  \/ Move
  \/ \E c \in Clients : Come(c) \/ Proceed(c) \/ Go(c)
  \/ \E k \in 1 .. Stages - 1 : Tell(k)

Spec == Init /\ [][Next]_rounds
=============================================================================
