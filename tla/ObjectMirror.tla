------------------------------ MODULE ObjectMirror ------------------------------
(***************************************************************************)
(* What nNetObject.cpp promises about the copies of the server's objects   *)
(* on the client of one slot.  There are no ids here, no acks and no       *)
(* numbers: a copy is the copy of one object.                              *)
(*                                                                         *)
(* An object lives once.  While it lives, and a client is online, a copy   *)
(* of it is offered, with the state it has at that time; the client takes  *)
(* the offer, or drops it when the object is no more.  A copy changes only *)
(* to later states that its object has had since; it goes only after its   *)
(* object, and as an offer is for living objects that have no copy, it     *)
(* goes for good.  What a client is sent ends with its session.            *)
(***************************************************************************)
EXTENDS Integers

CONSTANTS Objects,   \* the objects that may come to be
          States     \* what an object can be about, later states being greater

VARIABLES
  born,     \* the objects there have been so far
  state,    \* of each living object
  online,   \* a client has the slot
  offers,   \* copies offered to the client and not yet taken
  news,     \* states of copied objects that may reach the client
  view      \* of each copy the client has

mirror == <<born, state, online, offers, news, view>>

Alive == DOMAIN state
Copied == DOMAIN view
About == [about : Objects, state : States]

\* f without the objects D.
Less(f, D) == [n \in DOMAIN f \ D |-> f[n]]

\* f with the value v for the object n.
With(f, n, v) == [o \in DOMAIN f \cup {n} |-> IF o = n THEN v ELSE f[o]]

NoClient == offers = {} /\ news = {} /\ view = [n \in {} |-> 0]

Init == /\ born = {}
        /\ state = [n \in {} |-> 0]
        /\ online = FALSE
        /\ NoClient

-----------------------------------------------------------------------------
(* The server's objects *)

Create == \E n \in Objects \ born, s \in States :
            /\ born' = born \cup {n}
            /\ state' = With(state, n, s)
            /\ UNCHANGED <<online, offers, news, view>>

Change == \E n \in Alive, s \in States :
            /\ s > state[n]
            /\ state' = With(state, n, s)
            /\ UNCHANGED <<born, online, offers, news, view>>

Destroy == \E n \in Alive :
             /\ state' = Less(state, {n})
             /\ UNCHANGED <<born, online, offers, news, view>>

-----------------------------------------------------------------------------
(* The session *)

Connect == /\ ~online
           /\ online' = TRUE
           /\ NoClient'
           /\ UNCHANGED <<born, state>>

\* What the client owned dies with it.
Disconnect == /\ online
              /\ online' = FALSE
              /\ NoClient'
              /\ \E D \in SUBSET Alive : state' = Less(state, D)
              /\ UNCHANGED born

-----------------------------------------------------------------------------
(* The client's copies *)

Offer == \E n \in Alive \ Copied :
           /\ online
           /\ \A o \in offers : o.about # n
           /\ offers' = offers \cup {[about |-> n, state |-> state[n]]}
           /\ UNCHANGED <<born, state, online, news, view>>

Take == \E o \in offers :
          /\ offers' = offers \ {o}
          /\ \/ view' = With(view, o.about, o.state)
             \/ o.about \notin Alive /\ view' = view
          /\ UNCHANGED <<born, state, online, news>>

Tell == \E n \in Alive \cap Copied :
          /\ online
          /\ news' = news \cup {[about |-> n, state |-> state[n]]}
          /\ UNCHANGED <<born, state, online, offers, view>>

\* News may come again, come late or never come; a copy shows the latest it has heard of.
Hear == \E w \in news :
          /\ news' \in {news, news \ {w}}
          /\ view' = IF w.about \in Copied /\ w.state > view[w.about]
                     THEN With(view, w.about, w.state)
                     ELSE view
          /\ UNCHANGED <<born, state, online, offers>>

Withdraw == \E D \in SUBSET Copied :
              /\ D \cap Alive = {}
              /\ view' = Less(view, D)
              /\ UNCHANGED <<born, state, online, offers, news>>

Next == \/ Create \/ Change \/ Destroy
        \/ Connect \/ Disconnect
        \/ Offer \/ Take \/ Tell \/ Hear \/ Withdraw

Spec == Init /\ [][Next]_mirror
=============================================================================
