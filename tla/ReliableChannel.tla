---------------------------- MODULE ReliableChannel ----------------------------
(***************************************************************************)
(* What the message layer of nNetwork.cpp promises to the code above it    *)
(* about the messages one end of a connection sends to the other: every    *)
(* message is handed to its handler at most once, in any order, possibly   *)
(* never, and the sender is told of an arrival only after it happened.     *)
(* The detailed protocol that keeps the promise is in ReliableLink.        *)
(***************************************************************************)
EXTENDS Naturals, Sequences

CONSTANT Message

VARIABLES
  sent,       \* messages given to the channel
  handled,    \* the messages handed to their handler, in that order
  confirmed   \* messages the sender knows to have arrived

cvars == <<sent, handled, confirmed>>

Handled == {handled[i] : i \in DOMAIN handled}

Init == /\ sent = {}
        /\ handled = <<>>
        /\ confirmed = {}

Send == \E m \in Message \ sent:
          /\ sent' = sent \cup {m}
          /\ UNCHANGED <<handled, confirmed>>

Handle == \E m \in sent \ Handled:
            /\ handled' = Append(handled, m)
            /\ UNCHANGED <<sent, confirmed>>

\* One acknowledgement message confirms any number of messages.
Confirm == \E M \in SUBSET Handled:
             /\ confirmed' = confirmed \cup M
             /\ UNCHANGED <<sent, handled>>

Next == Send \/ Handle \/ Confirm

Spec == Init /\ [][Next]_cvars
=============================================================================
