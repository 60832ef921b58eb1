-------------------------------- MODULE IdLeases --------------------------------
(***************************************************************************)
(* What nNetObject.cpp promises about the ids of network objects.  There   *)
(* are no messages here, no rings and no queue of freed ids.               *)
(*                                                                         *)
(* The server makes objects with ids that nobody holds, and leases such    *)
(* ids to its clients.  A client makes one object, or none, with a leased  *)
(* id; the server comes to see that object once, or never, and takes the   *)
(* id back when the client has destroyed it.  So no two objects ever have  *)
(* an id together, wherever they are.  A client that leaves has no leases; *)
(* some of its objects the server may keep as its own.                     *)
(***************************************************************************)

CONSTANTS Ids, Users

VARIABLES
  present,   \* clients that are here
  servers,   \* ids of the server's objects
  leased,    \* ids each client holds
  fresh,     \* those of them it has made nothing of
  own,       \* ids of the objects each client has
  seen       \* ids of each client's objects that the server has

leases == <<present, servers, leased, fresh, own, seen>>

Held == servers \cup UNION {leased[u] : u \in Users}

\* f with D added to, or removed from, what u has.
With(f, u, D) == [f EXCEPT ![u] = @ \cup D]
Less(f, u, D) == [f EXCEPT ![u] = @ \ D]

Init == /\ present = {} /\ servers = {}
        /\ leased = [u \in Users |-> {}] /\ fresh = [u \in Users |-> {}]
        /\ own = [u \in Users |-> {}] /\ seen = [u \in Users |-> {}]

-----------------------------------------------------------------------------
(* The server and its objects *)

Make == \E id \in Ids \ Held :
          /\ servers' = servers \cup {id}
          /\ UNCHANGED <<present, leased, fresh, own, seen>>

Destroy == \E id \in servers :
             /\ servers' = servers \ {id}
             /\ UNCHANGED <<present, leased, fresh, own, seen>>

-----------------------------------------------------------------------------
(* The clients come and go *)

Enter(u) == /\ u \notin present
            /\ present' = present \cup {u}
            /\ UNCHANGED <<servers, leased, fresh, own, seen>>

Leave(u) == /\ u \in present
            /\ present' = present \ {u}
            /\ \E K \in SUBSET seen[u] : servers' = servers \cup K
            /\ leased' = [leased EXCEPT ![u] = {}]
            /\ fresh' = [fresh EXCEPT ![u] = {}]
            /\ own' = [own EXCEPT ![u] = {}]
            /\ seen' = [seen EXCEPT ![u] = {}]

-----------------------------------------------------------------------------
(* A lease, from its beginning to its end *)

Lease(u) == \E S \in SUBSET (Ids \ Held) :
              /\ u \in present
              /\ leased' = With(leased, u, S)
              /\ fresh' = With(fresh, u, S)
              /\ UNCHANGED <<present, servers, own, seen>>

Use(u) == \E id \in fresh[u] :
            /\ fresh' = Less(fresh, u, {id})
            /\ own' = With(own, u, {id})
            /\ UNCHANGED <<present, servers, leased, seen>>

\* Ids that will never be used before the client leaves.
Waste(u) == \E S \in SUBSET fresh[u] :
              /\ fresh' = Less(fresh, u, S)
              /\ UNCHANGED <<present, servers, leased, own, seen>>

Drop(u) == \E id \in own[u] :
             /\ own' = Less(own, u, {id})
             /\ UNCHANGED <<present, servers, leased, fresh, seen>>

\* The server may see the object when the client has it no more.
See(u) == \E id \in leased[u] \ (fresh[u] \cup seen[u]) :
            /\ seen' = With(seen, u, {id})
            /\ UNCHANGED <<present, servers, leased, fresh, own>>

End(u) == \E id \in leased[u] \ (fresh[u] \cup own[u]) :
            /\ leased' = Less(leased, u, {id})
            /\ seen' = Less(seen, u, {id})
            /\ UNCHANGED <<present, servers, fresh, own>>

Next == \/ Make \/ Destroy
        \/ \E u \in Users : \/ Enter(u) \/ Leave(u)
                            \/ Lease(u) \/ Use(u) \/ Waste(u) \/ Drop(u)
                            \/ See(u) \/ End(u)

Spec == Init /\ [][Next]_leases

-----------------------------------------------------------------------------
\* Each id is the server's, or one client's, or nobody's, and a client's objects have
\* ids that are its own and that it will not give to another object.
OneHolder ==
  \A u \in Users :
    /\ fresh[u] \cup own[u] \cup seen[u] \subseteq leased[u]
    /\ fresh[u] \cap (own[u] \cup seen[u]) = {}
    /\ leased[u] \cap servers = {}
    /\ \A v \in Users \ {u} : leased[u] \cap leased[v] = {}
=============================================================================
