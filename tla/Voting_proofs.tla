---------------------------- MODULE Voting_proofs ----------------------------
(***************************************************************************)
(* Proofs of the safety properties of Voting, for any numbers of users,    *)
(* machines and polls.                                                     *)
(*                                                                         *)
(* The inductive invariant IInv adds two facts to the properties: ids are  *)
(* given out in order (Numbered), and what a poll knows of the player it   *)
(* is about agrees with where that player came from (part of Good).        *)
(* Everything that happens to the list of polls is the deletion of one     *)
(* poll and the departure of some users, so there is a lemma for each.     *)
(* The last part maps every step to one of Polls.                          *)
(***************************************************************************)
EXTENDS Voting, FiniteSetTheorems, TLAPS

USE VotingAssumption

\* What holds of an open poll p, when acc are the accused.
GoodItem(p, acc) ==
  /\ p.pro \cap p.con = {}
  /\ (p.pro \cup p.con \cup {p.suggestor}) \ {None} \subseteq {machine[u] : u \in Players}
  /\ p.target # None => p.target \in Players /\ machine[p.target] = acc[p.id]
  /\ p.victim # None => p.victim = acc[p.id]

Good(its, acc) == \A i \in 1 .. Len(its) : GoodItem(its[i], acc)

Distinct(its) == \A i, j \in 1 .. Len(its) : its[i].id = its[j].id => i = j

Listed(its, id) == \E i \in 1 .. Len(its) : its[i].id = id

Numbered == \A id \in Ids : id > lastID => outcome[id] = "none"

\* A poll is only asked for while there is an id left.
RequestFits == loop # Resting /\ loop.request # NoRequest => lastID < MaxPolls

IInv ==
  /\ TypeOK
  /\ Good(items, accused)
  /\ Distinct(items)
  /\ \A id \in Ids : outcome[id] = "open" <=> Listed(items, id)
  /\ AcceptedByMajority
  /\ Numbered
  /\ RequestFits

-----------------------------------------------------------------------------
(***************************************************************************)
(* Counting.                                                               *)
(***************************************************************************)
LEMMA Counts ==
  ASSUME NEW p \in Item
  PROVE  /\ Pro(p) \in Nat
         /\ Con(p) \in Nat
         /\ Ignored(p) \in Nat
         /\ p.total + Bias[p.kind] \in Nat
         /\ Total(p) = (p.total + Bias[p.kind]) - Ignored(p)
<1>1. IsFiniteSet(p.pro) /\ IsFiniteSet(p.con)
  BY FS_Subset DEF Item
<1>2. Cardinality(p.pro) \in Nat /\ Cardinality(p.con) \in Nat
  BY <1>1, FS_CardinalityType
<1>3. Bias[p.kind] \in Nat /\ p.total \in Nat /\ p.age \in Nat /\ StartDecay \in Nat
  BY DEF Item
<1> QED
  BY <1>2, <1>3 DEF Pro, Con, Ignored, Total

\* The ignored voters are taken off the total, whoever they are, and still no
\* poll is accepted that a majority of those who voted is not for.
LEMMA MajorityOf ==
  ASSUME NEW a \in Nat, NEW c \in Nat, NEW n \in Nat, NEW g \in Nat,
         a >= c, 2 * a > n - g, ~(c >= a /\ 2 * c >= n - g)
  PROVE  Majority([pro |-> a, con |-> c, ignored |-> g, total |-> n])
BY DEF Majority

LEMMA AcceptedMajority ==
  ASSUME NEW p \in Item, Fate(p) = "accepted"
  PROVE  Majority([pro |-> Pro(p), con |-> Con(p), ignored |-> Ignored(p),
                   total |-> p.total + Bias[p.kind]])
<1>1. Pro(p) >= Con(p) /\ 2 * Pro(p) > Total(p)
  BY DEF Fate, Accepted
<1>2. ~(Con(p) >= Pro(p) /\ 2 * Con(p) >= Total(p))
  BY DEF Fate, Rejected
<1>3. Pro(p) \in Nat /\ Con(p) \in Nat /\ Ignored(p) \in Nat
  BY Counts
<1>4. p.total + Bias[p.kind] \in Nat
  BY Counts
<1>5. Total(p) = (p.total + Bias[p.kind]) - Ignored(p)
  BY Counts
<1>6. /\ Pro(p) >= Con(p)
      /\ 2 * Pro(p) > (p.total + Bias[p.kind]) - Ignored(p)
      /\ ~(Con(p) >= Pro(p) /\ 2 * Con(p) >= (p.total + Bias[p.kind]) - Ignored(p))
  BY <1>1, <1>2, <1>5, Zenon
<1> QED
  BY <1>3, <1>4, <1>6, MajorityOf

LEMMA FateType ==
  ASSUME NEW p
  PROVE  (IF Fate(p) \in {"open", "accepted"} THEN Fate(p) ELSE "closed")
           \in {"open", "accepted", "closed"}
BY DEF Fate

-----------------------------------------------------------------------------
(***************************************************************************)
(* The list of polls.                                                      *)
(***************************************************************************)
LEMMA RemoveType ==
  ASSUME NEW its \in Seq(Item), NEW i \in 1 .. Len(its)
  PROVE  /\ Remove(its, i) \in Seq(Item)
         /\ Len(Remove(its, i)) = Len(its) - 1
         /\ \A j \in 1 .. Len(its) - 1 :
              Remove(its, i)[j] = its[IF j = i THEN Len(its) ELSE j]
<1>1. Len(its) \in Nat /\ Len(its) - 1 \in Nat
  OBVIOUS
<1>2. \A j \in 1 .. Len(its) - 1 : (IF j = i THEN its[Len(its)] ELSE its[j]) \in Item
  OBVIOUS
<1> QED
  BY <1>1, <1>2 DEF Remove

\* Removing a poll leaves the others, each once.
LEMMA RemoveKeeps ==
  ASSUME NEW its \in Seq(Item), NEW i \in 1 .. Len(its), NEW acc,
         Good(its, acc), Distinct(its)
  PROVE  /\ Good(Remove(its, i), acc)
         /\ Distinct(Remove(its, i))
         /\ \A id \in Ids : Listed(Remove(its, i), id) <=> id # its[i].id /\ Listed(its, id)
<1> DEFINE r == Remove(its, i)
           at(j) == IF j = i THEN Len(its) ELSE j
<1>0. Len(r) = Len(its) - 1 /\ Len(its) \in Nat
  BY RemoveType
<1>1. \A j \in 1 .. Len(r) : r[j] = its[at(j)]
  BY RemoveType
<1> HIDE DEF r
<1>2. \A j \in 1 .. Len(r) : at(j) \in 1 .. Len(its) /\ at(j) # i
  BY <1>0
<1>3. \A j, k \in 1 .. Len(r) : at(j) = at(k) => j = k
  BY <1>0
<1>4. \A k \in 1 .. Len(its) : k # i => \E j \in 1 .. Len(r) : at(j) = k
  <2> TAKE k \in 1 .. Len(its)
  <2>1. ASSUME k = Len(its), k # i
        PROVE  i \in 1 .. Len(r) /\ at(i) = k
    BY <1>0, <2>1
  <2>2. ASSUME k # Len(its), k # i
        PROVE  k \in 1 .. Len(r) /\ at(k) = k
    BY <1>0, <2>2
  <2> QED
    BY <2>1, <2>2
<1> HIDE DEF at
<1>5. Good(r, acc)
  BY <1>1, <1>2 DEF Good
<1>6. Distinct(r)
  BY <1>1, <1>2, <1>3 DEF Distinct
<1>7. \A id \in Ids : Listed(r, id) <=> id # its[i].id /\ Listed(its, id)
  <2> TAKE id \in Ids
  <2>1. Listed(r, id) => id # its[i].id /\ Listed(its, id)
    BY <1>1, <1>2 DEF Listed, Distinct
  <2>2. ASSUME id # its[i].id, NEW k \in 1 .. Len(its), its[k].id = id
        PROVE  Listed(r, id)
    <3>1. PICK j \in 1 .. Len(r) : at(j) = k
      BY <1>4, <2>2
    <3> QED
      BY <3>1, <2>2, <1>1 DEF Listed
  <2> QED
    BY <2>1, <2>2 DEF Listed
<1> QED
  BY <1>5, <1>6, <1>7 DEF r

LEMMA PurgedType ==
  ASSUME NEW p \in Item, NEW gone, NEW U
  PROVE  LET q == Purged(p, gone, U)
         IN  /\ q \in Item
             /\ q.id = p.id
             /\ q.pro = p.pro \ gone
             /\ q.con = p.con \ gone
             /\ q.suggestor = IF p.suggestor \in gone THEN None ELSE p.suggestor
             /\ q.target = IF p.target \in U THEN None ELSE p.target
             /\ q.victim = p.victim
BY DEF Item, Purged

LEMMA RemoveFromGameType ==
  ASSUME NEW its \in Seq(Item), NEW U
  PROVE  /\ RemoveFromGame(its, U) \in Seq(Item)
         /\ Len(RemoveFromGame(its, U)) = Len(its)
         /\ \A i \in 1 .. Len(its) : RemoveFromGame(its, U)[i] = Purged(its[i], Voters(U), U)
<1>1. \A i \in 1 .. Len(its) : Purged(its[i], Voters(U), U) \in Item
  BY PurgedType
<1>2. DOMAIN its = 1 .. Len(its) /\ Len(its) \in Nat
  OBVIOUS
<1> QED
  BY <1>1, <1>2 DEF RemoveFromGame

-----------------------------------------------------------------------------
(***************************************************************************)
(* The departure of the users U, with the polls L left open.               *)
(***************************************************************************)
Roles == {"none", "spectator", "team"}

LEMMA VoterType ==
  ASSUME machine \in [Users -> Machines \cup {None}], role \in [Users -> Roles],
         Players \subseteq Connected, NEW u \in Users
  PROVE  /\ GetVoter(u) \in Machines \cup {None}
         /\ GetVoter(u) # None => GetVoter(u) \in {machine[w] : w \in Players}
BY DEF GetVoter, Players, Roles

LEMMA DepartureTypes ==
  ASSUME machine \in [Users -> Machines \cup {None}], role \in [Users -> Roles],
         Players \subseteq Connected, NEW U \in SUBSET Users,
         NEW sent \in SUBSET (Users \X Ids), Disconnect(U, sent)
  PROVE  /\ machine' \in [Users -> Machines \cup {None}]
         /\ role' \in [Users -> Roles]
         /\ ballots' \in SUBSET (Users \X Ids)
         /\ Players' \subseteq Connected'
         /\ Players' = Players \ U
         /\ \A u \in Users : u \notin U => machine'[u] = machine[u]
         /\ \A u \in U : machine'[u] = None
BY DEF Disconnect, Players, Connected, Roles

LEMMA PurgedGood ==
  ASSUME machine \in [Users -> Machines \cup {None}], role \in [Users -> Roles],
         Players \subseteq Connected, NEW U \in SUBSET Users,
         NEW sent \in SUBSET (Users \X Ids), Disconnect(U, sent),
         NEW p \in Item, GoodItem(p, accused')
  PROVE  LET q == Purged(p, Voters(U), U)
         IN  /\ q.pro \cap q.con = {}
             /\ (q.pro \cup q.con \cup {q.suggestor}) \ {None}
                  \subseteq {machine'[u] : u \in Players'}
             /\ q.target # None =>
                  q.target \in Players' /\ machine'[q.target] = accused'[q.id]
             /\ q.victim # None => q.victim = accused'[q.id]
<1> DEFINE q == Purged(p, Voters(U), U)
<1>1. /\ q.id = p.id
      /\ q.pro = p.pro \ Voters(U)
      /\ q.con = p.con \ Voters(U)
      /\ q.suggestor = IF p.suggestor \in Voters(U) THEN None ELSE p.suggestor
      /\ q.target = IF p.target \in U THEN None ELSE p.target
      /\ q.victim = p.victim
  BY PurgedType
<1> HIDE DEF q
<1>2. /\ Players' = Players \ U
      /\ \A u \in Users : u \notin U => machine'[u] = machine[u]
  BY DepartureTypes
<1>3. Players \subseteq Users
  BY DEF Players
<1>4. \A v \in {machine[u] : u \in Players} :
        v \notin Voters(U) => v \in {machine'[u] : u \in Players'}
  BY <1>2, <1>3 DEF Voters
<1>5. (q.pro \cup q.con \cup {q.suggestor}) \ {None} \subseteq {machine'[u] : u \in Players'}
  BY <1>1, <1>4 DEF GoodItem
<1>6. q.target # None => q.target \in Players' /\ machine'[q.target] = accused'[q.id]
  BY <1>1, <1>2, <1>3 DEF GoodItem
<1>7. q.pro \cap q.con = {} /\ (q.victim # None => q.victim = accused'[q.id])
  BY <1>1 DEF GoodItem
<1> QED
  BY <1>5, <1>6, <1>7 DEF q

LEMMA Departure ==
  ASSUME machine \in [Users -> Machines \cup {None}], role \in [Users -> Roles],
         Players \subseteq Connected, NEW U \in SUBSET Users,
         NEW sent \in SUBSET (Users \X Ids), Disconnect(U, sent),
         NEW L \in Seq(Item), Good(L, accused'), Distinct(L),
         items' = RemoveFromGame(L, U)
  PROVE  /\ items' \in Seq(Item)
         /\ Len(items') = Len(L)
         /\ Good(items, accused)'
         /\ Distinct(items)'
         /\ \A id \in Ids : Listed(items, id)' <=> Listed(L, id)
<1>1. /\ items' \in Seq(Item)
      /\ Len(items') = Len(L)
      /\ \A i \in 1 .. Len(L) : items'[i] = Purged(L[i], Voters(U), U)
  BY RemoveFromGameType
<1>2. \A i \in 1 .. Len(L) : L[i] \in Item
  OBVIOUS
<1>3. \A i \in 1 .. Len(L) : items'[i].id = L[i].id
  BY <1>1, <1>2, PurgedType
<1>4. Good(items, accused)'
  <2>1. ASSUME NEW i \in 1 .. Len(items')
        PROVE  GoodItem(items[i], accused)'
    <3> DEFINE q == Purged(L[i], Voters(U), U)
    <3>1. items'[i] = q
      BY <1>1
    <3>2. L[i] \in Item /\ GoodItem(L[i], accused')
      BY <1>1, <1>2 DEF Good
    <3>3. /\ q.pro \cap q.con = {}
          /\ (q.pro \cup q.con \cup {q.suggestor}) \ {None}
               \subseteq {machine'[u] : u \in Players'}
          /\ q.target # None =>
               q.target \in Players' /\ machine'[q.target] = accused'[q.id]
          /\ q.victim # None => q.victim = accused'[q.id]
      BY <3>2, PurgedGood
    <3> QED
      BY <3>1, <3>3 DEF GoodItem
  <2> QED
    BY <2>1 DEF Good
<1> QED
  BY <1>1, <1>3, <1>4 DEF Distinct, Listed

-----------------------------------------------------------------------------
(***************************************************************************)
(* The evaluation of poll i of its.                                        *)
(***************************************************************************)
LEMMA ExpelledTypes ==
  ASSUME NEW p \in Item, GoodItem(p, accused'), NEW banned \in BOOLEAN
  PROVE  /\ Expelled(p, banned) \in SUBSET Users
         /\ \A u \in Expelled(p, banned) \cap Connected : machine[u] = accused'[p.id]
BY DEF Expelled, Kicked, GoodItem, Players, Connected, Item

LEMMA EvaluateList ==
  ASSUME machine \in [Users -> Machines \cup {None}], role \in [Users -> Roles],
         Players \subseteq Connected,
         NEW its \in Seq(Item), NEW i \in 1 .. Len(its),
         NEW sent \in SUBSET (Users \X Ids),
         Good(its, accused'), Distinct(its), Evaluate(its, i, sent)
  PROVE  /\ machine' \in [Users -> Machines \cup {None}]
         /\ role' \in [Users -> Roles]
         /\ ballots' \in SUBSET (Users \X Ids)
         /\ Players' \subseteq Connected'
         /\ items' \in Seq(Item)
         /\ Len(items') \in {Len(its), Len(its) - 1}
         /\ Good(items, accused)'
         /\ Distinct(items)'
         /\ \A id \in Ids :
              Listed(items, id)' <=> /\ Listed(its, id)
                                     /\ id = its[i].id => Fate(its[i]) = "open"
<1> DEFINE p == its[i]
           open == Fate(p) = "open"
           L == IF open THEN its ELSE Remove(its, i)
           left == IF open THEN sent ELSE {b \in sent : b[2] # p.id}
<1>1. p \in Item /\ GoodItem(p, accused')
  BY DEF Good
<1> PICK banned \in BOOLEAN :
         items' = RemoveFromGame(L, Expelled(p, banned)) /\ Disconnect(Expelled(p, banned), left)
  BY DEF Evaluate
<1>2. Expelled(p, banned) \in SUBSET Users
  BY <1>1, ExpelledTypes
<1>3. items' = RemoveFromGame(L, Expelled(p, banned)) /\ Disconnect(Expelled(p, banned), left)
  OBVIOUS
<1>4. left \in SUBSET (Users \X Ids)
  OBVIOUS
<1>5. L \in Seq(Item) /\ Len(L) \in {Len(its), Len(its) - 1}
  BY RemoveType
<1>6. Good(L, accused') /\ Distinct(L)
  BY RemoveKeeps
<1>7. \A id \in Ids : Listed(L, id) <=> Listed(its, id) /\ (id = p.id => open)
  <2>1. CASE open
    BY <2>1
  <2>2. CASE ~open
    BY <2>2, RemoveKeeps
  <2> QED
    BY <2>1, <2>2
<1> HIDE DEF L, left, open
<1>8. /\ machine' \in [Users -> Machines \cup {None}]
      /\ role' \in [Users -> Roles]
      /\ ballots' \in SUBSET (Users \X Ids)
      /\ Players' \subseteq Connected'
  BY <1>2, <1>3, <1>4, DepartureTypes
<1>9. /\ items' \in Seq(Item)
      /\ Len(items') = Len(L)
      /\ Good(items, accused)'
      /\ Distinct(items)'
      /\ \A id \in Ids : Listed(items, id)' <=> Listed(L, id)
  BY <1>2, <1>3, <1>4, <1>5, <1>6, Departure
<1> QED
  BY <1>5, <1>7, <1>8, <1>9 DEF open

LEMMA EvaluateOutcome ==
  ASSUME machine \in [Users -> Machines \cup {None}], role \in [Users -> Roles],
         Players \subseteq Connected,
         outcome \in [Ids -> Outcomes],
         tally \in [Ids -> [pro : Nat, con : Nat, total : Nat, ignored : Nat]],
         NEW its \in Seq(Item), NEW i \in 1 .. Len(its),
         NEW sent \in SUBSET (Users \X Ids),
         Good(its, accused'), Evaluate(its, i, sent)
  PROVE  /\ outcome' \in [Ids -> Outcomes]
         /\ tally' \in [Ids -> [pro : Nat, con : Nat, total : Nat, ignored : Nat]]
         /\ \A id \in Ids : id # its[i].id =>
              outcome'[id] = outcome[id] /\ tally'[id] = tally[id]
         /\ outcome'[its[i].id] = "open" <=> Fate(its[i]) = "open"
         /\ outcome'[its[i].id] = "accepted" =>
              /\ Majority(tally'[its[i].id])
              /\ \A u \in Connected : machine'[u] = None => machine[u] = accused'[its[i].id]
<1> DEFINE p == its[i]
           t == [pro |-> Pro(p), con |-> Con(p), ignored |-> Ignored(p),
                 total |-> p.total + Bias[p.kind]]
           o == IF Fate(p) \in {"open", "accepted"} THEN Fate(p) ELSE "closed"
<1>0. p \in Item /\ GoodItem(p, accused')
  BY DEF Good
<1>1. p \in Item /\ p.id \in Ids /\ GoodItem(p, accused')
  BY <1>0 DEF Item
<1>2. outcome' = [outcome EXCEPT ![p.id] = o]
  BY DEF Evaluate
<1>3. tally' = IF Fate(p) # "accepted" THEN tally ELSE [tally EXCEPT ![p.id] = t]
  BY DEF Evaluate
<1>4. o \in {"open", "accepted", "closed"}
  BY FateType
<1>5. t \in [pro : Nat, con : Nat, total : Nat, ignored : Nat]
  BY <1>1, Counts
<1>6. Fate(p) = "accepted" => Majority(t)
  BY <1>1, AcceptedMajority
<1>7. (o = "open" <=> Fate(p) = "open") /\ (o = "accepted" <=> Fate(p) = "accepted")
  OBVIOUS
<1>8. \A u \in Connected : machine'[u] = None => machine[u] = accused'[p.id]
  <2>1. \E banned \in BOOLEAN :
          \A u \in Users : machine'[u] = IF u \in Expelled(p, banned) THEN None ELSE machine[u]
    BY DEF Evaluate, Disconnect
  <2> QED
    BY <2>1, <1>1, ExpelledTypes DEF Connected
<1> HIDE DEF t, o
<1>9. outcome'[p.id] = o /\ (Fate(p) = "accepted" => tally'[p.id] = t)
  BY <1>1, <1>2, <1>3
<1> QED
  BY <1>1, <1>2, <1>3, <1>4, <1>5, <1>6, <1>7, <1>8, <1>9 DEF Outcomes

-----------------------------------------------------------------------------
(***************************************************************************)
(* The invariant.                                                          *)
(***************************************************************************)
LEMMA Inits == Init => IInv
<1> SUFFICES ASSUME Init PROVE IInv
  OBVIOUS
<1>1. items = <<>> /\ Len(items) = 0 /\ loop = Resting
  BY DEF Init
<1>2. TypeInvariant
  <2>1. machine \in [Users -> Machines \cup {None}] /\ role \in [Users -> Roles]
    BY DEF Init, Roles
  <2>2. /\ items \in Seq(Item)
        /\ ballots \in SUBSET (Users \X Ids)
        /\ suspended \in BOOLEAN
    <3>1. <<>> \in Seq(Item)
      OBVIOUS
    <3> QED
      BY <3>1 DEF Init
  <2>3. lastID \in 0 .. MaxPolls /\ logins \in Nat
    BY DEF Init
  <2>4. /\ outcome \in [Ids -> Outcomes]
        /\ tally \in [Ids -> [pro : Nat, con : Nat, total : Nat, ignored : Nat]]
        /\ accused \in [Ids -> Machines \cup {None}]
    BY DEF Init, Outcomes
  <2> QED
    BY <1>1, <2>1, <2>2, <2>3, <2>4 DEF TypeInvariant, Roles
<1>3. TypeOK
  BY <1>1, <1>2 DEF TypeOK, Init, Players, Connected
<1>4. Good(items, accused) /\ Distinct(items) /\ \A id \in Ids : ~Listed(items, id)
  BY <1>1 DEF Good, Distinct, Listed
<1>5. AcceptedByMajority /\ Numbered /\ RequestFits
  BY <1>1 DEF Init, AcceptedByMajority, Numbered, RequestFits
<1> QED
  BY <1>3, <1>4, <1>5 DEF IInv, Init

\* Whatever kind of step evaluates a poll p that is listed or new: the
\* invariant holds afterwards, and nobody but the accused is expelled.
LEMMA EvaluateKeeps ==
  ASSUME IInv, NEW its \in Seq(Item), NEW i \in 1 .. Len(its),
         NEW sent \in SUBSET (Users \X Ids),
         accused' \in [Ids -> Machines \cup {None}],
         Good(its, accused'), Distinct(its),
         \A id \in Ids : id # its[i].id => (Listed(items, id) <=> Listed(its, id)),
         Evaluate(its, i, sent)
  PROVE  /\ machine' \in [Users -> Machines \cup {None}]
         /\ role' \in [Users -> {"none", "spectator", "team"}]
         /\ ballots' \in SUBSET (Users \X Ids)
         /\ (Players \subseteq Connected)'
         /\ items' \in Seq(Item)
         /\ Len(items') \in {Len(its), Len(its) - 1}
         /\ outcome' \in [Ids -> Outcomes]
         /\ tally' \in [Ids -> [pro : Nat, con : Nat, total : Nat, ignored : Nat]]
         /\ Good(items, accused)'
         /\ Distinct(items)'
         /\ (\A id \in Ids : outcome[id] = "open" <=> Listed(items, id))'
         /\ AcceptedByMajority'
         /\ \A id \in Ids : id # its[i].id => outcome'[id] = outcome[id]
         /\ \A id \in Ids : outcome[id] # "accepted" /\ outcome'[id] = "accepted" =>
              \A u \in Connected : machine'[u] = None => machine[u] = accused'[id]
<1>1. /\ machine \in [Users -> Machines \cup {None}]
      /\ role \in [Users -> Roles]
      /\ Players \subseteq Connected
      /\ outcome \in [Ids -> Outcomes]
      /\ tally \in [Ids -> [pro : Nat, con : Nat, total : Nat, ignored : Nat]]
      /\ \A id \in Ids : outcome[id] = "open" <=> Listed(items, id)
      /\ AcceptedByMajority
  BY DEF IInv, TypeOK, TypeInvariant, Roles
<1>2. /\ machine' \in [Users -> Machines \cup {None}]
      /\ role' \in [Users -> Roles]
      /\ ballots' \in SUBSET (Users \X Ids)
      /\ Players' \subseteq Connected'
      /\ items' \in Seq(Item)
      /\ Len(items') \in {Len(its), Len(its) - 1}
      /\ Good(items, accused)'
      /\ Distinct(items)'
      /\ \A id \in Ids :
           Listed(items, id)' <=> Listed(its, id) /\ (id = its[i].id => Fate(its[i]) = "open")
  BY <1>1, EvaluateList
<1>3. /\ outcome' \in [Ids -> Outcomes]
      /\ tally' \in [Ids -> [pro : Nat, con : Nat, total : Nat, ignored : Nat]]
      /\ \A id \in Ids : id # its[i].id =>
           outcome'[id] = outcome[id] /\ tally'[id] = tally[id]
      /\ outcome'[its[i].id] = "open" <=> Fate(its[i]) = "open"
      /\ outcome'[its[i].id] = "accepted" =>
           /\ Majority(tally'[its[i].id])
           /\ \A u \in Connected : machine'[u] = None => machine[u] = accused'[its[i].id]
  BY <1>1, EvaluateOutcome
<1>4. Listed(its, its[i].id)
  BY DEF Listed
<1>5. \A id \in Ids : outcome'[id] = "open" <=> Listed(items, id)'
  BY <1>1, <1>2, <1>3, <1>4
<1>6. \A id \in Ids : outcome'[id] = "accepted" => Majority(tally'[id])
  BY <1>1, <1>3 DEF AcceptedByMajority
<1> QED
  BY <1>2, <1>3, <1>5, <1>6 DEF Roles, AcceptedByMajority

Loops == {Resting} \cup [running : {TRUE}, left : Nat, request : Request \cup {NoRequest}]

\* A step that leaves the polls, their outcomes and the players alone.
LEMMA Untouched ==
  ASSUME IInv, UNCHANGED <<items, outcome, tally, accused>>,
         machine' \in [Users -> Machines \cup {None}],
         role' \in [Users -> {"none", "spectator", "team"}],
         (Players \subseteq Connected)',
         \A u \in Players : u \in Players' /\ machine'[u] = machine[u],
         ballots' \in SUBSET (Users \X Ids), suspended' \in BOOLEAN,
         logins' \in Nat, lastID' = lastID,
         loop' \in Loops,
         loop' # Resting => loop'.left <= Len(items),
         loop' # Resting /\ loop'.request # NoRequest => lastID < MaxPolls
  PROVE  IInv'
<1>1. TypeOK'
  BY DEF IInv, TypeOK, TypeInvariant, Loops
<1>2. Good(items, accused)'
  <2>1. {machine[u] : u \in Players} \subseteq {machine'[u] : u \in Players'}
    OBVIOUS
  <2>2. ASSUME NEW p, GoodItem(p, accused)
        PROVE  /\ p.pro \cap p.con = {}
               /\ (p.pro \cup p.con \cup {p.suggestor}) \ {None}
                    \subseteq {machine'[u] : u \in Players'}
               /\ p.target # None =>
                    p.target \in Players' /\ machine'[p.target] = accused'[p.id]
               /\ p.victim # None => p.victim = accused'[p.id]
    BY <2>1, <2>2 DEF GoodItem
  <2>3. \A i \in 1 .. Len(items) : GoodItem(items[i], accused)
    BY DEF IInv, Good
  <2>4. ASSUME NEW i \in 1 .. Len(items')
        PROVE  GoodItem(items[i], accused)'
    BY <2>2, <2>3 DEF GoodItem
  <2> QED
    BY <2>4 DEF Good
<1>3. Distinct(items)' /\ \A id \in Ids : Listed(items, id)' <=> Listed(items, id)
  BY DEF IInv, Distinct, Listed
<1>4. AcceptedByMajority' /\ Numbered' /\ RequestFits'
  BY DEF IInv, AcceptedByMajority, Numbered, RequestFits
<1> QED
  BY <1>1, <1>2, <1>3, <1>4 DEF IInv

\* What KickHitsTarget says of a step.
Hits ==
  \A id \in Ids : outcome[id] # "accepted" /\ outcome'[id] = "accepted" =>
    \A u \in Connected : machine'[u] = None => machine[u] = accused'[id]

\* A step that evaluates poll i of its and may give out a new id.
LEMMA EvaluateStep ==
  ASSUME IInv, NEW its \in Seq(Item), NEW i \in 1 .. Len(its),
         NEW sent \in SUBSET (Users \X Ids),
         accused' \in [Ids -> Machines \cup {None}],
         Good(its, accused'), Distinct(its), Len(its) <= MaxVotes,
         \A id \in Ids : id # its[i].id => (Listed(items, id) <=> Listed(its, id)),
         Evaluate(its, i, sent),
         suspended' \in BOOLEAN, logins' \in Nat,
         lastID' \in lastID .. MaxPolls, its[i].id <= lastID',
         loop' \in Loops,
         loop' # Resting => loop'.left <= Len(its) - 1,
         loop' # Resting /\ loop'.request # NoRequest => lastID' < MaxPolls
  PROVE  IInv' /\ Hits
<1>1. /\ machine' \in [Users -> Machines \cup {None}]
      /\ role' \in [Users -> {"none", "spectator", "team"}]
      /\ ballots' \in SUBSET (Users \X Ids)
      /\ (Players \subseteq Connected)'
      /\ items' \in Seq(Item)
      /\ Len(items') \in {Len(its), Len(its) - 1}
      /\ outcome' \in [Ids -> Outcomes]
      /\ tally' \in [Ids -> [pro : Nat, con : Nat, total : Nat, ignored : Nat]]
      /\ Good(items, accused)'
      /\ Distinct(items)'
      /\ (\A id \in Ids : outcome[id] = "open" <=> Listed(items, id))'
      /\ AcceptedByMajority'
      /\ \A id \in Ids : id # its[i].id => outcome'[id] = outcome[id]
      /\ Hits
  BY EvaluateKeeps DEF Hits
<1>2. lastID \in Nat /\ MaxPolls \in Nat /\ MaxVotes \in Nat /\ Len(its) \in Nat
  BY DEF IInv, TypeOK, TypeInvariant
<1>3. lastID' \in 0 .. MaxPolls
  BY <1>2
<1>4. Numbered'
  <2>1. ASSUME NEW id \in Ids, id > lastID'
        PROVE  outcome'[id] = "none"
    <3>2. its[i] \in Item
      OBVIOUS
    <3>3. its[i].id \in Ids
      BY <3>2 DEF Item
    <3>1. id > lastID /\ id # its[i].id
      BY <1>2, <2>1, <3>3 DEF Ids
    <3> QED
      BY <1>1, <3>1 DEF IInv, Numbered
  <2> QED
    BY <2>1 DEF Numbered
<1>5. TypeInvariant'
  BY <1>1, <1>3 DEF TypeInvariant, Loops
<1>6. Len(items') <= MaxVotes
  BY <1>1, <1>2
<1>7. loop' # Resting => loop'.left <= Len(items')
  <2>1. loop' # Resting => loop'.left \in Nat
    BY DEF Loops
  <2> QED
    BY <1>1, <1>2, <2>1
<1>8. TypeOK' /\ RequestFits'
  BY <1>1, <1>5, <1>6, <1>7 DEF TypeOK, RequestFits
<1> QED
  BY <1>1, <1>4, <1>8 DEF IInv

\* An open poll has an id that was given out.
LEMMA ListedIsNumbered ==
  ASSUME IInv, NEW i \in 1 .. Len(items)
  PROVE  /\ items[i] \in Item
         /\ items[i].id \in Ids
         /\ items[i].id <= lastID
<1>1. items \in Seq(Item) /\ lastID \in Nat
  BY DEF IInv, TypeOK, TypeInvariant
<1>2. items[i] \in Item
  BY <1>1
<1>4. items[i].id \in Ids
  BY <1>2 DEF Item
<1>3. outcome[items[i].id] = "open"
  BY <1>4 DEF IInv, Listed
<1> QED
  BY <1>1, <1>2, <1>3, <1>4 DEF IInv, Numbered, Ids

-----------------------------------------------------------------------------
(***************************************************************************)
(* The steps.                                                              *)
(***************************************************************************)
LEMMA Starting ==
  ASSUME IInv,
         \/ \E u \in Users, kind \in Kinds, target \in Users \cup {None} :
              RequestPoll(u, kind, target)
         \/ EvaluateAll
         \/ EndLoop
         \/ Resume
  PROVE  IInv' /\ outcome' = outcome
<1> USE DEF clients, history
<1>1. /\ machine \in [Users -> Machines \cup {None}]
      /\ role \in [Users -> {"none", "spectator", "team"}]
      /\ Players \subseteq Connected
      /\ ballots \in SUBSET (Users \X Ids) /\ suspended \in BOOLEAN
      /\ logins \in Nat
      /\ loop \in Loops /\ (loop # Resting => loop.left <= Len(items))
      /\ loop # Resting /\ loop.request # NoRequest => lastID < MaxPolls
  BY DEF IInv, TypeOK, TypeInvariant, RequestFits, Loops
<1>0. Len(items) \in Nat
  BY DEF IInv, TypeOK, TypeInvariant
<1>2. /\ UNCHANGED <<items, outcome, tally, accused, machine, role, ballots, logins, lastID>>
      /\ suspended' \in BOOLEAN
  BY <1>1 DEF RequestPoll, EvaluateAll, EndLoop, Resume
<1>3. /\ loop' \in Loops
      /\ loop' # Resting => loop'.left <= Len(items)
      /\ loop' # Resting /\ loop'.request # NoRequest => lastID < MaxPolls
  <2>1. ASSUME NEW u \in Users, NEW kind \in Kinds, NEW target \in Users \cup {None},
               RequestPoll(u, kind, target)
        PROVE  <1>3!1 /\ <1>3!2 /\ <1>3!3
    <3>1. GetVoter(u) \in Machines \cup {None}
      BY <1>1, VoterType DEF Roles
    <3> QED
      BY <1>0, <1>1, <2>1, <3>1 DEF RequestPoll, Loops, Request, Players
  <2>2. ASSUME EvaluateAll
        PROVE  <1>3!1 /\ <1>3!2 /\ <1>3!3
    BY <1>0, <1>1, <2>2 DEF EvaluateAll, Loops
  <2>3. ASSUME EndLoop
        PROVE  <1>3!1 /\ <1>3!2 /\ <1>3!3
    BY <2>3 DEF EndLoop, Loops
  <2>4. ASSUME Resume
        PROVE  <1>3!1 /\ <1>3!2 /\ <1>3!3
    BY <2>4 DEF Resume, Loops
  <2> QED
    BY <2>1, <2>2, <2>3, <2>4
<1>4. (Players \subseteq Connected)' /\ \A u \in Players : u \in Players' /\ machine'[u] = machine[u]
  BY <1>1, <1>2 DEF Players, Connected
<1> QED
  BY <1>1, <1>2, <1>3, <1>4, Untouched

LEMMA Arriving ==
  ASSUME IInv, NEW u \in Users,
         \/ \E m \in Machines : Login(u, m)
         \/ \E r \in {"spectator", "team"} : ChangeRole(u, r)
  PROVE  IInv' /\ outcome' = outcome
<1> USE DEF history
<1>1. /\ machine \in [Users -> Machines \cup {None}]
      /\ role \in [Users -> {"none", "spectator", "team"}]
      /\ Players \subseteq Connected
      /\ ballots \in SUBSET (Users \X Ids) /\ suspended \in BOOLEAN
      /\ logins \in Nat
      /\ items \in Seq(Item)
  BY DEF IInv, TypeOK, TypeInvariant
<1>2. /\ UNCHANGED <<items, outcome, tally, accused, suspended, lastID, loop>>
      /\ loop' = Resting /\ logins' \in Nat /\ suspended' \in BOOLEAN
  BY <1>1 DEF Login, ChangeRole
<1>3. ballots' \in SUBSET (Users \X Ids)
  <2>1. ASSUME NEW i \in DOMAIN items
        PROVE  items[i].id \in Ids
    <3>1. items[i] \in Item
      BY <1>1
    <3> QED
      BY <3>1 DEF Item
  <2> QED
    BY <1>1, <2>1 DEF Login, ChangeRole
<1>4. /\ machine' \in [Users -> Machines \cup {None}]
      /\ role' \in [Users -> {"none", "spectator", "team"}]
  BY <1>1 DEF Login, ChangeRole
<1>5. (Players \subseteq Connected)' /\ \A w \in Players : w \in Players' /\ machine'[w] = machine[w]
  BY <1>1 DEF Login, ChangeRole, Players, Connected
<1> QED
  <2>1. loop' \in Loops
    BY <1>2 DEF Loops
  <2> QED
    BY <1>2, <1>3, <1>4, <1>5, <2>1, Untouched

LEMMA Leaving ==
  ASSUME IInv, NEW u \in Users, Logout(u)
  PROVE  IInv' /\ outcome' = outcome
<1> USE DEF history
<1>1. /\ machine \in [Users -> Machines \cup {None}]
      /\ role \in [Users -> Roles]
      /\ Players \subseteq Connected
      /\ ballots \in SUBSET (Users \X Ids)
      /\ items \in Seq(Item) /\ Len(items) <= MaxVotes
  BY DEF IInv, TypeOK, TypeInvariant, Roles
<1>2. /\ items' = RemoveFromGame(items, {u}) /\ Disconnect({u}, ballots)
      /\ UNCHANGED <<loop, suspended, lastID, logins, outcome, tally, accused>>
      /\ loop = Resting
  BY DEF Logout
<1>3. Good(items, accused') /\ Distinct(items)
  BY <1>2 DEF IInv
<1>4. /\ items' \in Seq(Item)
      /\ Len(items') = Len(items)
      /\ Good(items, accused)'
      /\ Distinct(items)'
      /\ \A id \in Ids : Listed(items, id)' <=> Listed(items, id)
  BY <1>1, <1>2, <1>3, Departure
<1>5. /\ machine' \in [Users -> Machines \cup {None}]
      /\ role' \in [Users -> Roles]
      /\ ballots' \in SUBSET (Users \X Ids)
      /\ (Players \subseteq Connected)'
  BY <1>1, <1>2, DepartureTypes
<1>6. TypeOK'
  BY <1>1, <1>2, <1>4, <1>5 DEF IInv, TypeOK, TypeInvariant, Roles
<1>7. /\ AcceptedByMajority' /\ Numbered' /\ RequestFits'
      /\ (\A id \in Ids : outcome[id] = "open" <=> Listed(items, id))'
  BY <1>2, <1>4 DEF IInv, AcceptedByMajority, Numbered, RequestFits
<1> QED
  BY <1>2, <1>4, <1>6, <1>7 DEF IInv

LEMMA Ageing ==
  ASSUME IInv, Tick
  PROVE  IInv' /\ outcome' = outcome
<1> USE DEF clients, history
<1>1. items \in Seq(Item)
  BY DEF IInv, TypeOK, TypeInvariant
<1>2. /\ items' = [i \in DOMAIN items |-> [items[i] EXCEPT !.age = @ + 1]]
      /\ UNCHANGED <<machine, role, ballots, logins, loop, suspended, lastID,
                     outcome, tally, accused>>
  BY DEF Tick
<1>3. \A i \in 1 .. Len(items) : items[i] \in Item
  BY <1>1
<1>4. ASSUME NEW p \in Item
      PROVE  /\ [p EXCEPT !.age = @ + 1] \in Item
             /\ [p EXCEPT !.age = @ + 1].id = p.id
             /\ GoodItem(p, accused) => GoodItem([p EXCEPT !.age = @ + 1], accused)
  BY DEF Item, GoodItem
<1> DEFINE older(p) == [p EXCEPT !.age = @ + 1]
<1>11. \A p \in Item : /\ older(p) \in Item
                       /\ older(p).id = p.id
                       /\ GoodItem(p, accused) => GoodItem(older(p), accused)
  BY <1>4
<1>12. items' = [i \in DOMAIN items |-> older(items[i])]
  BY <1>2
<1> HIDE DEF older
<1>5. /\ items' \in Seq(Item)
      /\ Len(items') = Len(items)
      /\ \A i \in 1 .. Len(items) : items'[i] = older(items[i])
  BY <1>1, <1>3, <1>11, <1>12
<1>6. \A i \in 1 .. Len(items) : items'[i].id = items[i].id /\ GoodItem(items'[i], accused)
  BY <1>3, <1>5, <1>11 DEF IInv, Good
<1>7. Good(items, accused)'
  <2>1. ASSUME NEW i \in 1 .. Len(items')
        PROVE  GoodItem(items[i], accused)'
    <3>1. GoodItem(items'[i], accused)
      BY <1>5, <1>6
    <3>2. Players' = Players
      BY <1>2 DEF Players
    <3> QED
      BY <1>2, <3>1, <3>2 DEF GoodItem
  <2> QED
    BY <2>1 DEF Good
<1>8. Distinct(items)' /\ \A id \in Ids : Listed(items, id)' <=> Listed(items, id)
  BY <1>5, <1>6 DEF IInv, Distinct, Listed
<1>9. TypeOK'
  BY <1>2, <1>5 DEF IInv, TypeOK, TypeInvariant, Players, Connected
<1>10. /\ AcceptedByMajority' /\ Numbered' /\ RequestFits'
       /\ (\A id \in Ids : outcome[id] = "open" <=> Listed(items, id))'
  BY <1>2, <1>8 DEF IInv, AcceptedByMajority, Numbered, RequestFits
<1> QED
  BY <1>2, <1>7, <1>8, <1>9, <1>10 DEF IInv

LEMMA Cancelling ==
  ASSUME IInv, Cancel \/ SuspendVotes
  PROVE  IInv' /\ \A id \in Ids : outcome'[id] = "accepted" => outcome[id] = "accepted"
<1>1. /\ items' = <<>> /\ ballots' = {}
      /\ outcome' = [id \in Ids |-> IF \E i \in DOMAIN items : items[i].id = id
                                    THEN "closed" ELSE outcome[id]]
      /\ UNCHANGED <<machine, role, logins, loop, lastID, tally, accused>>
      /\ loop = Resting
  BY DEF Cancel, SuspendVotes, CancelAllVotes
<1>2. suspended' \in BOOLEAN
  BY DEF Cancel, SuspendVotes, IInv, TypeOK, TypeInvariant
<1>3. /\ outcome \in [Ids -> Outcomes] /\ items \in Seq(Item)
      /\ \A id \in Ids : outcome[id] = "open" <=> Listed(items, id)
  BY DEF IInv, TypeOK, TypeInvariant
<1>4. \A id \in Ids : outcome'[id] = IF outcome[id] = "open" THEN "closed" ELSE outcome[id]
  BY <1>1, <1>3 DEF Listed
<1>5. outcome' \in [Ids -> Outcomes]
  BY <1>1, <1>3 DEF Outcomes
<1>6. <<>> \in Seq(Item) /\ Len(<<>>) = 0 /\ MaxVotes \in Nat
  OBVIOUS
<1>7. TypeOK'
  <2>1. Players' = Players /\ Connected' = Connected
    BY <1>1 DEF Players, Connected
  <2>2. items' \in Seq(Item) /\ Len(items') <= MaxVotes
    BY <1>1, <1>6
  <2>3. TypeInvariant'
    BY <1>1, <1>2, <1>5, <2>2 DEF IInv, TypeOK, TypeInvariant
  <2> QED
    BY <1>1, <2>1, <2>2, <2>3 DEF IInv, TypeOK
<1>8. Len(items') = 0
  BY <1>1, <1>6
<1>9. Good(items, accused)' /\ Distinct(items)' /\ \A id \in Ids : ~Listed(items, id)'
  BY <1>8 DEF Good, Distinct, Listed
<1>10. AcceptedByMajority' /\ Numbered' /\ RequestFits'
  BY <1>1, <1>4 DEF IInv, AcceptedByMajority, Numbered, RequestFits
<1>11. (\A id \in Ids : outcome[id] = "open" <=> Listed(items, id))'
  BY <1>4, <1>9
<1> QED
  BY <1>4, <1>7, <1>9, <1>10, <1>11 DEF IInv

LEMMA Evaluating ==
  ASSUME IInv, EvaluateNext
  PROVE  IInv' /\ Hits
<1>1. /\ Evaluate(items, loop.left, ballots)
      /\ loop # Resting /\ loop.left > 0
      /\ loop' = [loop EXCEPT !.left = @ - 1]
      /\ UNCHANGED <<suspended, lastID, logins, accused>>
  BY DEF EvaluateNext
<1>2. /\ items \in Seq(Item) /\ Len(items) <= MaxVotes
      /\ ballots \in SUBSET (Users \X Ids)
      /\ accused \in [Ids -> Machines \cup {None}]
      /\ suspended \in BOOLEAN /\ logins \in Nat
      /\ lastID \in 0 .. MaxPolls
      /\ loop \in Loops /\ (loop # Resting => loop.left <= Len(items))
      /\ Good(items, accused) /\ Distinct(items)
      /\ loop # Resting /\ loop.request # NoRequest => lastID < MaxPolls
  BY DEF IInv, TypeOK, TypeInvariant, Loops, RequestFits
<1>3. /\ loop.left \in 1 .. Len(items)
      /\ loop' \in Loops
      /\ loop'.left = loop.left - 1
      /\ loop'.request = loop.request
  <2>1. loop.left \in Nat /\ loop \in [running : {TRUE}, left : Nat, request : Request \cup {NoRequest}]
    BY <1>1, <1>2 DEF Loops
  <2>2. loop.left - 1 \in Nat
    BY <1>1, <2>1
  <2>3. loop.left \in 1 .. Len(items)
    BY <1>1, <1>2, <2>1
  <2>4. /\ loop' \in [running : {TRUE}, left : Nat, request : Request \cup {NoRequest}]
        /\ loop'.left = loop.left - 1
        /\ loop'.request = loop.request
    BY <1>1, <2>1, <2>2
  <2> QED
    BY <2>3, <2>4 DEF Loops
<1>4. loop.left - 1 <= Len(items) - 1 /\ lastID \in lastID .. MaxPolls
  BY <1>2, <1>3
<1>5. items[loop.left].id <= lastID
  BY <1>3, ListedIsNumbered
<1>6. /\ Good(items, accused') /\ accused' \in [Ids -> Machines \cup {None}]
      /\ suspended' \in BOOLEAN /\ logins' \in Nat
      /\ lastID' \in lastID .. MaxPolls /\ items[loop.left].id <= lastID'
      /\ loop' # Resting => loop'.left <= Len(items) - 1
      /\ loop' # Resting /\ loop'.request # NoRequest => lastID' < MaxPolls
  BY <1>1, <1>2, <1>3, <1>4, <1>5
<1> QED
  BY <1>1, <1>2, <1>3, <1>6, EvaluateStep

LEMMA VoteCounted ==
  ASSUME IInv, NEW u \in Users, NEW accept \in BOOLEAN, GetVoter(u) # None,
         NEW p \in Item, GoodItem(p, accused)
  PROVE  /\ Voted(p, GetVoter(u), accept) \in Item
         /\ Voted(p, GetVoter(u), accept).id = p.id
         /\ GoodItem(Voted(p, GetVoter(u), accept), accused)
<1> DEFINE v == GetVoter(u)
           q == Voted(p, v, accept)
<1>1. v \in Machines /\ v \in {machine[w] : w \in Players}
  BY VoterType DEF IInv, TypeOK, TypeInvariant, Roles
<1> HIDE DEF v
<1>2. /\ q \in Item
      /\ q.id = p.id /\ q.target = p.target /\ q.victim = p.victim
      /\ q.suggestor = p.suggestor
  BY <1>1 DEF Voted, Item
<1>3. /\ q.pro = IF accept THEN p.pro \cup {v} ELSE p.pro \ {v}
      /\ q.con = IF accept THEN p.con \ {v} ELSE p.con \cup {v}
  BY DEF Voted, Item
<1> HIDE DEF q
<1>4. q.pro \cap q.con = {}
  BY <1>3 DEF GoodItem
<1>5. (q.pro \cup q.con \cup {q.suggestor}) \ {None} \subseteq {machine[w] : w \in Players}
  BY <1>1, <1>2, <1>3 DEF GoodItem
<1>6. GoodItem(q, accused)
  BY <1>2, <1>4, <1>5 DEF GoodItem
<1> QED
  BY <1>2, <1>6 DEF q, v

LEMMA VotingStep ==
  ASSUME IInv, NEW u \in Users, NEW id \in Ids, NEW accept \in BOOLEAN,
         GetControlMessage(u, id, accept)
  PROVE  IInv' /\ Hits
<1>1. /\ items \in Seq(Item) /\ Len(items) <= MaxVotes
      /\ ballots \in SUBSET (Users \X Ids)
      /\ accused \in [Ids -> Machines \cup {None}]
      /\ suspended \in BOOLEAN /\ logins \in Nat
      /\ lastID \in 0 .. MaxPolls
      /\ Good(items, accused) /\ Distinct(items)
  BY DEF IInv, TypeOK, TypeInvariant
<1> DEFINE its(i) == IF GetVoter(u) = None THEN items
                     ELSE [items EXCEPT ![i] = Voted(@, GetVoter(u), accept)]
<1>2. PICK i \in 1 .. Len(items) : Evaluate(its(i), i, ballots \ {<<u, id>>})
  <2>1. DOMAIN items = 1 .. Len(items)
    BY <1>1
  <2> QED
    BY <2>1, Zenon DEF GetControlMessage
<1>3. /\ loop = Resting
      /\ UNCHANGED <<loop, suspended, lastID, logins, accused>>
  BY DEF GetControlMessage
<1>4. \A j \in 1 .. Len(items) : items[j] \in Item /\ GoodItem(items[j], accused)
  BY <1>1 DEF Good
<1>5. /\ its(i) \in Seq(Item) /\ Len(its(i)) = Len(items)
      /\ \A j \in 1 .. Len(items) : its(i)[j].id = items[j].id /\ GoodItem(its(i)[j], accused)
  <2>1. CASE GetVoter(u) = None
    BY <2>1, <1>1, <1>4
  <2>2. CASE GetVoter(u) # None
    <3> DEFINE q == Voted(items[i], GetVoter(u), accept)
    <3>1. q \in Item /\ q.id = items[i].id /\ GoodItem(q, accused)
      BY <1>4, <2>2, VoteCounted
    <3>2. its(i) = [items EXCEPT ![i] = q]
      BY <2>2
    <3> HIDE DEF q, its
    <3>3. /\ its(i) \in Seq(Item) /\ Len(its(i)) = Len(items)
          /\ \A j \in 1 .. Len(items) : its(i)[j] = IF j = i THEN q ELSE items[j]
      BY <1>1, <3>1, <3>2
    <3> QED
      BY <1>4, <3>1, <3>3
  <2> QED
    BY <2>1, <2>2
<1> DEFINE polls == its(i)
<1>6. polls \in Seq(Item) /\ Len(polls) = Len(items) /\ Evaluate(polls, i, ballots \ {<<u, id>>})
  BY <1>2, <1>5
<1>7. \A j \in 1 .. Len(items) : polls[j].id = items[j].id /\ GoodItem(polls[j], accused)
  BY <1>5
<1> HIDE DEF polls
<1>8. Good(polls, accused') /\ Distinct(polls)
  BY <1>1, <1>3, <1>6, <1>7 DEF Good, Distinct
<1>9. \A k \in Ids : k # polls[i].id => (Listed(items, k) <=> Listed(polls, k))
  BY <1>6, <1>7 DEF Listed
<1>10. polls[i].id <= lastID'
  BY <1>3, <1>7, ListedIsNumbered
<1>11. /\ accused' \in [Ids -> Machines \cup {None}]
       /\ suspended' \in BOOLEAN /\ logins' \in Nat
       /\ lastID' \in lastID .. MaxPolls
       /\ loop' \in Loops /\ loop' = Resting
       /\ i \in 1 .. Len(polls) /\ Len(polls) <= MaxVotes
       /\ ballots \ {<<u, id>>} \in SUBSET (Users \X Ids)
  BY <1>1, <1>3, <1>6 DEF Loops
<1> QED
  BY <1>6, <1>8, <1>9, <1>10, <1>11, EvaluateStep

\* A new poll knows where the player it is about comes from.
LEMMA NewItemGood ==
  ASSUME IInv, NEW r \in Request, GetVoter(r.user) # None, lastID < MaxPolls,
         NEW acc,
         acc[lastID + 1] = IF NewItem(r).target = None THEN None
                           ELSE machine[NewItem(r).target]
  PROVE  /\ NewItem(r) \in Item
         /\ NewItem(r).id = lastID + 1
         /\ GoodItem(NewItem(r), acc)
<1> DEFINE p == NewItem(r)
           voters == {machine[w] : w \in Players}
<1>1. /\ machine \in [Users -> Machines \cup {None}]
      /\ role \in [Users -> Roles]
      /\ Players \subseteq Connected
      /\ lastID \in 0 .. MaxPolls /\ MaxPolls \in Nat
  BY DEF IInv, TypeOK, TypeInvariant, Roles
<1>2. r.user \in Users /\ r.kind \in Kinds /\ r.target \in Users \cup {None}
  BY DEF Request
<1>3. /\ p.id = lastID + 1 /\ p.kind = r.kind
      /\ p.target = IF r.target \in Players THEN r.target ELSE None
      /\ p.victim = IF p.target = None THEN None ELSE GetVoter(p.target)
      /\ p.suggestor = GetVoter(r.user) /\ p.pro = {GetVoter(r.user)} /\ p.con = {}
  BY DEF NewItem
<1>4. Cardinality(Recipients(r.user)) \in Nat
  <2>1. IsFiniteSet(Recipients(r.user))
    BY FS_Subset DEF Recipients
  <2> QED
    BY <2>1, FS_CardinalityType
<1>5. p = [id |-> p.id, kind |-> p.kind, target |-> p.target, victim |-> p.victim,
           suggestor |-> p.suggestor, pro |-> p.pro, con |-> p.con,
           total |-> 1 + Cardinality(Recipients(r.user)), age |-> 0]
  BY DEF NewItem
<1> HIDE DEF p
<1>6. GetVoter(r.user) \in Machines /\ GetVoter(r.user) \in voters
  BY <1>1, <1>2, VoterType
<1>7. /\ p.target \in Users \cup {None}
      /\ p.target # None => p.target \in Players
  BY <1>2, <1>3
<1>8. p.victim \in Machines \cup {None}
  BY <1>1, <1>3, <1>7, VoterType
<1>9. p \in Item
  <2>1. p.id \in Ids
    BY <1>1, <1>3 DEF Ids
  <2>2. 1 + Cardinality(Recipients(r.user)) \in Nat
    BY <1>4
  <2>3. p.kind \in Kinds /\ p.suggestor \in Machines /\ p.pro \in SUBSET Machines /\ p.con \in SUBSET Machines
    BY <1>2, <1>3, <1>6
  <2> QED
    BY <1>5, <1>7, <1>8, <2>1, <2>2, <2>3 DEF Item
<1>10. p.target # None => machine[p.target] = acc[p.id]
  BY <1>3 DEF p
<1>11. p.victim # None => p.victim = acc[p.id]
  BY <1>3, <1>10 DEF GetVoter
<1>12. GoodItem(p, acc)
  BY <1>3, <1>6, <1>7, <1>10, <1>11 DEF GoodItem
<1> QED
  BY <1>3, <1>9, <1>12 DEF p

LEMMA PollStarted ==
  ASSUME IInv, StartPoll
  PROVE  IInv' /\ Hits
<1> DEFINE r == loop.request
           p == NewItem(r)
           sent == ballots \cup {<<w, p.id>> : w \in Recipients(r.user)}
           its == Append(items, p)
           n == Len(items) + 1
<1>1. /\ loop # Resting /\ r # NoRequest
      /\ Len(items) < MaxVotes
      /\ GetVoter(r.user) # None
      /\ accused' = [accused EXCEPT ![p.id] = IF p.target = None THEN None ELSE machine[p.target]]
      /\ Evaluate(its, n, sent)
      /\ lastID' = lastID + 1
      /\ loop' = Resting
      /\ UNCHANGED <<suspended, logins>>
  BY DEF StartPoll, AcceptNewVote
<1>2. /\ items \in Seq(Item)
      /\ ballots \in SUBSET (Users \X Ids)
      /\ accused \in [Ids -> Machines \cup {None}]
      /\ machine \in [Users -> Machines \cup {None}]
      /\ suspended \in BOOLEAN /\ logins \in Nat
      /\ lastID \in 0 .. MaxPolls /\ MaxPolls \in Nat /\ MaxVotes \in Nat
      /\ loop \in Loops
      /\ Good(items, accused) /\ Distinct(items)
      /\ lastID < MaxPolls
  BY <1>1 DEF IInv, TypeOK, TypeInvariant, Loops, RequestFits
<1>3. r \in Request
  BY <1>1, <1>2 DEF Loops
<1>4. lastID + 1 \in Ids
  BY <1>2 DEF Ids
<1>5. p.id = lastID + 1 /\ p.target \in Users \cup {None}
  BY <1>3 DEF NewItem, Request
<1>6. /\ accused' \in [Ids -> Machines \cup {None}]
      /\ accused'[lastID + 1] = IF p.target = None THEN None ELSE machine[p.target]
      /\ \A id \in Ids : id # lastID + 1 => accused'[id] = accused[id]
  <2> DEFINE m == IF p.target = None THEN None ELSE machine[p.target]
  <2>1. m \in Machines \cup {None}
    BY <1>2, <1>5
  <2>2. accused' = [accused EXCEPT ![lastID + 1] = m]
    BY <1>1, <1>5
  <2> HIDE DEF m
  <2>3. /\ accused' \in [Ids -> Machines \cup {None}]
        /\ accused'[lastID + 1] = m
        /\ \A id \in Ids : id # lastID + 1 => accused'[id] = accused[id]
    BY <1>2, <1>4, <2>1, <2>2
  <2> QED
    BY <2>3 DEF m
<1>7. p \in Item /\ GoodItem(p, accused')
  BY <1>1, <1>2, <1>3, <1>6, NewItemGood
<1>8. sent \in SUBSET (Users \X Ids)
  BY <1>2, <1>4, <1>5 DEF Recipients
<1> HIDE DEF p, r, sent
<1>9. /\ its \in Seq(Item) /\ Len(its) = n /\ n \in 1 .. Len(its)
      /\ its[n] = p
      /\ \A i \in 1 .. Len(items) : its[i] = items[i]
      /\ \A i \in 1 .. n : i = n \/ i \in 1 .. Len(items)
      /\ n <= MaxVotes
  BY <1>1, <1>2, <1>7
<1>10. \A i \in 1 .. Len(items) : /\ items[i] \in Item /\ items[i].id \in Ids
                                  /\ items[i].id # lastID + 1
                                  /\ GoodItem(items[i], accused)
  <2> TAKE i \in 1 .. Len(items)
  <2>1. items[i] \in Item /\ items[i].id \in Ids /\ items[i].id <= lastID
    BY ListedIsNumbered
  <2> QED
    BY <1>2, <2>1 DEF Good, Ids
<1>11. \A i \in 1 .. Len(items) : GoodItem(items[i], accused')
  BY <1>6, <1>10 DEF GoodItem
<1> HIDE DEF its, n
<1>12. Good(its, accused')
  BY <1>7, <1>9, <1>11 DEF Good
<1>13. Distinct(its)
  BY <1>2, <1>5, <1>9, <1>10 DEF Distinct
<1>14. \A id \in Ids : id # its[n].id => (Listed(items, id) <=> Listed(its, id))
  <2> SUFFICES ASSUME NEW id \in Ids, id # p.id
               PROVE  Listed(items, id) <=> Listed(its, id)
    BY <1>9
  <2>1. Listed(items, id) => Listed(its, id)
    BY <1>2, <1>9 DEF Listed, n
  <2>2. Listed(its, id) => Listed(items, id)
    BY <1>9 DEF Listed
  <2> QED
    BY <2>1, <2>2
<1>15. /\ suspended' \in BOOLEAN /\ logins' \in Nat
       /\ lastID' \in lastID .. MaxPolls /\ its[n].id <= lastID'
       /\ loop' \in Loops
       /\ Len(its) <= MaxVotes
  BY <1>1, <1>2, <1>5, <1>9 DEF Loops
<1> QED
  BY <1>1, <1>6, <1>8, <1>9, <1>12, <1>13, <1>14, <1>15, EvaluateStep

-----------------------------------------------------------------------------
(***************************************************************************)
(* The theorems.                                                           *)
(***************************************************************************)
LEMMA Steps ==
  ASSUME IInv, [Next]_vars
  PROVE  IInv' /\ (outcome' # outcome => Hits)
<1>1. CASE UNCHANGED vars
  <2>1. TypeOK'
    BY <1>1 DEF vars, IInv, TypeOK, TypeInvariant, Players, Connected
  <2>2. Good(items, accused)'
    <3>1. Players' = Players /\ UNCHANGED <<items, accused, machine>>
      BY <1>1 DEF vars, Players
    <3>2. ASSUME NEW i \in 1 .. Len(items')
          PROVE  GoodItem(items[i], accused)'
      <4>1. GoodItem(items'[i], accused)
        BY <3>1 DEF IInv, Good
      <4> QED
        BY <3>1, <4>1 DEF GoodItem
    <3> QED
      BY <3>2 DEF Good
  <2> QED
    BY <1>1, <2>1, <2>2 DEF vars, IInv, Distinct, Listed, AcceptedByMajority, Numbered, RequestFits
<1>2. ASSUME NEW u \in Users,
             \/ \E m \in Machines : Login(u, m)
             \/ \E r \in {"spectator", "team"} : ChangeRole(u, r)
      PROVE  IInv' /\ outcome' = outcome
  BY <1>2, Arriving
<1>3. ASSUME NEW u \in Users, Logout(u)
      PROVE  IInv' /\ outcome' = outcome
  BY <1>3, Leaving
<1>4. ASSUME NEW u \in Users, NEW kind \in Kinds, NEW target \in Users \cup {None},
             RequestPoll(u, kind, target)
      PROVE  IInv' /\ outcome' = outcome
  BY <1>4, Starting
<1>5. ASSUME NEW u \in Users, NEW id \in Ids, NEW accept \in BOOLEAN,
             GetControlMessage(u, id, accept)
      PROVE  IInv' /\ Hits
  BY <1>5, VotingStep
<1>6. ASSUME EvaluateAll \/ EndLoop \/ Resume
      PROVE  IInv' /\ outcome' = outcome
  BY <1>6, Starting
<1>7. ASSUME EvaluateNext
      PROVE  IInv' /\ Hits
  BY <1>7, Evaluating
<1>8. ASSUME StartPoll
      PROVE  IInv' /\ Hits
  BY <1>8, PollStarted
<1>9. ASSUME Tick
      PROVE  IInv' /\ outcome' = outcome
  BY <1>9, Ageing
<1>10. ASSUME Cancel \/ SuspendVotes
       PROVE  IInv' /\ Hits
  BY <1>10, Cancelling DEF Hits
<1> QED
  BY <1>1, <1>2, <1>3, <1>4, <1>5, <1>6, <1>7, <1>8, <1>9, <1>10 DEF Next

\* The invariant holds in every state of a server.
THEOREM Invariance == Spec => []IInv
<1>1. IInv /\ [Next]_vars => IInv'
  BY Steps
<1> QED
  BY <1>1, Inits, PTL DEF Spec

\* The types, no more polls than MAX_VOTES, and loops that stay in the list
\* though the polls they evaluate leave it.
THEOREM TypesHold == Spec => []TypeOK
<1>1. IInv => TypeOK
  BY DEF IInv
<1> QED
  BY <1>1, Invariance, PTL

\* One vote of each voter, and each open poll once in the list.
THEOREM OneVoteEachHolds == Spec => []OneVoteEach
<1>1. IInv => OneVoteEach
  <2> SUFFICES ASSUME IInv PROVE OneVoteEach
    OBVIOUS
  <2>1. DOMAIN items = 1 .. Len(items)
    BY DEF IInv, TypeOK, TypeInvariant
  <2>2. \A i \in 1 .. Len(items) : items[i].pro \cap items[i].con = {}
    BY DEF IInv, Good, GoodItem
  <2>3. \A id \in Ids : outcome[id] = "open" <=> \E i \in 1 .. Len(items) : items[i].id = id
    BY DEF IInv, Listed
  <2> QED
    BY <2>1, <2>2, <2>3 DEF IInv, Distinct, OneVoteEach
<1> QED
  BY <1>1, Invariance, PTL

\* Votes count only as long as their voter is on the server.
THEOREM VotersArePresentHolds == Spec => []VotersArePresent
<1>1. IInv => VotersArePresent
  <2> SUFFICES ASSUME IInv PROVE VotersArePresent
    OBVIOUS
  <2>1. DOMAIN items = 1 .. Len(items)
    BY DEF IInv, TypeOK, TypeInvariant
  <2>2. \A i \in 1 .. Len(items) : GoodItem(items[i], accused)
    BY DEF IInv, Good
  <2> QED
    BY <2>1, <2>2 DEF GoodItem, VotersArePresent
<1> QED
  BY <1>1, Invariance, PTL

\* Whatever the bias and however the ignored voters grow, an accepted poll has
\* its majority.
THEOREM AcceptedByMajorityHolds == Spec => []AcceptedByMajority
<1>1. IInv => AcceptedByMajority
  BY DEF IInv
<1> QED
  BY <1>1, Invariance, PTL

\* Only users of the accused player's machine are expelled by a poll.
THEOREM KickHitsTargetHolds == Spec => KickHitsTarget
<1>1. IInv /\ [Next]_vars =>
        [\A id \in Ids :
           outcome[id] # "accepted" /\ outcome'[id] = "accepted" =>
             \A u \in Connected : machine'[u] = None => machine[u] = accused'[id]]_vars
  BY Steps DEF Hits
<1> QED
  BY <1>1, Invariance, PTL DEF Spec, KickHitsTarget

-----------------------------------------------------------------------------
(***************************************************************************)
(* Voting implements Polls: the votes of the polls in a list, and what     *)
(* becomes of them when a poll leaves it, users go, or a vote is cast.     *)
(***************************************************************************)
ForOf(L) == {b \in Ids \X Machines : \E i \in 1 .. Len(L) : L[i].id = b[1] /\ b[2] \in L[i].pro}
AgainstOf(L) == {b \in Ids \X Machines : \E i \in 1 .. Len(L) : L[i].id = b[1] /\ b[2] \in L[i].con}

LEMMA ItemFields ==
  ASSUME NEW L \in Seq(Item)
  PROVE  /\ DOMAIN L = 1 .. Len(L)
         /\ \A i \in 1 .. Len(L) : /\ L[i] \in Item
                                   /\ L[i].id \in Ids
                                   /\ L[i].pro \in SUBSET Machines
                                   /\ L[i].con \in SUBSET Machines
<1>1. \A i \in 1 .. Len(L) : L[i] \in Item
  OBVIOUS
<1>2. \A p \in Item : p.id \in Ids /\ p.pro \in SUBSET Machines /\ p.con \in SUBSET Machines
  BY DEF Item
<1> QED
  BY <1>1, <1>2

\* For and Against are the votes in the list.
LEMMA VotesListed ==
  ASSUME NEW L \in Seq(Item)
  PROVE  /\ UNION {{L[i].id} \X L[i].pro : i \in DOMAIN L} = ForOf(L)
         /\ UNION {{L[i].id} \X L[i].con : i \in DOMAIN L} = AgainstOf(L)
<1>1. /\ DOMAIN L = 1 .. Len(L)
      /\ \A i \in 1 .. Len(L) : /\ L[i].id \in Ids
                                /\ L[i].pro \in SUBSET Machines
                                /\ L[i].con \in SUBSET Machines
  BY ItemFields
<1>2. \A b : b \in UNION {{L[i].id} \X L[i].pro : i \in DOMAIN L} <=> b \in ForOf(L)
  <2>1. ASSUME NEW i \in 1 .. Len(L), NEW b \in {L[i].id} \X L[i].pro
        PROVE  b \in ForOf(L)
    BY <1>1 DEF ForOf
  <2>2. ASSUME NEW b \in ForOf(L)
        PROVE  \E i \in 1 .. Len(L) : b \in {L[i].id} \X L[i].pro
    BY <1>1 DEF ForOf
  <2> QED
    BY <1>1, <2>1, <2>2
<1>3. \A b : b \in UNION {{L[i].id} \X L[i].con : i \in DOMAIN L} <=> b \in AgainstOf(L)
  <2>1. ASSUME NEW i \in 1 .. Len(L), NEW b \in {L[i].id} \X L[i].con
        PROVE  b \in AgainstOf(L)
    BY <1>1 DEF AgainstOf
  <2>2. ASSUME NEW b \in AgainstOf(L)
        PROVE  \E i \in 1 .. Len(L) : b \in {L[i].id} \X L[i].con
    BY <1>1 DEF AgainstOf
  <2> QED
    BY <1>1, <2>1, <2>2
<1> QED
  BY <1>2, <1>3

LEMMA VotesLeft ==
  ASSUME NEW L \in Seq(Item), NEW U
  PROVE  /\ ForOf(RemoveFromGame(L, U)) = {b \in ForOf(L) : b[2] \notin Voters(U)}
         /\ AgainstOf(RemoveFromGame(L, U)) = {b \in AgainstOf(L) : b[2] \notin Voters(U)}
<1> DEFINE q(i) == RemoveFromGame(L, U)[i]
<1>1. Len(RemoveFromGame(L, U)) = Len(L)
  BY RemoveFromGameType
<1>2. \A i \in 1 .. Len(L) : /\ q(i).id = L[i].id
                             /\ q(i).pro = L[i].pro \ Voters(U)
                             /\ q(i).con = L[i].con \ Voters(U)
  BY RemoveFromGameType, ItemFields, PurgedType
<1> DEFINE M == RemoveFromGame(L, U)
<1>3. \A b : b \in ForOf(M) <=> b \in ForOf(L) /\ b[2] \notin Voters(U)
  BY <1>1, <1>2, Zenon DEF ForOf
<1>4. \A b : b \in AgainstOf(M) <=> b \in AgainstOf(L) /\ b[2] \notin Voters(U)
  BY <1>1, <1>2, Zenon DEF AgainstOf
<1> QED
  BY <1>3, <1>4

LEMMA VotesRemoved ==
  ASSUME NEW L \in Seq(Item), NEW i \in 1 .. Len(L), Distinct(L)
  PROVE  /\ ForOf(Remove(L, i)) = {b \in ForOf(L) : b[1] # L[i].id}
         /\ AgainstOf(Remove(L, i)) = {b \in AgainstOf(L) : b[1] # L[i].id}
<1> DEFINE r == Remove(L, i)
           at(j) == IF j = i THEN Len(L) ELSE j
<1>0. Len(r) = Len(L) - 1 /\ Len(L) \in Nat
  BY RemoveType
<1>1. \A j \in 1 .. Len(r) : r[j] = L[at(j)]
  BY RemoveType
<1> HIDE DEF r
<1>2. \A j \in 1 .. Len(r) : at(j) \in 1 .. Len(L) /\ at(j) # i
  BY <1>0
<1>3. \A k \in 1 .. Len(L) : k # i => \E j \in 1 .. Len(r) : at(j) = k
  <2> TAKE k \in 1 .. Len(L)
  <2>1. ASSUME k = Len(L), k # i
        PROVE  i \in 1 .. Len(r) /\ at(i) = k
    BY <1>0, <2>1
  <2>2. ASSUME k # Len(L), k # i
        PROVE  k \in 1 .. Len(r) /\ at(k) = k
    BY <1>0, <2>2
  <2> QED
    BY <2>1, <2>2
<1> HIDE DEF at
<1>4. \A j \in 1 .. Len(r) : \E k \in 1 .. Len(L) : r[j] = L[k] /\ L[k].id # L[i].id
  BY <1>1, <1>2 DEF Distinct
<1>5. \A k \in 1 .. Len(L) : L[k].id # L[i].id => \E j \in 1 .. Len(r) : r[j] = L[k]
  BY <1>1, <1>3
<1>6. \A b : b \in ForOf(r) <=> b \in ForOf(L) /\ b[1] # L[i].id
  <2>1. ASSUME NEW b \in ForOf(r)
        PROVE  b \in ForOf(L) /\ b[1] # L[i].id
    <3>1. PICK j \in 1 .. Len(r) : r[j].id = b[1] /\ b[2] \in r[j].pro
      BY DEF ForOf
    <3>2. PICK k \in 1 .. Len(L) : r[j] = L[k] /\ L[k].id # L[i].id
      BY <1>4
    <3> QED
      BY <3>1, <3>2 DEF ForOf
  <2>2. ASSUME NEW b \in ForOf(L), b[1] # L[i].id
        PROVE  b \in ForOf(r)
    BY <1>5, <2>2 DEF ForOf
  <2> QED
    BY <2>1, <2>2
<1>7. \A b : b \in AgainstOf(r) <=> b \in AgainstOf(L) /\ b[1] # L[i].id
  <2>1. ASSUME NEW b \in AgainstOf(r)
        PROVE  b \in AgainstOf(L) /\ b[1] # L[i].id
    <3>1. PICK j \in 1 .. Len(r) : r[j].id = b[1] /\ b[2] \in r[j].con
      BY DEF AgainstOf
    <3>2. PICK k \in 1 .. Len(L) : r[j] = L[k] /\ L[k].id # L[i].id
      BY <1>4
    <3> QED
      BY <3>1, <3>2 DEF AgainstOf
  <2>2. ASSUME NEW b \in AgainstOf(L), b[1] # L[i].id
        PROVE  b \in AgainstOf(r)
    BY <1>5, <2>2 DEF AgainstOf
  <2> QED
    BY <2>1, <2>2
<1> QED
  BY <1>6, <1>7 DEF r

\* The votes for and against a poll are those its count is made of.
LEMMA VotesCounted ==
  ASSUME NEW L \in Seq(Item), NEW i \in 1 .. Len(L), Distinct(L)
  PROVE  /\ Promise!Votes(ForOf(L), L[i].id) = Cardinality(L[i].pro)
         /\ Promise!Votes(AgainstOf(L), L[i].id) = Cardinality(L[i].con)
<1>1. ASSUME NEW id \in Ids, NEW S \in SUBSET Machines
      PROVE  Cardinality({id} \X S) = Cardinality(S)
  <2>1. IsFiniteSet(S) /\ Cardinality(S) \in Nat
    BY FS_Subset, FS_CardinalityType
  <2>2. IsFiniteSet({id}) /\ Cardinality({id}) = 1
    BY FS_Singleton
  <2>3. Cardinality({id} \X S) = Cardinality({id}) * Cardinality(S)
    BY <2>1, <2>2, FS_Product
  <2> QED
    BY <2>1, <2>2, <2>3
<1>2. /\ L[i].id \in Ids /\ L[i].pro \in SUBSET Machines /\ L[i].con \in SUBSET Machines
  BY ItemFields
<1>3. {b \in ForOf(L) : b[1] = L[i].id} = {L[i].id} \X L[i].pro
  BY <1>2 DEF ForOf, Distinct
<1>4. {b \in AgainstOf(L) : b[1] = L[i].id} = {L[i].id} \X L[i].con
  BY <1>2 DEF AgainstOf, Distinct
<1> QED
  <2>1. Promise!Votes(ForOf(L), L[i].id) = Cardinality({L[i].id} \X L[i].pro)
    BY <1>3 DEF Promise!Votes, Promise!Cardinality, Cardinality
  <2>2. Promise!Votes(AgainstOf(L), L[i].id) = Cardinality({L[i].id} \X L[i].con)
    BY <1>4 DEF Promise!Votes, Promise!Cardinality, Cardinality
  <2> QED
    BY <1>1, <1>2, <2>1, <2>2

\* The users U go, when the polls of L are those that are left open of pro and con.
LEMMA Departs ==
  ASSUME machine \in [Users -> Machines \cup {None}], role \in [Users -> Roles],
         Players \subseteq Connected, NEW U \in SUBSET Users,
         NEW sent \in SUBSET (Users \X Ids), Disconnect(U, sent),
         NEW L \in Seq(Item), items' = RemoveFromGame(L, U),
         NEW over, NEW pro, NEW con,
         ForOf(L) = {b \in pro : b[1] \notin over},
         AgainstOf(L) = {b \in con : b[1] \notin over}
  PROVE  Promise!Depart(U, over, pro, con)
<1>1. items' \in Seq(Item)
  BY RemoveFromGameType
<1>2. For' = ForOf(items') /\ Against' = AgainstOf(items')
  BY <1>1, VotesListed DEF For, Against
<1>3. /\ ForOf(items') = {b \in ForOf(L) : b[2] \notin Voters(U)}
      /\ AgainstOf(items') = {b \in AgainstOf(L) : b[2] \notin Voters(U)}
  BY VotesLeft
<1>4. /\ For' = {b \in pro : b[1] \notin over /\ b[2] \notin Voters(U)}
      /\ Against' = {b \in con : b[1] \notin over /\ b[2] \notin Voters(U)}
  BY <1>2, <1>3
<1>5. machine' = [u \in Users |-> IF u \in U THEN None ELSE machine[u]]
  BY DEF Disconnect
<1>6. Players' = Players \ U
  BY DepartureTypes
<1> QED
  BY <1>4, <1>5, <1>6 DEF Promise!Depart, Promise!Left, Voters

\* Whatever the evaluation of a poll does is something a poll may do.
LEMMA Settles ==
  ASSUME machine \in [Users -> Machines \cup {None}], role \in [Users -> Roles],
         Players \subseteq Connected,
         NEW its \in Seq(Item), NEW i \in 1 .. Len(its),
         NEW sent \in SUBSET (Users \X Ids),
         Good(its, accused'), Distinct(its), Evaluate(its, i, sent)
  PROVE  Promise!Settle(its[i].id, accused'[its[i].id], ForOf(its), AgainstOf(its))
<1> DEFINE p == its[i]
           open == Fate(p) = "open"
           L == IF open THEN its ELSE Remove(its, i)
           left == IF open THEN sent ELSE {b \in sent : b[2] # p.id}
           over == IF open THEN {} ELSE {p.id}
<1>0. p \in Item /\ GoodItem(p, accused')
  BY DEF Good
<1>1. p \in Item /\ GoodItem(p, accused') /\ p.kind \in Kinds
  BY <1>0 DEF Item
<1> PICK banned \in BOOLEAN :
         items' = RemoveFromGame(L, Expelled(p, banned)) /\ Disconnect(Expelled(p, banned), left)
  BY DEF Evaluate
<1>2. Expelled(p, banned) \in
        SUBSET {u \in Users : machine[u] # None /\ machine[u] = accused'[p.id]}
  BY <1>1 DEF Expelled, Kicked, GoodItem, Players, Connected, Item
<1>3. items' = RemoveFromGame(L, Expelled(p, banned)) /\ Disconnect(Expelled(p, banned), left)
  OBVIOUS
<1>4. L \in Seq(Item) /\ left \in SUBSET (Users \X Ids)
  BY RemoveType
<1>5. /\ ForOf(L) = {b \in ForOf(its) : b[1] \notin over}
      /\ AgainstOf(L) = {b \in AgainstOf(its) : b[1] \notin over}
  BY VotesRemoved
<1> HIDE DEF L, left
<1>6. Promise!Depart(Expelled(p, banned), over, ForOf(its), AgainstOf(its))
  BY <1>2, <1>3, <1>4, <1>5, Departs
<1>7. outcome' = [outcome EXCEPT ![p.id] =
                    IF Fate(p) \in {"open", "accepted"} THEN Fate(p) ELSE "closed"]
  BY DEF Evaluate
<1>8. CASE Fate(p) = "open"
  <2>1. Expelled(p, banned) = {} /\ over = {} /\ outcome' = [outcome EXCEPT ![p.id] = "open"]
    BY <1>7, <1>8 DEF Expelled
  <2> QED
    BY <1>6, <2>1 DEF Promise!Settle
<1>9. CASE Fate(p) = "accepted"
  <2>1. over = {p.id} /\ outcome' = [outcome EXCEPT ![p.id] = "accepted"]
    BY <1>7, <1>9
  <2>2. Cardinality(p.pro) > Cardinality(p.con)
    <3>1. Pro(p) \in Nat /\ Con(p) \in Nat /\ Total(p) \in Int
      <4>1. /\ Pro(p) \in Nat /\ Con(p) \in Nat
            /\ Ignored(p) \in Nat /\ p.total + Bias[p.kind] \in Nat
            /\ Total(p) = (p.total + Bias[p.kind]) - Ignored(p)
        BY <1>1, Counts
      <4> HIDE DEF p
      <4> QED
        BY <4>1
    <3>2. ~Rejected(p) /\ Accepted(p)
      BY <1>9 DEF Fate
    <3>3. Pro(p) > Con(p)
      BY <3>1, <3>2 DEF Rejected, Accepted
    <3>4. Cardinality(p.con) \in Nat /\ Bias[p.kind] \in Nat
      <4>1. IsFiniteSet(p.con)
        BY <1>1, FS_Subset DEF Item
      <4> QED
        BY <1>1, <4>1, FS_CardinalityType
    <3>5. Pro(p) = Cardinality(p.pro) /\ Con(p) = Cardinality(p.con) + Bias[p.kind]
      BY DEF Pro, Con
    <3> HIDE DEF p
    <3> QED
      BY <3>1, <3>3, <3>4, <3>5
  <2>3. Promise!Votes(ForOf(its), p.id) > Promise!Votes(AgainstOf(its), p.id)
    BY <2>2, VotesCounted
  <2> QED
    BY <1>2, <1>6, <2>1, <2>3 DEF Promise!Settle
<1>10. CASE Fate(p) \notin {"open", "accepted"}
  <2>1. Expelled(p, banned) = {} /\ over = {p.id} /\ outcome' = [outcome EXCEPT ![p.id] = "closed"]
    BY <1>7, <1>10 DEF Expelled
  <2> QED
    BY <1>6, <2>1 DEF Promise!Settle
<1> QED
  BY <1>8, <1>9, <1>10

-----------------------------------------------------------------------------
(***************************************************************************)
(* The steps of Voting as steps of Polls.                                  *)
(***************************************************************************)
LEMMA StateTypes ==
  ASSUME IInv
  PROVE  /\ machine \in [Users -> Machines \cup {None}]
         /\ role \in [Users -> Roles]
         /\ Players \subseteq Connected
         /\ items \in Seq(Item)
         /\ ballots \in SUBSET (Users \X Ids)
         /\ outcome \in [Ids -> Outcomes]
         /\ accused \in [Ids -> Machines \cup {None}]
         /\ Good(items, accused) /\ Distinct(items)
         /\ For = ForOf(items) /\ Against = AgainstOf(items)
BY VotesListed DEF IInv, TypeOK, TypeInvariant, Roles, For, Against

\* The evaluation of an open poll with the votes it has.
LEMMA Reviewed ==
  ASSUME IInv, NEW i \in 1 .. Len(items), NEW sent \in SUBSET (Users \X Ids),
         UNCHANGED accused, Evaluate(items, i, sent)
  PROVE  Promise!Review(items[i].id)
<1>1. items[i].id \in Ids /\ outcome[items[i].id] = "open"
  BY ListedIsNumbered DEF IInv, Listed
<1>2. Good(items, accused')
  BY DEF IInv
<1>3. Promise!Settle(items[i].id, accused'[items[i].id], For, Against)
  BY <1>2, StateTypes, Settles
<1> QED
  BY <1>1, <1>3 DEF Promise!Review

LEMMA StartMapped ==
  ASSUME IInv, StartPoll
  PROVE  Promise!Start(lastID + 1)
<1> DEFINE r == loop.request
           p == NewItem(r)
           sent == ballots \cup {<<w, p.id>> : w \in Recipients(r.user)}
           its == Append(items, p)
           n == Len(items) + 1
           m == IF p.target = None THEN None ELSE machine[p.target]
<1>1. /\ loop # Resting /\ r # NoRequest
      /\ GetVoter(r.user) # None
      /\ accused' = [accused EXCEPT ![p.id] = m]
      /\ Evaluate(its, n, sent)
  BY DEF StartPoll
<1>2. /\ machine \in [Users -> Machines \cup {None}]
      /\ role \in [Users -> Roles]
      /\ Players \subseteq Connected
      /\ items \in Seq(Item)
      /\ ballots \in SUBSET (Users \X Ids)
      /\ accused \in [Ids -> Machines \cup {None}]
      /\ Good(items, accused) /\ Distinct(items)
      /\ For = ForOf(items) /\ Against = AgainstOf(items)
  BY StateTypes
<1>0. lastID \in 0 .. MaxPolls /\ lastID < MaxPolls /\ loop \in Loops
  BY <1>1 DEF IInv, TypeOK, TypeInvariant, RequestFits, Loops
<1>3. lastID \in Nat /\ lastID < MaxPolls /\ MaxPolls \in Nat /\ loop \in Loops
  BY <1>0
<1>4. r \in Request
  BY <1>1, <1>3 DEF Loops
<1>5. lastID + 1 \in Ids
  BY <1>3 DEF Ids
<1>6. p.id = lastID + 1
  BY DEF NewItem
<1>7. accused'[lastID + 1] = m
  BY <1>1, <1>2, <1>5, <1>6
<1>8. p \in Item /\ GoodItem(p, accused') /\ p.pro = {GetVoter(r.user)} /\ p.con = {}
  BY <1>1, <1>3, <1>4, <1>7, NewItemGood DEF NewItem
<1>9. /\ r.user \in Players /\ GetVoter(r.user) = machine[r.user]
      /\ machine[r.user] \in Machines
  BY <1>1, <1>2, <1>4 DEF GetVoter, Players, Request
<1>10. m \in {None} \cup {machine[w] : w \in Players}
  BY <1>8 DEF GoodItem
<1>11. sent \in SUBSET (Users \X Ids)
  BY <1>2, <1>5, <1>6 DEF Recipients
<1> HIDE DEF p, r, sent, m
<1>12. /\ its \in Seq(Item) /\ Len(its) = n /\ n \in 1 .. Len(its)
       /\ its[n] = p
       /\ \A i \in 1 .. Len(items) : its[i] = items[i] /\ i \in 1 .. n
       /\ \A i \in 1 .. n : i = n \/ i \in 1 .. Len(items)
  BY <1>2, <1>8
<1>13. \A i \in 1 .. Len(items) : /\ items[i].id \in Ids
                                  /\ items[i].id # lastID + 1
                                  /\ GoodItem(items[i], accused)
  <2> TAKE i \in 1 .. Len(items)
  <2>1. items[i] \in Item /\ items[i].id \in Ids /\ items[i].id <= lastID
    BY ListedIsNumbered
  <2> QED
    BY <1>2, <1>3, <2>1 DEF Good, Ids
<1>14. \A i \in 1 .. Len(items) : GoodItem(items[i], accused')
  BY <1>1, <1>2, <1>6, <1>13 DEF GoodItem
<1> HIDE DEF its, n
<1>15. Good(its, accused')
  BY <1>8, <1>12, <1>14 DEF Good
<1>16. Distinct(its)
  BY <1>2, <1>6, <1>12, <1>13 DEF Distinct
<1>17. ForOf(its) = For \cup {<<lastID + 1, machine[r.user]>>}
  <2>1. ForOf(its) = ForOf(items) \cup {<<lastID + 1, machine[r.user]>>}
    <3>1. ASSUME NEW b \in ForOf(its)
          PROVE  b \in ForOf(items) \/ b = <<lastID + 1, machine[r.user]>>
      <4>1. PICK i \in 1 .. n : its[i].id = b[1] /\ b[2] \in its[i].pro
        BY <1>12 DEF ForOf
      <4>2. CASE i \in 1 .. Len(items)
        BY <1>12, <4>1, <4>2 DEF ForOf
      <4>3. CASE i = n
        BY <1>6, <1>8, <1>9, <1>12, <4>1, <4>3 DEF ForOf
      <4> QED
        BY <1>12, <4>2, <4>3
    <3>2. ASSUME NEW b \in ForOf(items)
          PROVE  b \in ForOf(its)
      BY <1>12 DEF ForOf
    <3>3. <<lastID + 1, machine[r.user]>> \in ForOf(its)
      BY <1>5, <1>6, <1>8, <1>9, <1>12 DEF ForOf
    <3> QED
      BY <3>1, <3>2, <3>3
  <2> QED
    BY <1>2, <2>1
<1>18. AgainstOf(its) = Against
  <2>1. AgainstOf(its) = AgainstOf(items)
    BY <1>8, <1>12 DEF AgainstOf
  <2> QED
    BY <1>2, <2>1
<1>19. Promise!Settle(lastID + 1, m, For \cup {<<lastID + 1, machine[r.user]>>}, Against)
  <2>1. Promise!Settle(its[n].id, accused'[its[n].id], ForOf(its), AgainstOf(its))
    BY <1>1, <1>2, <1>11, <1>12, <1>15, <1>16, Settles
  <2> QED
    BY <2>1, <1>6, <1>7, <1>12, <1>17, <1>18
<1>20. outcome[lastID + 1] = "none"
  BY <1>3, <1>5 DEF IInv, Numbered
<1> QED
  BY <1>1, <1>6, <1>9, <1>10, <1>19, <1>20 DEF Promise!Start

\* A vote takes the one its machine cast before off the other side.
LEMMA VoteMapped ==
  ASSUME IInv, NEW u \in Users, NEW id \in Ids, NEW accept \in BOOLEAN,
         GetControlMessage(u, id, accept)
  PROVE  Promise!Review(id) \/ Promise!Vote(id)
<1> DEFINE v == GetVoter(u)
           rest == ballots \ {<<u, id>>}
           its(i) == IF v = None THEN items ELSE [items EXCEPT ![i] = Voted(@, v, accept)]
<1>1. /\ machine \in [Users -> Machines \cup {None}]
      /\ role \in [Users -> Roles]
      /\ Players \subseteq Connected
      /\ items \in Seq(Item) /\ DOMAIN items = 1 .. Len(items)
      /\ rest \in SUBSET (Users \X Ids)
      /\ Good(items, accused) /\ Distinct(items)
      /\ For = ForOf(items) /\ Against = AgainstOf(items)
  BY StateTypes
<1>2. PICK i \in 1 .. Len(items) : items[i].id = id /\ Evaluate(its(i), i, rest)
  BY <1>1, Zenon DEF GetControlMessage
<1>3. UNCHANGED accused
  BY DEF GetControlMessage
<1>4. CASE v = None
  BY <1>1, <1>2, <1>3, <1>4, Reviewed
<1>5. CASE v # None
  <2> DEFINE q == Voted(items[i], v, accept)
             new == [items EXCEPT ![i] = q]
  <2>1. u \in Players /\ v = machine[u] /\ v \in Machines
    BY <1>1, <1>5 DEF GetVoter, Players
  <2>2. items[i] \in Item /\ GoodItem(items[i], accused)
    BY <1>1 DEF Good
  <2>3. q \in Item /\ q.id = id /\ GoodItem(q, accused)
    BY <1>2, <1>5, <2>2, VoteCounted
  <2>4. /\ q.pro = IF accept THEN items[i].pro \cup {v} ELSE items[i].pro \ {v}
        /\ q.con = IF accept THEN items[i].con \ {v} ELSE items[i].con \cup {v}
    BY <2>2 DEF Voted, Item
  <2>5. Evaluate(new, i, rest)
    BY <1>2, <1>5
  <2> HIDE DEF q
  <2>6. /\ new \in Seq(Item) /\ Len(new) = Len(items)
        /\ \A j \in 1 .. Len(items) : new[j] = IF j = i THEN q ELSE items[j]
    BY <1>1, <2>3
  <2> HIDE DEF new, v, rest
  <2>7. \A j \in 1 .. Len(items) : new[j].id = items[j].id /\ GoodItem(new[j], accused)
    BY <1>1, <1>2, <2>3, <2>6 DEF Good
  <2>8. Good(new, accused') /\ Distinct(new)
    BY <1>1, <1>3, <2>6, <2>7 DEF Good, Distinct
  <2>9. \A j \in 1 .. Len(items) : items[j].id = id => j = i
    BY <1>1, <1>2 DEF Distinct
  <2>10. \A b \in Ids \X Machines :
           /\ b \in ForOf(new) <=>
                IF b[1] = id THEN b[2] \in q.pro ELSE b \in ForOf(items)
           /\ b \in AgainstOf(new) <=>
                IF b[1] = id THEN b[2] \in q.con ELSE b \in AgainstOf(items)
    BY <1>2, <2>3, <2>6, <2>7, <2>9 DEF ForOf, AgainstOf
  <2>11. \A b \in Ids \X Machines :
           b[1] = id => /\ b \in ForOf(items) <=> b[2] \in items[i].pro
                        /\ b \in AgainstOf(items) <=> b[2] \in items[i].con
    BY <1>2, <2>9 DEF ForOf, AgainstOf
  <2>12. \A b \in Ids \X Machines : b[1] = id /\ b[2] = v <=> b = <<id, v>>
    OBVIOUS
  <2>13. \A L : ForOf(L) \subseteq Ids \X Machines /\ AgainstOf(L) \subseteq Ids \X Machines
    BY DEF ForOf, AgainstOf
  <2>14. <<id, v>> \in Ids \X Machines
    BY <2>1
  <2>15. /\ ForOf(new) = IF accept THEN For \cup {<<id, v>>} ELSE For \ {<<id, v>>}
         /\ AgainstOf(new) = IF accept THEN Against \ {<<id, v>>} ELSE Against \cup {<<id, v>>}
    BY <1>1, <2>4, <2>10, <2>11, <2>12, <2>13, <2>14
  <2>16. Promise!Settle(id, accused'[id], ForOf(new), AgainstOf(new))
    <3>1. new[i].id = id
      BY <1>2, <2>7
    <3>2. Promise!Settle(new[i].id, accused'[new[i].id], ForOf(new), AgainstOf(new))
      BY <1>1, <2>5, <2>6, <2>8, Settles
    <3> QED
      BY <3>1, <3>2
  <2>17. outcome[id] = "open"
    BY <1>2 DEF IInv, Listed
  <2>18. \/ Promise!Settle(id, accused[id], For \cup {<<id, machine[u]>>},
                           Against \ {<<id, machine[u]>>})
         \/ Promise!Settle(id, accused[id], For \ {<<id, machine[u]>>},
                           Against \cup {<<id, machine[u]>>})
    <3>1. CASE accept
      BY <1>3, <2>1, <2>15, <2>16, <3>1
    <3>2. CASE ~accept
      BY <1>3, <2>1, <2>15, <2>16, <3>2
    <3> QED
      BY <3>1, <3>2
  <2> QED
    BY <1>3, <2>1, <2>17, <2>18 DEF Promise!Vote
<1> QED
  BY <1>4, <1>5

\* Players come, get a player, and go, whatever else the server does.
LEMMA PlayersMapped ==
  ASSUME IInv, NEW u \in Users
  PROVE  /\ \A m \in Machines : Login(u, m) => Promise!Arrive(u)
         /\ \A r \in {"spectator", "team"} :
              ChangeRole(u, r) => Promise!Play(u) \/ UNCHANGED Promise!promised
         /\ Logout(u) => Promise!Leave(u)
<1>1. ASSUME NEW m \in Machines, Login(u, m)
      PROVE  Promise!Arrive(u)
  <2>1. /\ machine[u] = None /\ machine' = [machine EXCEPT ![u] = m]
        /\ UNCHANGED <<role, items, outcome, accused>>
    BY <1>1 DEF Login, history
  <2>2. UNCHANGED <<Players, outcome, accused, For, Against>>
    BY <2>1 DEF Players, For, Against
  <2> QED
    BY <2>1, <2>2 DEF Promise!Arrive
<1>2. ASSUME NEW r \in {"spectator", "team"}, ChangeRole(u, r)
      PROVE  Promise!Play(u) \/ UNCHANGED Promise!promised
  <2>1. /\ machine[u] # None /\ role' = [role EXCEPT ![u] = r]
        /\ UNCHANGED <<machine, items, outcome, accused>>
    BY <1>2 DEF ChangeRole, Connected, history
  <2>2. UNCHANGED <<machine, outcome, accused, For, Against>>
    BY <2>1 DEF For, Against
  <2>3. Players' = Players \cup {u}
    BY <2>1, StateTypes DEF Players
  <2> QED
    BY <2>1, <2>2, <2>3 DEF Promise!Play, Promise!promised
<1>3. ASSUME Logout(u)
      PROVE  Promise!Leave(u)
  <2>1. /\ machine[u] # None
        /\ items' = RemoveFromGame(items, {u}) /\ Disconnect({u}, ballots)
        /\ UNCHANGED <<outcome, accused>>
    BY <1>3 DEF Logout, Connected, history
  <2>2. /\ ForOf(items) = {b \in For : b[1] \notin {}}
        /\ AgainstOf(items) = {b \in Against : b[1] \notin {}}
    BY StateTypes
  <2>3. Promise!Depart({u}, {}, For, Against)
    BY <2>1, <2>2, StateTypes, Departs
  <2> QED
    BY <2>1, <2>3 DEF Promise!Leave
<1> QED
  BY <1>1, <1>2, <1>3

LEMMA CancelMapped ==
  ASSUME IInv, Cancel \/ SuspendVotes
  PROVE  Promise!Cancel
<1>1. /\ items' = <<>>
      /\ outcome' = [id \in Ids |-> IF \E i \in DOMAIN items : items[i].id = id
                                    THEN "closed" ELSE outcome[id]]
      /\ UNCHANGED <<machine, role, accused>>
  BY DEF Cancel, SuspendVotes, CancelAllVotes
<1>2. For' = {} /\ Against' = {}
  BY <1>1 DEF For, Against
<1>3. \A id \in Ids : (\E i \in DOMAIN items : items[i].id = id) <=> outcome[id] = "open"
  BY StateTypes DEF IInv, Listed
<1> QED
  BY <1>1, <1>2, <1>3 DEF Promise!Cancel, Players

\* The clocks and the loops show only in what becomes of the polls.
LEMMA StutterMapped ==
  ASSUME IInv,
         \/ \E u \in Users, kind \in Kinds, target \in Users \cup {None} :
              RequestPoll(u, kind, target)
         \/ EvaluateAll
         \/ EndLoop
         \/ Tick
         \/ Resume
         \/ UNCHANGED vars
  PROVE  UNCHANGED Promise!promised
<1>1. UNCHANGED <<machine, role, outcome, accused>>
  BY DEF RequestPoll, EvaluateAll, EndLoop, Tick, Resume, vars, clients, history
<1>2. /\ DOMAIN items' = DOMAIN items
      /\ \A i \in DOMAIN items : /\ items'[i].id = items[i].id
                                 /\ items'[i].pro = items[i].pro
                                 /\ items'[i].con = items[i].con
  <2>1. CASE Tick
    <3>1. items \in Seq(Item) /\ DOMAIN items = 1 .. Len(items)
      BY StateTypes
    <3>2. items' = [i \in DOMAIN items |-> [items[i] EXCEPT !.age = @ + 1]]
      BY <2>1 DEF Tick
    <3>3. \A p \in Item : LET q == [p EXCEPT !.age = @ + 1]
                          IN  q.id = p.id /\ q.pro = p.pro /\ q.con = p.con
      BY DEF Item
    <3>4. \A i \in DOMAIN items : items[i] \in Item
      BY <3>1
    <3> QED
      BY <3>2, <3>3, <3>4
  <2>2. CASE UNCHANGED items
    BY <2>2
  <2> QED
    BY <2>1, <2>2 DEF RequestPoll, EvaluateAll, EndLoop, Resume, vars
<1>3. For' = For /\ Against' = Against
  BY <1>2 DEF For, Against
<1>4. Players' = Players
  BY <1>1 DEF Players
<1> QED
  BY <1>1, <1>3, <1>4 DEF Promise!promised

LEMMA InitPolls == Init => Promise!Init
<1> SUFFICES ASSUME Init PROVE Promise!Init
  OBVIOUS
<1>1. For = {} /\ Against = {} /\ Players = {}
  BY DEF Init, For, Against, Players
<1> QED
  BY <1>1 DEF Init, Promise!Init

LEMMA StepPolls ==
  ASSUME IInv, [Next]_vars
  PROVE  [Promise!Next]_(Promise!promised)
<1>1. ASSUME NEW u \in Users,
             \/ \E m \in Machines : Login(u, m)
             \/ \E r \in {"spectator", "team"} : ChangeRole(u, r)
             \/ Logout(u)
      PROVE  Promise!Next \/ UNCHANGED Promise!promised
  BY <1>1, PlayersMapped DEF Promise!Next
<1>2. ASSUME NEW u \in Users, NEW id \in Ids, NEW accept \in BOOLEAN,
             GetControlMessage(u, id, accept)
      PROVE  Promise!Next
  BY <1>2, VoteMapped DEF Promise!Next
<1>3. ASSUME EvaluateNext
      PROVE  Promise!Next
  <2>1. Evaluate(items, loop.left, ballots) /\ UNCHANGED accused
    BY <1>3 DEF EvaluateNext
  <2>2. loop.left \in 1 .. Len(items)
    <3>1. loop # Resting /\ loop.left > 0 /\ loop \in Loops /\ loop.left <= Len(items)
      BY <1>3 DEF EvaluateNext, IInv, TypeOK, TypeInvariant, Loops
    <3>2. loop.left \in Nat
      BY <3>1 DEF Loops
    <3>3. Len(items) \in Nat
      BY StateTypes
    <3> QED
      BY <3>1, <3>2, <3>3
  <2>3. Promise!Review(items[loop.left].id)
    BY <2>1, <2>2, StateTypes, Reviewed
  <2> QED
    BY <2>2, <2>3, ListedIsNumbered DEF Promise!Next
<1>4. ASSUME StartPoll
      PROVE  Promise!Next
  <2>1. lastID + 1 \in Ids
    <3>1. lastID \in 0 .. MaxPolls /\ lastID < MaxPolls /\ MaxPolls \in Nat
      BY <1>4 DEF StartPoll, IInv, TypeOK, TypeInvariant, RequestFits
    <3> QED
      BY <3>1 DEF Ids
  <2> QED
    BY <1>4, <2>1, StartMapped DEF Promise!Next
<1>5. ASSUME Cancel \/ SuspendVotes
      PROVE  Promise!Next
  BY <1>5, CancelMapped DEF Promise!Next
<1> QED
  BY <1>1, <1>2, <1>3, <1>4, <1>5, StutterMapped DEF Next

\* The server keeps the promise of Polls: no vote is counted twice or outlives its voter,
\* and nobody is sent away but by a poll with more votes for it than against.
THEOREM VotingImplementsPolls == Spec => ImplementsPolls
<1>1. IInv /\ [Next]_vars => [Promise!Next]_(Promise!promised)
  BY StepPolls
<1> QED
  BY <1>1, InitPolls, Invariance, PTL DEF Spec, ImplementsPolls, Promise!Spec

\* An accepted poll is carried out once: no poll is evaluated, cancelled or started again
\* after it was decided, in whatever loop and by whatever vote.
THEOREM PollsEndOnce == Spec => Promise!OverIsOver
<1>1. ASSUME IInv, [Next]_vars
      PROVE  [\A id \in Ids : outcome[id] \in {"closed", "accepted"} =>
                outcome'[id] = outcome[id]]_(Promise!promised)
  <2>1. outcome \in [Ids -> Outcomes]
    BY <1>1, StateTypes
  <2>2. ASSUME NEW k \in Ids, outcome[k] \in {"none", "open"},
               \E o : outcome' = [outcome EXCEPT ![k] = o]
        PROVE  \A id \in Ids : outcome[id] \in {"closed", "accepted"} =>
                 outcome'[id] = outcome[id]
    BY <2>1, <2>2
  <2>3. ASSUME NEW k \in Ids, NEW m, NEW pro, NEW con, Promise!Settle(k, m, pro, con)
        PROVE  \E o : outcome' = [outcome EXCEPT ![k] = o]
    BY <2>3, Zenon DEF Promise!Settle
  <2>4. ASSUME NEW k \in Ids, Promise!Start(k) \/ Promise!Vote(k) \/ Promise!Review(k)
        PROVE  \A id \in Ids : outcome[id] \in {"closed", "accepted"} =>
                 outcome'[id] = outcome[id]
    BY <2>2, <2>3, <2>4 DEF Promise!Start, Promise!Vote, Promise!Review
  <2>5. ASSUME Promise!Cancel
        PROVE  \A id \in Ids : outcome[id] \in {"closed", "accepted"} =>
                 outcome'[id] = outcome[id]
    BY <2>5 DEF Promise!Cancel
  <2>6. ASSUME NEW u \in Users, Promise!Arrive(u) \/ Promise!Play(u) \/ Promise!Leave(u)
        PROVE  outcome' = outcome
    BY <2>6 DEF Promise!Arrive, Promise!Play, Promise!Leave
  <2>7. [Promise!Next]_(Promise!promised)
    BY <1>1, StepPolls
  <2> QED
    BY <2>4, <2>5, <2>6, <2>7 DEF Promise!Next
<1> QED
  BY <1>1, Invariance, PTL DEF Spec, Promise!OverIsOver
=============================================================================
