------------------------------- MODULE Voting -------------------------------
(***************************************************************************)
(* Polls on a server (src/engine/eVoter.cpp): who may start one, how votes *)
(* are counted while players join, leave and are kicked, when a poll is    *)
(* decided, and what an accepted one does.                                 *)
(*                                                                         *)
(* A voter stands for a machine: all users that come from one address      *)
(* share it.  What a poll is about is "kick", the one kind whose outcome   *)
(* changes who may vote, or "other".  The loops over all polls that run    *)
(* before a new poll is accepted, and after each round, are explicit: no   *)
(* other action interrupts them, but an accepted poll in the middle of one *)
(* kicks users, and the polls evaluated after it count fewer votes.        *)
(*                                                                         *)
(* The rules that go by clocks and access levels (spam, maturity, silenced *)
(* players, recent polls against the same player) may refuse any poll.     *)
(***************************************************************************)
EXTENDS Integers, Sequences, FiniteSets

CONSTANTS
  Users,             \* numbers of the connection slots
  Machines,          \* addresses users come from, each with one voter
  None,              \* no machine, user or voter
  MinVoters,         \* MIN_VOTERS
  MaxVotes,          \* MAX_VOTES
  MaxVotesPerVoter,  \* MAX_VOTES_PER_VOTER
  Bias,              \* virtual votes against a poll: VOTING_BIAS and the bias of its kind
  StartDecay,        \* VOTING_START_DECAY, in units of VOTING_DECAY
  Timeout,           \* VOTING_TIMEOUT, in the same units
  TimeoutPerVoter,   \* VOTING_TIMEOUT_PER_VOTER, in the same units
  MaxPolls,          \* bound on the polls ever started
  MaxLogins,         \* bound on the logins
  MaxAge             \* bound on the age of a poll

Kinds == {"kick", "other"}
Ids == 1 .. MaxPolls

ASSUME VotingAssumption ==
  /\ Users \subseteq Nat
  /\ IsFiniteSet(Users)
  /\ IsFiniteSet(Machines)
  /\ None \notin Users \cup Machines
  /\ {MinVoters, MaxVotes, MaxVotesPerVoter, StartDecay, Timeout, TimeoutPerVoter,
      MaxPolls, MaxLogins, MaxAge} \subseteq Nat
  /\ Bias \in [Kinds -> Nat]

VARIABLES
  machine,    \* machine[u]: where user u comes from, None if the slot is free
  role,       \* role[u]: the player of u: "none", "spectator" or in a "team"
  items,      \* eVoteItem::items_, the open polls
  loop,       \* the loop over the polls that is running, or Resting
  ballots,    \* <<u, id>>: u was sent the open poll id, and no vote of u on it has arrived
  suspended,  \* se_votesSuspendTimeout lies ahead
  lastID,     \* se_votingItemID
  logins,     \* number of logins so far, bounded by MaxLogins
  outcome,    \* history: what became of each poll
  tally,      \* history: the count a poll was accepted on
  accused     \* history: the machine of the player a poll wanted kicked

vars == <<machine, role, items, loop, ballots, suspended, lastID, logins,
          outcome, tally, accused>>
clients == <<machine, role, ballots, logins>>
history == <<outcome, tally, accused>>

Resting == [running |-> FALSE]
NoRequest == [kind |-> "none"]

(***************************************************************************)
(* Voters.                                                                 *)
(***************************************************************************)
Connected == {u \in Users : machine[u] # None}

Players == {u \in Users : role[u] # "none"}

\* The voter of a user with a player in a team; spectators have none.
GetVoter(u) == IF role[u] = "team" THEN machine[u] ELSE None

NumberVoters == Cardinality({GetVoter(u) : u \in Users} \ {None})

\* One user of each voter, the one with the highest slot, is sent the poll of u.
Recipients(u) ==
  {w \in Users \ {u} : /\ GetVoter(w) # None
                       /\ \A x \in Users \ {u} : GetVoter(x) = GetVoter(w) => x <= w}

\* The machines whose voters leave the game when the users of U do: those of
\* users with a player.
Voters(U) == {machine[u] : u \in U \cap Players}

\* RemoveVoterCompletely for the voters that are gone; the observer pointer to
\* the accused player is cleared when it is deleted.
Purged(p, gone, U) ==
  [p EXCEPT !.pro = @ \ gone,
            !.con = @ \ gone,
            !.suggestor = IF @ \in gone THEN None ELSE @,
            !.target = IF @ \in U THEN None ELSE @]

\* Mutant: RemoveVoter instead of RemoveVoterCompletely.
RemoveFromListsOnly(its, U) ==
  [i \in DOMAIN its |-> [Purged(its[i], Voters(U), U) EXCEPT !.suggestor = its[i].suggestor]]

\* Mutant: the pointer to a player outlives it, and finds the next one in its slot.
RemoveFromGameKeepingTarget(its, U) ==
  [i \in DOMAIN its |-> [Purged(its[i], Voters(U), U) EXCEPT !.target = its[i].target]]

\* The polls its after eVoter::RemoveFromGame for all users of U with a player.
RemoveFromGame(its, U) == [i \in DOMAIN its |-> Purged(its[i], Voters(U), U)]

\* The connections of U end, with what they were asked.
Disconnect(U, sent) ==
  /\ machine' = [u \in Users |-> IF u \in U THEN None ELSE machine[u]]
  /\ role' = [u \in Users |-> IF u \in U THEN "none" ELSE role[u]]
  /\ ballots' = {b \in sent : b[1] \notin U}

(***************************************************************************)
(* Counting.                                                               *)
(***************************************************************************)
Pro(p) == Cardinality(p.pro)
Con(p) == Cardinality(p.con) + Bias[p.kind]
Ignored(p) == IF p.age > StartDecay THEN p.age - StartDecay ELSE 0
Total(p) == (p.total + Bias[p.kind]) - Ignored(p)

TooFew(p) == p.total <= MinVoters
Rejected(p) == Con(p) >= Pro(p) /\ 2 * Con(p) >= Total(p)
\* Mutant: half of all is enough, in a poll nobody is against.
AcceptedByHalf(p) == Pro(p) >= Con(p) /\ 2 * Pro(p) >= Total(p)

Accepted(p) == Pro(p) >= Con(p) /\ 2 * Pro(p) > Total(p)
TimedOut(p) == p.age > Timeout + TimeoutPerVoter * NumberVoters

\* The first test of Evaluate that applies.
Fate(p) == IF TooFew(p) THEN "toofew"
           ELSE IF Rejected(p) THEN "rejected"
           ELSE IF Accepted(p) THEN "accepted"
           ELSE IF TimedOut(p) THEN "timeout"
           ELSE "open"

\* The users an accepted poll kicks: the player, or if he left, whoever is on
\* the machine he voted from.
Kicked(p) ==
  IF p.kind # "kick" THEN {}
  ELSE IF p.target # None THEN {p.target}
  ELSE {u \in Connected : machine[u] = p.victim}

\* Whom the evaluation of a poll sends away: if those it kicks were kicked too often of
\* late, their machine is banned, and all users of it go.
Expelled(p, banned) ==
  IF Fate(p) # "accepted" THEN {}
  ELSE IF banned THEN {u \in Connected : machine[u] \in {machine[w] : w \in Kicked(p)}}
  ELSE Kicked(p)

\* tList::Remove: the last element takes the place of the removed one.
Remove(its, i) ==
  [j \in 1 .. Len(its) - 1 |-> IF j = i THEN its[Len(its)] ELSE its[j]]

\* eVoteItem::Evaluate of poll i of its, when the ballots in sent are out.  A
\* vote on a poll that is closed finds nothing and changes nothing.
Evaluate(its, i, sent) ==
  LET p    == its[i]
      open == Fate(p) = "open"
  IN  /\ \E banned \in BOOLEAN :
           /\ items' = RemoveFromGame(IF open THEN its ELSE Remove(its, i), Expelled(p, banned))
           /\ Disconnect(Expelled(p, banned), IF open THEN sent ELSE {b \in sent : b[2] # p.id})
      /\ outcome' = [outcome EXCEPT ![p.id] =
                       IF Fate(p) \in {"open", "accepted"} THEN Fate(p) ELSE "closed"]
      /\ tally' = IF Fate(p) # "accepted" THEN tally
                  ELSE [tally EXCEPT ![p.id] =
                          [pro |-> Pro(p), con |-> Con(p), ignored |-> Ignored(p),
                           total |-> p.total + Bias[p.kind]]]

(***************************************************************************)
(* Users.                                                                  *)
(***************************************************************************)
Init ==
  /\ machine = [u \in Users |-> None]
  /\ role = [u \in Users |-> "none"]
  /\ items = <<>>
  /\ loop = Resting
  /\ ballots = {}
  /\ suspended = FALSE
  /\ lastID = 0
  /\ logins = 0
  /\ outcome = [id \in Ids |-> "none"]
  /\ tally = [id \in Ids |-> [pro |-> 0, con |-> 0, total |-> 0, ignored |-> 0]]
  /\ accused = [id \in Ids |-> None]

\* A new user is sent the pending polls (se_Cleanup); their totals stay.
Login(u, m) ==
  /\ loop = Resting
  /\ machine[u] = None
  /\ logins < MaxLogins
  /\ logins' = logins + 1
  /\ machine' = [machine EXCEPT ![u] = m]
  /\ ballots' = ballots \cup {<<u, items[i].id>> : i \in DOMAIN items}
  /\ UNCHANGED <<role, items, loop, suspended, lastID, history>>

\* The player of u is created, or joins or leaves a team.
ChangeRole(u, r) ==
  /\ loop = Resting
  /\ u \in Connected
  /\ r # role[u]
  /\ role' = [role EXCEPT ![u] = r]
  /\ UNCHANGED <<machine, items, loop, ballots, suspended, lastID, logins, history>>

\* The player is deleted with the connection, and takes the voter of the
\* machine out of all polls, for other users of it too.
Logout(u) ==
  /\ loop = Resting
  /\ u \in Connected
  /\ items' = RemoveFromGame(items, {u})
  /\ Disconnect({u}, ballots)
  /\ UNCHANGED <<loop, suspended, lastID, logins, history>>

(***************************************************************************)
(* Starting a poll.                                                        *)
(***************************************************************************)
\* A kick from the menu or a "/vote" in the chat; the polls are evaluated first.
RequestPoll(u, kind, target) ==
  /\ loop = Resting
  /\ lastID < MaxPolls
  /\ u \in Connected
  /\ IF kind = "kick" THEN target \in Players ELSE target = None
  /\ loop' = [running |-> TRUE, left |-> Len(items),
              request |-> [kind |-> kind, user |-> u, voter |-> GetVoter(u), target |-> target]]
  /\ UNCHANGED <<clients, items, suspended, lastID, history>>

\* After a round, from sg_VoteMenuIdle.
EvaluateAll ==
  /\ loop = Resting
  /\ items # <<>>
  /\ loop' = [running |-> TRUE, left |-> Len(items), request |-> NoRequest]
  /\ UNCHANGED <<clients, items, suspended, lastID, history>>

\* Mutant: looks again at the place of a removed poll, where the last one went.
EvaluateNextAgain ==
  /\ loop # Resting
  /\ loop.left > 0
  /\ Evaluate(items, loop.left, ballots)
  /\ loop' = [loop EXCEPT !.left = IF Len(items') < Len(items) THEN @ ELSE @ - 1]
  /\ UNCHANGED <<suspended, lastID, logins, accused>>

EvaluateNext ==
  /\ loop # Resting
  /\ loop.left > 0
  /\ Evaluate(items, loop.left, ballots)
  /\ loop' = [loop EXCEPT !.left = @ - 1]
  /\ UNCHANGED <<suspended, lastID, logins, accused>>

\* eVoteItem::AcceptNewVote; the voter was found before the loop.
AcceptNewVote(r) ==
  /\ r.voter # None
  /\ NumberVoters >= MinVoters
  /\ Cardinality({i \in DOMAIN items : items[i].suggestor = r.voter}) < MaxVotesPerVoter
  /\ Len(items) < MaxVotes

\* The poll as CheckValid and ReBroadcast fill it in.
NewItem(r) ==
  LET target == IF r.target \in Players THEN r.target ELSE None
  IN  [id |-> lastID + 1, kind |-> r.kind, target |-> target,
       victim |-> IF target = None THEN None ELSE GetVoter(target),
       suggestor |-> GetVoter(r.user), pro |-> {GetVoter(r.user)}, con |-> {},
       total |-> 1 + Cardinality(Recipients(r.user)), age |-> 0]

StartPoll ==
  /\ loop # Resting
  /\ loop.left = 0
  /\ loop.request # NoRequest
  /\ AcceptNewVote(loop.request)
  /\ ~suspended
  /\ GetVoter(loop.request.user) # None
  /\ LET p == NewItem(loop.request)
     IN  /\ accused' = [accused EXCEPT ![p.id] = IF p.target = None THEN None ELSE machine[p.target]]
         /\ Evaluate(Append(items, p), Len(items) + 1,
                     ballots \cup {<<w, p.id>> : w \in Recipients(loop.request.user)})
  /\ lastID' = lastID + 1
  /\ loop' = Resting
  /\ UNCHANGED <<suspended, logins>>

\* No poll was asked for, or it is refused.
EndLoop ==
  /\ loop # Resting
  /\ loop.left = 0
  /\ loop' = Resting
  /\ UNCHANGED <<clients, items, suspended, lastID, history>>

(***************************************************************************)
(* Voting.                                                                 *)
(***************************************************************************)
\* Mutant: the vote is added to what the voter said before.
VotedAgain(p, v, accept) ==
  [p EXCEPT !.pro = IF accept THEN @ \cup {v} ELSE @,
            !.con = IF accept THEN @ ELSE @ \cup {v}]

\* The vote of v replaces the one it cast before.
Voted(p, v, accept) ==
  [p EXCEPT !.pro = IF accept THEN @ \cup {v} ELSE @ \ {v},
            !.con = IF accept THEN @ \ {v} ELSE @ \cup {v}]

\* eVoteItem::GetControlMessage: a vote arrives, whose client has forgotten the
\* poll when it voted.  A spectator's vote is not counted.
GetControlMessage(u, id, accept) ==
  /\ loop = Resting
  /\ <<u, id>> \in ballots
  /\ LET v == GetVoter(u)
         rest == ballots \ {<<u, id>>}
     IN  \E i \in DOMAIN items :
           /\ items[i].id = id
           /\ Evaluate(IF v = None THEN items
                       ELSE [items EXCEPT ![i] = Voted(@, v, accept)],
                       i, rest)
  /\ UNCHANGED <<loop, suspended, lastID, logins, accused>>

(***************************************************************************)
(* Time and the administrator.                                             *)
(***************************************************************************)
Tick ==
  /\ loop = Resting
  /\ items # <<>>
  /\ \A i \in DOMAIN items : items[i].age < MaxAge
  /\ items' = [i \in DOMAIN items |-> [items[i] EXCEPT !.age = @ + 1]]
  /\ UNCHANGED <<clients, loop, suspended, lastID, history>>

\* se_CancelAllVotes
CancelAllVotes ==
  /\ items' = <<>>
  /\ outcome' = [id \in Ids |-> IF \E i \in DOMAIN items : items[i].id = id
                                THEN "closed" ELSE outcome[id]]
  /\ ballots' = {}
  /\ UNCHANGED <<machine, role, logins, loop, lastID, tally, accused>>

\* VOTES_CANCEL
Cancel ==
  /\ loop = Resting
  /\ items # <<>>
  /\ CancelAllVotes
  /\ UNCHANGED suspended

\* VOTES_SUSPEND and VOTES_UNSUSPEND: both cancel the open polls.
SuspendVotes ==
  /\ loop = Resting
  /\ CancelAllVotes
  /\ suspended' = ~suspended

\* The suspension runs out.
Resume ==
  /\ loop = Resting
  /\ suspended
  /\ suspended' = FALSE
  /\ UNCHANGED <<clients, items, loop, lastID, history>>

Next ==
  \/ \E u \in Users :
       \/ \E m \in Machines : Login(u, m)
       \/ \E r \in {"spectator", "team"} : ChangeRole(u, r)
       \/ Logout(u)
       \/ \E kind \in Kinds, target \in Users \cup {None} : RequestPoll(u, kind, target)
       \/ \E id \in Ids, accept \in BOOLEAN : GetControlMessage(u, id, accept)
  \/ EvaluateAll
  \/ EvaluateNext
  \/ StartPoll
  \/ EndLoop
  \/ Tick
  \/ Cancel
  \/ SuspendVotes
  \/ Resume

Spec == Init /\ [][Next]_vars

-----------------------------------------------------------------------------
(***************************************************************************)
(* Properties.                                                             *)
(***************************************************************************)
Item == [id : Ids, kind : Kinds, target : Users \cup {None}, victim : Machines \cup {None},
         suggestor : Machines \cup {None}, pro : SUBSET Machines, con : SUBSET Machines,
         total : Nat, age : Nat]

Request == [kind : Kinds, user : Users, voter : Machines \cup {None},
            target : Users \cup {None}]

Outcomes == {"none", "open", "accepted", "closed"}

TypeInvariant ==
  /\ machine \in [Users -> Machines \cup {None}]
  /\ role \in [Users -> {"none", "spectator", "team"}]
  /\ items \in Seq(Item)
  /\ loop \in {Resting} \cup [running : {TRUE}, left : Nat, request : Request \cup {NoRequest}]
  /\ ballots \in SUBSET (Users \X Ids)
  /\ suspended \in BOOLEAN
  /\ lastID \in 0 .. MaxPolls
  /\ logins \in Nat
  /\ outcome \in [Ids -> Outcomes]
  /\ tally \in [Ids -> [pro : Nat, con : Nat, total : Nat, ignored : Nat]]
  /\ accused \in [Ids -> Machines \cup {None}]

\* Types of all variables; only connected users have players, there are never
\* more polls than MAX_VOTES, and the loop that removes polls while it walks
\* over them never looks past the end of the list (eVoter.cpp:356-360).
TypeOK ==
  /\ TypeInvariant
  /\ Players \subseteq Connected
  /\ Len(items) <= MaxVotes
  /\ loop # Resting => loop.left <= Len(items)

\* No voter is counted on both sides of a poll, however often its users vote,
\* and the open polls, and no others, are in the list, each of them once
\* (eVoter.cpp:483-489).
OneVoteEach ==
  /\ \A i \in DOMAIN items : items[i].pro \cap items[i].con = {}
  /\ \A i, j \in DOMAIN items : items[i].id = items[j].id => i = j
  /\ \A id \in Ids : outcome[id] = "open" <=> \E i \in DOMAIN items : items[i].id = id

\* Whoever has a vote in a poll, or suggested it, has a player on the server:
\* votes of machines whose players left or were kicked, by this poll or by one
\* evaluated a moment ago, do not decide anything (eVoter.cpp:2013-2024).
VotersArePresent ==
  \A i \in DOMAIN items :
    (items[i].pro \cup items[i].con \cup {items[i].suggestor}) \ {None}
      \subseteq {machine[u] : u \in Players}

\* A poll is only carried out if more voters are for it than against it and,
\* counting those that did not vote, less one for every VOTING_DECAY that
\* passed, it has more than half of all: the code takes the ignored ones off
\* the total, where they could outnumber those that did not vote
\* (eVoter.cpp:558-581).
Majority(t) ==
  LET silent == t.total - t.pro - t.con - t.ignored
  IN  2 * t.pro > t.pro + t.con + (IF silent > 0 THEN silent ELSE 0)

AcceptedByMajority == \A id \in Ids : outcome[id] = "accepted" => Majority(tally[id])

\* When a poll is accepted, nobody loses the connection but users of the
\* machine the accused player came from when the poll was started, though the
\* player may have left and another one may have its slot (eVoter.cpp:1374-1404).
KickHitsTarget ==
  [][\A id \in Ids :
       outcome[id] # "accepted" /\ outcome'[id] = "accepted" =>
         \A u \in Connected : machine'[u] = None => machine[u] = accused'[id]]_vars

\* The votes of machines that are for an open poll, and those against it.
For == UNION {{items[i].id} \X items[i].pro : i \in DOMAIN items}
Against == UNION {{items[i].id} \X items[i].con : i \in DOMAIN items}

Promise == INSTANCE Polls
             WITH place <- machine, playing <- Players, state <- outcome,
                  for <- For, against <- Against

\* A vote is its machine's own and lasts as long as its players do, a poll that is over
\* stays over, and only accepted polls send users away, of the accused machine: all that
\* the list of polls, the loops over it and the evaluations in a row do is a step of Polls,
\* or none.
ImplementsPolls == Promise!Spec
=============================================================================
