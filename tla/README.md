# Ilonium client: TLA+ models of the network layer, logins, rounds and polls

The repository is a fork of Armagetron Advanced: a game whose server and clients share a
world of *network objects* over UDP. This directory holds TLA+ specifications of the part of
it that is hardest to test: the network layer, the slots of a server and who gets them, the
barrier that takes a server and its clients through a round, and the polls of a server, with TLC
runs on small instances and proofs checked by TLAPS.

Run a model with `tlc -config <run>.cfg <module>.tla`, the proofs with
`tlapm <module>_proofs.tla`. Which configuration belongs to which module is in the table of
runs below and in `PROJECT.json`, which also maps every definition to its lines.

## The system

Server and client are the same program (`src/src/network`), one thread, one loop per frame:
`sn_Receive` reads every packet, `nNetObject::SyncAll` sends what changed, `sn_SendPlanned`
sends what is queued, and a timer resends what was not acknowledged. Everything hard comes
from the network, from the peers' lives, and from callbacks that change what a caller is
walking over.

| Component | State | Operations | What is hard | What makes it correct |
|---|---|---|---|---|
| Message layer, `nNetwork.cpp` | id counter, send queue, `sn_pendingAcks`, `ackPending`, `timeouts`, `highest_ack`, ring `lastacks`, collected acks | construct, plan, send, resend, ack, receive, disconnect | loss, copies, reordering, ids that wrap, giving up while an ack is underway | a message is handled at most once; an ack means it was handled; a repeated message is recognised and a new one is not mistaken for one |
| Network objects, `nNetObject.cpp` | `sn_netObjects`, owners, `knowsAbout` per user, list of requested syncs, unsent destroy messages, `destroyersCount`, orders to destroy what is not there yet | create, request a sync, `SyncAll`, destroy, handlers of the three messages, acks, login, logout | creation, sync and destruction overtake each other; ids are reused; a user leaves and another takes the slot | the client ends up with the server's objects in their last state and no others |
| Ids of objects, `nNetObject.cpp` | owners of ids, queue of freed ids, each client's ring of reserved ids | take, reserve for a client, request, deliver, free, recycle | a ring that is filled and emptied concurrently, replies in flight at a logout | two objects never share an id; a client that waits for an id gets one |
| Login and slots, `nNetwork.cpp` | sockets and addresses of the slots, counts of equal addresses, bans | login, accept, deny, logout, disconnect, timeout, ban | repeated and late logins, a full server, counts that are stale | one slot per client, given to the client that takes itself for its user; nobody banned |
| Bandwidth, `nNetwork.cpp`, `nPriorizing.cpp` | planned and used bytes, priorities | plan, send, execute, timestep | starvation | queued messages are sent in the end |
| Server list, `nServerInfo.cpp` | known servers, polling queue | queries, answers, timeouts, retries | late and doubled answers | every server is polled or given up |
| Authentication, `nAuthentication.cpp`, `nKrawall*.cpp` | open dialogues | request, answer, check by an authority in the background, login, logout | the user is gone when the authority answers | only who knows the password is logged in |
| Settings, `nConfig.cpp` | watched settings, versions in use | change, login, logout, revert | old clients come and go | a client never runs with a setting it does not understand |
| Rounds, `gGame.cpp` | `state` and `stateNext` on every machine, what the clients reported, the map | settings, grid, objects, play, delete; wait for the clients | waits that time out, reports and answers out of order, clients that join in any state | nobody gets objects for a grid it has not made; all reach the next round |
| Polls, `eVoter.cpp` | open polls with their voters | suggest, vote, evaluate, kick, cancel, suspend | voters leave and are kicked in the middle, slots are reused | a majority of those who are there decides, a kick hits whom it was about |
| Teams, `eTeam.cpp` | members and invitations | join, leave, balance | members leave in the middle | team sizes are right |
| Client services: `cIRCChat.cpp`, `cTelemetry.cpp`, `RCLAuth.cpp`, ... | messages, flags | polling threads | a flag shared without a lock | one poll at a time |
| World, rendering, menus, configuration, recording | | | numerics and I/O | |

The components call each other downwards: objects use messages, the game uses objects. Upwards
there are callbacks: handlers of messages, `nCallbackLoginLogout` (objects, settings, players),
`nCallbackReceivedComplete` (`sn_DoDestroy` after every packet), and `AckExtraAction` when an
ack arrives.

`PROJECT.json` lists the hazards with their lines; the properties below are aimed at them.


## Modules

| Module | Models | State and actions | Checked by |
|---|---|---|---|
| `ReliableChannel` | what the message layer promises to the code above it | messages sent, handled, confirmed | as the property `ImplementsChannel` |
| `ReliableLink` | the acknowledged half of `nNetwork.cpp` between one sender and one receiver | see below | `link_safety`, `link_liveness`, `link_first_ids` |
| `MCReliableLink` | `ReliableLink` within the network bounds the proofs assume (`WithinBounds`), which TLC evaluates on each run, and a constraint for `link_liveness` | | |
| `ReliableLink_proofs` | proofs about `ReliableLink` | | TLAPS |
| `MessageIds` | `nMessageIDExpander` on top of `ReliableLink`: growing numbers made of 16 bit ids | see below | `link_safety` |
| `MCMessageIds` | `MessageIds` within the bounds its proofs assume, with the quarters an earlier connection left | | |
| `MessageIds_proofs` | proofs about `MessageIds`, which extend the former | | TLAPS |
| `ObjectMirror` | what `nNetObject.cpp` promises about the copies of the server's objects on a client | objects, copies, what is offered and told to the client | as the property `ImplementsMirror` |
| `NetObjectSync` | the server's network objects and their copies on one client (`nNetObject.cpp`), on top of the channel's promise | see below | `sync_*` |
| `NetObjectSync_proofs` | proofs about the server's side of `NetObjectSync` | | TLAPS |
| `NetObjectClient_proofs` | proofs about the copies of `NetObjectSync`, and that it implements `ObjectMirror`, which extend the former | | TLAPS |
| `IdLeases` | what `nNetObject.cpp` promises about the ids of objects | ids of the server, leases of the clients, their objects | as the property `ImplementsLeases` |
| `IdPool` | how ids of objects are shared among the server and its clients, and the clients' own objects | see below | `id_pool` |
| `IdPool_proofs` | proofs about `IdPool`, and that it implements `IdLeases` | | TLAPS |
| `Admission` | what `nNetwork.cpp` promises to those who want to play on a server | clients, guests and their company, bans | as the property `ImplementsAdmission` |
| `LoginSlots` | the slots of a server, logins, kicks and bans (`nNetwork.cpp`) | see below | `login_slots` |
| `MCLoginSlots` | `LoginSlots` with the machines of the addresses, and symmetry, for TLC | | |
| `LoginSlots_proofs` | proofs about `LoginSlots`, and that it implements `Admission` | | TLAPS |
| `Rounds` | what `gGame.cpp` promises to the clients of a patient server | the stages told, how far ahead of that each client and the server are | as the property `ImplementsRounds` |
| `GameState` | the states of a round on the server and its clients (`gGame.cpp`), with `sn_Sync` and one setting, on top of what the modules above promise | see below | `game_rounds`, `game_liveness` |
| `MCGameState` | `GameState` with symmetry for TLC | | |
| `GameState_proofs` | proofs about `GameState`: the server's way through a round, what clients know of it, `SyncState` as a barrier, the grids, and that it implements `Rounds` | | TLAPS |
| `Polls` | what `eVoter.cpp` promises to those who vote | users with their machines, what became of each poll, the votes | as the property `ImplementsPolls` |
| `Voting` | the polls of a server (`eVoter.cpp`) | see below | `voting` |
| `MCVoting` | `Voting` with symmetry and a constraint for TLC, and a bias of 0 | | |
| `Voting_proofs` | proofs about `Voting`, and that it implements `Polls` | | TLAPS |

### ReliableLink and the code

One step of the model is one message: the construction of an `nMessage` (`Send`, `SendSync`,
`SkipMessage` take the next id), a turn of the loop that empties the send queue
(`ExecutePlanned`, `QueueOverflow`), one `nWaitForAck::Resend`, one arrival at `rec_peer`
(`Receive`), one ack message (`ReceiveAck`). `data` and `acks` are the network: a message in
them may arrive any number of times and in any order until it is lost. The receiver's check is
translated as it is: `highest_ack`, the window of 10000 ids (`MoreRecent`) and the ring
`lastacks` (`IsNew`). Acks carry ids only, so `Acknowledged` finds messages by id, as
`nWaitForAck::Ackt` does.

`sn_DisconnectUserNoWarn` settles all acks of the user (`AckAllPeer`) and sets `ackPending` to 0. Only
then it runs the logout callbacks, one of which sends what is left of the destroy message: up to
`MaxLeft` new `nWaitForAckDestroy`s, which `Clear` leaves in `sn_pendingAcks` while it sets the count
to 0 once more. `CloseSender` does all of it, and `left` counts them. They die (`DropLeft`) when
`Resend` finds no user on the slot or when the next user acknowledges the message, and take 1 off
the count then; a connection may start in either state (`Init`). `AckPendingCounts` says that this
is all that ever goes wrong with the count. It has consequences in the code: with a count that is 1 too
low, one message more than `sn_maxNoAck` may be unacknowledged, and `sn_Sync` may return with one of
its messages unacknowledged. What the left message does to the objects of the next user is in
`NetObjectSync` (`sync_slot_reuse`).

A message has a number `n` besides its 16 bit id; the code has only the id, and properties use
`n` to say which message it really was. `sent`, `accepted`, `acked` and `highest_n` are history.

Left out: messages with the id 0, which are neither acknowledged nor checked (`MessageIds` has what they do
to the ids of the others); how messages are collected into
packets; bandwidth and priorities, which only decide when a planned message is sent, and the
model lets that be any time; the contents of messages.

The comparison of 16 bit ids can only be right if the two ends do not fall too far behind each
other. The code relies on it silently; `InTimeAssumption` and `RingAssumption` say how much,
and the environment (`EndsInTime`, `TrafficInTime`, `RingInTime`) does not go further:

* a message is out of the network before `Span` newer ones exist, with `2 * Span - 1 <=
  AckBack`: with the code's ring of 1000 ids, a delay of 500 messages;
* the receiver hears of the sender at least every `Gap` ids, `Gap + 17 <= 10000`;
* a server's first message has an id below the window (`FirstIdBound`). On a client this needs
  no assumption, as `login_accept` opens the window whatever its id is;
* no entry of the ring is a whole trip round the ids old.

### MessageIds and the code

`nMessage`'s constructor for what arrives gives the 16 bit id to the expander of its sender
(`sn_ExpandMessageID`), before `rec_peer` looks at the message. The expander has a number for each
quarter of the id space (`quarters`), makes the quarter after that of the id come next (`Advance`)
and puts the place of the id in its quarter behind the number of the quarter (`Expanded`).
`nNetObject::SyncIsNew` and the settings compare the results to tell a newer message from an older one.

`MessageIds` extends `ReliableLink`: `ReceiveExpanded` is its `Receive` with the expansion, and
there are two kinds of messages more that move the quarters and do nothing else to the link:
those that a client drops before its login (`DropBeforeLogin`) and those that ask for no ack and have the
id 0 (`ReceiveUnacked`), at any time. Every other step is one of the link's. The expanders are static and
never reset, so the quarters start as an earlier connection left them (`LeftQuarters`). `bigs` is
history: what the ids of the accepted messages were expanded to.

Numbers are right as long as the receiver sees each quarter go by. `QuartersAssumption` says
how far that has to hold: the ids from `highest_ack` to the next message span no more than a quarter
(`Gap`, which the window bounds already, and a quarter has 16384 ids), a server's first message from
a client is in the first quarter (`FirstIdBound`, within the window, too), and one condition on the
start of a client's connection: if the server's `login_accept` has its id in the second quarter, the first two
quarters follow each other already, or the next message with the id 0 would move the second one after
the fact. A program just started meets it; one that has been connected elsewhere may not.

Left out: messages of anybody but the link's sender, and the width of `unsigned long`.

### NetObjectSync and the code

The server is `nNetObject.cpp` for one slot: creating and destroying objects (`CreateObject`,
`RequestSync`, `DestroyObject`), `SyncAll` split into one turn of its loop per object
(`SyncObject`), the destroy message (`SyncDestroyer`) and the cleaning of the list at its end
(`CleanSyncList`), acks, and `login_callback` at both its ends (`Login`, `Logout`). The client is
`Handle`: one packet with one message, its handler, and `sn_DoDestroy`, which
`nCallbackReceivedComplete` runs after the packet. The message layer appears as what
`ReliableChannel` promises: messages in `waiting` are resent until handled and acknowledged,
those in `loose` may be lost. The next message number stands for the expanded id, which
`SyncIsNew` compares: that both are in the same order is `ExpandedInOrder` of `MessageIds`.

Objects are numbered; ids are what is on the wire, and whatever the code looks up by id is
looked up by id (`SameId`, `WithId`), so that the confusion of an object with the previous owner
of its id is in the model. An object a client has destroyed stays in its `sn_netObjects` until
`ClearAllDeleted` (`lingering`).

Abstractions: all objects are the server's and broadcast; an object's contents is a number that
grows; creation on the client does not wait for other objects that the message refers to;
other references that keep a destroyed object alive are left out; the limit of the destroy
message's length is not looked at during a logout; the minute after which a waiting order is
dropped is left out, as the message layer gives up a connection before that.

Three assumptions are constants, so that runs can lift them one at a time:

* `QuietReuse`: an id is used again when no old message about it is underway. The code keeps
  1000 freed ids back for that. Without it the acknowledgement of an old object's sync makes the
  new one known, `nWaitForAckSync` goes by the id.
* `QuietSlot`: a slot is used again when nothing waits for an ack on it. `sync_slot_reuse` lifts
  it and shows what then goes wrong.
* `QuietClient`: a client has forgotten what it destroyed when the id comes again.
  `sync_lingering` lifts it.

`ObjectMirror` is what all of this is for. It has no ids, acks, numbers or queues: an object lives
once, the client is offered a copy of a living object it has none of, a copy moves only to later
states that its object has had, and it goes only when its object is dead, for good. The refinement
(`Mirror`) forgets everything else: an offer is a creation message that may still reach the client,
whoever resends it (`Contents("create")`), news is a sync that may, and the orders to destroy have no
image, because what they do (`Withdraw`) may happen to any copy of a dead object at any time.

### IdPool and the code

The server's tables (`owner`, `objects`, `kept`, `deleted`, `sn_freedIDs`, `sn_Destroyed`) and, per
client, the ring `net_reserved_id`, whether it waits in `next_free`, its objects and the messages
underway. `AskForId` is `next_free` up to its loop, `TakeId` what follows when the ring holds
something; between them, everything else may happen, because the loop calls `sn_Receive`.
`HandleRequest` and `RunOut` are the two ends of `id_req_handler`, `HandleReply` is
`req_id_handler`, with its ring of which one place stays empty and without the ids whose object the
client still has. `HandleCreate` and
`HandleDestroy` are the server's handlers for the clients' objects, each with the `sn_DoDestroy`
that follows the packet. `ClearKnows` with `Gone` is a disconnect, for whatever reason.

Left out: which free id is taken (any may be), the range of ids that slowly grows and shrinks
(that it had to grow shows only in `hogPlanned`), requests of old clients for single ids, the
`exit` of a server without ids, the minute after which `next_free` gives up with an error,
`RelabelOnConnect` and `ClearAll`. An id is not used again while an order to destroy it waits:
such an order lives for a minute, and ids are used in turn over a range of at least 16000.
An object that the client has destroyed is kept alive on the server (`deleted`) until `ClearAllDeleted`
or whatever else holds it lets go.

An order to destroy an object may be undone (`Undo`). `ePlayerNetID::ActionOnDelete` makes the
last player of a client its legacy spectator and takes ownership of it, and `net_destroy_handler`
then drops the order; but only the object is the server's now, `sn_netObjectsOwner` still names the
client, so the id stays in the client's name with no order underway. These ids are `kept`. A legacy
spectator is given up, and its id freed with the last reference to it, when the client's next last
player takes its place, when a new player of the client arrives, or when the client leaves
(`se_ClearLegacySpectator`). Which of a client's objects is its last player is not modelled: any order
may be undone. `OwnIsThere` says which ids in a client's name have an order underway and which, kept or
given up, have none.

`IdLeases` is the promise: the server makes its objects with ids nobody holds and leases such ids
to clients; a client makes one object of a leased id, the server sees it once, and the lease ends
when the client has destroyed the object, or with the client. The refinement (`Leases`) forgets
messages, rings, queues and orders. Who holds an id is the table of owners (`Assigned`), and what may
still become of it is where the id is on its way (`Reserved`). Two things the code does are worth
a step of their own there: ids that find no room in a client's ring are held, and never used
(`Waste`), and the server may come to see an object that its client has destroyed by then (`See`).
The lease of a legacy spectator's id lasts as long as the server keeps it in the client's name.

### LoginSlots and the code

`HandleLogin` is `login_handler` for a login that is accepted, with `CountSameConnection`
(`Known`), the hard limit, `GetFreeSlot` (`FreeSlot`), the disconnection of whoever is in the slot,
`CountSameIP` (`Recounted`) and the `login_accept`. Logins that are refused or ignored change
nothing but the bans, which `Ban` may do at any time. `sameIP` is the static array of
`CountSameIP`: it is renewed for the newcomer only, so it goes stale as others come and go, and
`GetFreeSlot` chooses by it whom a full server can do without. `Disconnect` is
`sn_DisconnectUserNoWarn`, for a logout, a kick or a timeout (`Kick`) or for the users a ban finds
(`Found`). The client is `Connect`, `HandleAccept` and `Leave`.

A packet may arrive at any time and any number of times, or never. Only the answers to logins are
kept as packets: a login is there as long as its session is the last at its address, and a logout
or a `login_deny` has no effect that a kick, or a client that leaves, cannot have at any time. One
assumption is made: a login of an earlier session does not arrive after the same address has
started the next one. Each `sn_Connect` opens a new socket; the fallback to the old form of the
login after five seconds does not, and sends a new salt. If a login were five seconds late there,
the client would not recognise the answer, and its own logins would be ignored until the server
gives the user up.

`salts` and `crowd` are history: the session a slot was given to, and how many others of its
machine a user found. Left out: versions, the login's other contents, flood protection (which may
ignore a login, like a loss), changes of `MAX_CLIENTS` and of the limits for one machine while the
server runs (they are constants here, an admin may set them at any time), what the slot's other state goes through (`ReliableLink` and
`NetObjectSync` have that), several servers.

Two oddities are translated as they are. `nMachine::Ban` walks over the slots from
`MAXCLIENTS - 1` downwards (`nNetwork.cpp:5129`), so it does not find the user of the last slot;
`NoneBanned` speaks of servers that do not use it. And because the counts are stale, the user who
makes room for a newcomer may be the only one of its machine by then, while `doc/commands.txt:692`
says that logins above `MAX_CLIENTS_SAME_IP_SOFT` get kicked; `KickedForSharing` says what is true
of the code, that there were too many when that user came.

`Admission` is the promise: a seat for one client of an address, up to `MAX_CLIENTS` and the hard
limit of its machine; on a full server, and only there, somebody makes room who found at least
`MAX_CLIENTS_SAME_IP_SOFT` others of its machine when it came; a ban empties the seats of a machine
and keeps it out; and a client that is in has been given a seat. It has no slots, no counts to go
stale, no logins that come twice and no answers that get lost. The refinement (`Promise`) takes
users for guests, whatever their slots (`Guest`), and the answers underway for invitations; a
guest's company is the `crowd` of its slot, and that `GetFreeSlot` goes by the stale `sameIP`
is what has to be justified. Where the server uses the last slot, a ban is a step `Admission`
does not have, since it misses that user.

### GameState and the code

`gGame::StateUpdate` is a ring of states, and each of its cases ends in a `SetState(act, next)`
(`Following`). On a client a case is one step (`ClientStep`), which ends with a report of the new
state to the server. On the server it is a long call, in which the network is served: `SetState`
runs `SyncState`, which runs `sn_Sync` once and then again and again until no
`client_gamestate` is behind; only then the clients are told the next goal (`stateNext`, which
they read in `ReadSync`). `phase` is where that call is: in the `sn_Sync` before the loop
("first"), in the one in the loop ("again"), or about to look ("check"). `TimeOut` ends any of
them. `sn_Sync` asks every user and ends when all have answered and the server has no
unacknowledged messages; the client answers when all its own messages are acknowledged, which
is why a report is at the server before the answer is (`Drained`). Logins and logouts are the
effects of `login_handler` and `sn_DisconnectUserNoWarn` on this state, `Ready` is `ready_handler`
with the creation of the game object. One setting stands for all: `MAP_FILE`, of which the grid is
made.

The answer to any earlier request counts (`c_sync` never changes), reports are handled in any
order, and a client may answer before its messages are through when its own timeout is over: the
model has all of these. The layers below appear as what their modules show: a reliable message
arrives once, in any order; of a network object or a setting the newest value stays.

History: `hasty` counts waits that were cut short although something was underway, `stalled` says
that the server has once waited in vain with nothing underway. `ReadyGridIsCurrent`, `UpToDate`
and `WaitsForAll` hold as long as no wait is cut short, and TLC shows that they need that: the
timeouts are a way out that the code takes knowingly. `stalled` is needed because a report that is
delayed for a round puts a client that is ahead back in the eyes of the server, which then waits
in vain and goes on. `UpToDate` has one exception, which is the code's: a client that joins
while the grid is deleted takes `DELETE_GRID` for an old state and goes ahead of the server. And
`ReadyGridIsCurrent` needs that the map is not set while a round is on (`MapsMidRound`): the
setting goes out at once, and whoever makes its grid afterwards takes the map of the next round.
`EventuallyInRound` is checked with all of that allowed: a client that is out of step for a round
is back in the next.

`Rounds` is the promise of a server as long as it is patient (`Patient`: no wait was cut short or in
vain): it tells the clients how far to go, and more only when all of them are where it is itself;
nobody goes further than it was told, except who comes while the grid is deleted; who comes late
waits for the next round. It counts stages without end, where the code compares states in a circle of
80 with a window of 60 (`sg_AbeforeB`). The refinement (`Promise`) takes how far a state is from
`stateNext` on the shorter way (`Ahead`, from six stages behind to two ahead). That is the point of
it: as each step of a client adds one to its lead and each new `stateNext` takes as much from
everybody's, nobody is ever taken to be in another round than it is in. Messages, reports and answers
are forgotten, and so is what happens once the server has lost its patience. `WaitsForAll` is
contained in it (`Tell`), and proved on its own.

Left out: what happens within a state, matches, waiting for chatting players (time that passes
in a step), the client's `goon`, play without a server.

### Voting and the code

A voter (`eVoter`) is a machine: all users from one address share it, and `GetVoter` gives a user
its voter only if it has a player in a team. `items` is `eVoteItem::items_`, in its order, as
`tList::Remove` moves the last element into the gap while loops run over it backwards. `loop` is
such a loop: `AcceptNewVote` and `VotingPossible` evaluate all polls before they do anything
else (`EvaluateNext`), and no handler runs in between; but an accepted poll kicks users there and
then, whose voters leave all other polls (`RemoveFromGame`), those still to be evaluated too.
`StartPoll` is `AcceptNewVote`, `CheckValid`, `ReBroadcast` and the first evaluation in one.
`Evaluate` is translated test by test: too few, rejected, accepted, timed out. Whoever is kicked too
often is banned (`nMachine::OnKick`), and then all users of its machine are disconnected
(`Expelled`); as kicks per hour are not counted, either may happen. `ballots` are the
polls clients were sent and have not voted on; a vote that is underway is a ballot that will be
cast, as nothing the server does tells the two apart. `outcome`, `tally` and `accused` are
history.

Left out: the server's own kicks of suspects; spam, maturity, silence, access levels and the time
between two polls about a player, each of which may refuse a poll, as the model may; polls whose
command changes the polls themselves; clients whose player is deleted while they stay: in
the model a user has a player from the first one to the logout. If the last player of a client
becomes its legacy spectator (see `IdPool`), it belongs to the server from then on, and when it is
removed, `RemoveFromGame` finds the voter of user 0: the votes of the client's machine stay in
the polls, which is an exception to `VotersArePresent`. Polls about roles and commands are of the kind "other", without effect on who may
vote. The bias is not negative.

`Polls` is the promise: a machine has a vote on each open poll, which its players set and change
and which is withdrawn when one of them goes; a poll that is closed or accepted stays so; and no
poll sends anybody away unless more machines are for it than against it, and then only users of the
machine that the player it was about came from. It has no list, no loops over it, no clocks,
no ballots, no count of voters and no observer pointer. The refinement (`Promise`) takes the votes out
of the items of the list (`For`, `Against`): the evaluation of a poll is a `Review`, with the
votes of everybody it kicks withdrawn from all polls in the same step.

Two oddities are translated as they are, and no property speaks of them. A poll is closed at
once if `total <= MIN_VOTERS` (`eVoter.cpp:543`), while `AcceptNewVote` (line 383) and
`doc/commands.txt` ("Number of voters that need to be online to enable voting") let `MIN_VOTERS`
voters start one. And the total is counted when a poll is sent (`ReBroadcast`): the suggestor's
machine counts twice if another user of it has a voter, and the total stays when voters come and go.

## Runs

| Run | Question | Bounds |
|---|---|---|
| `link_safety` | Is every message handled at most once, is an ack a proof of handling, and are both of the receiver's judgements ("surely new", "got this packet before") right? Does the link implement `ReliableChannel`? Are expanded ids in the order of the messages? Does `ackPending` count `sn_pendingAcks` but for what a logout leaves? | 12 ids, window 10, ring of 3, delay 2, 6 messages from id 10 on, quarters of 3 ids left by earlier connections, 1 destroy message left by each logout |
| `link_liveness` | Is every message acknowledged unless an end gives up, also when acks come in batches? | 2 messages, batches of 1 and 2 acks, queued acks, a destroy message left only on a quiet network |
| `link_first_ids` (violation) | The same question as `SurelyNew` when a server has used ids before its first message to this client arrives, with no bound on them | ids from 2, window 4 |
| `sync_objects` | Does the client end up with the server's objects and no others? Is every object created on a ready client, and every copy of a dead one destroyed? | 3 objects on 2 ids, 6 messages, no changes |
| `sync_session` | Are the counters, the list of requested syncs and the states on the client right across changes and clients? Does it all implement `ObjectMirror`? | 1 id, 3 lives of it, 3 changes, 7 messages, 2 clients |
| `sync_slot_reuse` (violation) | `CreationWaits` when a slot is reused at once | 2 clients |
| `sync_lingering` (violation) | `OrdersFindNoOwned` when an id comes again while the client keeps its last object | 1 id, 2 objects |
| `id_pool` | Are ids never used twice, lost, or taken for another's? Does it all implement `IdLeases`? Does `next_free` return? | 3 ids, 2 clients, requests of 2, ring of 3 with 2 used |
| `login_slots` | Has every client one slot, are bans kept, is no client taken for an earlier session? Does it all implement `Admission`, so that only the right ones have to make room? | 2 machines with 3 addresses, 2 slots of 3 in use, limits 1 and 2, 4 sessions |
| `game_rounds` | Do all clients have the grid that objects are sent for, and the newest `stateNext`? Does it all implement `Rounds`, so that all follow the server and it waits for all? | 2 clients, 2 logins, one change of the map between rounds, 2 reports underway, no wait cut short |
| `game_liveness` | Does a client that stays get to play on the server's grid? | 1 client, 1 login, the map changed at any time, 2 waits cut short |
| `voting` | Are votes counted once, for as long as the voter is there? Does it all implement `Polls`, so that a kick hits whom it was about? | 3 users, one of whom may be a spectator, 2 machines, 3 logins, 2 polls, polls of age 0 and 1 |

The bounds cover the cases that matter: in `link_safety` the ids wrap after two messages, and messages are
in three of the four quarters, with old copies and messages with the id 0 in between; a copy may be delayed for as
long as the assumptions allow; the ring is overwritten. That an id is used again takes a trip round the
ids, which is more messages than the run has; the proofs cover it, for any number of messages. Ack messages name one message there (`AckBatch` is 0); batches are in
`link_liveness`, which leaves a destroy message at a logout only when nothing else is underway
(`LeftWhenQuiet`, a constraint: what it cuts off are states after a disconnect, and connections
that begin with an old message, which `link_safety` has). In `sync_objects` both ids are reused with their last object's destroy message
unsent, underway, or handled before the creation; in `sync_session` a client leaves with
messages underway and another one comes. In `id_pool` two clients exhaust the ids, so that
requests run out, the hog is killed, and freed ids come back at once (`FreeKeep` 0). A fourth id
does not finish in reasonable time together with the liveness; the invariants are proved for
any number of ids and clients. In `login_slots` two clients of one machine and one of another share
two slots, so that a full server makes room, counts go stale, and a slot is given to the same
address again in the next session; a machine never has more clients than the hard limit allows
there, and `HardLimit` is proved instead. In `game_rounds` a client leaves in any state and another one takes
its slot, for as many rounds as the server likes, since the states of a round are a ring. In
`voting` two users share a machine; with two polls one can be accepted while the loop has
the other one still to come, and a slot is taken again after a kick. What a spectator can do shows
with one user who may be one (`OneSpectator`, a constraint: the state space is a quarter of what it
is without).

The modules of the network layer stop when their bounds are reached, and a link of which both
ends are closed does nothing more, so deadlock is not checked there. It is checked in the runs
of `LoginSlots`, `GameState` and `Voting`, which always have a step to take. The program's own loops do not
block, except the one in `next_free`, which `EventuallyTaken` is about, and those that wait for
clients, which `EventuallyInRound` is about.

### Fairness

`ReliableLink`: every frame calls `sn_Receive` and `sn_SendPlanned`; a due resend happens (weak
fairness); what a full connection or bandwidth may interrupt again and again, a planned message
or an ack, needs strong fairness, as does the arrival of a packet that is sent over and over.
The network is fair in no other sense: every single packet may be lost. `EventuallyAcked` is
checked for messages of a client to its server. For the other direction a client that has
not seen its `login_accept` answers nothing, so what the server planned in the meantime waits
until the login succeeds or the connection is given up; with the limit of resends in the model
that is the same alternative.

`NetObjectSync`: the loop of `SyncAll` comes to every object on its list in every frame, the
limits that hold messages back pass, a message that is resent arrives and
so does its ack, a client that has logged in says it is ready (weak fairness of each). Nothing is assumed of logins,
logouts or destructions.

`IdPool`: requests and replies are acknowledged messages, so they arrive in the end, and
`next_free` goes on once the ring holds an id. That the server answers a request at all, and
what happens when it cannot, is its code, not an assumption.

`GameState`: the game loop runs, rounds end, messages arrive, and clients go on (weak fairness of
each of these). The timeouts have strong fairness: between two of them the server may look at its
clients any number of times, which in the model makes `TimeOut` come and go, but the clock runs on
all the same. Nothing is assumed of logins, logouts and changes of the map.

`LoginSlots` and `Voting` have no liveness property: any login may be lost, and polls are only evaluated when somebody votes, asks for a poll,
or a round ends, and nothing makes any of that happen.

### Violations

* `link_first_ids`: the comment in `rec_peer` says that a message inside the window ahead of
  `highest_ack` "is surely new". Before a client's first message `highest_ack` is 0 on the
  server, and ids of a program that was connected elsewhere start anywhere: a first message
  beyond the window is judged by the ring, does not move `highest_ack`, and its copy can later
  be "surely new".
* `sync_slot_reuse`: `sn_DisconnectUserNoWarn` first settles all acks of the user and then runs
  `login_callback`, which sends what is left of the destroy message and sets `destroyersCount`
  to 0: the new message's `nWaitForAckDestroy` stays, uncounted. If the slot is taken before it
  is given up, creations go out while a destroy message is unacknowledged, against the comment in
  `SyncAll`, and the count can become negative when it dies.
* `sync_lingering`: `sn_DoDestroy` keeps the object in `sn_netObjects` and makes the client its
  owner. If its id comes again and the order to destroy the new object overtakes its creation, the
  order finds the old object, fails the assertion `!no->Owned()`, and is dropped in builds
  without assertions: the new object stays for ever.

## Proofs

`ReliableLink_proofs` proves for every size of the id space, the window and the ring:

* `TypeCorrect`, `AckPendingAlwaysCounts`: types, and that `ackPending` is never above the number of
  `nWaitForAck`s on the slot and misses at most the `MaxLeft` that the last logout left. They need each
  other: the counter moves by 1 with each `nWaitForAck` because a message is in the queue, or
  pending, but not both. `UncountedStays`: while the connection lasts the difference does not move at
  all, whatever is sent, resent, acknowledged twice or given up; only a disconnect sets it anew.
* `AtMostOnceHolds`, `SurelyNewHolds`, under `InTimeAssumption`. `AtMostOnce` is not inductive:
  that a copy is recognised depends on where its id is. `InvOnce` therefore says that every
  copy in the queue, the list or the network is of the recent past and carries the id it was
  built with (`Recent`), that the ring holds the ids of the last messages accepted, in order
  (`InvRing`), that `highest_ack` is the id of the newest accepted message (`InvHighest`), and
  that acceptance is out of order by less than `Span` (`InvAccepted`). Then a copy of an accepted
  message is either not ahead of `highest_ack`, and its id is still in the ring, or the arithmetic
  of the window excludes it.
* `AckedWasAcceptedHolds`, `OldWasSeenHolds`, with `RingAssumption` in addition: an id in the ring
  then belongs to the message at hand and to no earlier one.
* `LinkImplementsChannel`: the initial state and every step of the link map to `ReliableChannel`
  with `handled <- accepted`, `confirmed <- acked`.

`MessageIds_proofs` adds the expander, for every size of the quarters and whatever they are at first:

* `ExpanderOnlyWatches`: the model with the expander implements the link, so all that is proved of
  `ReliableLink` holds here, too, and its invariants can be used.
* `ExpandedInOrderHolds`, under `InTimeAssumption` and `QuartersAssumption`. The order is not inductive:
  what the next message is expanded to depends on the quarters, which every copy and every id 0
  may move. `InvSettled` says that they no longer move where it matters: the quarters of `highest_ack` and
  of every copy that is not newer are followed by one that comes next (`Settled`), so that
  repeated and overtaken messages change nothing. `InvBigs` ties the numbers to the messages:
  that of a message on the present trip round the ids is as far behind that of
  `highest_ack` as their ids are apart, and that of any older one is behind by the number of
  messages in between at least. With `InvBefore` for the start of a connection of a client these
  are inductive, since a message that is handled is in the quarter of `highest_ack`, the one before
  or the one after it (`SameOrNext`).
* `NumbersOfTheCode`: 65536 ids, 16 of them reserved, the window of 10000, the ring of 1000 and
  quarters of 16384 satisfy `InTimeAssumption`, `RingAssumption` and `QuartersAssumption` with delays of up to
  500 messages, gaps of up to 9983 ids and entries of the ring that are up to 65519 messages old, so the theorems
  speak about the program.
* `LowBitsAreTheId`: the code ors the id to its quarter, the module adds the place of the id in its
  quarter. The invariant `InvBits`, each quarter modulo the id space is where its ids begin, makes
  these the same: no bit of the quarter is ever in the place of the id, for every size of the
  quarters and without any bound on delays or traffic.

`IdPool_proofs` proves all invariants of `id_pool`, and `ReservedIsFree`, for any number of ids and clients and
any sizes from a ring of 3 and requests of 2 on (the code has 50, and 40 and 12). None of them is
inductive alone. The invariant follows an id through its client's hands: reserved, then on an
object whose creation is unsent, then underway, then on the server, then in an order to destroy
it, underway or waiting, and then with the object that the server keeps or gives up. `Apart` says that no id is in two of these places, `Held` what each means
for the server's tables, `Served` that a client that is empty, or will be when the allocation that
runs is over, has a request or a reply underway. `EmptyRingIsServed` needs that last part: a
request is sent before the last id is taken, because of an empty ring the code computes that it
is full. It also needs requests of 2: with replies of a single id a client would take it and be
left with nothing underway.

`PoolImplementsLeases` maps the initial state and every step to `IdLeases`, from the same invariant. The
steps that take an id need `NextFreeGives`: what `next_free_server` gives away is nobody's and has
no object, also when it was freed just before. The steps that end a lease need `Apart`: when the order
to destroy an object finds it, or its creation finds the order, the client has neither the
object nor the id any more; an id that was kept is nowhere with its client (`Held`), so its lease
ends when the object is gone. A kick is a `Leave` only if who is kicked is there, which for the hog is
`NoIdIsLost`. `ObjectsShareNoId` says what it is for (`OneHolder`): no two objects have one id,
on whatever machines they are.

`Voting_proofs` proves all five properties of `voting`, and `KickHitsTarget`, for any number of users,
machines and polls and any bias that is not negative. The invariant adds to the properties what a poll knows
of the player it is about (`GoodItem`: the player, if it is still there, and the machine it voted
from agree with `accused`) and that ids are given out in order (`Numbered`), so that a new poll
is not in the list yet. Every step is made of two things that may happen to the list, the removal
of a poll (`RemoveKeeps`) and the departure of users with their voters (`Departure`), so each has
one lemma, and `EvaluateStep` puts them together for the three actions that evaluate a poll.
`AcceptedByMajority` rests on arithmetic alone (`MajorityOf`): that a poll was not rejected just
before gives what the accepted one needs once more voters are ignored than have not voted.

`VotingImplementsPolls` maps the initial state and every step to `Polls`, from the same invariant.
The votes in a list of polls (`ForOf`, `AgainstOf`) follow what happens to the list: a removal
takes out those on one poll (`VotesRemoved`), which needs that no id is in it twice, a departure
those of some machines (`VotesLeft`). `Settles` is the core: whatever `Evaluate` does is something
a poll may do. A poll is accepted with `pro >= con + bias`; that it has more votes for it than
against, and not as many, is because it was not rejected just before (`VotesCounted` ties the
counts to the votes). That only users of the accused machine go is `GoodItem` again. `PollsEndOnce`
is what follows for the polls themselves: none is evaluated again after it was decided, so none
is carried out twice.

`GameState_proofs` proves all four properties of `game_rounds`, and `WaitsForAll`, for any numbers
of clients, logins, reports underway and changes of the map, and whatever `MaxHasty` is:

* `ServerOK` lists the combinations of `state`, `stateNext` and `goal` the server goes through;
  `AbeforeBLinear` takes the comparison on the circle apart, once and for all.
* `UpToDateHolds`: a client has read the last `stateNext`, or it is underway and the client will
  accept it (`WillAgree`), or the client is fresh (`Informed`). A client that becomes ready while the
  server looks (`phase = "check"`) may have two values underway, which is the case that needs care.
* `WaitsForAllHolds`: the table `Possible` says in which state a client can be, and what the server
  may believe of it, for each `stateNext`. It is inductive only with what the answers of `sn_Sync`
  are for: a client answers when its own reports are through, so that when the server looks, those
  underway are of this wait (`Reportable`). An older one could make the server believe the opposite of
  what is true a round later.
* `StateImplementsRounds` maps the initial state and every step to `Rounds`, from the same invariant:
  what is `Possible` of a client is never a round away, so its step is a stage towards `stateNext`
  (`StepProceeds`), and whoever is not behind on the circle is not behind in the count (`GoalTold`).
  A step after which the server is not patient any more needs no proof: `Rounds` promises nothing then.
* `ReadyGridHolds`, under `~MapsMidRound`: `stalled` is not excluded here, so a client may be a
  straggler, which is not waited for because of an old report of `CREATE_GRID`. The table `Found` says
  how far into the next round there may be stragglers and their reports (`LateNow`, `OldNow`), and that
  no straggler is believed to have a grid. Beside it, everybody has the newest
  `MAP_FILE` or it is underway (`Broadcast`), and nobody has another once the server has looked (`Told`);
  so the grids are made of the same map (`OnGrid`).

`LoginSlots_proofs` proves all three properties of `login_slots`, `HardLimit` and `KickedForSharing`, for any numbers
of slots, addresses, machines and sessions and any limits. `TypeOK` says that only slots up to
`MAX_CLIENTS` are used, though `GetFreeSlot` looks through all of them for one to spare: those
beyond never had a count (`Unused`), and of equal counts the first is taken. `KickedForSharing`
needs that a user's count is the one from when it came (`Counted`). `SameSession` needs that what
was accepted for the running session of a client is what the slot was given to it for
(`AcceptsAgree`), and that no slot and no answer is of a session to come (`Past`).
`SlotsImplementAdmission` maps the initial state and every step to `Admission`, from the same
invariant. As each client has one slot, guests can be counted like slots (`Guests`); a login that is
accepted admits its client (`LoginAdmits`), which takes the seat of the user in its slot, if there is
one (`LoginTakesSeat`): that is only so when nobody else can come in without that (`SparedWhenFull`),
and then the user's count is the company it found (`SparedCount`, `Counted`). The theorem assumes
`sn_maxClients < MAXCLIENTS`, like `NoneBanned`: where the last slot is used, a ban does not empty
it, and the theorem would be false.

`NetObjectSync_proofs` and `NetObjectClient_proofs` prove all invariants and action properties of
the `sync_*` runs, for any number of objects, ids, messages and clients. They are built in
layers, each of which names the assumptions it needs:

* `Base`, without any of them: types, that messages have numbers of their own and are about
  objects that exist, that of a client that has left only the last destroy message remains.
  `TypesHold` and `RequestNotForgottenHolds` follow.
* `DestroyersCounted`, under `QuietSlot`, and with it `CreationWaitsHolds`: the two theorems whose
  assumption `sync_slot_reuse` shows to be needed.
* `Acks`, under `QuietReuse` and `QuietSlot`: `AcksPendingCounts` is not inductive, because acks find
  objects by id. It needs that of all objects with an id only the last one is alive, and
  that messages are about that one.
* `Orders`, on the server's side: no id is in two destroy messages, sent or not, nor in one and in
  use by an object the client may know of; a living object a sync is about is known.
* `Client`, under all three (`Quiet`), puts the client beside it: an object that is still to be
  destroyed (`Owed`) is a copy or its creation is on its way (`Creating`), no copy and nothing
  lingering has the id of something that is being created (`Room`), what waits in `Destroyed` is
  dead and still being created (`Remembered`). Then whatever a handler finds by id is the object the
  message is about, and `KnownIsHeld`, `NoOrphan` and `OnlyDeadDestroyed` follow.
  `OrdersFindNoOwnedHolds` is the assertion that `sync_lingering` violates: with `QuietClient`
  it holds.
* `Current`, on top of these: later messages carry later states (`InOrder`), a message compares
  with a copy by its number as it does by its state (`CopyOrder`), and the state that must
  arrive is requested, underway or there (`AllCome`). `SettledIsCurrent` and `NeverBackwards` follow.
* `SyncImplementsMirror` puts them together: under all three assumptions the
  initial state and every step map to `ObjectMirror`. The handlers look up by id and compare
  numbers, the mirror speaks of objects and states; that both come to the same is `Client` and
  `CopyOrder`. What needs care is the creation message: when it is handled there is no copy of its
  object yet and nothing else in its way (`Room`), and it makes a copy, or is used up by the order to
  destroy that came first, and then its object is dead (`Remembered`). The action properties
  `OnlyDeadDestroyed` and `NeverBackwards` are true of every step of the mirror, so no run lists
  them apart.

Only model-checked: liveness (`EventuallyAcked`, `EventuallyKnown`, `EventuallyGone`, `EventuallyTaken`,
`EventuallyInRound`), which TLAPS cannot prove. All safety properties of the runs that pass are proved.

## Not modelled

Movement, geometry, clocks and bandwidth compute with real numbers; rendering, menus, sound,
recording, parsing and sockets are input and output; vendored code is left alone. The parts with
logic of their own that are still missing are in the plan.

## Plan

The runs take about ten minutes together. What is missing comes in this order:
`ServerPolling`, `Authentication`, `NetConfig`, `Teams`; `Heap` (`tHeap.cpp`) and `ChatPolling`
are small.
