------------------------------- MODULE GameState -------------------------------
(***************************************************************************)
(* How gGame (gGame.cpp) takes a server and its clients through the states *)
(* of a round: settings are transferred, the grid and the objects are      *)
(* made, the round is played, and all is deleted again.  The server goes   *)
(* first, tells the clients by the stateNext of the synchronised game      *)
(* object, and waits in SyncState until nobody is behind or a timeout ends *)
(* the wait.  Clients join and leave at any time.                          *)
(*                                                                         *)
(* Of the layers below the module uses what the modules about them show:   *)
(* a reliable message arrives once and is acknowledged, in any order; of a *)
(* network object or a setting the newest value read stays.  That the      *)
(* server waits for players to leave chat or for objects to be transmitted *)
(* is time that passes in a step; a RequestSync of an unchanged stateNext  *)
(* is left out, since reading a value twice changes nothing.               *)
(***************************************************************************)
EXTENDS Integers, Sequences, FiniteSets

CONSTANTS
  Clients,     \* connection slots
  MapsMidRound,\* whether MAP_FILE is set while a round is on
  MaxMaps,     \* bound on the changes of MAP_FILE
  MaxReports,  \* bound on the reports underway from a client
  MaxHasty,    \* bound on the timeouts that end a wait although something is underway
  MaxLogins    \* bound on the logins

ASSUME GameAssumption ==
  /\ {MaxMaps, MaxReports, MaxHasty, MaxLogins} \subseteq Nat
  /\ MapsMidRound \in BOOLEAN

VARIABLES
  (* the server *)
  state,            \* gGame::state
  stateNext,        \* gGame::stateNext
  goal,             \* the argument next of the SetState that runs
  phase,            \* where StateUpdate is: see Phases
  mapfile,          \* changes of MAP_FILE so far
  grid,             \* the map the server's grid was made of
  connected,        \* users i with sn_Connections[i].socket
  ready,            \* is_ready_to_get_objects
  client_gamestate, \* what the clients have reported
  sync_ack,         \* users that have answered the sn_Sync that runs
  (* underway between the server and each client *)
  asked,            \* sync messages the client has not answered
  syncs,            \* values of stateNext the client has not read, oldest first
  configs,          \* values of MAP_FILE underway to it
  reports,          \* client_gamestate messages underway from it
  (* each client *)
  game,             \* clients that have the game object
  cstate,           \* its state
  cnext,            \* its stateNext
  cmapfile,         \* its MAP_FILE, NoMap for the default it starts with
  cgrid,            \* the map its grid was made of
  (* history *)
  hasty,            \* timeouts that came too early so far
  stalled,          \* whether SyncState has waited in vain, with nothing underway
  logins            \* logins so far

serverVars == <<state, stateNext, goal, phase, grid, hasty, stalled>>
clientVars == <<game, cstate, cnext, cmapfile, cgrid>>
wireVars == <<asked, syncs, configs, reports>>
usersVars == <<connected, ready, client_gamestate, sync_ack, logins>>
vars == <<serverVars, mapfile, usersVars, wireVars, clientVars>>

-----------------------------------------------------------------------------
(* The states of a round *)

CREATED == 0
TRANSFER_SETTINGS == 7
CREATE_GRID == 10
CREATE_OBJECTS == 20
TRANSFER_OBJECTS == 30
CAMERA == 35
SYNCING == 40
PLAY == 50
DELETE_OBJECTS == 60
DELETE_GRID == 70

States == {CREATED, TRANSFER_SETTINGS, CREATE_GRID, CREATE_OBJECTS, TRANSFER_OBJECTS,
           CAMERA, SYNCING, PLAY, DELETE_OBJECTS, DELETE_GRID}

\* Mutant of AbeforeB: states are compared as numbers, without the wrap of a round.
AbeforeBAsNumbers(a, b) == a < b

\* a is at least one and less than 60 behind b in the circle of 80 (sg_AbeforeB).
AbeforeB(a, b) == (80 + a - b) % 80 > 20

\* The arguments of SetState in the case of StateUpdate for each state.
Following ==
  [s \in States |->
     CASE s \in {CREATED, TRANSFER_SETTINGS} -> [act |-> CREATE_GRID, next |-> CAMERA]
       [] s = CREATE_GRID      -> [act |-> CREATE_OBJECTS,    next |-> CAMERA]
       [] s = CREATE_OBJECTS   -> [act |-> TRANSFER_OBJECTS,  next |-> CAMERA]
       [] s = TRANSFER_OBJECTS -> [act |-> CAMERA,            next |-> SYNCING]
       [] s = CAMERA           -> [act |-> SYNCING,           next |-> PLAY]
       [] s = SYNCING          -> [act |-> PLAY,              next |-> PLAY]
       [] s = PLAY             -> [act |-> DELETE_OBJECTS,    next |-> DELETE_GRID]
       [] s = DELETE_OBJECTS   -> [act |-> DELETE_GRID,       next |-> TRANSFER_SETTINGS]
       [] s = DELETE_GRID      -> [act |-> TRANSFER_SETTINGS, next |-> CREATE_GRID]]

NoMap == -1
Maps == 0 .. MaxMaps

\* "loop": between two cases of StateUpdate, or in the game loop; "settings": in the
\* long sn_Sync after s_SendConfig; "first", "again": in the sn_Sync of SyncState
\* before and in its loop; "check": about to look at client_gamestate.
Phases == {"loop", "settings", "first", "again", "check"}

-----------------------------------------------------------------------------
(* Waiting for the clients *)

\* sn_Sync asks every user; an answer to an earlier request counts as well, and a
\* client that is busy with one may drop the next.
StartSync ==
  /\ sync_ack' = {}
  /\ asked' = [c \in Clients |-> IF c \in connected /\ asked[c] < 2 THEN asked[c] + 1
                                 ELSE asked[c]]

\* sn_Sync: everybody has answered and nothing waits for an ack.
Synced ==
  \A c \in connected : c \in sync_ack /\ syncs[c] = <<>> /\ configs[c] = {}

\* Mutant of Behind: users that have not reported anything are not waited for.
BehindOfReporters ==
  \E c \in connected : client_gamestate[c] # 0 /\ AbeforeB(client_gamestate[c], state)

\* SyncState: somebody has not reported this state.
Behind == \E c \in connected : AbeforeB(client_gamestate[c], state)

\* Something is underway between the server and c, or c has something to do.
Underway(c) ==
  \/ c \notin ready
  \/ asked[c] > 0 /\ c \notin sync_ack
  \/ syncs[c] # <<>> \/ configs[c] # {} \/ reports[c] # {}
  \/ c \in game /\ AbeforeB(cstate[c], cnext[c])

\* Time enough has passed for all that is underway to get done.
Idle == \A c \in connected : ~Underway(c)

\* The first half of SetState: the server is in act and waits.
EnterState(act, next) ==
  /\ state' = act
  /\ goal' = next
  /\ phase' = "first"
  /\ StartSync

\* The second half, after SyncState: the clients are told of stateNext.
LeaveWait ==
  /\ stateNext' = goal
  /\ phase' = "loop"
  /\ syncs' = [c \in Clients |-> IF c \in ready /\ goal # stateNext
                                 THEN Append(syncs[c], goal) ELSE syncs[c]]

-----------------------------------------------------------------------------
(* The server *)

Init ==
  /\ state = CREATED /\ stateNext = TRANSFER_SETTINGS
  /\ goal = TRANSFER_SETTINGS /\ phase = "loop"
  /\ mapfile = 0 /\ grid = NoMap
  /\ connected = {} /\ ready = {} /\ sync_ack = {}
  /\ client_gamestate = [c \in Clients |-> CREATED]
  /\ asked = [c \in Clients |-> 0]
  /\ syncs = [c \in Clients |-> <<>>]
  /\ configs = [c \in Clients |-> {}]
  /\ reports = [c \in Clients |-> {}]
  /\ game = {}
  /\ cstate = [c \in Clients |-> CREATED]
  /\ cnext = [c \in Clients |-> TRANSFER_SETTINGS]
  /\ cmapfile = [c \in Clients |-> NoMap]
  /\ cgrid = [c \in Clients |-> NoMap]
  /\ hasty = 0 /\ stalled = FALSE /\ logins = 0

\* A changed setting is broadcast at once (nConfItemBase::WasChanged).
SetMap(m) ==
  /\ mapfile' = m
  /\ configs' = [c \in Clients |-> IF c \in connected /\ m # mapfile
                                   THEN configs[c] \cup {m} ELSE configs[c]]

\* MAP_FILE stays or is set, by a configuration file or the admin.
MayChangeMap == \E m \in {mapfile, mapfile + 1} \cap Maps : SetMap(m)

\* The case for CREATED and TRANSFER_SETTINGS, up to its sn_Sync.
TransferSettings ==
  /\ phase = "loop" /\ AbeforeB(state, stateNext)
  /\ state \in {CREATED, TRANSFER_SETTINGS}
  /\ MayChangeMap
  /\ phase' = "settings"
  /\ StartSync
  /\ UNCHANGED <<state, stateNext, goal, grid, hasty, stalled, connected, ready, client_gamestate,
                 logins, syncs, reports, clientVars>>

\* The case for any other state.  In CREATE_GRID the map is parsed and the grid made
\* anew; in PLAY, the configuration files for every round are read.
Advance ==
  /\ phase = "loop" /\ AbeforeB(state, stateNext)
  /\ state \notin {CREATED, TRANSFER_SETTINGS}
  /\ IF state = PLAY THEN MayChangeMap ELSE UNCHANGED <<mapfile, configs>>
  /\ grid' = IF state = CREATE_GRID THEN mapfile ELSE grid
  /\ EnterState(Following[state].act, Following[state].next)
  /\ UNCHANGED <<stateNext, hasty, stalled, connected, ready, client_gamestate, logins, syncs,
                 reports, clientVars>>

\* Analysis finds that the round is over.
RoundOver ==
  /\ phase = "loop" /\ state = PLAY /\ stateNext = PLAY
  /\ EnterState(PLAY, DELETE_OBJECTS)
  /\ UNCHANGED <<stateNext, grid, hasty, stalled, mapfile, connected, ready, client_gamestate, logins,
                 syncs, configs, reports, clientVars>>

\* A sn_Sync gets its answers.
EndSync ==
  /\ Synced
  /\ \/ /\ phase = "settings"
        /\ EnterState(CREATE_GRID, CAMERA)
     \/ /\ phase = "first"
        /\ phase' = "again"
        /\ StartSync
        /\ UNCHANGED <<state, goal>>
     \/ /\ phase = "again"
        /\ phase' = "check"
        /\ UNCHANGED <<state, goal, sync_ack, asked>>
  /\ UNCHANGED <<stateNext, grid, hasty, stalled, mapfile, connected, ready, client_gamestate, logins,
                 syncs, configs, reports, clientVars>>

\* SyncState looks whether the clients have got there.
Check ==
  /\ phase = "check"
  /\ IF Behind
     THEN /\ phase' = "again"
          /\ StartSync
          /\ UNCHANGED <<stateNext, syncs>>
     ELSE /\ LeaveWait
          /\ UNCHANGED <<sync_ack, asked>>
  /\ UNCHANGED <<state, goal, grid, hasty, stalled, mapfile, connected, ready, client_gamestate, logins,
                 configs, reports, clientVars>>

\* The time for a sn_Sync or for SyncState is over.
TimeOut ==
  /\ \/ phase \in {"settings", "first", "again"} /\ ~Synced
     \/ phase = "check" /\ Behind
  /\ IF Idle THEN UNCHANGED hasty
     ELSE hasty < MaxHasty /\ hasty' = hasty + 1
  /\ stalled' = (stalled \/ (Behind /\ Idle))
  /\ IF phase = "settings"
     THEN EnterState(CREATE_GRID, CAMERA) /\ UNCHANGED <<stateNext, syncs>>
     ELSE LeaveWait /\ UNCHANGED <<state, goal, sync_ack, asked>>
  /\ UNCHANGED <<grid, mapfile, connected, ready, client_gamestate, logins, configs, reports,
                 clientVars>>

\* MAP_FILE is set while a round is on.
ChangeMap ==
  /\ MapsMidRound
  /\ mapfile < MaxMaps
  /\ SetMap(mapfile + 1)
  /\ UNCHANGED <<serverVars, usersVars, asked, syncs, reports, clientVars>>

-----------------------------------------------------------------------------
(* Users *)

\* LoginCallback, at login and logout.
Forgotten(c) == [client_gamestate EXCEPT ![c] = CREATED]

\* A client logs in: it starts from the default settings and is sent the current ones.
Login(c) ==
  /\ c \notin connected
  /\ logins < MaxLogins
  /\ logins' = logins + 1
  /\ connected' = connected \cup {c}
  /\ client_gamestate' = Forgotten(c)
  /\ configs' = [configs EXCEPT ![c] = {mapfile}]
  /\ game' = game \ {c}
  /\ cstate' = [cstate EXCEPT ![c] = CREATED]
  /\ cnext' = [cnext EXCEPT ![c] = TRANSFER_SETTINGS]
  /\ cmapfile' = [cmapfile EXCEPT ![c] = NoMap]
  /\ cgrid' = [cgrid EXCEPT ![c] = NoMap]
  /\ UNCHANGED <<serverVars, mapfile, ready, sync_ack, asked, syncs, reports>>

\* A user is ready to get objects, and SyncAll creates the game there.
Ready(c) ==
  /\ c \in connected \ ready
  /\ ready' = ready \cup {c}
  /\ syncs' = [syncs EXCEPT ![c] = <<stateNext>>]
  /\ UNCHANGED <<serverVars, mapfile, connected, client_gamestate, sync_ack, logins,
                 asked, configs, reports, clientVars>>

\* Mutant of NotReady: the slot stays ready to get objects.
StillReady(c) == ready

\* ClearKnows: the next user of the slot has to say that it is ready.
NotReady(c) == ready \ {c}

\* A user goes; nothing is underway to or from it any more.
Logout(c) ==
  /\ c \in connected
  /\ connected' = connected \ {c}
  /\ ready' = NotReady(c)
  /\ client_gamestate' = Forgotten(c)
  /\ asked' = [asked EXCEPT ![c] = 0]
  /\ syncs' = [syncs EXCEPT ![c] = <<>>]
  /\ configs' = [configs EXCEPT ![c] = {}]
  /\ reports' = [reports EXCEPT ![c] = {}]
  /\ UNCHANGED <<serverVars, mapfile, sync_ack, logins, clientVars>>

\* The server handles a report, of whatever age.
HandleReport(c) ==
  /\ \E s \in reports[c] :
       /\ client_gamestate' = [client_gamestate EXCEPT ![c] = s]
       /\ reports' = [reports EXCEPT ![c] = @ \ {s}]
  /\ UNCHANGED <<serverVars, mapfile, connected, ready, sync_ack, logins, asked, syncs, configs,
                 clientVars>>

-----------------------------------------------------------------------------
(* The clients *)

\* ReadSync: the server's stateNext is taken if it does not go back a few steps.
Accepted(c, new) == IF AbeforeB(cnext[c], new) THEN new ELSE cnext[c]

\* The creation of the game or a sync of it is read; older ones that come later are not.
ReadSync(c) ==
  /\ \E k \in 1 .. Len(syncs[c]) :
       /\ cnext' = [cnext EXCEPT ![c] = Accepted(c, syncs[c][k])]
       /\ syncs' = [syncs EXCEPT ![c] = SubSeq(@, k + 1, Len(@))]
  /\ game' = game \cup {c}
  /\ UNCHANGED <<serverVars, mapfile, usersVars, asked, configs, reports, cstate, cmapfile,
                 cgrid>>

\* A setting is read, unless a newer message about it was.
ReceiveConfig(c) ==
  /\ \E m \in configs[c] :
       /\ cmapfile' = [cmapfile EXCEPT ![c] = IF m > @ THEN m ELSE @]
       /\ configs' = [configs EXCEPT ![c] = @ \ {m}]
  /\ UNCHANGED <<serverVars, mapfile, usersVars, asked, syncs, reports, game, cstate, cnext,
                 cgrid>>

\* StateUpdate on a client that has entered the game: one case, and the report of it.
ClientStep(c) ==
  /\ c \in game \cap connected
  /\ cmapfile[c] # NoMap
  /\ Cardinality(reports[c]) < MaxReports
  /\ AbeforeB(cstate[c], cnext[c])
  /\ LET s == Following[cstate[c]].act
     IN /\ cstate' = [cstate EXCEPT ![c] = s]
        /\ reports' = [reports EXCEPT ![c] = @ \cup {s}]
  /\ cgrid' = [cgrid EXCEPT ![c] = IF cstate[c] = CREATE_GRID THEN cmapfile[c] ELSE @]
  /\ UNCHANGED <<serverVars, mapfile, usersVars, asked, syncs, configs, game, cnext, cmapfile>>

\* Mutant of Drained: the client answers without waiting for its own messages.
DrainedOrNot(c) == TRUE

\* The client's messages have all been acknowledged.
Drained(c) == reports[c] = {}

\* sync_msg_handler: the client answers when its messages are through, or its own
\* timeout is over.
AnswerSync(c) ==
  /\ asked[c] > 0
  /\ IF Drained(c) THEN UNCHANGED hasty
     ELSE hasty < MaxHasty /\ hasty' = hasty + 1
  /\ sync_ack' = sync_ack \cup {c}
  /\ \E k \in 0 .. asked[c] - 1 : asked' = [asked EXCEPT ![c] = k]
  /\ UNCHANGED <<state, stateNext, goal, phase, grid, stalled, mapfile, connected, ready,
                 client_gamestate, logins, syncs, configs, reports, clientVars>>

-----------------------------------------------------------------------------
ServerNext ==
  TransferSettings \/ Advance \/ RoundOver \/ EndSync \/ Check \/ TimeOut

ClientNext(c) ==
  \/ Ready(c) \/ HandleReport(c) \/ ReadSync(c) \/ ReceiveConfig(c)
  \/ ClientStep(c) \/ AnswerSync(c)

Next ==
  \/ ServerNext
  \/ ChangeMap
  \/ \E c \in Clients : ClientNext(c) \/ Login(c) \/ Logout(c)

Spec == Init /\ [][Next]_vars

\* The game loop runs, rounds end, messages arrive, clients go on, and time passes.
FairSpec ==
  /\ Spec
  /\ WF_vars(TransferSettings) /\ WF_vars(Advance) /\ WF_vars(RoundOver)
  /\ WF_vars(EndSync) /\ WF_vars(Check) /\ SF_vars(TimeOut)
  /\ \A c \in Clients :
       /\ WF_vars(Ready(c)) /\ WF_vars(HandleReport(c)) /\ WF_vars(ReadSync(c))
       /\ WF_vars(ReceiveConfig(c)) /\ WF_vars(ClientStep(c)) /\ WF_vars(AnswerSync(c))

-----------------------------------------------------------------------------
(* Properties *)

TypeOK ==
  /\ state \in States /\ stateNext \in States /\ goal \in States
  /\ phase \in Phases
  /\ mapfile \in Maps /\ grid \in Maps \cup {NoMap}
  /\ ready \subseteq connected /\ connected \subseteq Clients /\ sync_ack \subseteq Clients
  /\ client_gamestate \in [Clients -> States]
  /\ asked \in [Clients -> 0 .. 2]
  /\ syncs \in [Clients -> Seq(States)]
  /\ configs \in [Clients -> SUBSET Maps]
  /\ reports \in [Clients -> SUBSET States]
  /\ game \subseteq Clients
  /\ cstate \in [Clients -> States] /\ cnext \in [Clients -> States]
  /\ cmapfile \in [Clients -> Maps \cup {NoMap}]
  /\ cgrid \in [Clients -> Maps \cup {NoMap}]
  /\ hasty \in 0 .. MaxHasty /\ stalled \in BOOLEAN /\ logins \in 0 .. MaxLogins

\* gGame::GridIsReady: objects that need the grid may be sent to c.
GridIsReady(c) ==
  /\ c \in game
  /\ TRANSFER_OBJECTS <= client_gamestate[c] /\ client_gamestate[c] <= DELETE_OBJECTS

\* As long as no wait was cut short: while there are objects on the server's grid, a client
\* that GridIsReady lets them be sent to has made its grid of the same map.
ReadyGridIsCurrent ==
  hasty = 0 /\ state \in CREATE_OBJECTS .. DELETE_OBJECTS =>
    \A c \in connected : GridIsReady(c) => cgrid[c] = grid

\* As long as no wait was cut short, no client refuses a stateNext as a step back and
\* misses a round for it.  Only one that comes in while the grid is deleted takes that
\* state for an old one, and stays ahead of it.
UpToDate ==
  hasty = 0 => \A c \in connected \cap game :
    syncs[c] = <<>> =>
      \/ cnext[c] = stateNext
      \/ cnext[c] = TRANSFER_SETTINGS /\ stateNext = DELETE_GRID

\* SyncState is a barrier: as long as no wait was cut short or was in vain, the server stops
\* waiting only when each client in the game has really reached its state or is ahead.
WaitsForAll ==
  [][phase # "loop" /\ phase' = "loop" /\ hasty' = 0 /\ ~stalled' =>
       \A c \in connected \cap game : ~AbeforeB(cstate[c], state)]_vars

\* Whoever joins, gets to play a round on the server's grid or leaves, whatever waits
\* were cut short before.
EventuallyInRound ==
  \A c \in Clients :
    c \in connected ~>
      \/ c \notin connected
      \/ state = PLAY /\ cstate[c] = PLAY /\ cgrid[c] = grid

-----------------------------------------------------------------------------
(* The promise *)

\* The stages of a round, by the states.
Stage ==
  [s \in States |->
     CASE s \in {CREATED, TRANSFER_SETTINGS} -> 0
       [] s = CREATE_GRID -> 1
       [] s = CREATE_OBJECTS -> 2
       [] s = TRANSFER_OBJECTS -> 3
       [] s = CAMERA -> 4
       [] s = SYNCING -> 5
       [] s = PLAY -> 6
       [] s = DELETE_OBJECTS -> 7
       [] s = DELETE_GRID -> 8]

\* How far state s is from stateNext, if it is at most two stages ahead and six behind.
Ahead(s) ==
  LET d == Stage[s] - Stage[stateNext]
  IN IF d > 2 THEN d - 9 ELSE IF d < -6 THEN d + 9 ELSE d

\* No wait was cut short or in vain.
Patient == hasty = 0 /\ ~stalled

Promise == INSTANCE Rounds
             WITH Stages <- 9, Joining <- Stage[PLAY], patient <- Patient,
                  told <- Stage[stateNext], place <- Ahead(state),
                  present <- connected \cap game,
                  new <- {c \in connected \cap game : cstate[c] = CREATED},
                  lead <- [c \in Clients |-> IF c \in connected \cap game
                                             THEN Ahead(cstate[c]) ELSE 0]

\* As long as no wait was cut short or was in vain, the server and its clients go through
\* the rounds together: nobody is taken to be ahead who is a round behind, nobody goes
\* further than stateNext was, and the server waits for all (gGame::SyncState, StateUpdate).
ImplementsRounds == Promise!Spec

=============================================================================
