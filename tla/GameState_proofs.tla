---------------------------- MODULE GameState_proofs ----------------------------
(***************************************************************************)
(* Proofs of the safety properties of GameState, for any numbers of        *)
(* clients, logins, maps and reports underway, and that it implements      *)
(* Rounds.                                                                 *)
(***************************************************************************)
EXTENDS GameState, SequenceTheorems, FiniteSetTheorems, TLAPS

USE GameAssumption

USE DEF CREATED, TRANSFER_SETTINGS, CREATE_GRID, CREATE_OBJECTS, TRANSFER_OBJECTS, CAMERA,
        SYNCING, PLAY, DELETE_OBJECTS, DELETE_GRID

Waiting == {"first", "again", "check"}

\* Where the server may be: <<state, stateNext>> between two cases of StateUpdate, and
\* <<state, stateNext, goal>> while it waits.
Resting ==
  {<<CREATED, TRANSFER_SETTINGS>>, <<TRANSFER_SETTINGS, CREATE_GRID>>, <<CREATE_GRID, CAMERA>>,
   <<CREATE_OBJECTS, CAMERA>>, <<TRANSFER_OBJECTS, CAMERA>>, <<CAMERA, SYNCING>>,
   <<SYNCING, PLAY>>, <<PLAY, PLAY>>, <<PLAY, DELETE_OBJECTS>>, <<DELETE_OBJECTS, DELETE_GRID>>,
   <<DELETE_GRID, TRANSFER_SETTINGS>>}

Waits ==
  {<<CREATE_GRID, TRANSFER_SETTINGS, CAMERA>>, <<CREATE_GRID, CREATE_GRID, CAMERA>>,
   <<CREATE_OBJECTS, CAMERA, CAMERA>>, <<TRANSFER_OBJECTS, CAMERA, CAMERA>>,
   <<CAMERA, CAMERA, SYNCING>>, <<SYNCING, SYNCING, PLAY>>, <<PLAY, PLAY, PLAY>>,
   <<PLAY, PLAY, DELETE_OBJECTS>>, <<DELETE_OBJECTS, DELETE_OBJECTS, DELETE_GRID>>,
   <<DELETE_GRID, DELETE_GRID, TRANSFER_SETTINGS>>,
   <<TRANSFER_SETTINGS, TRANSFER_SETTINGS, CREATE_GRID>>}

ServerOK ==
  \/ phase = "loop" /\ goal = stateNext /\ <<state, stateNext>> \in Resting
  \/ /\ phase = "settings" /\ goal = stateNext
     /\ <<state, stateNext>> \in {<<CREATED, TRANSFER_SETTINGS>>, <<TRANSFER_SETTINGS, CREATE_GRID>>}
  \/ phase \in Waiting /\ <<state, stateNext, goal>> \in Waits

-----------------------------------------------------------------------------
(***************************************************************************)
(* The server's way through a round, and types.                            *)
(***************************************************************************)
LEMMA StatesAreNumbers == States \subseteq Nat
BY DEF States

\* AbeforeB without the circle.
LEMMA AbeforeBLinear ==
  ASSUME NEW a \in States, NEW b \in States
  PROVE  AbeforeB(a, b) <=> (a < b /\ b - a < 60) \/ a - b > 20
<1>1. CASE a < b
  <2>1. 80 + a - b \in 0 .. 79
    BY <1>1 DEF States
  <2>2. (80 + a - b) % 80 = 80 + a - b
    BY <2>1
  <2> QED
    BY <1>1, <2>2 DEF AbeforeB, States
<1>2. CASE a >= b
  <2>1. a - b \in 0 .. 79
    BY <1>2 DEF States
  <2>2. (80 + a - b) % 80 = a - b
    BY <2>1
  <2> QED
    BY <1>2, <2>1, <2>2, StatesAreNumbers DEF AbeforeB
<1> QED
  BY <1>1, <1>2 DEF States

LEMMA FollowingIs ==
  /\ Following[CREATED] = [act |-> CREATE_GRID, next |-> CAMERA]
  /\ Following[TRANSFER_SETTINGS] = [act |-> CREATE_GRID, next |-> CAMERA]
  /\ Following[CREATE_GRID] = [act |-> CREATE_OBJECTS, next |-> CAMERA]
  /\ Following[CREATE_OBJECTS] = [act |-> TRANSFER_OBJECTS, next |-> CAMERA]
  /\ Following[TRANSFER_OBJECTS] = [act |-> CAMERA, next |-> SYNCING]
  /\ Following[CAMERA] = [act |-> SYNCING, next |-> PLAY]
  /\ Following[SYNCING] = [act |-> PLAY, next |-> PLAY]
  /\ Following[PLAY] = [act |-> DELETE_OBJECTS, next |-> DELETE_GRID]
  /\ Following[DELETE_OBJECTS] = [act |-> DELETE_GRID, next |-> TRANSFER_SETTINGS]
  /\ Following[DELETE_GRID] = [act |-> TRANSFER_SETTINGS, next |-> CREATE_GRID]
BY DEF Following, States

LEMMA FollowingInStates ==
  ASSUME NEW s \in States
  PROVE  Following[s].act \in States /\ Following[s].next \in States
BY FollowingIs DEF States

\* What Advance may lead to.
LEMMA Advances ==
  ASSUME <<state, stateNext>> \in Resting, state \notin {CREATED, TRANSFER_SETTINGS},
         AbeforeB(state, stateNext)
  PROVE  <<Following[state].act, stateNext, Following[state].next>> \in Waits
<1>1. <<state, stateNext>> # <<PLAY, PLAY>>
  <2>1. ~AbeforeB(PLAY, PLAY)
    BY AbeforeBLinear DEF States
  <2> QED
    BY <2>1
<1> QED
  BY <1>1, FollowingIs DEF Resting, Waits

LEMMA ServerOKStep == ServerOK /\ [Next]_vars => ServerOK'
<1> SUFFICES ASSUME ServerOK, [Next]_vars PROVE ServerOK'
  OBVIOUS
<1>1. CASE TransferSettings
  BY <1>1 DEF TransferSettings, ServerOK, Resting, Waiting
<1>2. CASE Advance
  <2>1. <<state', stateNext', goal'>> \in Waits /\ phase' = "first"
    BY <1>2, Advances DEF Advance, EnterState, ServerOK, Waiting
  <2> QED
    BY <2>1 DEF ServerOK, Waiting
<1>3. CASE RoundOver
  BY <1>3 DEF RoundOver, EnterState, ServerOK, Waits, Waiting
<1>4. CASE EndSync
  BY <1>4 DEF EndSync, EnterState, ServerOK, Waits, Waiting
<1>5. CASE Check
  BY <1>5 DEF Check, LeaveWait, ServerOK, Waits, Resting, Waiting
<1>6. CASE TimeOut
  <2>1. CASE phase = "settings"
    BY <1>6, <2>1 DEF TimeOut, EnterState, ServerOK, Waits, Waiting
  <2>2. CASE phase # "settings"
    BY <1>6, <2>2 DEF TimeOut, LeaveWait, ServerOK, Waits, Resting, Waiting
  <2> QED
    BY <2>1, <2>2
<1>7. CASE UNCHANGED <<state, stateNext, goal, phase>>
  BY <1>7 DEF ServerOK
<1>8. ASSUME NEW c \in Clients, ClientNext(c) \/ Login(c) \/ Logout(c)
      PROVE  UNCHANGED <<state, stateNext, goal, phase>>
  BY <1>8 DEF ClientNext, Login, Logout, Ready, HandleReport, ReadSync, ReceiveConfig,
              ClientStep, AnswerSync, serverVars
<1>9. CASE ChangeMap \/ UNCHANGED vars
  BY <1>9, <1>7 DEF ChangeMap, vars, serverVars
<1> QED
  BY <1>1, <1>2, <1>3, <1>4, <1>5, <1>6, <1>7, <1>8, <1>9 DEF Next, ServerNext

LEMMA ServerStates ==
  ASSUME ServerOK
  PROVE  state \in States /\ stateNext \in States /\ goal \in States /\ phase \in Phases
BY DEF ServerOK, Resting, Waits, Waiting, States, Phases

-----------------------------------------------------------------------------
Types == TypeOK /\ ServerOK

LEMMA TypesInit == Init => Types
<1> SUFFICES ASSUME Init PROVE Types
  OBVIOUS
<1>1. ServerOK
  BY DEF Init, ServerOK, Resting
<1>2. CREATED \in States /\ TRANSFER_SETTINGS \in States /\ "loop" \in Phases
  BY DEF States, Phases
<1>3. 0 \in Maps /\ <<>> \in Seq(States) /\ 0 \in 0 .. 2
  BY EmptySeq DEF Maps
<1>4. 0 \in 0 .. MaxHasty /\ 0 \in 0 .. MaxLogins
  OBVIOUS
<1>5. stalled \in BOOLEAN
  BY DEF Init
<1> QED
  BY <1>1, <1>2, <1>3, <1>4, <1>5 DEF Init, Types, TypeOK

LEMMA StartSyncTypes ==
  ASSUME TypeOK, StartSync
  PROVE  sync_ack' \subseteq Clients /\ asked' \in [Clients -> 0 .. 2]
BY DEF TypeOK, StartSync

LEMMA SetMapTypes ==
  ASSUME TypeOK, NEW m \in Maps, SetMap(m)
  PROVE  mapfile' \in Maps /\ configs' \in [Clients -> SUBSET Maps]
BY DEF TypeOK, SetMap

LEMMA LeaveWaitTypes ==
  ASSUME Types, LeaveWait
  PROVE  syncs' \in [Clients -> Seq(States)]
<1>1. \A c \in Clients : Append(syncs[c], goal) \in Seq(States)
  BY ServerStates DEF Types, TypeOK
<1> QED
  BY <1>1 DEF LeaveWait, Types, TypeOK

LEMMA TypesStep == Types /\ [Next]_vars => Types'
<1> SUFFICES ASSUME Types, [Next]_vars PROVE TypeOK'
  BY ServerOKStep DEF Types
<1>0. /\ ServerOK'
      /\ state' \in States /\ stateNext' \in States /\ goal' \in States /\ phase' \in Phases
  <2>1. ServerOK'
    BY ServerOKStep DEF Types
  <2> QED
    BY <2>1 DEF ServerOK, Resting, Waits, Waiting, States, Phases
<1> USE DEF Types
<1>1. CASE TransferSettings
  <2>1. mapfile' \in Maps /\ configs' \in [Clients -> SUBSET Maps]
    BY <1>1, SetMapTypes DEF TransferSettings, MayChangeMap
  <2>2. sync_ack' \subseteq Clients /\ asked' \in [Clients -> 0 .. 2]
    BY <1>1, StartSyncTypes DEF TransferSettings
  <2> QED
    BY <1>0, <1>1, <2>1, <2>2 DEF TransferSettings, TypeOK, clientVars
<1>2. CASE Advance
  <2>1. mapfile' \in Maps /\ configs' \in [Clients -> SUBSET Maps]
    BY <1>2, SetMapTypes DEF Advance, MayChangeMap, TypeOK
  <2>2. sync_ack' \subseteq Clients /\ asked' \in [Clients -> 0 .. 2]
    BY <1>2, StartSyncTypes DEF Advance, EnterState
  <2>3. grid' \in Maps \cup {NoMap}
    BY <1>2 DEF Advance, TypeOK
  <2> QED
    BY <1>0, <1>2, <2>1, <2>2, <2>3 DEF Advance, TypeOK, clientVars
<1>3. CASE RoundOver
  <2>2. sync_ack' \subseteq Clients /\ asked' \in [Clients -> 0 .. 2]
    BY <1>3, StartSyncTypes DEF RoundOver, EnterState
  <2> QED
    BY <1>0, <1>3, <2>2 DEF RoundOver, TypeOK, clientVars
<1>4. CASE EndSync
  <2>2. sync_ack' \subseteq Clients /\ asked' \in [Clients -> 0 .. 2]
    BY <1>4, StartSyncTypes DEF EndSync, EnterState, TypeOK
  <2> QED
    BY <1>0, <1>4, <2>2 DEF EndSync, TypeOK, clientVars
<1>5. CASE Check
  <2>2. sync_ack' \subseteq Clients /\ asked' \in [Clients -> 0 .. 2]
    BY <1>5, StartSyncTypes DEF Check, TypeOK
  <2>3. syncs' \in [Clients -> Seq(States)]
    BY <1>5, LeaveWaitTypes DEF Check, TypeOK
  <2> QED
    BY <1>0, <1>5, <2>2, <2>3 DEF Check, TypeOK, clientVars
<1>6. CASE TimeOut
  <2>1. hasty' \in 0 .. MaxHasty /\ stalled' \in BOOLEAN
    <3>1. hasty' \in 0 .. MaxHasty
      BY <1>6 DEF TimeOut, TypeOK
    <3>2. stalled' \in BOOLEAN
      BY <1>6 DEF TimeOut
    <3> QED
      BY <3>1, <3>2
  <2>2. sync_ack' \subseteq Clients /\ asked' \in [Clients -> 0 .. 2]
    BY <1>6, StartSyncTypes DEF TimeOut, EnterState, TypeOK
  <2>3. syncs' \in [Clients -> Seq(States)]
    BY <1>6, LeaveWaitTypes DEF TimeOut, TypeOK
  <2> QED
    BY <1>0, <1>6, <2>1, <2>2, <2>3 DEF TimeOut, TypeOK, clientVars
<1>7. CASE ChangeMap
  <2>1. mapfile + 1 \in Maps
    BY <1>7 DEF ChangeMap, Maps, TypeOK
  <2>2. mapfile' \in Maps /\ configs' \in [Clients -> SUBSET Maps]
    BY <1>7, <2>1, SetMapTypes DEF ChangeMap
  <2> QED
    BY <1>0, <1>7, <2>2 DEF ChangeMap, TypeOK, serverVars, usersVars, clientVars
<1>8. ASSUME NEW c \in Clients, Login(c) PROVE TypeOK'
  <2>1. logins' \in 0 .. MaxLogins
    BY <1>8 DEF Login, TypeOK
  <2>2. client_gamestate' \in [Clients -> States]
    BY <1>8 DEF Login, Forgotten, TypeOK, States
  <2>3. configs' \in [Clients -> SUBSET Maps]
    BY <1>8 DEF Login, TypeOK
  <2>4. cstate' \in [Clients -> States] /\ cnext' \in [Clients -> States]
    BY <1>8 DEF Login, TypeOK, States
  <2>5. cmapfile' \in [Clients -> Maps \cup {NoMap}] /\ cgrid' \in [Clients -> Maps \cup {NoMap}]
    BY <1>8 DEF Login, TypeOK
  <2> QED
    BY <1>0, <1>8, <2>1, <2>2, <2>3, <2>4, <2>5 DEF Login, TypeOK, serverVars
<1>9. ASSUME NEW c \in Clients, Logout(c) PROVE TypeOK'
  <2>1. client_gamestate' \in [Clients -> States]
    BY <1>9 DEF Logout, Forgotten, TypeOK, States
  <2>2. asked' \in [Clients -> 0 .. 2] /\ syncs' \in [Clients -> Seq(States)]
    BY <1>9, EmptySeq DEF Logout, TypeOK
  <2>3. configs' \in [Clients -> SUBSET Maps] /\ reports' \in [Clients -> SUBSET States]
    BY <1>9 DEF Logout, TypeOK
  <2> QED
    BY <1>0, <1>9, <2>1, <2>2, <2>3 DEF Logout, NotReady, TypeOK, serverVars, clientVars
<1>10. ASSUME NEW c \in Clients, ClientNext(c) PROVE TypeOK'
  <2>1. CASE Ready(c)
    BY <1>0, <2>1 DEF Ready, TypeOK, serverVars, clientVars
  <2>2. CASE HandleReport(c)
    <3>1. PICK s \in reports[c] :
            /\ client_gamestate' = [client_gamestate EXCEPT ![c] = s]
            /\ reports' = [reports EXCEPT ![c] = @ \ {s}]
      BY <2>2 DEF HandleReport
    <3>2. s \in States
      BY DEF TypeOK
    <3> QED
      BY <1>0, <2>2, <3>1, <3>2 DEF HandleReport, TypeOK, serverVars, clientVars
  <2>3. CASE ReadSync(c)
    <3>1. PICK k \in 1 .. Len(syncs[c]) :
            /\ cnext' = [cnext EXCEPT ![c] = Accepted(c, syncs[c][k])]
            /\ syncs' = [syncs EXCEPT ![c] = SubSeq(@, k + 1, Len(@))]
      BY <2>3 DEF ReadSync
    <3>2. syncs[c] \in Seq(States) /\ cnext[c] \in States
      BY DEF TypeOK
    <3>3. Accepted(c, syncs[c][k]) \in States
      BY <3>2, ElementOfSeq DEF Accepted
    <3>4. SubSeq(syncs[c], k + 1, Len(syncs[c])) \in Seq(States)
      BY <3>2, SubSeqProperties, LenProperties
    <3> QED
      BY <1>0, <2>3, <3>1, <3>3, <3>4 DEF ReadSync, TypeOK, serverVars, usersVars
  <2>4. CASE ReceiveConfig(c)
    <3>1. PICK m \in configs[c] :
            /\ cmapfile' = [cmapfile EXCEPT ![c] = IF m > @ THEN m ELSE @]
            /\ configs' = [configs EXCEPT ![c] = @ \ {m}]
      BY <2>4 DEF ReceiveConfig
    <3>2. m \in Maps
      BY DEF TypeOK
    <3> QED
      BY <1>0, <2>4, <3>1, <3>2 DEF ReceiveConfig, TypeOK, serverVars, usersVars
  <2>5. CASE ClientStep(c)
    <3>1. Following[cstate[c]].act \in States
      BY FollowingInStates DEF TypeOK
    <3> QED
      BY <1>0, <2>5, <3>1 DEF ClientStep, TypeOK, serverVars, usersVars
  <2>6. CASE AnswerSync(c)
    <3>1. asked' \in [Clients -> 0 .. 2]
      <4>1. PICK k \in 0 .. asked[c] - 1 : asked' = [asked EXCEPT ![c] = k]
        BY <2>6 DEF AnswerSync
      <4>2. asked[c] \in 0 .. 2
        BY DEF TypeOK
      <4>3. k \in 0 .. 2
        BY <4>2
      <4> QED
        BY <4>1, <4>3 DEF TypeOK
    <3>2. hasty' \in 0 .. MaxHasty
      BY <2>6 DEF AnswerSync, TypeOK
    <3> QED
      BY <1>0, <2>6, <3>1, <3>2 DEF AnswerSync, TypeOK, clientVars
  <2> QED
    BY <1>10, <2>1, <2>2, <2>3, <2>4, <2>5, <2>6 DEF ClientNext
<1>11. CASE UNCHANGED vars
  BY <1>11 DEF vars, serverVars, usersVars, wireVars, clientVars, TypeOK
<1> QED
  BY <1>1, <1>2, <1>3, <1>4, <1>5, <1>6, <1>7, <1>8, <1>9, <1>10, <1>11 DEF Next, ServerNext

\* Types; the server and its clients are in states of a round, and bounds are kept.
THEOREM TypesHold == Spec => []TypeOK
<1>1. Types => TypeOK
  BY DEF Types
<1> QED
  BY <1>1, TypesInit, TypesStep, PTL DEF Spec

-----------------------------------------------------------------------------
(***************************************************************************)
(* What the clients know of stateNext.                                     *)
(***************************************************************************)
\* x is what a client that has read the value n of stateNext holds.
Agrees(x, n) == x = n \/ (x = TRANSFER_SETTINGS /\ n = DELETE_GRID)

\* x is what a client may hold that will agree when it reads n.
WillAgree(x, n) == AbeforeB(x, n) \/ Agrees(x, n)

\* A user that has not read anything yet.
Fresh(c) == c \notin game /\ cnext[c] = TRANSFER_SETTINGS

\* What is underway to a user: nothing before it is ready; afterwards the last stateNext,
\* and once more the one before for who became ready while the server was looking.
Informed(c) ==
  \/ c \notin ready /\ Fresh(c) /\ syncs[c] = <<>>
  \/ c \in ready /\ syncs[c] = <<>> /\ c \in game /\ Agrees(cnext[c], stateNext)
  \/ /\ c \in ready /\ Len(syncs[c]) = 1 /\ syncs[c][1] = stateNext
     /\ WillAgree(cnext[c], stateNext)
     /\ phase = "check" => Fresh(c)
  \/ /\ c \in ready /\ phase # "check" /\ Fresh(c)
     /\ Len(syncs[c]) = 2 /\ syncs[c][2] = stateNext /\ WillAgree(syncs[c][1], stateNext)

Quiet == \A c \in Clients \ connected : syncs[c] = <<>> /\ reports[c] = {} /\ configs[c] = {}

AllInformed == hasty = 0 => \A c \in connected : Informed(c)

Knowing == Types /\ Quiet /\ AllInformed

\* A new goal follows the old one, and everybody who agrees with that will take it.
LEMMA GoalFollows ==
  ASSUME <<state, stateNext, goal>> \in Waits, NEW x \in States, Agrees(x, stateNext)
  PROVE  WillAgree(x, goal)
BY AbeforeBLinear DEF Waits, Agrees, WillAgree, States

\* Whoever has read nothing takes any goal, or agrees with it.
LEMMA FreshWillAgree ==
  ASSUME NEW n \in States \ {CREATED, CREATE_OBJECTS, TRANSFER_OBJECTS}
  PROVE  WillAgree(TRANSFER_SETTINGS, n)
BY AbeforeBLinear DEF Agrees, WillAgree, States

LEMMA GoalsOnly ==
  ASSUME ServerOK
  PROVE  /\ stateNext \in States \ {CREATED, CREATE_OBJECTS, TRANSFER_OBJECTS}
         /\ goal \in States \ {CREATED, CREATE_OBJECTS, TRANSFER_OBJECTS}
BY DEF ServerOK, Resting, Waits, States

\* Taking what one will agree with.
LEMMA Taken ==
  ASSUME NEW c, NEW n, WillAgree(cnext[c], n)
  PROVE  Agrees(Accepted(c, n), n)
BY DEF WillAgree, Accepted, Agrees

\* LeaveWait, when every user has read what there was, or is fresh.
LEMMA LeaveWaitInforms ==
  ASSUME Types, Quiet, AllInformed, LeaveWait, phase \in Waiting, hasty = 0,
         UNCHANGED <<connected, ready, game, cnext>>,
         phase = "check" \/ \A c \in connected : c \in ready /\ syncs[c] = <<>>
  PROVE  \A c \in connected : Informed(c)'
<1> SUFFICES ASSUME NEW c \in connected PROVE Informed(c)'
  OBVIOUS
<1>1. /\ c \in Clients /\ cnext[c] \in States /\ syncs[c] \in Seq(States)
      /\ <<state, stateNext, goal>> \in Waits
  BY DEF Types, TypeOK, ServerOK, Waiting
<1>2. /\ stateNext' = goal /\ phase' = "loop"
      /\ syncs'[c] = IF c \in ready /\ goal # stateNext THEN Append(syncs[c], goal) ELSE syncs[c]
  BY <1>1 DEF LeaveWait, Types, TypeOK
<1>3. Informed(c)
  BY DEF AllInformed
<1>4. goal \in States /\ stateNext \in States
  BY ServerStates DEF Types
<1>5. CASE c \notin ready
  BY <1>2, <1>3, <1>5 DEF Informed, Fresh
<1>6. CASE c \in ready /\ syncs[c] = <<>>
  <2>1. c \in game /\ Agrees(cnext[c], stateNext)
    BY <1>3, <1>6 DEF Informed
  <2>2. WillAgree(cnext[c], goal)
    BY <1>1, <2>1, GoalFollows
  <2>3. CASE goal = stateNext
    BY <1>2, <1>6, <2>1, <2>3 DEF Informed
  <2>4. CASE goal # stateNext
    <3>1. Len(syncs'[c]) = 1 /\ syncs'[c][1] = goal
      BY <1>2, <1>4, <1>6, <2>4
    <3> QED
      BY <1>2, <1>6, <2>2, <3>1 DEF Informed
  <2> QED
    BY <2>3, <2>4
<1>7. CASE c \in ready /\ syncs[c] # <<>>
  <2>1. phase = "check"
    BY <1>7
  <2>2. /\ Len(syncs[c]) = 1 /\ syncs[c][1] = stateNext
        /\ WillAgree(cnext[c], stateNext) /\ Fresh(c)
    BY <1>3, <1>7, <2>1 DEF Informed
  <2>3. CASE goal = stateNext
    BY <1>2, <1>7, <2>2, <2>3 DEF Informed
  <2>4. CASE goal # stateNext
    <3>1. Len(syncs'[c]) = 2 /\ syncs'[c][1] = stateNext /\ syncs'[c][2] = goal
      BY <1>1, <1>2, <1>4, <1>7, <2>2, <2>4
    <3>2. WillAgree(stateNext, goal)
      BY <1>1, <1>4, GoalFollows DEF Agrees
    <3> QED
      BY <1>2, <1>4, <1>7, <2>2, <3>1, <3>2 DEF Informed, Fresh
  <2> QED
    BY <2>3, <2>4
<1> QED
  BY <1>5, <1>6, <1>7

\* A user is informed as long as nothing about it and stateNext changes.
LEMMA StaysInformed ==
  ASSUME NEW c, Informed(c), syncs'[c] = syncs[c], cnext'[c] = cnext[c],
         (c \in ready') <=> (c \in ready), (c \in game') <=> (c \in game),
         stateNext' = stateNext, phase' = "check" => phase = "check"
  PROVE  Informed(c)'
BY DEF Informed, Fresh

LEMMA KnowingInit == Init => Knowing
<1> SUFFICES ASSUME Init PROVE Knowing
  OBVIOUS
<1>1. Quiet /\ AllInformed
  BY DEF Init, Quiet, AllInformed
<1> QED
  BY <1>1, TypesInit DEF Knowing

\* hasty only grows.
LEMMA HastyStays == Types /\ [Next]_vars /\ hasty' = 0 => hasty = 0
<1> SUFFICES ASSUME Types, [Next]_vars PROVE hasty' = hasty \/ hasty' = hasty + 1
  BY DEF Types, TypeOK
<1>1. CASE ServerNext \/ ChangeMap \/ UNCHANGED vars
  BY <1>1 DEF ServerNext, TransferSettings, Advance, RoundOver, EndSync, Check, TimeOut, ChangeMap,
              vars, serverVars
<1>2. ASSUME NEW c \in Clients, ClientNext(c) \/ Login(c) \/ Logout(c)
      PROVE  hasty' = hasty \/ hasty' = hasty + 1
  BY <1>2 DEF ClientNext, Login, Logout, Ready, HandleReport, ReadSync, ReceiveConfig,
              ClientStep, AnswerSync, serverVars
<1> QED
  BY <1>1, <1>2 DEF Next

\* A timeout of SyncState that is not hasty finds nothing underway.
LEMMA IdleTimeOut ==
  ASSUME TimeOut, hasty' = 0, hasty = 0
  PROVE  Idle
BY DEF TimeOut

\* A read value takes a user to agreement, or leaves the newer one to be read.
LEMMA ReadInforms ==
  ASSUME Types, NEW c \in connected, Informed(c), ReadSync(c)
  PROVE  Informed(c)'
<1>1. PICK k \in 1 .. Len(syncs[c]) :
        /\ cnext' = [cnext EXCEPT ![c] = Accepted(c, syncs[c][k])]
        /\ syncs' = [syncs EXCEPT ![c] = SubSeq(@, k + 1, Len(@))]
  BY DEF ReadSync
<1>2. c \in Clients /\ game' = game \cup {c} /\ UNCHANGED <<ready, stateNext, phase>>
  BY DEF ReadSync, serverVars, usersVars, Types, TypeOK
<1>3. /\ cnext'[c] = Accepted(c, syncs[c][k])
      /\ syncs'[c] = SubSeq(syncs[c], k + 1, Len(syncs[c]))
  BY <1>1, <1>2 DEF Types, TypeOK
<1>4. stateNext \in States
  BY ServerStates DEF Types
<1>5. syncs[c] # <<>>
  BY <1>1
<1>6. syncs[c] \in Seq(States)
  BY <1>2 DEF Types, TypeOK
<1>7. CASE /\ Len(syncs[c]) = 1 /\ syncs[c][1] = stateNext
          /\ WillAgree(cnext[c], stateNext) /\ c \in ready
  <2>1. k = 1 /\ Len(syncs[c]) = 1 /\ syncs[c][k] = stateNext
    BY <1>1, <1>7
  <2>2. SubSeq(syncs[c], 2, 1) = <<>>
    BY <1>4, <1>6, <1>7
  <2>3. Agrees(cnext'[c], stateNext)
    BY <1>3, <1>7, <2>1, Taken
  <2> QED
    BY <1>2, <1>3, <1>7, <2>1, <2>2, <2>3 DEF Informed
<1>8. CASE /\ c \in ready /\ phase # "check" /\ Fresh(c) /\ Len(syncs[c]) = 2
          /\ syncs[c][2] = stateNext /\ WillAgree(syncs[c][1], stateNext)
  <2>1. Len(syncs[c]) = 2 /\ k \in {1, 2} /\ syncs[c][2] = stateNext
    BY <1>1, <1>8
  <2>2. WillAgree(TRANSFER_SETTINGS, stateNext)
    BY FreshWillAgree, GoalsOnly DEF Types
  <2>3. CASE k = 2
    <3>1. SubSeq(syncs[c], 3, 2) = <<>>
      BY <1>6, <1>8
    <3>2. WillAgree(cnext[c], stateNext)
      BY <1>8, <2>2 DEF Fresh
    <3>3. Agrees(cnext'[c], stateNext)
      BY <1>3, <2>1, <2>3, <3>2, Taken
    <3> QED
      BY <1>2, <1>3, <1>8, <2>1, <2>3, <3>1, <3>3 DEF Informed
  <2>4. CASE k = 1
    <3>1. Len(SubSeq(syncs[c], 2, 2)) = 1 /\ SubSeq(syncs[c], 2, 2)[1] = stateNext
      BY <1>6, <2>1
    <3>2. cnext'[c] = syncs[c][1] \/ cnext'[c] = TRANSFER_SETTINGS
      BY <1>3, <1>8, <2>1, <2>4 DEF Accepted, Fresh
    <3>3. WillAgree(cnext'[c], stateNext)
      BY <1>8, <2>2, <3>2
    <3>4. Len(syncs'[c]) = 1 /\ syncs'[c][1] = stateNext
      BY <1>3, <1>8, <2>1, <2>4, <3>1
    <3> QED
      BY <1>2, <1>8, <3>3, <3>4 DEF Informed
  <2> QED
    BY <2>1, <2>3, <2>4
<1> QED
  BY <1>5, <1>7, <1>8 DEF Informed

LEMMA KnowingStep == Knowing /\ [Next]_vars => Knowing'
<1> SUFFICES ASSUME Knowing, [Next]_vars PROVE Quiet' /\ AllInformed'
  BY TypesStep DEF Knowing
<1>0. Types /\ Quiet /\ AllInformed /\ Types'
  BY TypesStep DEF Knowing
<1>1. Quiet'
  <2>1. CASE ServerNext \/ ChangeMap \/ UNCHANGED vars
    <3>1. /\ UNCHANGED <<connected, reports>>
          /\ \A c \in Clients \ connected : syncs'[c] = syncs[c] /\ configs'[c] = configs[c]
      <4>1. ASSUME NEW c \in Clients \ connected PROVE c \notin ready
        BY <1>0 DEF Types, TypeOK
      <4> QED
        BY <2>1, <4>1 DEF ServerNext, TransferSettings, Advance, RoundOver, EndSync, Check, TimeOut,
                    ChangeMap, MayChangeMap, SetMap, LeaveWait, vars, usersVars, wireVars
    <3> QED
      BY <1>0, <3>1 DEF Quiet
  <2>2. ASSUME NEW c \in Clients, ClientNext(c) PROVE Quiet'
    <3>1. /\ connected' = connected
          /\ \A d \in Clients \ {c} : /\ syncs'[d] = syncs[d] /\ configs'[d] = configs[d]
                                     /\ reports'[d] = reports[d]
      BY <1>0, <2>2 DEF ClientNext, Ready, HandleReport, ReadSync, ReceiveConfig, ClientStep, AnswerSync,
                  usersVars, Types, TypeOK
    <3>2. CASE c \in connected
      BY <1>0, <3>1, <3>2 DEF Quiet
    <3>3. CASE c \notin connected
      <4>1. syncs[c] = <<>> /\ configs[c] = {} /\ reports[c] = {}
        BY <1>0, <3>3 DEF Quiet
      <4>2. AnswerSync(c)
        BY <2>2, <3>3, <4>1 DEF ClientNext, Ready, HandleReport, ReadSync, ReceiveConfig, ClientStep
      <4> QED
        BY <1>0, <4>2 DEF AnswerSync, Quiet
    <3> QED
      BY <3>2, <3>3
  <2>3. ASSUME NEW c \in Clients, Login(c) PROVE Quiet'
    BY <1>0, <2>3 DEF Login, Quiet, Types, TypeOK
  <2>4. ASSUME NEW c \in Clients, Logout(c) PROVE Quiet'
    BY <1>0, <2>4 DEF Logout, Quiet, Types, TypeOK
  <2> QED
    BY <2>1, <2>2, <2>3, <2>4 DEF Next
<1>2. AllInformed'
  <2> SUFFICES ASSUME hasty' = 0 PROVE \A c \in connected' : Informed(c)'
    BY DEF AllInformed
  <2>0. hasty = 0 /\ \A c \in connected : Informed(c)
    BY <1>0, HastyStays DEF AllInformed
  <2>1. CASE UNCHANGED <<connected, ready, game, cnext, syncs, stateNext>> /\ phase' # "check"
    BY <2>0, <2>1, StaysInformed
  <2>2. CASE EndSync /\ phase' = "check"
    <3>1. UNCHANGED <<connected, ready, game, cnext, syncs, stateNext>>
      BY <2>2 DEF EndSync, clientVars
    <3>2. \A c \in connected : syncs[c] = <<>>
      BY <2>2 DEF EndSync, Synced
    <3> QED
      BY <2>0, <2>2, <3>1, <3>2 DEF Informed, Fresh
  <2>3. CASE TransferSettings \/ Advance \/ RoundOver \/ (EndSync /\ phase' # "check")
    <3>1. UNCHANGED <<connected, ready, game, cnext, syncs, stateNext>> /\ phase' # "check"
      BY <2>3 DEF TransferSettings, Advance, RoundOver, EndSync, EnterState, clientVars
    <3> QED
      BY <2>1, <3>1
  <2>4. CASE Check
    <3>1. UNCHANGED <<connected, ready, game, cnext>> /\ phase = "check"
      BY <2>4 DEF Check, clientVars
    <3>2. CASE Behind
      BY <2>1, <2>4, <3>1, <3>2 DEF Check
    <3>3. CASE ~Behind
      BY <1>0, <2>0, <2>4, <3>1, <3>3, LeaveWaitInforms DEF Check, Waiting
    <3> QED
      BY <3>2, <3>3
  <2>5. CASE TimeOut
    <3>1. UNCHANGED <<connected, ready, game, cnext>>
      BY <2>5 DEF TimeOut, clientVars
    <3>2. CASE phase = "settings"
      BY <2>1, <2>5, <3>1, <3>2 DEF TimeOut, EnterState
    <3>3. CASE phase # "settings"
      <4>1. LeaveWait /\ phase \in Waiting
        BY <2>5, <3>3 DEF TimeOut, Waiting
      <4>2. \A c \in connected : c \in ready /\ syncs[c] = <<>>
        BY <2>0, <2>5, IdleTimeOut DEF Idle, Underway
      <4> QED
        BY <1>0, <2>0, <3>1, <4>1, <4>2, LeaveWaitInforms
    <3> QED
      BY <3>2, <3>3
  <2>6. CASE ChangeMap \/ UNCHANGED vars
    BY <2>0, <2>6, StaysInformed DEF ChangeMap, vars, serverVars, usersVars, wireVars, clientVars
  <2>7. ASSUME NEW c \in Clients, ClientNext(c) PROVE \A d \in connected' : Informed(d)'
    <3>1. /\ UNCHANGED <<connected, stateNext, phase>>
          /\ \A d \in Clients \ {c} : syncs'[d] = syncs[d] /\ cnext'[d] = cnext[d]
          /\ ready' \in {ready, ready \cup {c}} /\ game' \in {game, game \cup {c}}
      BY <1>0, <2>7 DEF ClientNext, Ready, HandleReport, ReadSync, ReceiveConfig, ClientStep, AnswerSync,
                  serverVars, usersVars, clientVars, Types, TypeOK
    <3>2. \A d \in connected \ {c} : Informed(d)'
      BY <1>0, <2>0, <3>1, StaysInformed DEF Types, TypeOK
    <3>3. ASSUME c \in connected PROVE Informed(c)'
      <4>1. CASE Ready(c)
        <5>1. Fresh(c) /\ syncs[c] = <<>>
          BY <2>0, <3>3, <4>1 DEF Ready, Informed
        <5>2. WillAgree(TRANSFER_SETTINGS, stateNext)
          BY <1>0, FreshWillAgree, GoalsOnly DEF Types
        <5>3. syncs'[c] = <<stateNext>> /\ c \in ready' /\ UNCHANGED <<stateNext, game, cnext>>
          BY <1>0, <4>1 DEF Ready, serverVars, clientVars, Types, TypeOK
        <5> QED
          BY <5>1, <5>2, <5>3 DEF Informed, Fresh
      <4>2. CASE ReadSync(c)
        BY <1>0, <2>0, <3>3, <4>2, ReadInforms
      <4>3. CASE HandleReport(c) \/ ReceiveConfig(c) \/ ClientStep(c) \/ AnswerSync(c)
        <5>1. UNCHANGED <<ready, game, cnext, syncs, stateNext, phase>>
          BY <4>3 DEF HandleReport, ReceiveConfig, ClientStep, AnswerSync, serverVars, usersVars, clientVars
        <5> QED
          BY <2>0, <3>3, <5>1, StaysInformed
      <4> QED
        BY <2>7, <4>1, <4>2, <4>3 DEF ClientNext
    <3> QED
      BY <3>1, <3>2, <3>3
  <2>8. ASSUME NEW c \in Clients, Login(c) PROVE \A d \in connected' : Informed(d)'
    <3>1. /\ \A d \in connected : d # c /\ syncs'[d] = syncs[d] /\ cnext'[d] = cnext[d]
          /\ ready' = ready /\ game' = game \ {c}
      BY <1>0, <2>8 DEF Login, Types, TypeOK
    <3>2. UNCHANGED <<stateNext, phase>> /\ connected' = connected \cup {c}
      BY <2>8 DEF Login, serverVars
    <3>3. /\ c \notin ready' /\ c \notin game' /\ cnext'[c] = TRANSFER_SETTINGS
          /\ syncs'[c] = <<>>
      BY <1>0, <2>8 DEF Login, Quiet, Types, TypeOK
    <3> QED
      BY <2>0, <3>1, <3>2, <3>3, StaysInformed DEF Informed, Fresh
  <2>9. ASSUME NEW c \in Clients, Logout(c) PROVE \A d \in connected' : Informed(d)'
    <3>1. /\ \A d \in connected' : /\ d \in connected \ {c}
                                 /\ syncs'[d] = syncs[d] /\ cnext'[d] = cnext[d]
          /\ ready' = ready \ {c} /\ game' = game
      BY <1>0, <2>9 DEF Logout, NotReady, clientVars, Types, TypeOK
    <3>2. UNCHANGED <<stateNext, phase>>
      BY <2>9 DEF Logout, serverVars
    <3> QED
      BY <2>0, <3>1, <3>2, StaysInformed
  <2> QED
    BY <2>2, <2>3, <2>4, <2>5, <2>6, <2>7, <2>8, <2>9 DEF Next, ServerNext
<1> QED
  BY <1>1, <1>2

LEMMA KnowingHolds == Spec => []Knowing
BY KnowingInit, KnowingStep, PTL DEF Spec

\* As long as no wait was cut short, no client refuses a stateNext as a step back and misses a
\* round for it (gGame::ReadSync, sg_AbeforeB).
THEOREM UpToDateHolds == Spec => []UpToDate
<1>1. Knowing => UpToDate
  <2> SUFFICES ASSUME Knowing, hasty = 0, NEW c \in connected \cap game, syncs[c] = <<>>
               PROVE  Agrees(cnext[c], stateNext)
    BY DEF UpToDate, Agrees
  <2>1. Informed(c) /\ ~Fresh(c)
    BY DEF Knowing, AllInformed, Fresh
  <2> QED
    BY <2>1 DEF Informed
<1> QED
  BY <1>1, KnowingHolds, PTL

-----------------------------------------------------------------------------
(***************************************************************************)
(* SyncState is a barrier: where the clients can be in the round while the *)
(* server is in one of its states, as long as no wait was cut short or was *)
(* in vain.                                                                *)
(***************************************************************************)
\* The states up to CAMERA, SYNCING and PLAY of a client that joins the round.
ToCamera == {CREATED, CREATE_GRID, CREATE_OBJECTS, TRANSFER_OBJECTS, CAMERA}
ToSyncing == ToCamera \cup {SYNCING}
ToPlay == ToSyncing \cup {PLAY}

\* With n the server's stateNext, a client in the game may be in state x and have stateNext y
\* when it has reported r and no later report has been handled.  One in CREATED has come too
\* late for this round; the one in CREATE_GRID has come while the grid is deleted, too early.
Possible(x, y, r, n) ==
  \/ /\ n = TRANSFER_SETTINGS
     /\ \/ x = CREATED /\ y \in {TRANSFER_SETTINGS, DELETE_GRID} /\ r = CREATED
        \/ x = CREATE_GRID /\ y = TRANSFER_SETTINGS /\ r \in {CREATED, CREATE_GRID}
        \/ x = DELETE_GRID /\ y \in {TRANSFER_SETTINGS, DELETE_GRID} /\ r = DELETE_GRID
        \/ x = TRANSFER_SETTINGS /\ y = TRANSFER_SETTINGS /\ r \in {TRANSFER_SETTINGS, DELETE_GRID}
  \/ /\ n = CREATE_GRID
     /\ \/ x = CREATED /\ y = CREATE_GRID /\ r = CREATED
        \/ /\ x = CREATE_GRID /\ y \in {TRANSFER_SETTINGS, CREATE_GRID}
           /\ r \in {CREATED, TRANSFER_SETTINGS, CREATE_GRID}
        \/ /\ x = TRANSFER_SETTINGS /\ y \in {TRANSFER_SETTINGS, CREATE_GRID}
           /\ r = TRANSFER_SETTINGS
  \/ /\ n = CAMERA /\ x \in ToCamera /\ r \in ToCamera /\ r <= x
     /\ y = CAMERA \/ (x = CREATE_GRID /\ y \in {TRANSFER_SETTINGS, CREATE_GRID})
  \/ /\ n = SYNCING /\ x \in ToSyncing /\ r \in ToSyncing /\ r <= x
     /\ y \in {CAMERA, SYNCING}
  \/ /\ n = PLAY /\ x \in ToPlay /\ r \in ToPlay /\ r <= x
     /\ y \in {SYNCING, PLAY}
  \/ /\ n = DELETE_OBJECTS
     /\ \/ x = CREATED /\ y = DELETE_OBJECTS /\ r = CREATED
        \/ /\ x \in {PLAY, DELETE_OBJECTS} /\ y \in {PLAY, DELETE_OBJECTS}
           /\ r \in (ToPlay \cup {DELETE_OBJECTS}) \ {CREATED} /\ r <= x
  \/ /\ n = DELETE_GRID
     /\ \/ x = CREATED /\ y \in {TRANSFER_SETTINGS, DELETE_OBJECTS, DELETE_GRID} /\ r = CREATED
        \/ x = CREATE_GRID /\ y = TRANSFER_SETTINGS /\ r \in {CREATED, CREATE_GRID}
        \/ x = DELETE_OBJECTS /\ y \in {DELETE_OBJECTS, DELETE_GRID} /\ r = DELETE_OBJECTS
        \/ x = DELETE_GRID /\ y \in {DELETE_OBJECTS, DELETE_GRID} /\ r \in {DELETE_OBJECTS, DELETE_GRID}

\* What can be reported while stateNext is n.
Reportable(n) ==
  CASE n = TRANSFER_SETTINGS -> {TRANSFER_SETTINGS, CREATE_GRID}
    [] n = CREATE_GRID -> {CREATE_GRID}
    [] n = DELETE_OBJECTS -> {DELETE_OBJECTS}
    [] n = DELETE_GRID -> {CREATE_GRID, DELETE_GRID}
    [] OTHER -> States \ {CREATED}

\* The values stateNext takes.
Nexts == States \ {CREATED, CREATE_OBJECTS, TRANSFER_OBJECTS}

\* ReadSync by a client with stateNext y.
Takes(y, new) == IF AbeforeB(y, new) THEN new ELSE y

-----------------------------------------------------------------------------
(***************************************************************************)
(* What is possible stays possible.                                        *)
(***************************************************************************)
\* A step of the client.
LEMMA StepPossible ==
  ASSUME NEW x \in States, NEW y \in States, NEW r \in States, NEW n \in Nexts,
         Possible(x, y, r, n), AbeforeB(x, y)
  PROVE  LET a == Following[x].act
         IN  Possible(a, y, r, n) /\ Possible(a, y, a, n) /\ a \in Reportable(n)
<1> DEFINE a == Following[x].act
<1>1. (x < y /\ y - x < 60) \/ x - y > 20
  BY AbeforeBLinear
<1>2. CASE n = TRANSFER_SETTINGS
  BY <1>1, <1>2, FollowingIs DEF Possible, Reportable
<1>3. CASE n = CREATE_GRID
  BY <1>1, <1>3, FollowingIs DEF Possible, Reportable
<1>4. CASE n = CAMERA
  BY <1>1, <1>4, FollowingIs DEF Possible, Reportable, ToCamera, States
<1>5. CASE n = SYNCING
  BY <1>1, <1>5, FollowingIs DEF Possible, Reportable, ToCamera, ToSyncing, States
<1>6. CASE n = PLAY
  BY <1>1, <1>6, FollowingIs DEF Possible, Reportable, ToCamera, ToSyncing, ToPlay, States
<1>7. CASE n = DELETE_OBJECTS
  BY <1>1, <1>7, FollowingIs DEF Possible, Reportable, ToCamera, ToSyncing, ToPlay, States
<1>8. CASE n = DELETE_GRID
  BY <1>1, <1>8, FollowingIs DEF Possible, Reportable
<1> QED
  BY <1>2, <1>3, <1>4, <1>5, <1>6, <1>7, <1>8 DEF Nexts, States

\* The client reads the current stateNext.
LEMMA ReadPossible ==
  ASSUME NEW x \in States, NEW y \in States, NEW r \in States, NEW n \in Nexts,
         Possible(x, y, r, n)
  PROVE  Possible(x, Takes(y, n), r, n)
<1>1. AbeforeB(y, n) <=> (y < n /\ n - y < 60) \/ y - n > 20
  BY AbeforeBLinear DEF Nexts
<1>2. CASE Takes(y, n) = y
  BY <1>2
<1>3. CASE Takes(y, n) = n /\ AbeforeB(y, n)
  <2>1. (y < n /\ n - y < 60) \/ y - n > 20
    BY <1>1, <1>3
  <2>2. CASE n \in {TRANSFER_SETTINGS, CREATE_GRID}
    BY <1>3, <2>1, <2>2 DEF Possible
  <2>3. CASE n = CAMERA
    BY <1>3, <2>3 DEF Possible
  <2>4. CASE n = SYNCING
    BY <1>3, <2>4 DEF Possible
  <2>5. CASE n = PLAY
    BY <1>3, <2>5 DEF Possible
  <2>6. CASE n \in {DELETE_OBJECTS, DELETE_GRID}
    BY <1>3, <2>1, <2>6 DEF Possible
  <2> QED
    BY <2>2, <2>3, <2>4, <2>5, <2>6 DEF Nexts, States
<1> QED
  BY <1>2, <1>3 DEF Takes

\* A client that has just got the game.
LEMMA NewcomerPossible ==
  ASSUME NEW n \in Nexts
  PROVE  Possible(CREATED, Takes(TRANSFER_SETTINGS, n), CREATED, n)
<1>1. AbeforeB(TRANSFER_SETTINGS, n) <=>
        (TRANSFER_SETTINGS < n /\ n - TRANSFER_SETTINGS < 60) \/ TRANSFER_SETTINGS - n > 20
  BY AbeforeBLinear DEF Nexts, States
<1>2. CASE n = TRANSFER_SETTINGS
  BY <1>1, <1>2 DEF Possible, Takes
<1>3. CASE n \in {CREATE_GRID, CAMERA}
  BY <1>1, <1>3 DEF Possible, Takes, ToCamera
<1>4. CASE n = SYNCING
  BY <1>1, <1>4 DEF Possible, Takes, ToCamera, ToSyncing
<1>5. CASE n = PLAY
  BY <1>1, <1>5 DEF Possible, Takes, ToCamera, ToSyncing, ToPlay
<1>6. CASE n \in {DELETE_OBJECTS, DELETE_GRID}
  BY <1>1, <1>6 DEF Possible, Takes
<1> QED
  BY <1>2, <1>3, <1>4, <1>5, <1>6 DEF Nexts, States

\* Whose report is not behind the server's state, is not behind it.
LEMMA ReportsAreTrue ==
  ASSUME NEW x \in States, NEW y \in States, NEW r \in States,
         <<state, stateNext, goal>> \in Waits, Possible(x, y, r, stateNext), ~AbeforeB(r, state)
  PROVE  ~AbeforeB(x, state)
<1>1. state \in States
  BY DEF Waits, States
<1>2. /\ AbeforeB(x, state) <=> (x < state /\ state - x < 60) \/ x - state > 20
      /\ AbeforeB(r, state) <=> (r < state /\ state - r < 60) \/ r - state > 20
  BY <1>1, AbeforeBLinear
<1> QED
  BY <1>2 DEF Possible, Waits, ToCamera, ToSyncing, ToPlay, States

\* When the wait is over, the goal becomes stateNext: the last report handled is k, and r
\* is k or underway since this wait began.
LEMMA GoalPossible ==
  ASSUME NEW x \in States, NEW y \in States, NEW r \in States, NEW k \in States,
         <<state, stateNext, goal>> \in Waits, ~AbeforeB(k, state),
         Possible(x, y, k, stateNext), Possible(x, y, r, stateNext), Agrees(y, stateNext),
         r = k \/ r \in Reportable(stateNext)
  PROVE  Possible(x, y, r, goal)
<1>1. state \in States
  BY DEF Waits, States
<1>2. AbeforeB(k, state) <=> (k < state /\ state - k < 60) \/ k - state > 20
  BY <1>1, AbeforeBLinear
<1>3. ~AbeforeB(x, state)
  BY ReportsAreTrue
<1>4. AbeforeB(x, state) <=> (x < state /\ state - x < 60) \/ x - state > 20
  BY <1>1, AbeforeBLinear
<1>5. CASE stateNext = goal
  BY <1>5
<1>6. CASE stateNext = TRANSFER_SETTINGS
  BY <1>2, <1>3, <1>4, <1>6 DEF Possible, Waits, Reportable, Agrees, ToCamera
<1>7. CASE stateNext = CREATE_GRID
  BY <1>2, <1>3, <1>4, <1>7 DEF Possible, Waits, Reportable, Agrees, ToCamera
<1>8. CASE stateNext = CAMERA /\ goal = SYNCING
  BY <1>8 DEF Possible, Agrees, ToCamera, ToSyncing
<1>9. CASE stateNext = SYNCING
  BY <1>9 DEF Possible, Waits, Agrees, ToSyncing, ToPlay
<1>10. CASE stateNext = PLAY /\ goal = DELETE_OBJECTS
  BY <1>2, <1>3, <1>4, <1>10 DEF Possible, Waits, Reportable, Agrees, ToCamera, ToSyncing, ToPlay, States
<1>11. CASE stateNext = DELETE_OBJECTS
  BY <1>2, <1>3, <1>4, <1>11 DEF Possible, Waits, Reportable, Agrees, ToCamera, ToSyncing, ToPlay
<1>12. CASE stateNext = DELETE_GRID
  BY <1>2, <1>3, <1>4, <1>12 DEF Possible, Waits, Reportable, Agrees
<1> QED
  BY <1>5, <1>6, <1>7, <1>8, <1>9, <1>10, <1>11, <1>12 DEF Waits

\* Of a client that has reported nothing when the wait is over.
LEMMA LatecomerPossible ==
  ASSUME <<state, stateNext, goal>> \in Waits, ~AbeforeB(CREATED, state)
  PROVE  Possible(CREATED, Takes(TRANSFER_SETTINGS, stateNext), CREATED, goal)
<1>1. AbeforeB(CREATED, state) <=> (CREATED < state /\ state - CREATED < 60) \/ CREATED - state > 20
  BY AbeforeBLinear DEF Waits, States
<1>2. state = stateNext /\ stateNext \in {DELETE_OBJECTS, DELETE_GRID}
  BY <1>1 DEF Waits
<1>3. AbeforeB(TRANSFER_SETTINGS, stateNext) <=>
        (TRANSFER_SETTINGS < stateNext /\ stateNext - TRANSFER_SETTINGS < 60)
        \/ TRANSFER_SETTINGS - stateNext > 20
  BY <1>2, AbeforeBLinear DEF States
<1> QED
  BY <1>2, <1>3 DEF Waits, Possible, Takes

-----------------------------------------------------------------------------
(***************************************************************************)
(* Where the clients are.                                                  *)
(***************************************************************************)
\* What a client has reported that the server may still believe.
Reported(c) == reports[c] \cup {client_gamestate[c]}

Placed(c) ==
  /\ c \notin game => /\ cstate[c] = CREATED /\ cnext[c] = TRANSFER_SETTINGS
                      /\ client_gamestate[c] = CREATED /\ reports[c] = {}
  /\ c \in game => \A r \in Reported(c) : Possible(cstate[c], cnext[c], r, stateNext)
  /\ Len(syncs[c]) = 2 =>
       Possible(CREATED, Takes(TRANSFER_SETTINGS, syncs[c][1]), CREATED, stateNext)
  /\ phase = "check" \/ (phase # "loop" /\ c \in sync_ack) =>
       reports[c] \subseteq Reportable(stateNext)

AllPlaced == hasty = 0 /\ ~stalled => \A c \in connected : Placed(c)

Barrier == Knowing /\ AllPlaced

\* A user stays where it is.
LEMMA StaysPlaced ==
  ASSUME NEW c, Placed(c), syncs'[c] = syncs[c], cnext'[c] = cnext[c], cstate'[c] = cstate[c],
         client_gamestate'[c] = client_gamestate[c], reports'[c] = reports[c],
         (c \in game') <=> (c \in game), stateNext' = stateNext,
         phase' = "check" \/ (phase' # "loop" /\ c \in sync_ack') =>
           phase = "check" \/ (phase # "loop" /\ c \in sync_ack)
  PROVE  Placed(c)'
<1>1. Reported(c)' = Reported(c)
  BY DEF Reported
<1> QED
  BY <1>1 DEF Placed

\* The server stops waiting.
LEMMA LeavePlaced ==
  ASSUME Types, AllInformed, AllPlaced, hasty = 0, ~stalled, LeaveWait, phase \in Waiting, ~Behind,
         UNCHANGED <<connected, ready, client_gamestate, reports, game, cstate, cnext>>,
         phase = "check" \/
           \A c \in connected : c \in ready /\ syncs[c] = <<>> /\ reports[c] = {}
  PROVE  \A c \in connected : Placed(c)'
<1> SUFFICES ASSUME NEW c \in connected PROVE Placed(c)'
  OBVIOUS
<1>1. /\ c \in Clients /\ syncs[c] \in Seq(States)
      /\ cstate[c] \in States /\ cnext[c] \in States
      /\ client_gamestate[c] \in States /\ reports[c] \subseteq States
      /\ <<state, stateNext, goal>> \in Waits
  BY DEF Types, TypeOK, ServerOK, Waiting
<1>2. /\ stateNext' = goal /\ phase' = "loop"
      /\ syncs'[c] = IF c \in ready /\ goal # stateNext THEN Append(syncs[c], goal) ELSE syncs[c]
  BY <1>1 DEF LeaveWait, Types, TypeOK
<1>3. Informed(c) /\ Placed(c) /\ ~AbeforeB(client_gamestate[c], state)
  BY DEF AllInformed, AllPlaced, Behind
<1>4. goal \in States
  BY ServerStates DEF Types
<1>5. ASSUME c \in game, NEW r \in Reported(c)
      PROVE  Possible(cstate[c], cnext[c], r, goal)
  <2>1. Agrees(cnext[c], stateNext)
    BY <1>3, <1>5 DEF Informed, Fresh
  <2>2. r = client_gamestate[c] \/ r \in Reportable(stateNext)
    BY <1>3 DEF Reported, Placed
  <2>3. r \in States /\ client_gamestate[c] \in Reported(c)
    BY <1>1 DEF Reported
  <2> QED
    BY <1>1, <1>3, <1>5, <2>1, <2>2, <2>3, GoalPossible DEF Placed
<1>6. ASSUME Len(syncs'[c]) = 2
      PROVE  Possible(CREATED, Takes(TRANSFER_SETTINGS, syncs'[c][1]), CREATED, goal)
  <2>1. Len(syncs[c]) = 1 /\ syncs[c][1] = stateNext /\ c \notin game /\ syncs'[c][1] = syncs[c][1]
    BY <1>1, <1>2, <1>3, <1>4, <1>6 DEF Informed, Fresh
  <2> QED
    BY <1>1, <1>3, <2>1, LatecomerPossible DEF Placed
<1>7. Reported(c)' = Reported(c)
  BY DEF Reported
<1> QED
  BY <1>2, <1>3, <1>5, <1>6, <1>7 DEF Placed

\* A client reads a value of stateNext.
LEMMA ReadPlaced ==
  ASSUME Types, NEW c \in connected, Informed(c), Placed(c), ReadSync(c)
  PROVE  Placed(c)'
<1>1. PICK k \in 1 .. Len(syncs[c]) :
        /\ cnext' = [cnext EXCEPT ![c] = Accepted(c, syncs[c][k])]
        /\ syncs' = [syncs EXCEPT ![c] = SubSeq(@, k + 1, Len(@))]
  BY DEF ReadSync
<1>2. /\ c \in Clients /\ c \in game'
      /\ UNCHANGED <<ready, client_gamestate, sync_ack, reports, cstate, stateNext, phase>>
  BY DEF ReadSync, serverVars, usersVars, Types, TypeOK
<1>3. /\ cnext'[c] = Takes(cnext[c], syncs[c][k])
      /\ syncs'[c] = SubSeq(syncs[c], k + 1, Len(syncs[c]))
      /\ syncs[c] \in Seq(States) /\ Reported(c)' = Reported(c)
      /\ cstate[c] \in States /\ cnext[c] \in States /\ Reported(c) \subseteq States
  BY <1>1, <1>2 DEF Types, TypeOK, Accepted, Takes, Reported
<1>4. stateNext \in Nexts
  BY GoalsOnly DEF Types, Nexts
<1>5. Len(syncs[c]) \in {1, 2} /\ syncs[c][Len(syncs[c])] = stateNext
  BY <1>1 DEF Informed
<1>6. Len(syncs'[c]) # 2
  <2>1. CASE k = Len(syncs[c])
    BY <1>3, <2>1
  <2>2. CASE k = 1 /\ Len(syncs[c]) = 2
    BY <1>3, <2>2
  <2> QED
    BY <1>1, <1>5, <2>1, <2>2
<1>7. \A r \in Reported(c) : Possible(cstate[c], cnext'[c], r, stateNext)
  <2>1. CASE k = Len(syncs[c]) /\ c \in game
    BY <1>3, <1>4, <1>5, <2>1, ReadPossible DEF Placed
  <2>2. CASE c \notin game
    <3>1. Reported(c) = {CREATED} /\ cstate[c] = CREATED /\ cnext[c] = TRANSFER_SETTINGS
      BY <2>2 DEF Placed, Reported
    <3>2. CASE k = Len(syncs[c])
      BY <1>3, <1>4, <1>5, <3>1, <3>2, NewcomerPossible
    <3>3. CASE k = 1 /\ Len(syncs[c]) = 2
      BY <1>3, <3>1, <3>3 DEF Placed
    <3> QED
      BY <1>1, <1>5, <3>2, <3>3
  <2> QED
    BY <1>1, <1>5, <2>1, <2>2 DEF Informed, Fresh
<1> QED
  BY <1>2, <1>3, <1>6, <1>7 DEF Placed

\* A client goes on, and reports it.
LEMMA StepPlaced ==
  ASSUME Types, NEW c \in connected, Placed(c), ClientStep(c)
  PROVE  Placed(c)'
<1> DEFINE s == Following[cstate[c]].act
<1>1. /\ c \in Clients /\ c \in game /\ AbeforeB(cstate[c], cnext[c])
      /\ UNCHANGED <<client_gamestate, sync_ack, syncs, game, cnext, stateNext, phase>>
  BY DEF ClientStep, serverVars, usersVars, Types, TypeOK
<1>2. cstate'[c] = s /\ reports'[c] = reports[c] \cup {s}
  BY <1>1 DEF ClientStep, Types, TypeOK
<1>3. cstate[c] \in States /\ cnext[c] \in States /\ Reported(c) \subseteq States
  BY <1>1 DEF Types, TypeOK, Reported
<1>4. stateNext \in Nexts
  BY GoalsOnly DEF Types, Nexts
<1>5. \A r \in Reported(c) : /\ Possible(s, cnext[c], r, stateNext)
                            /\ Possible(s, cnext[c], s, stateNext)
                            /\ s \in Reportable(stateNext)
  BY <1>1, <1>3, <1>4, StepPossible DEF Placed
<1>6. client_gamestate[c] \in Reported(c) /\ Reported(c)' = Reported(c) \cup {s}
  BY <1>1, <1>2 DEF Reported
<1> QED
  BY <1>1, <1>2, <1>5, <1>6 DEF Placed

LEMMA BarrierInit == Init => Barrier
<1> SUFFICES ASSUME Init PROVE Barrier
  OBVIOUS
<1>1. AllPlaced
  BY DEF Init, AllPlaced
<1> QED
  BY <1>1, KnowingInit DEF Barrier

LEMMA StalledStays == [Next]_vars /\ stalled => stalled'
BY DEF Next, ServerNext, ClientNext, TransferSettings, Advance, RoundOver, EndSync, Check, TimeOut,
       ChangeMap, Login, Logout, Ready, HandleReport, ReadSync, ReceiveConfig, ClientStep,
       AnswerSync, vars, serverVars

\* A wait that ends in time, and was not in vain, ends for nobody behind.
LEMMA NobodyBehind ==
  ASSUME Knowing, hasty = 0, hasty' = 0, ~stalled', phase # "loop", phase' = "loop", [Next]_vars
  PROVE  /\ LeaveWait /\ phase \in Waiting /\ ~Behind
         /\ UNCHANGED <<state, connected, ready, client_gamestate, reports, game, cstate, cnext>>
         /\ UNCHANGED <<mapfile, grid, configs, cmapfile, cgrid>>
         /\ phase = "check" \/
              \A c \in connected :
                c \in ready /\ syncs[c] = <<>> /\ configs[c] = {} /\ reports[c] = {}
<1>1. CASE Check
  BY <1>1 DEF Check, clientVars, Waiting
<1>2. CASE TimeOut
  <2>1. Idle
    BY <1>2, IdleTimeOut
  <2>2. phase # "settings"
    BY <1>2 DEF TimeOut, EnterState
  <2> QED
    BY <1>2, <2>1, <2>2 DEF TimeOut, clientVars, Waiting, Idle, Underway
<1>3. CASE TransferSettings \/ Advance \/ RoundOver \/ EndSync
  BY <1>3 DEF TransferSettings, Advance, RoundOver, EndSync, EnterState
<1>4. phase' = phase \/ ServerNext
  BY DEF Next, ClientNext, ChangeMap, Login, Logout, Ready, HandleReport, ReadSync, ReceiveConfig,
         ClientStep, AnswerSync, vars, serverVars
<1> QED
  BY <1>1, <1>2, <1>3, <1>4 DEF ServerNext

LEMMA BarrierStep == Barrier /\ [Next]_vars => Barrier'
<1> SUFFICES ASSUME Barrier, [Next]_vars, hasty' = 0, ~stalled'
             PROVE  \A c \in connected' : Placed(c)'
  BY KnowingStep DEF Barrier, AllPlaced
<1>0. /\ Knowing /\ Types /\ Quiet /\ AllInformed /\ AllPlaced /\ hasty = 0 /\ ~stalled
      /\ \A c \in connected : Informed(c) /\ Placed(c)
  BY HastyStays, StalledStays DEF Barrier, Knowing, AllInformed, AllPlaced
<1>1. CASE /\ UNCHANGED <<connected, client_gamestate, reports, game, cstate, cnext, syncs, stateNext>>
           /\ sync_ack' = {} /\ phase' # "check"
  BY <1>0, <1>1, StaysPlaced
<1>2. CASE TransferSettings \/ Advance \/ RoundOver
  BY <1>1, <1>2 DEF TransferSettings, Advance, RoundOver, EnterState, StartSync, clientVars
<1>3. CASE EndSync
  <2>1. CASE phase # "again"
    BY <1>1, <1>3, <2>1 DEF EndSync, EnterState, StartSync, clientVars
  <2>2. CASE phase = "again"
    <3>1. /\ UNCHANGED <<connected, client_gamestate, reports, game, cstate, cnext, syncs, stateNext>>
          /\ \A c \in connected : c \in sync_ack
      BY <1>3, <2>2 DEF EndSync, Synced, clientVars
    <3> QED
      BY <1>0, <2>2, <3>1, StaysPlaced
  <2> QED
    BY <2>1, <2>2
<1>4. CASE Check \/ TimeOut
  <2>1. CASE phase' = "loop"
    <3>1. phase # "loop"
      BY <1>4 DEF Check, TimeOut
    <3> QED
      BY <1>0, <2>1, <3>1, NobodyBehind, LeavePlaced
  <2>2. CASE phase' # "loop"
    BY <1>1, <1>4, <2>2 DEF Check, TimeOut, EnterState, StartSync, LeaveWait, clientVars
  <2> QED
    BY <2>1, <2>2
<1>5. CASE ChangeMap \/ UNCHANGED vars
  BY <1>0, <1>5, StaysPlaced DEF ChangeMap, vars, serverVars, usersVars, wireVars, clientVars
<1>6. ASSUME NEW c \in Clients, ClientNext(c) PROVE \A d \in connected' : Placed(d)'
  <2>1. /\ UNCHANGED <<connected, stateNext, phase>>
        /\ \A d \in Clients \ {c} : /\ syncs'[d] = syncs[d] /\ cnext'[d] = cnext[d]
                                   /\ cstate'[d] = cstate[d] /\ reports'[d] = reports[d]
                                   /\ client_gamestate'[d] = client_gamestate[d]
        /\ game' \in {game, game \cup {c}} /\ sync_ack' \in {sync_ack, sync_ack \cup {c}}
    BY <1>0, <1>6 DEF ClientNext, Ready, HandleReport, ReadSync, ReceiveConfig, ClientStep, AnswerSync,
                serverVars, usersVars, clientVars, Types, TypeOK
  <2>2. \A d \in connected \ {c} : Placed(d)'
    BY <1>0, <2>1, StaysPlaced DEF Types, TypeOK
  <2>3. ASSUME c \in connected PROVE Placed(c)'
    <3>1. CASE Ready(c)
      <4>1. /\ Len(syncs'[c]) = 1
            /\ UNCHANGED <<game, cstate, cnext, client_gamestate, reports, sync_ack, stateNext, phase>>
        BY <1>0, <3>1 DEF Ready, serverVars, clientVars, Types, TypeOK
      <4>2. Reported(c)' = Reported(c)
        BY <4>1 DEF Reported
      <4> QED
        BY <1>0, <2>3, <4>1, <4>2 DEF Placed
    <3>2. CASE HandleReport(c)
      <4>1. /\ UNCHANGED <<game, cstate, cnext, syncs, sync_ack, stateNext, phase>>
            /\ reports'[c] \subseteq reports[c] /\ client_gamestate'[c] \in reports[c]
        BY <1>0, <3>2 DEF HandleReport, serverVars, clientVars, Types, TypeOK
      <4>2. Reported(c)' \subseteq Reported(c)
        BY <4>1 DEF Reported
      <4> QED
        BY <1>0, <2>3, <4>1, <4>2 DEF Placed
    <3>3. CASE ReadSync(c)
      BY <1>0, <2>3, <3>3, ReadPlaced
    <3>4. CASE ClientStep(c)
      BY <1>0, <2>3, <3>4, StepPlaced
    <3>5. CASE AnswerSync(c)
      <4>1. /\ UNCHANGED <<game, cstate, cnext, client_gamestate, reports, syncs, stateNext, phase>>
            /\ reports[c] = {}
        BY <1>0, <3>5 DEF AnswerSync, Drained, clientVars, Types, TypeOK
      <4>2. Reported(c)' = Reported(c)
        BY <4>1 DEF Reported
      <4> QED
        BY <1>0, <2>3, <4>1, <4>2 DEF Placed
    <3>6. CASE ReceiveConfig(c)
      <4>1. UNCHANGED <<game, cstate, cnext, client_gamestate, reports, syncs, sync_ack, stateNext, phase>>
        BY <3>6 DEF ReceiveConfig, serverVars, usersVars
      <4> QED
        BY <1>0, <2>3, <4>1, StaysPlaced
    <3> QED
      BY <1>6, <3>1, <3>2, <3>3, <3>4, <3>5, <3>6 DEF ClientNext
  <2> QED
    BY <2>1, <2>2, <2>3
<1>7. ASSUME NEW c \in Clients, Login(c) PROVE \A d \in connected' : Placed(d)'
  <2>1. /\ \A d \in connected : /\ d # c /\ cnext'[d] = cnext[d] /\ cstate'[d] = cstate[d]
                               /\ client_gamestate'[d] = client_gamestate[d]
        /\ UNCHANGED <<syncs, reports, sync_ack, stateNext, phase>>
        /\ game' = game \ {c} /\ connected' = connected \cup {c}
    BY <1>0, <1>7 DEF Login, Forgotten, serverVars, Types, TypeOK
  <2>2. /\ cstate'[c] = CREATED /\ cnext'[c] = TRANSFER_SETTINGS /\ client_gamestate'[c] = CREATED
        /\ syncs[c] = <<>> /\ reports[c] = {}
    BY <1>0, <1>7 DEF Login, Forgotten, Quiet, Types, TypeOK
  <2>3. Placed(c)'
    BY <2>1, <2>2 DEF Placed
  <2> QED
    BY <1>0, <2>1, <2>3, StaysPlaced
<1>8. ASSUME NEW c \in Clients, Logout(c) PROVE \A d \in connected' : Placed(d)'
  <2>1. /\ \A d \in connected' : /\ d \in connected /\ syncs'[d] = syncs[d] /\ reports'[d] = reports[d]
                                /\ client_gamestate'[d] = client_gamestate[d]
        /\ UNCHANGED <<game, cstate, cnext, sync_ack, stateNext, phase>>
    BY <1>0, <1>8 DEF Logout, Forgotten, serverVars, clientVars, Types, TypeOK
  <2> QED
    BY <1>0, <2>1, StaysPlaced
<1> QED
  BY <1>2, <1>3, <1>4, <1>5, <1>6, <1>7, <1>8 DEF Next, ServerNext

LEMMA BarrierHolds == Spec => []Barrier
BY BarrierInit, BarrierStep, PTL DEF Spec

\* SyncState is a barrier: as long as no wait was cut short or was in vain, the server stops
\* waiting only when each client in the game has really reached its state or is ahead
\* (gGame::SyncState, client_gamestate_handler).
THEOREM WaitsForAllHolds == Spec => WaitsForAll
<1>1. Barrier /\ [Next]_vars =>
        [phase # "loop" /\ phase' = "loop" /\ hasty' = 0 /\ ~stalled' =>
           \A c \in connected \cap game : ~AbeforeB(cstate[c], state)]_vars
  <2> SUFFICES ASSUME Barrier, [Next]_vars, phase # "loop", phase' = "loop", hasty' = 0, ~stalled',
                      NEW c \in connected \cap game
               PROVE  ~AbeforeB(cstate[c], state)
    OBVIOUS
  <2>1. Types /\ Knowing /\ hasty = 0 /\ ~stalled
    BY HastyStays, StalledStays DEF Barrier, Knowing
  <2>2. phase \in Waiting /\ ~AbeforeB(client_gamestate[c], state)
    BY <2>1, NobodyBehind DEF Behind
  <2>3. Possible(cstate[c], cnext[c], client_gamestate[c], stateNext)
    BY <2>1 DEF Barrier, AllPlaced, Placed, Reported
  <2>4. /\ cstate[c] \in States /\ cnext[c] \in States /\ client_gamestate[c] \in States
        /\ <<state, stateNext, goal>> \in Waits
    BY <2>1, <2>2 DEF Types, TypeOK, ServerOK, Waiting
  <2> QED
    BY <2>2, <2>3, <2>4, ReportsAreTrue
<1> QED
  BY <1>1, BarrierHolds, PTL DEF Spec, WaitsForAll

-----------------------------------------------------------------------------
(***************************************************************************)
(* ReadyGridIsCurrent.  Other than WaitsForAll it holds when a wait was in *)
(* vain, too: then a report that was overtaken by older ones may make a    *)
(* client look as if it had got further than it has, and it may straggle   *)
(* into the next round.                                                    *)
(*                                                                         *)
(* In the definitions below a client in the game is in state x and has     *)
(* stateNext y; k is what the server believes and Q what is underway.      *)
(***************************************************************************)
ToDelete == ToPlay \cup {DELETE_OBJECTS}

\* The reports of a client that has got to x.
UpTo(S, x) == {r \in S \ {CREATED} : r <= x}

\* Reports from before the round.
Old == {TRANSFER_SETTINGS, DELETE_GRID}

\* A client that has come in while the grid is deleted.
Early(x, k, Q) ==
  \/ x = CREATED /\ k = CREATED /\ Q = {}
  \/ x = CREATE_GRID /\ k = CREATE_GRID /\ Q \subseteq {CREATE_GRID}
  \/ x = CREATE_GRID /\ k = CREATED /\ Q = {CREATE_GRID}

\* A client that has not been waited for: the server had an old report of CREATE_GRID.
Straggling(x, k, Q) ==
  \/ x = DELETE_OBJECTS /\ k = CREATE_GRID /\ Q = {}
  \/ x = DELETE_GRID /\ k = CREATE_GRID /\ Q = {DELETE_GRID}
  \/ x = DELETE_GRID /\ k = DELETE_GRID /\ Q = {}
  \/ x = TRANSFER_SETTINGS /\ k \in {CREATE_GRID} \cup Old /\ Q \subseteq Old

\* A client in the round, whose states so far are those of S.
Joined(S, x, k, Q) ==
  /\ x \in S \ {CREATED}
  /\ k \in UpTo(S, x) \/ (k = CREATED /\ Q # {})
  /\ Q \subseteq UpTo(S, x)

\* Where a client can be when the server's stateNext is n: straggling if late, with old reports
\* underway if old.
Found(x, y, k, Q, n, late, old) ==
  \/ /\ n = TRANSFER_SETTINGS
     /\ \/ Early(x, k, Q) /\ y = TRANSFER_SETTINGS
        \/ x = CREATED /\ k = CREATED /\ Q = {} /\ y = DELETE_GRID
        \/ Straggling(x, k, Q) /\ y = TRANSFER_SETTINGS
        \/ Straggling(x, k, Q) /\ x # TRANSFER_SETTINGS /\ y = DELETE_GRID
  \/ /\ n = CREATE_GRID
     /\ \/ x = CREATED /\ k = CREATED /\ Q = {} /\ y = CREATE_GRID
        \/ /\ x = CREATE_GRID /\ y \in {TRANSFER_SETTINGS, CREATE_GRID}
           /\ k \in {CREATE_GRID} \cup Old \/ (k = CREATED /\ Q # {})
           /\ Q \subseteq {CREATE_GRID} \cup Old
        \/ Straggling(x, k, Q) /\ y \in {TRANSFER_SETTINGS, CREATE_GRID}
  \/ /\ n = CAMERA
     /\ \/ x = CREATED /\ k = CREATED /\ Q = {} /\ y = CAMERA
        \/ /\ x \in ToCamera \ {CREATED}
           /\ y = CAMERA \/ (x = CREATE_GRID /\ y \in {TRANSFER_SETTINGS, CREATE_GRID})
           /\ k \in UpTo(ToCamera, x) \cup Old \/ (k = CREATED /\ Q # {})
           /\ Q \subseteq UpTo(ToCamera, x) \cup Old
           /\ old \/ Q \cap Old = {}
        \/ Straggling(x, k, Q) /\ y \in {TRANSFER_SETTINGS, CREATE_GRID, CAMERA} /\ late
  \/ /\ n = SYNCING /\ y \in {CAMERA, SYNCING}
     /\ \/ x = CREATED /\ k = CREATED /\ Q = {}
        \/ Joined(ToSyncing, x, k, Q)
        \/ k \in Old /\ x = CAMERA /\ Q = {}
        \/ k \in Old /\ x = SYNCING /\ Q = {SYNCING}
  \/ /\ n = PLAY /\ y \in {SYNCING, PLAY}
     /\ \/ x = CREATED /\ k = CREATED /\ Q = {}
        \/ Joined(ToPlay, x, k, Q)
  \/ /\ n = DELETE_OBJECTS
     /\ \/ x = CREATED /\ k = CREATED /\ Q = {} /\ y = DELETE_OBJECTS
        \/ /\ x \in {PLAY, DELETE_OBJECTS} /\ y \in {PLAY, DELETE_OBJECTS}
           /\ k \in UpTo(ToDelete, x) /\ Q \subseteq UpTo(ToDelete, x)
           /\ DELETE_OBJECTS \in Q => k # DELETE_OBJECTS
  \/ /\ n = DELETE_GRID
     /\ \/ Early(x, k, Q) /\ y = TRANSFER_SETTINGS
        \/ x = CREATED /\ k = CREATED /\ Q = {} /\ y \in {DELETE_OBJECTS, DELETE_GRID}
        \/ /\ y \in {DELETE_OBJECTS, DELETE_GRID}
           /\ \/ x = DELETE_OBJECTS /\ k \in UpTo(ToDelete, x) /\ Q = {}
              \/ x = DELETE_GRID /\ k \in UpTo(ToDelete, x) /\ Q = {DELETE_GRID}
              \/ x = DELETE_GRID /\ k = DELETE_GRID /\ Q = {}

\* What can be reported then.
Underways(n, late) ==
  CASE n \in {TRANSFER_SETTINGS, CREATE_GRID} -> {CREATE_GRID} \cup Old
    [] n = CAMERA -> (ToCamera \ {CREATED}) \cup (IF late THEN Old ELSE {})
    [] n = DELETE_OBJECTS -> {DELETE_OBJECTS}
    [] n = DELETE_GRID -> {CREATE_GRID, DELETE_GRID}
    [] OTHER -> States \ {CREATED}

-----------------------------------------------------------------------------
(***************************************************************************)
(* What can be found afterwards.                                           *)
(***************************************************************************)
\* A step of the client.
LEMMA StepFound ==
  ASSUME NEW x \in States, NEW y \in States, NEW k \in States, NEW Q \in SUBSET States,
         NEW n \in Nexts, NEW late \in BOOLEAN, NEW old \in BOOLEAN, late => old,
         Found(x, y, k, Q, n, late, old), AbeforeB(x, y)
  PROVE  LET a == Following[x].act
         IN  Found(a, y, k, Q \cup {a}, n, late, old) /\ a \in Underways(n, late)
<1> DEFINE a == Following[x].act
<1>1. (x < y /\ y - x < 60) \/ x - y > 20
  BY AbeforeBLinear
<1>2. CASE n = TRANSFER_SETTINGS
  BY <1>1, <1>2, FollowingIs DEF Found, Underways, Early, Straggling, Old
<1>3. CASE n = CREATE_GRID
  BY <1>1, <1>3, FollowingIs DEF Found, Underways, Straggling, Old
<1>4. CASE n = CAMERA
  BY <1>1, <1>4, FollowingIs DEF Found, Underways, Straggling, Old, ToCamera, UpTo, States
<1>5. CASE n = SYNCING
  BY <1>1, <1>5, FollowingIs DEF Found, Underways, Old, ToCamera, ToSyncing, UpTo, Joined, States
<1>6. CASE n = PLAY
  BY <1>1, <1>6, FollowingIs DEF Found, Underways, ToCamera, ToSyncing, ToPlay, UpTo, Joined, States
<1>7. CASE n = DELETE_OBJECTS
  BY <1>1, <1>7, FollowingIs DEF Found, Underways, ToCamera, ToSyncing, ToPlay, ToDelete, UpTo
<1>8. CASE n = DELETE_GRID
  <2>1. CASE x = DELETE_OBJECTS
    BY <1>1, <1>8, <2>1, FollowingIs, StatesAreNumbers DEF Found, Underways, Early, UpTo
  <2>2. CASE x # DELETE_OBJECTS
    BY <1>1, <1>8, <2>2, FollowingIs DEF Found, Underways, Early
  <2> QED
    BY <2>1, <2>2
<1> QED
  BY <1>2, <1>3, <1>4, <1>5, <1>6, <1>7, <1>8 DEF Nexts, States

\* The client reads the current stateNext.
LEMMA ReadFound ==
  ASSUME NEW x \in States, NEW y \in States, NEW k \in States, NEW Q \in SUBSET States,
         NEW n \in Nexts, NEW late \in BOOLEAN, NEW old \in BOOLEAN,
         Found(x, y, k, Q, n, late, old)
  PROVE  Found(x, Takes(y, n), k, Q, n, late, old)
<1>1. AbeforeB(y, n) <=> (y < n /\ n - y < 60) \/ y - n > 20
  BY AbeforeBLinear DEF Nexts
<1>2. CASE Takes(y, n) = y
  BY <1>2
<1>3. CASE Takes(y, n) = n /\ AbeforeB(y, n)
  <2>1. (y < n /\ n - y < 60) \/ y - n > 20
    BY <1>1, <1>3
  <2>2. CASE n \in {TRANSFER_SETTINGS, CREATE_GRID}
    BY <1>3, <2>1, <2>2 DEF Found, Early
  <2>3. CASE n = CAMERA
    BY <1>3, <2>3 DEF Found
  <2>4. CASE n = SYNCING
    BY <1>3, <2>4 DEF Found
  <2>5. CASE n = PLAY
    BY <1>3, <2>5 DEF Found
  <2>6. CASE n = DELETE_OBJECTS
    BY <1>3, <2>6 DEF Found
  <2>7. CASE n = DELETE_GRID
    BY <1>3, <2>1, <2>7 DEF Found
  <2> QED
    BY <2>2, <2>3, <2>4, <2>5, <2>6, <2>7 DEF Nexts, States
<1> QED
  BY <1>2, <1>3 DEF Takes

\* The server handles one of the reports underway.
LEMMA ReportFound ==
  ASSUME NEW x \in States, NEW y \in States, NEW k \in States, NEW Q \in SUBSET States,
         NEW n \in Nexts, NEW late \in BOOLEAN, NEW old \in BOOLEAN,
         Found(x, y, k, Q, n, late, old), NEW q \in Q
  PROVE  Found(x, y, q, Q \ {q}, n, late, old)
<1>1. CASE n = TRANSFER_SETTINGS
  BY <1>1 DEF Found, Early, Straggling, Old
<1>2. CASE n = CREATE_GRID
  BY <1>2 DEF Found, Straggling, Old
<1>3. CASE n = CAMERA
  BY <1>3 DEF Found, Straggling, Old
<1>4. CASE n = SYNCING
  BY <1>4 DEF Found, Joined, UpTo, ToSyncing, ToCamera
<1>5. CASE n = PLAY
  BY <1>5 DEF Found, Joined
<1>6. CASE n = DELETE_OBJECTS
  BY <1>6 DEF Found
<1>7. CASE n = DELETE_GRID
  BY <1>7 DEF Found, Early
<1> QED
  BY <1>1, <1>2, <1>3, <1>4, <1>5, <1>6, <1>7 DEF Nexts, States

\* A client that has just got the game.
LEMMA NewcomerFound ==
  ASSUME NEW n \in Nexts, NEW late, NEW old
  PROVE  Found(CREATED, Takes(TRANSFER_SETTINGS, n), CREATED, {}, n, late, old)
<1>1. AbeforeB(TRANSFER_SETTINGS, n) <=>
        (TRANSFER_SETTINGS < n /\ n - TRANSFER_SETTINGS < 60) \/ TRANSFER_SETTINGS - n > 20
  BY AbeforeBLinear DEF Nexts, States
<1>2. CASE n = TRANSFER_SETTINGS
  BY <1>1, <1>2 DEF Found, Takes, Early
<1>3. CASE n \in {CREATE_GRID, CAMERA}
  BY <1>1, <1>3 DEF Found, Takes
<1>4. CASE n \in {SYNCING, PLAY}
  BY <1>1, <1>4 DEF Found, Takes
<1>5. CASE n \in {DELETE_OBJECTS, DELETE_GRID}
  BY <1>1, <1>5 DEF Found, Takes, Early
<1> QED
  BY <1>2, <1>3, <1>4, <1>5 DEF Nexts, States

\* A client that is found when late and old are excluded is found without that.
LEMMA FoundLater ==
  ASSUME NEW x, NEW y, NEW k, NEW Q, NEW n, NEW late \in BOOLEAN, NEW old \in BOOLEAN,
         NEW later \in BOOLEAN, NEW older \in BOOLEAN,
         n = CAMERA => (late => later) /\ (old => older), Found(x, y, k, Q, n, late, old)
  PROVE  Found(x, y, k, Q, n, later, older)
BY DEF Found

-----------------------------------------------------------------------------
(***************************************************************************)
(* The end of a wait.                                                      *)
(***************************************************************************)
Joining == {CAMERA, SYNCING, PLAY}

LateWait == state \in {CREATE_GRID, CREATE_OBJECTS}
OldWait == state \in {CREATE_GRID, CREATE_OBJECTS, TRANSFER_OBJECTS}

\* The wait has ended for this client: what the server believes is not behind, and reports from
\* before the wait are through; or it has done all there is to do, and all its reports are through.
Done(x, y, k, Q) ==
  \/ ~AbeforeB(k, state) /\ Q \subseteq Underways(stateNext, LateWait)
  \/ ~AbeforeB(x, y) /\ Q = {}

\* The goal becomes stateNext.
LEMMA GoalFound ==
  ASSUME NEW x \in States, NEW y \in States, NEW k \in States, NEW Q \in SUBSET States,
         <<state, stateNext, goal>> \in Waits, Found(x, y, k, Q, stateNext, LateWait, OldWait),
         Agrees(y, stateNext), Done(x, y, k, Q)
  PROVE  Found(x, y, k, Q, goal, state = CREATE_GRID, LateWait)
<1>1. state \in States
  BY DEF Waits, States
<1>2. /\ AbeforeB(k, state) <=> (k < state /\ state - k < 60) \/ k - state > 20
      /\ AbeforeB(x, y) <=> (x < y /\ y - x < 60) \/ x - y > 20
  BY <1>1, AbeforeBLinear
<1>3. CASE stateNext = TRANSFER_SETTINGS /\ goal = CAMERA
  BY <1>2, <1>3 DEF Found, Done, Waits, Underways, Agrees, Early, Straggling, Old, UpTo, ToCamera,
                   LateWait, OldWait
<1>4. CASE stateNext = CREATE_GRID
  BY <1>2, <1>4 DEF Found, Done, Waits, Underways, Agrees, Straggling, Old, UpTo, ToCamera,
                   LateWait, OldWait
<1>5. CASE stateNext = CAMERA /\ goal = CAMERA
  BY <1>2, <1>5 DEF Found, Done, Waits, Underways, Agrees, Straggling, Old, UpTo, ToCamera,
                   LateWait, OldWait
<1>6. CASE stateNext = CAMERA /\ goal = SYNCING
  BY <1>2, <1>6 DEF Found, Done, Waits, Underways, Agrees, Old, UpTo, ToCamera, ToSyncing, Joined,
                   LateWait, OldWait
<1>7. CASE stateNext = SYNCING
  BY <1>2, <1>7 DEF Found, Done, Waits, Underways, Agrees, Old, UpTo, ToSyncing, ToPlay, Joined
<1>8. CASE stateNext = PLAY /\ goal = DELETE_OBJECTS
  BY <1>2, <1>8 DEF Found, Done, Waits, Agrees, UpTo, ToCamera, ToSyncing, ToPlay, ToDelete, Joined
<1>9. CASE stateNext = PLAY /\ goal = PLAY
  BY <1>9 DEF Found
<1>10. CASE stateNext = DELETE_OBJECTS
  <2>1. k \in UpTo(ToDelete, x) => k \in {CREATE_GRID, CREATE_OBJECTS, TRANSFER_OBJECTS, CAMERA,
                                          SYNCING, PLAY, DELETE_OBJECTS}
    BY DEF UpTo, ToDelete, ToPlay, ToSyncing, ToCamera
  <2> QED
    BY <1>2, <1>10, <2>1 DEF Found, Done, Waits, Underways, Agrees, Early, UpTo
<1>11. CASE stateNext = DELETE_GRID
  <2>1. k \in UpTo(ToDelete, x) => k \in {CREATE_GRID, CREATE_OBJECTS, TRANSFER_OBJECTS, CAMERA,
                                          SYNCING, PLAY, DELETE_OBJECTS}
    BY DEF UpTo, ToDelete, ToPlay, ToSyncing, ToCamera
  <2> QED
    BY <1>2, <1>11, <2>1 DEF Found, Done, Waits, Underways, Agrees, Early, Straggling, Old
<1>12. CASE stateNext = TRANSFER_SETTINGS /\ goal = CREATE_GRID
  BY <1>2, <1>12 DEF Found, Done, Waits, Underways, Agrees, Early, Straggling, Old
<1> QED
  BY <1>3, <1>4, <1>5, <1>6, <1>7, <1>8, <1>9, <1>10, <1>11, <1>12 DEF Waits

\* Of a client that has got the game, but not read it when the wait is over.
LEMMA LatecomerFound ==
  ASSUME <<state, stateNext, goal>> \in Waits, ~AbeforeB(CREATED, state), NEW late, NEW old
  PROVE  Found(CREATED, Takes(TRANSFER_SETTINGS, stateNext), CREATED, {}, goal, late, old)
<1>1. AbeforeB(CREATED, state) <=> (CREATED < state /\ state - CREATED < 60) \/ CREATED - state > 20
  BY AbeforeBLinear DEF Waits, States
<1>2. state = stateNext /\ stateNext \in {DELETE_OBJECTS, DELETE_GRID}
  BY <1>1 DEF Waits
<1>3. AbeforeB(TRANSFER_SETTINGS, stateNext) <=>
        (TRANSFER_SETTINGS < stateNext /\ stateNext - TRANSFER_SETTINGS < 60)
        \/ TRANSFER_SETTINGS - stateNext > 20
  BY <1>2, AbeforeBLinear DEF States
<1> QED
  BY <1>2, <1>3 DEF Waits, Found, Early, Takes

\* When the round begins, no client has a grid yet; when it ends, all that have one are in PLAY.
LEMMA OnGoal ==
  ASSUME NEW x \in States, NEW y \in States, NEW k \in States, NEW Q \in SUBSET States,
         <<state, stateNext, goal>> \in Waits, Found(x, y, k, Q, stateNext, LateWait, OldWait),
         Agrees(y, stateNext), Done(x, y, k, Q)
  PROVE  /\ stateNext \notin Joining /\ goal \in Joining => x \notin CREATE_OBJECTS .. PLAY
         /\ stateNext = PLAY /\ goal = DELETE_OBJECTS => x \in {CREATED, PLAY}
<1>1. state \in States
  BY DEF Waits, States
<1>2. /\ AbeforeB(k, state) <=> (k < state /\ state - k < 60) \/ k - state > 20
      /\ AbeforeB(x, y) <=> (x < y /\ y - x < 60) \/ x - y > 20
  BY <1>1, AbeforeBLinear
<1>3. CASE stateNext \in {TRANSFER_SETTINGS, CREATE_GRID} /\ goal \in Joining
  BY <1>2, <1>3 DEF Found, Early, Straggling, Waits, Joining
<1>4. CASE stateNext = PLAY /\ goal = DELETE_OBJECTS
  <2>1. x \in ToPlay
    BY <1>4 DEF Found, Joined, ToPlay, ToSyncing, ToCamera
  <2>2. x \in {CREATED, PLAY, DELETE_OBJECTS}
    BY <1>4, GoalFound DEF Found
  <2> QED
    BY <1>4, <2>1, <2>2 DEF ToPlay, ToSyncing, ToCamera, Joining
<1> QED
  BY <1>3, <1>4 DEF Waits, Joining

-----------------------------------------------------------------------------
(***************************************************************************)
(* Where the clients are, whether waits were in vain or not.               *)
(***************************************************************************)
\* As long as the server is in CREATE_GRID or waits for clients to get to CREATE_OBJECTS, there may
\* be stragglers; their last reports may be underway for two states more.
LateNow == state = CREATE_GRID \/ (state = CREATE_OBJECTS /\ phase # "loop")
OldNow ==
  LateNow \/ state = CREATE_OBJECTS \/ (state = TRANSFER_OBJECTS /\ phase # "loop")

\* The client has answered the sn_Sync of this wait.
Waited(c) == phase = "check" \/ (phase # "loop" /\ c \in sync_ack)

AtHome(c) ==
  /\ c \notin game => /\ cstate[c] = CREATED /\ cnext[c] = TRANSFER_SETTINGS
                      /\ client_gamestate[c] = CREATED /\ reports[c] = {}
  /\ c \in game =>
       Found(cstate[c], cnext[c], client_gamestate[c], reports[c], stateNext, LateNow, OldNow)
  /\ Len(syncs[c]) = 2 =>
       Found(CREATED, Takes(TRANSFER_SETTINGS, syncs[c][1]), CREATED, {}, stateNext, LateNow, OldNow)
  /\ Waited(c) => reports[c] \subseteq Underways(stateNext, LateNow)

AllAtHome == hasty = 0 => \A c \in connected : AtHome(c)

\* A user stays where it is, and the server does not begin to exclude stragglers.
LEMMA StaysAtHome ==
  ASSUME NEW c, AtHome(c), syncs'[c] = syncs[c], cnext'[c] = cnext[c], cstate'[c] = cstate[c],
         client_gamestate'[c] = client_gamestate[c], reports'[c] = reports[c],
         (c \in game') <=> (c \in game), stateNext' = stateNext,
         stateNext = CAMERA => (LateNow => LateNow') /\ (OldNow => OldNow'),
         Waited(c)' => Waited(c) /\ LateNow' = LateNow
  PROVE  AtHome(c)'
<1>1. LateNow \in BOOLEAN /\ OldNow \in BOOLEAN /\ LateNow' \in BOOLEAN /\ OldNow' \in BOOLEAN
  BY DEF LateNow, OldNow
<1>2. \A x, y, k, Q : Found(x, y, k, Q, stateNext, LateNow, OldNow) =>
                        Found(x, y, k, Q, stateNext, LateNow', OldNow')
  BY <1>1, FoundLater
<1>3. c \in game' => Found(cstate[c], cnext[c], client_gamestate[c], reports[c], stateNext,
                           LateNow', OldNow')
  BY <1>2 DEF AtHome
<1>4. Len(syncs[c]) = 2 => Found(CREATED, Takes(TRANSFER_SETTINGS, syncs[c][1]), CREATED, {},
                                 stateNext, LateNow', OldNow')
  BY <1>2 DEF AtHome
<1>5. Waited(c)' => reports[c] \subseteq Underways(stateNext, LateNow')
  BY DEF AtHome
<1> QED
  BY <1>3, <1>4, <1>5 DEF AtHome

\* A wait that ends in time ends because nobody is behind, or because nobody has anything to do.
LEMMA WaitEnds ==
  ASSUME Knowing, hasty = 0, hasty' = 0, phase # "loop", phase' = "loop", [Next]_vars
  PROVE  /\ LeaveWait /\ phase \in Waiting
         /\ UNCHANGED <<state, connected, ready, client_gamestate, reports, game, cstate, cnext>>
         /\ UNCHANGED <<mapfile, grid, configs, cmapfile, cgrid>>
         /\ \/ phase = "check" /\ ~Behind
            \/ \A c \in connected :
                 /\ c \in ready /\ syncs[c] = <<>> /\ configs[c] = {} /\ reports[c] = {}
                 /\ c \in game => ~AbeforeB(cstate[c], cnext[c])
<1>1. CASE Check
  BY <1>1 DEF Check, clientVars, Waiting
<1>2. CASE TimeOut
  <2>1. Idle
    BY <1>2, IdleTimeOut
  <2>2. phase # "settings"
    BY <1>2 DEF TimeOut, EnterState
  <2> QED
    BY <1>2, <2>1, <2>2 DEF TimeOut, clientVars, Waiting, Idle, Underway
<1>3. CASE TransferSettings \/ Advance \/ RoundOver \/ EndSync
  BY <1>3 DEF TransferSettings, Advance, RoundOver, EndSync, EnterState
<1>4. phase' = phase \/ ServerNext
  BY DEF Next, ClientNext, ChangeMap, Login, Logout, Ready, HandleReport, ReadSync, ReceiveConfig,
         ClientStep, AnswerSync, vars, serverVars
<1> QED
  BY <1>1, <1>2, <1>3, <1>4 DEF ServerNext

\* What is known of a client in the game when the wait ends.
LEMMA DoneAtEnd ==
  ASSUME Knowing, AllAtHome, hasty = 0, phase \in Waiting, NEW c \in connected, c \in game,
         \/ phase = "check" /\ ~Behind
         \/ syncs[c] = <<>> /\ reports[c] = {} /\ ~AbeforeB(cstate[c], cnext[c])
  PROVE  /\ cstate[c] \in States /\ cnext[c] \in States /\ client_gamestate[c] \in States
         /\ reports[c] \in SUBSET States /\ <<state, stateNext, goal>> \in Waits
         /\ Found(cstate[c], cnext[c], client_gamestate[c], reports[c], stateNext, LateWait, OldWait)
         /\ Agrees(cnext[c], stateNext)
         /\ Done(cstate[c], cnext[c], client_gamestate[c], reports[c])
<1>1. /\ cstate[c] \in States /\ cnext[c] \in States /\ client_gamestate[c] \in States
      /\ reports[c] \in SUBSET States /\ <<state, stateNext, goal>> \in Waits
  BY DEF Knowing, Types, TypeOK, ServerOK, Waiting
<1>2. LateNow = LateWait /\ OldNow = OldWait
  BY DEF LateNow, OldNow, LateWait, OldWait, Waiting
<1>3. Informed(c) /\ AtHome(c)
  BY DEF Knowing, AllInformed, AllAtHome
<1>4. Agrees(cnext[c], stateNext)
  BY <1>3 DEF Informed, Fresh
<1>5. Done(cstate[c], cnext[c], client_gamestate[c], reports[c])
  BY <1>2, <1>3 DEF AtHome, Waited, Done, Behind
<1> QED
  BY <1>1, <1>2, <1>3, <1>4, <1>5 DEF AtHome

\* Nothing becomes two values by appending one.
LEMMA SecondAppended ==
  ASSUME NEW s \in Seq(States), NEW e \in States, Len(Append(s, e)) = 2
  PROVE  s # <<>>
<1>1. ASSUME s = <<>> PROVE FALSE
  <2>1. Append(s, e) = <<e>>
    BY <1>1
  <2> QED
    BY <2>1
<1> QED
  BY <1>1

\* The server stops waiting.
LEMMA LeaveAtHome ==
  ASSUME Knowing, AllAtHome, [Next]_vars, hasty = 0, hasty' = 0, phase # "loop", phase' = "loop",
         NEW c \in connected
  PROVE  AtHome(c)'
<1>1. /\ LeaveWait /\ phase \in Waiting
      /\ UNCHANGED <<state, client_gamestate, reports, game, cstate, cnext>>
      /\ \/ phase = "check" /\ ~Behind
         \/ /\ syncs[c] = <<>> /\ reports[c] = {}
            /\ c \in game => ~AbeforeB(cstate[c], cnext[c])
  BY WaitEnds
<1>2. c \in Clients /\ syncs[c] \in Seq(States) /\ <<state, stateNext, goal>> \in Waits
  BY <1>1 DEF Knowing, Types, TypeOK, ServerOK, Waiting
<1>3. /\ stateNext' = goal
      /\ syncs'[c] = IF c \in ready /\ goal # stateNext THEN Append(syncs[c], goal) ELSE syncs[c]
  BY <1>1, <1>2 DEF LeaveWait, Knowing, Types, TypeOK
<1>4. Informed(c) /\ AtHome(c)
  BY DEF Knowing, AllInformed, AllAtHome
<1>5. LateNow' = (state = CREATE_GRID) /\ OldNow' = LateWait /\ ~Waited(c)'
  BY <1>1 DEF LateNow, OldNow, LateWait, Waited
<1>6. ASSUME c \in game
      PROVE  Found(cstate[c], cnext[c], client_gamestate[c], reports[c], goal, LateNow', OldNow')
  BY <1>1, <1>5, <1>6, DoneAtEnd, GoalFound
<1>7. ASSUME Len(syncs'[c]) = 2
      PROVE  Found(CREATED, Takes(TRANSFER_SETTINGS, syncs'[c][1]), CREATED, {}, goal, LateNow', OldNow')
  <2>1. goal \in States
    BY ServerStates DEF Knowing, Types
  <2>2. syncs[c] # <<>>
    <3>1. CASE syncs'[c] = syncs[c]
      BY <1>7, <3>1
    <3>2. CASE syncs'[c] = Append(syncs[c], goal)
      BY <1>2, <1>7, <2>1, <3>2, SecondAppended
    <3> QED
      BY <1>3, <3>1, <3>2
  <2>3. phase = "check" /\ ~Behind
    BY <1>1, <2>2
  <2>4. Len(syncs[c]) = 1 /\ syncs[c][1] = stateNext /\ c \notin game /\ syncs'[c][1] = syncs[c][1]
    BY <1>2, <1>3, <1>4, <1>7, <2>1, <2>3 DEF Informed, Fresh
  <2>5. ~AbeforeB(CREATED, state)
    BY <1>4, <2>3, <2>4 DEF AtHome, Behind
  <2> QED
    BY <1>2, <2>4, <2>5, LatecomerFound
<1> QED
  BY <1>1, <1>3, <1>4, <1>5, <1>6, <1>7 DEF AtHome

\* A client reads a value of stateNext.
LEMMA ReadAtHome ==
  ASSUME Types, NEW c \in connected, Informed(c), AtHome(c), ReadSync(c)
  PROVE  AtHome(c)'
<1>1. PICK k \in 1 .. Len(syncs[c]) :
        /\ cnext' = [cnext EXCEPT ![c] = Accepted(c, syncs[c][k])]
        /\ syncs' = [syncs EXCEPT ![c] = SubSeq(@, k + 1, Len(@))]
  BY DEF ReadSync
<1>2. /\ c \in Clients /\ c \in game'
      /\ UNCHANGED <<state, client_gamestate, sync_ack, reports, cstate, stateNext, phase>>
  BY DEF ReadSync, serverVars, usersVars, Types, TypeOK
<1>3. /\ cnext'[c] = Takes(cnext[c], syncs[c][k])
      /\ syncs'[c] = SubSeq(syncs[c], k + 1, Len(syncs[c]))
      /\ syncs[c] \in Seq(States)
      /\ cstate[c] \in States /\ cnext[c] \in States
      /\ client_gamestate[c] \in States /\ reports[c] \in SUBSET States
  BY <1>1, <1>2 DEF Types, TypeOK, Accepted, Takes
<1>4. stateNext \in Nexts
  BY GoalsOnly DEF Types, Nexts
<1>5. LateNow \in BOOLEAN /\ OldNow \in BOOLEAN /\ LateNow' = LateNow /\ OldNow' = OldNow
      /\ Waited(c)' = Waited(c)
  BY <1>2 DEF LateNow, OldNow, Waited
<1>6. Len(syncs[c]) \in {1, 2} /\ syncs[c][Len(syncs[c])] = stateNext
  BY <1>1 DEF Informed
<1>7. Len(syncs'[c]) # 2
  <2>1. CASE k = Len(syncs[c])
    BY <1>3, <2>1
  <2>2. CASE k = 1 /\ Len(syncs[c]) = 2
    BY <1>3, <2>2
  <2> QED
    BY <1>1, <1>6, <2>1, <2>2
<1>8. Found(cstate[c], cnext'[c], client_gamestate[c], reports[c], stateNext, LateNow, OldNow)
  <2>1. CASE k = Len(syncs[c]) /\ c \in game
    BY <1>3, <1>4, <1>5, <1>6, <2>1, ReadFound DEF AtHome
  <2>2. CASE c \notin game
    <3>1. /\ cstate[c] = CREATED /\ cnext[c] = TRANSFER_SETTINGS
          /\ client_gamestate[c] = CREATED /\ reports[c] = {}
      BY <2>2 DEF AtHome
    <3>2. CASE k = Len(syncs[c])
      BY <1>3, <1>4, <1>6, <3>1, <3>2, NewcomerFound
    <3>3. CASE k = 1 /\ Len(syncs[c]) = 2
      BY <1>3, <3>1, <3>3 DEF AtHome
    <3> QED
      BY <1>1, <1>6, <3>2, <3>3
  <2> QED
    BY <1>1, <1>6, <2>1, <2>2 DEF Informed, Fresh
<1> QED
  BY <1>2, <1>5, <1>7, <1>8 DEF AtHome

\* A client goes on, and reports it.
LEMMA StepAtHome ==
  ASSUME Types, NEW c \in connected, AtHome(c), ClientStep(c)
  PROVE  AtHome(c)'
<1> DEFINE s == Following[cstate[c]].act
<1>1. /\ c \in Clients /\ c \in game /\ AbeforeB(cstate[c], cnext[c])
      /\ UNCHANGED <<state, client_gamestate, sync_ack, syncs, game, cnext, stateNext, phase>>
  BY DEF ClientStep, serverVars, usersVars, Types, TypeOK
<1>2. cstate'[c] = s /\ reports'[c] = reports[c] \cup {s}
  BY <1>1 DEF ClientStep, Types, TypeOK
<1>3. /\ cstate[c] \in States /\ cnext[c] \in States
      /\ client_gamestate[c] \in States /\ reports[c] \in SUBSET States
  BY <1>1 DEF Types, TypeOK
<1>4. stateNext \in Nexts
  BY GoalsOnly DEF Types, Nexts
<1>5. /\ LateNow \in BOOLEAN /\ OldNow \in BOOLEAN /\ (LateNow => OldNow)
      /\ LateNow' = LateNow /\ OldNow' = OldNow /\ Waited(c)' = Waited(c)
  BY <1>1 DEF LateNow, OldNow, Waited
<1>6. /\ Found(s, cnext[c], client_gamestate[c], reports[c] \cup {s}, stateNext, LateNow, OldNow)
      /\ s \in Underways(stateNext, LateNow)
  <2>1. Found(cstate[c], cnext[c], client_gamestate[c], reports[c], stateNext, LateNow, OldNow)
    BY <1>1 DEF AtHome
  <2>2. \A x, y, k \in States, Q \in SUBSET States :
          Found(x, y, k, Q, stateNext, LateNow, OldNow) /\ AbeforeB(x, y) =>
            /\ Found(Following[x].act, y, k, Q \cup {Following[x].act}, stateNext, LateNow, OldNow)
            /\ Following[x].act \in Underways(stateNext, LateNow)
    BY <1>4, <1>5, StepFound
  <2> QED
    BY <1>1, <1>3, <2>1, <2>2
<1> QED
  BY <1>1, <1>2, <1>5, <1>6 DEF AtHome

\* The server handles a report.
LEMMA ReportAtHome ==
  ASSUME Types, NEW c \in connected, AtHome(c), HandleReport(c)
  PROVE  AtHome(c)'
<1>1. /\ c \in Clients
      /\ UNCHANGED <<state, cstate, sync_ack, syncs, game, cnext, stateNext, phase>>
  BY DEF HandleReport, serverVars, clientVars, Types, TypeOK
<1>2. PICK q \in reports[c] : client_gamestate'[c] = q /\ reports'[c] = reports[c] \ {q}
  BY <1>1 DEF HandleReport, Types, TypeOK
<1>3. /\ cstate[c] \in States /\ cnext[c] \in States
      /\ client_gamestate[c] \in States /\ reports[c] \in SUBSET States
  BY <1>1 DEF Types, TypeOK
<1>4. stateNext \in Nexts
  BY GoalsOnly DEF Types, Nexts
<1>5. /\ LateNow \in BOOLEAN /\ OldNow \in BOOLEAN
      /\ LateNow' = LateNow /\ OldNow' = OldNow /\ Waited(c)' = Waited(c)
  BY <1>1 DEF LateNow, OldNow, Waited
<1>6. c \in game
  BY <1>2 DEF AtHome
<1>7. Found(cstate[c], cnext[c], q, reports[c] \ {q}, stateNext, LateNow, OldNow)
  BY <1>2, <1>3, <1>4, <1>5, <1>6, ReportFound DEF AtHome
<1> QED
  BY <1>1, <1>2, <1>5, <1>6, <1>7 DEF AtHome

\* While stateNext stays CAMERA and no wait ends, stragglers are not excluded.
LEMMA NowStays ==
  ASSUME Types, [Next]_vars, stateNext' = stateNext, phase = "loop" \/ phase' # "loop",
         stateNext = CAMERA
  PROVE  (LateNow => LateNow') /\ (OldNow => OldNow')
<1>1. CASE Advance
  <2>1. /\ state' = Following[state].act /\ phase' = "first" /\ phase = "loop"
        /\ <<state, stateNext>> \in Resting
    BY <1>1 DEF Advance, EnterState, Types, ServerOK, Waiting
  <2>2. <<state', stateNext>> \in {<<CREATE_OBJECTS, CAMERA>>, <<TRANSFER_OBJECTS, CAMERA>>,
                                   <<CAMERA, CAMERA>>}
        /\ (state' = TRANSFER_OBJECTS => state = CREATE_OBJECTS)
        /\ (state' = CAMERA => state = TRANSFER_OBJECTS)
    BY <2>1, FollowingIs DEF Resting
  <2> QED
    BY <2>1, <2>2 DEF LateNow, OldNow
<1>2. CASE TransferSettings \/ RoundOver
  BY <1>2 DEF TransferSettings, RoundOver, Types, ServerOK, Resting, Waiting
<1>3. CASE EndSync \/ Check \/ TimeOut
  <2>1. phase # "settings"
    BY DEF Types, ServerOK, Waiting
  <2>2. state' = state /\ phase # "loop"
    BY <1>3, <2>1 DEF EndSync, Check, TimeOut
  <2> QED
    BY <2>2 DEF LateNow, OldNow
<1>4. CASE ~ServerNext
  <2>1. UNCHANGED <<state, phase>>
    BY <1>4 DEF Next, ClientNext, ChangeMap, Login, Logout, Ready, HandleReport, ReadSync,
                ReceiveConfig, ClientStep, AnswerSync, vars, serverVars
  <2> QED
    BY <2>1 DEF LateNow, OldNow
<1> QED
  BY <1>1, <1>2, <1>3, <1>4 DEF ServerNext

Home == Knowing /\ AllAtHome

LEMMA HomeInit == Init => Home
<1> SUFFICES ASSUME Init PROVE AllAtHome
  BY KnowingInit DEF Home
<1> QED
  BY DEF Init, AllAtHome

LEMMA HomeStep == Home /\ [Next]_vars => Home'
<1> SUFFICES ASSUME Home, [Next]_vars, hasty' = 0
             PROVE  \A c \in connected' : AtHome(c)'
  BY KnowingStep DEF Home, AllAtHome
<1>0. /\ Knowing /\ Types /\ Quiet /\ AllInformed /\ AllAtHome /\ hasty = 0
      /\ \A c \in connected : Informed(c) /\ AtHome(c)
  BY HastyStays DEF Home, Knowing, AllInformed, AllAtHome
<1>1. CASE /\ UNCHANGED <<connected, client_gamestate, reports, game, cstate, cnext, syncs, stateNext>>
           /\ sync_ack' = {} /\ phase' \notin {"check", "loop"}
  <2>1. \A c \in connected : ~Waited(c)'
    BY <1>1 DEF Waited
  <2>2. stateNext = CAMERA => (LateNow => LateNow') /\ (OldNow => OldNow')
    BY <1>0, <1>1, NowStays
  <2> QED
    BY <1>0, <1>1, <2>1, <2>2, StaysAtHome
<1>2. CASE TransferSettings \/ Advance \/ RoundOver
  BY <1>1, <1>2 DEF TransferSettings, Advance, RoundOver, EnterState, StartSync, clientVars
<1>3. CASE EndSync
  <2>1. CASE phase # "again"
    BY <1>1, <1>3, <2>1 DEF EndSync, EnterState, StartSync, clientVars
  <2>2. CASE phase = "again"
    <3>1. /\ UNCHANGED <<connected, client_gamestate, reports, game, cstate, cnext, syncs, stateNext>>
          /\ UNCHANGED <<state, sync_ack>> /\ phase' = "check"
          /\ \A c \in connected : c \in sync_ack
      BY <1>3, <2>2 DEF EndSync, Synced, clientVars
    <3>2. LateNow' = LateNow /\ OldNow' = OldNow /\ \A c \in connected : Waited(c)
      BY <2>2, <3>1 DEF LateNow, OldNow, Waited
    <3> QED
      BY <1>0, <3>1, <3>2, StaysAtHome
  <2> QED
    BY <2>1, <2>2
<1>4. CASE Check \/ TimeOut
  <2>1. CASE phase' = "loop"
    <3>1. phase # "loop" /\ connected' = connected
      BY <1>4 DEF Check, TimeOut
    <3> QED
      BY <1>0, <2>1, <3>1, LeaveAtHome
  <2>2. CASE phase' # "loop"
    BY <1>1, <1>4, <2>2 DEF Check, TimeOut, EnterState, StartSync, LeaveWait, clientVars
  <2> QED
    BY <2>1, <2>2
<1>5. ASSUME UNCHANGED <<state, stateNext, phase>>
      PROVE  LateNow' = LateNow /\ OldNow' = OldNow
  BY <1>5 DEF LateNow, OldNow
<1>6. CASE ChangeMap \/ UNCHANGED vars
  <2>1. /\ UNCHANGED <<connected, client_gamestate, reports, game, cstate, cnext, syncs, stateNext>>
        /\ UNCHANGED <<state, phase, sync_ack>>
    BY <1>6 DEF ChangeMap, vars, serverVars, usersVars, wireVars, clientVars
  <2>2. \A c \in connected : Waited(c)' = Waited(c)
    BY <2>1 DEF Waited
  <2> QED
    BY <1>0, <1>5, <2>1, <2>2, StaysAtHome
<1>7. ASSUME NEW c \in Clients, ClientNext(c) PROVE \A d \in connected' : AtHome(d)'
  <2>1. /\ UNCHANGED <<connected, state, stateNext, phase>>
        /\ \A d \in Clients \ {c} : /\ syncs'[d] = syncs[d] /\ cnext'[d] = cnext[d]
                                   /\ cstate'[d] = cstate[d] /\ reports'[d] = reports[d]
                                   /\ client_gamestate'[d] = client_gamestate[d]
        /\ game' \in {game, game \cup {c}} /\ sync_ack' \in {sync_ack, sync_ack \cup {c}}
    BY <1>0, <1>7 DEF ClientNext, Ready, HandleReport, ReadSync, ReceiveConfig, ClientStep, AnswerSync,
                serverVars, usersVars, clientVars, Types, TypeOK
  <2>2. \A d \in Clients \ {c} : Waited(d)' = Waited(d)
    BY <2>1 DEF Waited
  <2>3. ASSUME NEW d \in connected \ {c} PROVE AtHome(d)'
    <3>1. d \in Clients \ {c} /\ AtHome(d)
      BY <1>0, <2>3 DEF Types, TypeOK
    <3>2. (d \in game') <=> (d \in game)
      BY <2>1, <2>3
    <3>3. LateNow' = LateNow /\ OldNow' = OldNow
      BY <1>5, <2>1
    <3> QED
      BY <2>1, <2>2, <3>1, <3>2, <3>3, StaysAtHome
  <2>4. ASSUME c \in connected PROVE AtHome(c)'
    <3>1. CASE Ready(c)
      <4>1. /\ Len(syncs'[c]) = 1
            /\ UNCHANGED <<game, cstate, cnext, client_gamestate, reports, sync_ack, stateNext, phase>>
        BY <1>0, <3>1 DEF Ready, serverVars, clientVars, Types, TypeOK
      <4>2. Waited(c)' = Waited(c)
        BY <4>1 DEF Waited
      <4> QED
        BY <1>0, <1>5, <2>1, <2>4, <4>1, <4>2 DEF AtHome
    <3>2. CASE HandleReport(c)
      BY <1>0, <2>4, <3>2, ReportAtHome
    <3>3. CASE ReadSync(c)
      BY <1>0, <2>4, <3>3, ReadAtHome
    <3>4. CASE ClientStep(c)
      BY <1>0, <2>4, <3>4, StepAtHome
    <3>5. CASE AnswerSync(c)
      <4>1. /\ UNCHANGED <<game, cstate, cnext, client_gamestate, reports, syncs, stateNext, phase>>
            /\ reports[c] = {}
        BY <1>0, <3>5 DEF AnswerSync, Drained, clientVars, Types, TypeOK
      <4> QED
        BY <1>0, <1>5, <2>1, <2>4, <4>1 DEF AtHome
    <3>6. CASE ReceiveConfig(c)
      <4>1. UNCHANGED <<game, cstate, cnext, client_gamestate, reports, syncs, sync_ack, stateNext, phase>>
        BY <3>6 DEF ReceiveConfig, serverVars, usersVars
      <4>2. Waited(c)' = Waited(c)
        BY <4>1 DEF Waited
      <4> QED
        BY <1>0, <1>5, <2>1, <2>4, <4>1, <4>2, StaysAtHome
    <3> QED
      BY <1>7, <3>1, <3>2, <3>3, <3>4, <3>5, <3>6 DEF ClientNext
  <2> QED
    BY <2>1, <2>3, <2>4
<1>8. ASSUME NEW c \in Clients, Login(c) PROVE \A d \in connected' : AtHome(d)'
  <2>1. /\ \A d \in connected : /\ d # c /\ cnext'[d] = cnext[d] /\ cstate'[d] = cstate[d]
                               /\ client_gamestate'[d] = client_gamestate[d]
        /\ UNCHANGED <<syncs, reports, sync_ack, state, stateNext, phase>>
        /\ game' = game \ {c} /\ connected' = connected \cup {c}
    BY <1>0, <1>8 DEF Login, Forgotten, serverVars, Types, TypeOK
  <2>2. /\ cstate'[c] = CREATED /\ cnext'[c] = TRANSFER_SETTINGS /\ client_gamestate'[c] = CREATED
        /\ syncs[c] = <<>> /\ reports[c] = {}
    BY <1>0, <1>8 DEF Login, Forgotten, Quiet, Types, TypeOK
  <2>3. AtHome(c)'
    BY <2>1, <2>2 DEF AtHome
  <2>4. \A d \in connected : Waited(d)' = Waited(d)
    BY <2>1 DEF Waited
  <2> QED
    BY <1>0, <1>5, <2>1, <2>3, <2>4, StaysAtHome
<1>9. ASSUME NEW c \in Clients, Logout(c) PROVE \A d \in connected' : AtHome(d)'
  <2>1. /\ \A d \in connected' : /\ d \in connected /\ syncs'[d] = syncs[d] /\ reports'[d] = reports[d]
                                /\ client_gamestate'[d] = client_gamestate[d]
        /\ UNCHANGED <<game, cstate, cnext, sync_ack, state, stateNext, phase>>
    BY <1>0, <1>9 DEF Logout, Forgotten, serverVars, clientVars, Types, TypeOK
  <2>2. \A d \in connected' : Waited(d)' = Waited(d)
    BY <2>1 DEF Waited
  <2> QED
    BY <1>0, <1>5, <2>1, <2>2, StaysAtHome
<1> QED
  BY <1>2, <1>3, <1>4, <1>6, <1>7, <1>8, <1>9 DEF Next, ServerNext

-----------------------------------------------------------------------------
(***************************************************************************)
(* The grids of the server and its clients.                                *)
(***************************************************************************)
\* The newest MAP_FILE is at a user or on its way there.
Broadcast(c) ==
  /\ configs[c] \subseteq 0 .. mapfile
  /\ cmapfile[c] <= mapfile
  /\ mapfile \in configs[c] \/ cmapfile[c] = mapfile

\* While clients may join the round, and when a sync has ended, they can have no other.
Told(c) ==
  phase = "check" \/ stateNext \in Joining =>
    configs[c] \subseteq {mapfile} /\ cmapfile[c] \in {NoMap, mapfile}

\* A client in the round has made its grid of the map the server makes its grid of, or has.
OnGrid(c) ==
  /\ stateNext \in Joining /\ cstate[c] \in CREATE_OBJECTS .. PLAY => cgrid[c] = mapfile
  /\ stateNext \in {DELETE_OBJECTS, DELETE_GRID} /\ cstate[c] \in PLAY .. DELETE_GRID =>
       cgrid[c] = grid

Grids ==
  /\ state \in CREATE_OBJECTS .. PLAY => grid = mapfile
  /\ \A c \in connected : Broadcast(c)
  /\ hasty = 0 => \A c \in connected : Told(c) /\ OnGrid(c)

SameMaps == Home /\ Grids

\* The end of a wait.
LEMMA LeaveOnGrid ==
  ASSUME Home, Grids, [Next]_vars, hasty = 0, hasty' = 0,
         phase # "loop", phase' = "loop", NEW c \in connected
  PROVE  Told(c)' /\ OnGrid(c)'
<1>1. /\ LeaveWait /\ phase \in Waiting
      /\ UNCHANGED <<state, game, cstate, mapfile, grid, configs, cmapfile, cgrid>>
      /\ \/ phase = "check" /\ ~Behind
         \/ /\ c \in ready /\ syncs[c] = <<>> /\ configs[c] = {} /\ reports[c] = {}
            /\ c \in game => ~AbeforeB(cstate[c], cnext[c])
  BY WaitEnds DEF Home
<1>2. stateNext' = goal
  BY <1>1 DEF LeaveWait
<1>3. Types /\ Knowing /\ AllAtHome /\ AtHome(c) /\ Broadcast(c) /\ Told(c) /\ OnGrid(c)
  BY <1>1 DEF Home, Knowing, AllAtHome, Grids
<1>4. <<state, stateNext, goal>> \in Waits
  BY <1>1, <1>3 DEF Types, ServerOK, Waiting
<1>5. Told(c)'
  BY <1>1, <1>2, <1>3 DEF Told, Broadcast
<1>6. ASSUME c \notin game PROVE OnGrid(c)'
  <2>1. cstate'[c] = CREATED
    BY <1>1, <1>3, <1>6 DEF AtHome
  <2> QED
    BY <2>1 DEF OnGrid
<1>7. ASSUME c \in game PROVE OnGrid(c)'
  <2>3. /\ stateNext \notin Joining /\ goal \in Joining => cstate[c] \notin CREATE_OBJECTS .. PLAY
        /\ stateNext = PLAY /\ goal = DELETE_OBJECTS => cstate[c] \in {CREATED, PLAY}
    BY <1>1, <1>3, <1>7, DoneAtEnd, OnGoal
  <2>4. CASE goal \in Joining
    <3>1. CASE stateNext \in Joining
      BY <1>1, <1>2, <1>3, <2>4, <3>1 DEF OnGrid, Joining
    <3>2. CASE stateNext \notin Joining
      <4>1. cstate'[c] \notin CREATE_OBJECTS .. PLAY
        BY <1>1, <2>3, <2>4, <3>2
      <4> QED
        BY <1>2, <2>4, <4>1 DEF OnGrid, Joining
    <3> QED
      BY <3>1, <3>2
  <2>5. CASE goal = DELETE_OBJECTS
    <3>1. stateNext = PLAY /\ state = PLAY
      BY <1>4, <2>5 DEF Waits
    <3> QED
      <4>1. cstate[c] \in {CREATED, PLAY} /\ cstate' = cstate /\ cgrid' = cgrid /\ grid' = grid
        BY <1>1, <2>3, <2>5, <3>1
      <4>2. grid = mapfile
        BY <3>1 DEF Grids
      <4>3. cstate[c] = PLAY => cgrid[c] = mapfile
        BY <1>3, <3>1 DEF OnGrid, Joining
      <4> QED
        BY <1>2, <2>5, <4>1, <4>2, <4>3 DEF OnGrid, Joining
  <2>6. CASE goal = DELETE_GRID
    BY <1>1, <1>2, <1>3, <1>4, <2>6 DEF OnGrid, Waits, Joining
  <2>7. CASE goal \notin Joining \cup {DELETE_OBJECTS, DELETE_GRID}
    BY <1>2, <2>7 DEF OnGrid
  <2> QED
    BY <2>4, <2>5, <2>6, <2>7
<1> QED
  BY <1>5, <1>6, <1>7

\* A step of a client in the round keeps it on the grid.
LEMMA StepOnGrid ==
  ASSUME Types, NEW c \in connected, AtHome(c), Told(c), OnGrid(c), ClientStep(c)
  PROVE  OnGrid(c)'
<1> DEFINE s == Following[cstate[c]].act
<1>1. /\ c \in Clients /\ c \in game /\ cmapfile[c] # NoMap
      /\ UNCHANGED <<stateNext, mapfile, grid>>
  BY DEF ClientStep, serverVars, Types, TypeOK
<1>2. /\ cstate'[c] = s
      /\ cgrid'[c] = IF cstate[c] = CREATE_GRID THEN cmapfile[c] ELSE cgrid[c]
  BY <1>1 DEF ClientStep, Types, TypeOK
<1>3. cstate[c] \in States
  BY <1>1 DEF Types, TypeOK
<1>4. CASE stateNext \in Joining
  <2>1. s \in CREATE_OBJECTS .. PLAY =>
          cstate[c] = CREATE_GRID \/ cstate[c] \in CREATE_OBJECTS .. PLAY
    BY <1>3, FollowingIs DEF States
  <2> QED
    BY <1>1, <1>2, <1>4, <2>1 DEF Told, OnGrid, Joining
<1>5. CASE stateNext \in {DELETE_OBJECTS, DELETE_GRID}
  <2>1. Found(cstate[c], cnext[c], client_gamestate[c], reports[c], stateNext, LateNow, OldNow)
    BY <1>1 DEF AtHome
  <2>2. s \in PLAY .. DELETE_GRID => cstate[c] \in PLAY .. DELETE_GRID
    BY <1>3, <1>5, <2>1, FollowingIs DEF States, Found, Early
  <2> QED
    BY <1>1, <1>2, <1>5, <2>2 DEF OnGrid, Joining
<1>6. CASE stateNext \notin Joining \cup {DELETE_OBJECTS, DELETE_GRID}
  BY <1>1, <1>6 DEF OnGrid
<1> QED
  BY <1>4, <1>5, <1>6

\* MAP_FILE is set, and broadcast.
LEMMA SetBroadcast ==
  ASSUME Types, \A c \in connected : Broadcast(c), NEW m \in Maps, mapfile <= m, SetMap(m),
         UNCHANGED <<connected, cmapfile>>
  PROVE  \A c \in connected : Broadcast(c)'
<1> SUFFICES ASSUME NEW c \in connected PROVE Broadcast(c)'
  OBVIOUS
<1>1. /\ c \in Clients /\ mapfile \in Nat /\ m \in Nat /\ mapfile' = m
      /\ cmapfile[c] \in Maps \cup {NoMap}
  BY DEF Types, TypeOK, Maps, SetMap
<1>2. configs'[c] = IF m # mapfile THEN configs[c] \cup {m} ELSE configs[c]
  BY <1>1 DEF SetMap
<1> QED
  BY <1>1, <1>2 DEF Broadcast, Maps, NoMap

\* What a server step does to the grid and the broadcast of MAP_FILE.
LEMMA ServerBroadcasts ==
  ASSUME Types, ~MapsMidRound, \A c \in connected : Broadcast(c), ServerNext
  PROVE  /\ \A c \in connected' : Broadcast(c)'
         /\ UNCHANGED <<connected, game, cstate, cmapfile, cgrid>>
         /\ UNCHANGED <<mapfile, configs>> \/
              (phase = "loop" /\ phase' \in {"settings", "first"} /\ stateNext' \notin Joining)
<1>1. /\ UNCHANGED <<connected, game, cstate, cmapfile, cgrid>>
      /\ UNCHANGED <<mapfile, configs>> \/
           (MayChangeMap /\ phase = "loop" /\ (TransferSettings \/ (Advance /\ state = PLAY)))
  BY DEF ServerNext, TransferSettings, Advance, RoundOver, EndSync, Check, TimeOut, clientVars
<1>2. CASE UNCHANGED <<mapfile, configs>>
  BY <1>1, <1>2 DEF Broadcast
<1>3. CASE MayChangeMap /\ phase = "loop" /\ (TransferSettings \/ (Advance /\ state = PLAY))
  <2>1. PICK m \in {mapfile, mapfile + 1} \cap Maps : SetMap(m)
    BY <1>3 DEF MayChangeMap
  <2>2. mapfile \in Nat
    BY DEF Types, TypeOK, Maps
  <2>3. stateNext' = stateNext /\ phase' \in {"settings", "first"}
    BY <1>3 DEF TransferSettings, Advance, EnterState
  <2>4. AbeforeB(state, stateNext) /\ <<state, stateNext>> \in Resting
    BY <1>3 DEF TransferSettings, Advance, Types, ServerOK, Waiting
  <2>5. ~AbeforeB(PLAY, PLAY)
    BY AbeforeBLinear DEF States
  <2>6. stateNext \notin Joining
    BY <1>3, <2>4, <2>5 DEF TransferSettings, Resting, Joining
  <2> QED
    BY <1>1, <1>3, <2>1, <2>2, <2>3, <2>6, SetBroadcast
<1> QED
  BY <1>1, <1>2, <1>3

\* The server's grid is of the current map until the next round.
LEMMA ServerGrid ==
  ASSUME Types, ServerNext, state \in CREATE_OBJECTS .. PLAY => grid = mapfile
  PROVE  /\ state' \in CREATE_OBJECTS .. PLAY => grid' = mapfile'
         /\ stateNext' \in {DELETE_OBJECTS, DELETE_GRID} => grid' = grid
<1>1. CASE TransferSettings
  BY <1>1 DEF TransferSettings
<1>2. CASE Advance
  <2>1. /\ <<state, stateNext>> \in Resting /\ state \notin {CREATED, TRANSFER_SETTINGS}
        /\ state' = Following[state].act /\ stateNext' = stateNext
        /\ grid' = IF state = CREATE_GRID THEN mapfile ELSE grid
        /\ state # PLAY => mapfile' = mapfile
    BY <1>2 DEF Advance, EnterState, Types, ServerOK, Waiting
  <2> QED
    BY <2>1, FollowingIs DEF Resting
<1>3. CASE RoundOver
  BY <1>3 DEF RoundOver, EnterState
<1>4. CASE EndSync \/ Check \/ TimeOut
  BY <1>4 DEF EndSync, Check, TimeOut, EnterState
<1> QED
  BY <1>1, <1>2, <1>3, <1>4 DEF ServerNext

LEMMA SameMapsStep == ~MapsMidRound /\ SameMaps /\ [Next]_vars => SameMaps'
<1> SUFFICES ASSUME ~MapsMidRound, SameMaps, [Next]_vars PROVE Grids'
  BY HomeStep DEF SameMaps
<1>0. /\ Home /\ Grids /\ Types /\ Quiet /\ \A c \in connected : Broadcast(c)
      /\ hasty' = 0 =>
           /\ hasty = 0
           /\ \A c \in connected : Informed(c) /\ AtHome(c) /\ Told(c) /\ OnGrid(c)
  BY HastyStays DEF SameMaps, Grids, Home, Knowing, AllInformed, AllAtHome
<1>1. CASE ServerNext
  <2>1. /\ state' \in CREATE_OBJECTS .. PLAY => grid' = mapfile'
        /\ stateNext' \in {DELETE_OBJECTS, DELETE_GRID} => grid' = grid
        /\ \A c \in connected' : Broadcast(c)'
        /\ UNCHANGED <<connected, game, cstate, cmapfile, cgrid>>
        /\ UNCHANGED <<mapfile, configs>> \/
             (phase = "loop" /\ phase' \in {"settings", "first"} /\ stateNext' \notin Joining)
    BY <1>0, <1>1, ServerGrid, ServerBroadcasts DEF Grids
  <2>2. ASSUME hasty' = 0, NEW c \in connected PROVE Told(c)' /\ OnGrid(c)'
    <3>1. CASE phase # "loop" /\ phase' = "loop"
      BY <1>0, <2>2, <3>1, LeaveOnGrid
    <3>2. CASE phase = "loop" \/ phase' # "loop"
      <4>1. stateNext' = stateNext
        BY <1>1, <3>2 DEF ServerNext, TransferSettings, Advance, RoundOver, EndSync, Check, TimeOut,
                    EnterState, LeaveWait
      <4>2. OnGrid(c)'
        BY <1>0, <2>1, <2>2, <4>1 DEF OnGrid, Joining
      <4>3. CASE phase' = "check"
        <5>1. EndSync
          BY <1>1, <3>2, <4>3 DEF ServerNext, TransferSettings, Advance, RoundOver, Check, TimeOut,
                      EnterState, LeaveWait
        <5>2. configs'[c] = {} /\ cmapfile' = cmapfile /\ mapfile' = mapfile /\ configs' = configs
          BY <2>2, <5>1 DEF EndSync, Synced, clientVars
        <5> QED
          BY <1>0, <2>2, <4>2, <5>2 DEF Told, Broadcast
      <4>4. CASE phase' # "check"
        BY <1>0, <2>1, <2>2, <4>1, <4>2, <4>4 DEF Told, Joining
      <4> QED
        BY <4>3, <4>4
    <3> QED
      BY <3>1, <3>2
  <2> QED
    BY <2>1, <2>2 DEF Grids
<1>2. CASE ChangeMap \/ UNCHANGED vars
  <2>1. UNCHANGED vars
    BY <1>2 DEF ChangeMap
  <2> QED
    BY <1>0, <2>1 DEF Grids, Broadcast, Told, OnGrid, vars, serverVars, usersVars, wireVars, clientVars
<1>3. ASSUME NEW c \in Clients, ClientNext(c) \/ Login(c) \/ Logout(c) PROVE Grids'
  <2>1. /\ UNCHANGED <<state, stateNext, phase, grid, mapfile>>
        /\ connected' \in {connected, connected \cup {c}, connected \ {c}}
        /\ \A d \in Clients \ {c} : /\ configs'[d] = configs[d] /\ cmapfile'[d] = cmapfile[d]
                                   /\ cstate'[d] = cstate[d] /\ cgrid'[d] = cgrid[d]
    BY <1>0, <1>3 DEF ClientNext, Ready, HandleReport, ReadSync, ReceiveConfig, ClientStep, AnswerSync,
                Login, Logout, serverVars, usersVars, clientVars, Types, TypeOK
  <2>2. ASSUME NEW d \in connected' \ {c}
        PROVE  /\ Broadcast(d)'
               /\ hasty' = 0 => Told(d)' /\ OnGrid(d)'
    <3>1. d \in connected /\ d \in Clients \ {c}
      BY <1>0, <2>1, <2>2 DEF Types, TypeOK
    <3> QED
      BY <1>0, <2>1, <3>1 DEF Broadcast, Told, OnGrid
  <2>3. ASSUME c \in connected'
        PROVE  /\ Broadcast(c)'
               /\ hasty' = 0 => Told(c)' /\ OnGrid(c)'
    <3>1. CASE Login(c)
      <4>1. /\ configs'[c] = {mapfile} /\ cmapfile'[c] = NoMap /\ cstate'[c] = CREATED
            /\ mapfile \in Nat
        BY <1>0, <3>1 DEF Login, Types, TypeOK, Maps
      <4> QED
        BY <2>1, <4>1 DEF Broadcast, Told, OnGrid, NoMap
    <3>2. CASE ClientNext(c)
      <4>1. c \in connected
        BY <1>0, <2>3, <3>2 DEF ClientNext, Ready, HandleReport, ReadSync, ReceiveConfig, ClientStep,
                    AnswerSync, usersVars
      <4>2. CASE Ready(c) \/ HandleReport(c) \/ ReadSync(c) \/ AnswerSync(c)
        <5>1. UNCHANGED <<configs, cmapfile, cstate, cgrid>>
          BY <4>2 DEF Ready, HandleReport, ReadSync, AnswerSync, clientVars
        <5> QED
          BY <1>0, <2>1, <4>1, <5>1 DEF Broadcast, Told, OnGrid
      <4>3. CASE ClientStep(c)
        <5>1. UNCHANGED <<configs, cmapfile>>
          BY <4>3 DEF ClientStep
        <5> QED
          BY <1>0, <2>1, <4>1, <4>3, <5>1, StepOnGrid DEF Broadcast, Told
      <4>4. CASE ReceiveConfig(c)
        <5>1. PICK m \in configs[c] : /\ cmapfile'[c] = IF m > cmapfile[c] THEN m ELSE cmapfile[c]
                                     /\ configs'[c] = configs[c] \ {m}
          BY <1>0, <4>4 DEF ReceiveConfig, Types, TypeOK
        <5>2. cmapfile[c] \in Maps \cup {NoMap} /\ mapfile \in Nat /\ m \in Nat
          BY <1>0, <5>1 DEF Types, TypeOK, Maps
        <5>3. Broadcast(c)'
          BY <1>0, <2>1, <4>1, <5>1, <5>2 DEF Broadcast, Maps, NoMap
        <5>4. ASSUME hasty' = 0 PROVE Told(c)' /\ OnGrid(c)'
          <6>1. UNCHANGED <<cstate, cgrid>>
            BY <4>4 DEF ReceiveConfig
          <6> QED
            BY <1>0, <2>1, <4>1, <5>1, <5>2, <5>4, <6>1 DEF Told, OnGrid, NoMap
        <5> QED
          BY <5>3, <5>4
      <4> QED
        BY <3>2, <4>2, <4>3, <4>4 DEF ClientNext
    <3>3. CASE Logout(c)
      BY <2>3, <3>3 DEF Logout
    <3> QED
      BY <1>3, <3>1, <3>2, <3>3
  <2>4. \A d \in connected' : /\ Broadcast(d)'
                              /\ hasty' = 0 => Told(d)' /\ OnGrid(d)'
    BY <2>2, <2>3
  <2> QED
    BY <1>0, <2>1, <2>4 DEF Grids
<1> QED
  BY <1>1, <1>2, <1>3 DEF Next

\* As long as no wait was cut short, and if the map is only set between rounds: while
\* there are objects on the server's grid, a client that gGame::GridIsReady lets them be sent to has
\* made its grid of the same map.
THEOREM ReadyGridHolds ==
  ASSUME ~MapsMidRound
  PROVE  Spec => []ReadyGridIsCurrent
<1>1. Init => SameMaps
  <2> SUFFICES ASSUME Init PROVE Grids
    BY HomeInit DEF SameMaps
  <2> QED
    BY DEF Init, Grids
<1>2. SameMaps => ReadyGridIsCurrent
  <2> SUFFICES ASSUME SameMaps, hasty = 0, state \in CREATE_OBJECTS .. DELETE_OBJECTS,
                      NEW c \in connected, GridIsReady(c)
               PROVE  cgrid[c] = grid
    BY DEF ReadyGridIsCurrent
  <2>1. /\ Types /\ AtHome(c) /\ OnGrid(c) /\ c \in game
        /\ state \in CREATE_OBJECTS .. PLAY => grid = mapfile
    BY DEF SameMaps, Home, Knowing, AllAtHome, Grids, GridIsReady
  <2>2. Found(cstate[c], cnext[c], client_gamestate[c], reports[c], stateNext, LateNow, OldNow)
    BY <2>1 DEF AtHome
  <2>3. client_gamestate[c] \in TRANSFER_OBJECTS .. DELETE_OBJECTS
    <3>1. c \in Clients
      BY <2>1 DEF Types, TypeOK
    <3>2. client_gamestate[c] \in Nat
      BY <2>1, <3>1, StatesAreNumbers DEF Types, TypeOK
    <3> QED
      BY <3>2 DEF GridIsReady
  <2>4. <<state, stateNext>> \in Resting \/ <<state, stateNext, goal>> \in Waits
    BY <2>1 DEF Types, ServerOK, Resting
  <2>5. CASE stateNext \in Joining
    <3>1. cstate[c] \in CREATE_OBJECTS .. PLAY
      BY <2>1, <2>2, <2>3, <2>5 DEF Found, Joining, Joined, UpTo, Straggling, Old, ToCamera, ToSyncing, ToPlay
    <3>2. state \in CREATE_OBJECTS .. PLAY
      BY <2>4, <2>5 DEF Resting, Waits, Joining
    <3> QED
      BY <2>1, <2>5, <3>1, <3>2 DEF OnGrid
  <2>6. CASE stateNext \in {DELETE_OBJECTS, DELETE_GRID}
    <3>1. cstate[c] \in PLAY .. DELETE_GRID
      BY <2>1, <2>2, <2>3, <2>6 DEF Found, Early, UpTo
    <3> QED
      BY <2>1, <2>6, <3>1 DEF OnGrid
  <2>7. stateNext \in Joining \cup {DELETE_OBJECTS, DELETE_GRID}
    BY <2>4 DEF Resting, Waits, Joining
  <2> QED
    BY <2>5, <2>6, <2>7
<1> QED
  BY <1>1, <1>2, SameMapsStep, PTL DEF Spec


-----------------------------------------------------------------------------
(***************************************************************************)
(* GameState implements Rounds.  What is Possible of a client is less than *)
(* a round away from stateNext, so that its way there can be counted in    *)
(* stages.                                                                 *)
(***************************************************************************)
LEMMA Stages ==
  /\ Stage[CREATED] = 0 /\ Stage[TRANSFER_SETTINGS] = 0 /\ Stage[CREATE_GRID] = 1
  /\ Stage[CREATE_OBJECTS] = 2 /\ Stage[TRANSFER_OBJECTS] = 3 /\ Stage[CAMERA] = 4
  /\ Stage[SYNCING] = 5 /\ Stage[PLAY] = 6 /\ Stage[DELETE_OBJECTS] = 7 /\ Stage[DELETE_GRID] = 8
BY DEF Stage, States

\* Ahead, of any stateNext.
AheadOf(s, n) ==
  LET d == Stage[s] - Stage[n]
  IN IF d > 2 THEN d - 9 ELSE IF d < -6 THEN d + 9 ELSE d

\* From one stateNext to another.
Further(n, m) == IF Stage[m] < Stage[n] THEN Stage[m] - Stage[n] + 9 ELSE Stage[m] - Stage[n]

\* A step of a client is one stage, and not beyond what it was told.
LEMMA StepProceeds ==
  ASSUME NEW x \in States, NEW y \in States, NEW r \in States, NEW n \in Nexts,
         Possible(x, y, r, n), AbeforeB(x, y)
  PROVE  /\ AheadOf(x, n) < 0 \/ (x = CREATED /\ Stage[n] \in {0, 8})
         /\ AheadOf(Following[x].act, n) = AheadOf(x, n) + 1
         /\ Following[x].act # CREATED
<1>1. (x < y /\ y - x < 60) \/ x - y > 20
  BY AbeforeBLinear
<1>2. CASE n = TRANSFER_SETTINGS
  BY <1>1, <1>2, FollowingIs, Stages DEF Possible, AheadOf
<1>3. CASE n = CREATE_GRID
  BY <1>1, <1>3, FollowingIs, Stages DEF Possible, AheadOf
<1>4. CASE n = CAMERA
  BY <1>1, <1>4, FollowingIs, Stages DEF Possible, AheadOf, ToCamera
<1>5. CASE n = SYNCING
  BY <1>1, <1>5, FollowingIs, Stages DEF Possible, AheadOf, ToCamera, ToSyncing
<1>6. CASE n = PLAY
  BY <1>1, <1>6, FollowingIs, Stages DEF Possible, AheadOf, ToCamera, ToSyncing, ToPlay
<1>7. CASE n = DELETE_OBJECTS
  BY <1>1, <1>7, FollowingIs, Stages DEF Possible, AheadOf
<1>8. CASE n = DELETE_GRID
  BY <1>1, <1>8, FollowingIs, Stages DEF Possible, AheadOf
<1> QED
  BY <1>2, <1>3, <1>4, <1>5, <1>6, <1>7, <1>8 DEF Nexts, States

\* When the goal becomes stateNext, whoever is not behind in the circle of states is not
\* behind in the count of stages, and stays in it.
LEMMA GoalTold ==
  ASSUME <<state, stateNext, goal>> \in Waits, goal # stateNext,
         NEW x \in States, NEW y \in States, NEW r \in States,
         Possible(x, y, r, stateNext), ~AbeforeB(x, state)
  PROVE  /\ AheadOf(x, stateNext) >= AheadOf(state, stateNext)
         /\ AheadOf(x, goal) = AheadOf(x, stateNext) - Further(stateNext, goal)
<1>1. state \in States
  BY DEF Waits, States
<1>2. AbeforeB(x, state) <=> (x < state /\ state - x < 60) \/ x - state > 20
  BY <1>1, AbeforeBLinear
<1>3. CASE stateNext = TRANSFER_SETTINGS
  BY <1>2, <1>3, Stages DEF Possible, Waits, AheadOf, Further
<1>4. CASE stateNext = CREATE_GRID
  BY <1>2, <1>4, Stages DEF Possible, Waits, AheadOf, Further
<1>5. CASE stateNext = CAMERA
  BY <1>2, <1>5, Stages DEF Possible, Waits, AheadOf, Further, ToCamera
<1>6. CASE stateNext = SYNCING
  BY <1>2, <1>6, Stages DEF Possible, Waits, AheadOf, Further, ToSyncing, ToCamera
<1>7. CASE stateNext = PLAY
  BY <1>2, <1>7, Stages DEF Possible, Waits, AheadOf, Further, ToPlay, ToSyncing, ToCamera
<1>8. CASE stateNext = DELETE_OBJECTS
  BY <1>2, <1>8, Stages DEF Possible, Waits, AheadOf, Further
<1>9. CASE stateNext = DELETE_GRID
  BY <1>2, <1>9, Stages DEF Possible, Waits, AheadOf, Further
<1> QED
  BY <1>3, <1>4, <1>5, <1>6, <1>7, <1>8, <1>9 DEF Waits

\* The server itself: it goes where it has told to go, and tells more when it is there.
LEMMA ServerMoves ==
  ASSUME <<state, stateNext>> \in Resting, AbeforeB(state, stateNext)
  PROVE  /\ AheadOf(Following[state].act, stateNext) = AheadOf(state, stateNext) + 1
         /\ \/ AheadOf(state, stateNext) < 0
            \/ AheadOf(state, stateNext) = 0 /\ Stage[stateNext] = 0
<1>1. <<state, stateNext>> # <<PLAY, PLAY>>
  <2>1. ~AbeforeB(PLAY, PLAY)
    BY AbeforeBLinear DEF States
  <2> QED
    BY <2>1
<1> QED
  BY <1>1, FollowingIs, Stages DEF Resting, AheadOf

LEMMA ServerTells ==
  ASSUME <<state, stateNext, goal>> \in Waits, goal # stateNext
  PROVE  /\ Further(stateNext, goal) \in 1 .. 8
         /\ Stage[goal] = (Stage[stateNext] + Further(stateNext, goal)) % 9
         /\ AheadOf(state, stateNext) >= 0
         /\ AheadOf(state, goal) = AheadOf(state, stateNext) - Further(stateNext, goal)
<1>1. Further(stateNext, goal) \in 1 .. 8
  BY Stages DEF Waits, Further
<1>2. /\ AheadOf(state, stateNext) >= 0
      /\ AheadOf(state, goal) = AheadOf(state, stateNext) - Further(stateNext, goal)
  BY Stages DEF Waits, Further, AheadOf
<1>3. Stage[goal] = (Stage[stateNext] + Further(stateNext, goal)) % 9
  <2>1. Stage[goal] \in 0 .. 8 /\ Stage[stateNext] \in 0 .. 8
    BY Stages DEF Waits
  <2>2. \/ Stage[stateNext] + Further(stateNext, goal) = Stage[goal]
        \/ Stage[stateNext] + Further(stateNext, goal) = Stage[goal] + 9
    BY <2>1 DEF Further
  <2> QED
    BY <2>1, <2>2
<1> QED
  BY <1>1, <1>2, <1>3

\* Steps that Rounds does not see.
LEMMA StaysTogether ==
  ASSUME UNCHANGED <<state, stateNext>>, Patient' = Patient,
         connected' \cap game' = connected \cap game,
         \A c \in connected \cap game : cstate'[c] = cstate[c]
  PROVE  UNCHANGED Promise!rounds
<1>1. \A c \in connected \cap game : Ahead(cstate[c])' = Ahead(cstate[c])
  BY DEF Ahead
<1>2. Ahead(state)' = Ahead(state)
  BY DEF Ahead
<1> QED
  BY <1>1, <1>2 DEF Promise!rounds

\* The server goes to the state that follows.
LEMMA EnterMoves ==
  ASSUME Patient, Patient', UNCHANGED <<stateNext, connected, game, cstate>>,
         <<state, stateNext>> \in Resting, AbeforeB(state, stateNext),
         state' = Following[state].act
  PROVE  Promise!Next
<1>1. Ahead(state)' = Ahead(state) + 1 /\ (Ahead(state) < 0 \/ (Ahead(state) = 0 /\ Stage[stateNext] = 0))
  BY ServerMoves DEF Ahead, AheadOf
<1>2. \A c \in Clients : Ahead(cstate[c])' = Ahead(cstate[c])
  BY DEF Ahead
<1>3. Promise!Move
  BY <1>1, <1>2 DEF Promise!Move
<1> QED
  BY <1>3 DEF Promise!Next

\* The wait ends, and the clients are told how to go on.
LEMMA WaitTells ==
  ASSUME Barrier, [Next]_vars, Patient, Patient', phase # "loop", phase' = "loop"
  PROVE  Promise!Next \/ UNCHANGED Promise!rounds
<1>0. hasty = 0 /\ hasty' = 0 /\ ~stalled /\ ~stalled' /\ Knowing /\ Types
  BY DEF Patient, Barrier, Knowing
<1>1. /\ LeaveWait /\ phase \in Waiting /\ ~Behind
      /\ UNCHANGED <<state, connected, game, cstate>>
  BY <1>0, NobodyBehind
<1>2. stateNext' = goal /\ <<state, stateNext, goal>> \in Waits
  BY <1>0, <1>1 DEF LeaveWait, Types, ServerOK, Waiting
<1>3. CASE goal = stateNext
  BY <1>1, <1>2, <1>3, StaysTogether
<1>4. CASE goal # stateNext
  <2>0. PICK k \in 1 .. 9 - 1 : k = Further(stateNext, goal)
    BY <1>2, <1>4, ServerTells
  <2>1. /\ Stage[goal] = (Stage[stateNext] + k) % 9
        /\ Ahead(state) >= 0 /\ Ahead(state)' = Ahead(state) - k
    BY <1>1, <1>2, <1>4, <2>0, ServerTells DEF Ahead, AheadOf
  <2>2. ASSUME NEW c \in connected \cap game
        PROVE  Ahead(cstate[c]) >= Ahead(state) /\ Ahead(cstate[c])' = Ahead(cstate[c]) - k
    <3>1. /\ cstate[c] \in States /\ cnext[c] \in States /\ client_gamestate[c] \in States
          /\ ~AbeforeB(client_gamestate[c], state)
      BY <1>0, <1>1 DEF Types, TypeOK, Behind
    <3>2. Possible(cstate[c], cnext[c], client_gamestate[c], stateNext)
      BY <1>0 DEF Barrier, AllPlaced, Placed, Reported
    <3>3. ~AbeforeB(cstate[c], state)
      BY <1>2, <3>1, <3>2, ReportsAreTrue
    <3>4. /\ AheadOf(cstate[c], stateNext) >= AheadOf(state, stateNext)
          /\ AheadOf(cstate[c], goal) = AheadOf(cstate[c], stateNext) - k
      BY <1>2, <1>4, <2>0, <3>1, <3>2, <3>3, GoalTold
    <3> QED
      BY <1>1, <1>2, <3>4 DEF Ahead, AheadOf
  <2> DEFINE lead == [c \in Clients |-> IF c \in connected \cap game THEN Ahead(cstate[c]) ELSE 0]
  <2>3. lead' = [c \in Clients |-> IF c \in connected \cap game THEN lead[c] - k ELSE lead[c]]
    BY <1>1, <2>2
  <2>4. \A c \in connected \cap game : lead[c] >= Ahead(state)
    BY <2>2 DEF Barrier, Knowing, Types, TypeOK
  <2>5. /\ Patient' = Patient /\ connected' \cap game' = connected \cap game
        /\ {c \in connected' \cap game' : cstate'[c] = CREATED}
             = {c \in connected \cap game : cstate[c] = CREATED}
    BY <1>1
  <2> HIDE DEF lead
  <2>6. Promise!Tell(k)
    BY <1>2, <2>1, <2>3, <2>4, <2>5 DEF Promise!Tell, lead
  <2> QED
    BY <2>6 DEF Promise!Next
<1> QED
  BY <1>3, <1>4

LEMMA ServerKeepsPromise ==
  ASSUME Barrier, ServerNext, Patient, Patient'
  PROVE  Promise!Next \/ UNCHANGED Promise!rounds
<1>0. [Next]_vars /\ Types /\ ServerOK
  BY DEF Next, Barrier, Knowing, Types
<1>1. CASE TransferSettings
  BY <1>1, StaysTogether DEF TransferSettings, clientVars
<1>2. CASE Advance
  BY <1>0, <1>2, EnterMoves DEF Advance, EnterState, clientVars, ServerOK, Waiting
<1>3. CASE RoundOver
  BY <1>3, StaysTogether DEF RoundOver, EnterState, clientVars
<1>4. CASE phase = "settings" /\ EnterState(CREATE_GRID, CAMERA)
           /\ UNCHANGED <<stateNext, connected, clientVars>>
  <2>1. <<state, stateNext>> \in {<<CREATED, TRANSFER_SETTINGS>>, <<TRANSFER_SETTINGS, CREATE_GRID>>}
    BY <1>0, <1>4 DEF ServerOK, Waiting
  <2>2. <<state, stateNext>> \in Resting /\ state' = Following[state].act
    BY <1>4, <2>1, FollowingIs DEF Resting, EnterState
  <2>3. AbeforeB(state, stateNext)
    BY <2>1, AbeforeBLinear DEF States
  <2> QED
    BY <1>4, <2>2, <2>3, EnterMoves DEF clientVars
<1>5. CASE EndSync
  <2>1. CASE phase = "settings"
    BY <1>4, <1>5, <2>1 DEF EndSync
  <2>2. CASE phase # "settings"
    BY <1>5, <2>2, StaysTogether DEF EndSync, clientVars
  <2> QED
    BY <2>1, <2>2
<1>6. CASE Check \/ TimeOut
  <2>1. CASE phase' = "loop"
    <3>1. phase # "loop"
      BY <1>6 DEF Check, TimeOut
    <3> QED
      BY <1>0, <2>1, <3>1, WaitTells
  <2>2. CASE phase' # "loop" /\ Check
    BY <2>2, StaysTogether DEF Check, LeaveWait, clientVars
  <2>3. CASE phase' # "loop" /\ TimeOut
    BY <1>4, <2>3 DEF TimeOut, LeaveWait
  <2> QED
    BY <1>6, <2>1, <2>2, <2>3
<1> QED
  BY <1>1, <1>2, <1>3, <1>5, <1>6 DEF ServerNext

\* A client that is in the game has begun with this round, or with the next one.
LEMMA ReadComes ==
  ASSUME Barrier, NEW c \in Clients, ReadSync(c), Patient, Patient'
  PROVE  Promise!Next \/ UNCHANGED Promise!rounds
<1>1. c \in connected
  BY DEF ReadSync, Barrier, Knowing, Quiet
<1>2. /\ UNCHANGED <<state, stateNext, connected, cstate>>
      /\ game' = game \cup {c} /\ hasty = 0 /\ ~stalled
  BY DEF ReadSync, serverVars, usersVars, Patient
<1>3. CASE c \in game
  BY <1>2, <1>3, StaysTogether
<1>4. CASE c \notin game
  <2>1. cstate[c] = CREATED
    BY <1>1, <1>2, <1>4 DEF Barrier, AllPlaced, Placed
  <2>2. stateNext \in Nexts
    BY GoalsOnly DEF Barrier, Knowing, Types, Nexts
  <2>3. Ahead(CREATED) = IF Stage[stateNext] <= Stage[PLAY] THEN 0 - Stage[stateNext]
                         ELSE 9 - Stage[stateNext]
    BY <2>2, Stages DEF Ahead, Nexts, States
  <2>4. Ahead(state)' = Ahead(state) /\ \A d \in Clients : Ahead(cstate[d])' = Ahead(cstate[d])
    BY <1>2 DEF Ahead
  <2>5. /\ connected' \cap game' = (connected \cap game) \cup {c}
        /\ {d \in connected' \cap game' : cstate'[d] = CREATED} =
             {d \in connected \cap game : cstate[d] = CREATED} \cup {c}
    BY <1>1, <1>2, <2>1
  <2>6. Promise!Come(c)
    BY <1>2, <1>4, <2>1, <2>3, <2>4, <2>5 DEF Promise!Come
  <2> QED
    BY <2>6 DEF Promise!Next
<1> QED
  BY <1>3, <1>4

\* A case of StateUpdate on a client is a stage that it was told of.
LEMMA ClientProceeds ==
  ASSUME Barrier, NEW c \in Clients, ClientStep(c), Patient, Patient'
  PROVE  Promise!Next
<1>1. /\ c \in connected \cap game /\ AbeforeB(cstate[c], cnext[c])
      /\ UNCHANGED <<state, stateNext, connected, game>>
      /\ cstate' = [cstate EXCEPT ![c] = Following[cstate[c]].act]
      /\ hasty = 0 /\ ~stalled
  BY DEF ClientStep, serverVars, usersVars, Patient
<1>2. /\ cstate \in [Clients -> States] /\ cnext[c] \in States /\ client_gamestate[c] \in States
      /\ stateNext \in Nexts
  BY GoalsOnly DEF Barrier, Knowing, Types, TypeOK, Nexts
<1>3. Possible(cstate[c], cnext[c], client_gamestate[c], stateNext)
  BY <1>1 DEF Barrier, AllPlaced, Placed, Reported
<1>4. /\ AheadOf(cstate[c], stateNext) < 0 \/ (cstate[c] = CREATED /\ Stage[stateNext] \in {0, 8})
      /\ AheadOf(Following[cstate[c]].act, stateNext) = AheadOf(cstate[c], stateNext) + 1
      /\ Following[cstate[c]].act # CREATED
  BY <1>1, <1>2, <1>3, StepProceeds
<1>5. /\ cstate'[c] = Following[cstate[c]].act
      /\ \A d \in Clients \ {c} : cstate'[d] = cstate[d]
  BY <1>1, <1>2
<1>6. /\ Ahead(cstate[c]) < 0 \/ (cstate[c] = CREATED /\ Stage[stateNext] \in {0, 8})
      /\ Ahead(cstate[c])' = Ahead(cstate[c]) + 1
      /\ \A d \in Clients \ {c} : Ahead(cstate[d])' = Ahead(cstate[d])
      /\ Ahead(state)' = Ahead(state)
  BY <1>1, <1>4, <1>5 DEF Ahead, AheadOf
<1>7. {d \in connected' \cap game' : cstate'[d] = CREATED} =
        {d \in connected \cap game : cstate[d] = CREATED} \ {c}
  BY <1>1, <1>4, <1>5 DEF Barrier, Knowing, Types, TypeOK
<1> DEFINE lead == [d \in Clients |-> IF d \in connected \cap game THEN Ahead(cstate[d]) ELSE 0]
<1>8. /\ lead' = [lead EXCEPT ![c] = @ + 1]
      /\ lead[c] = Ahead(cstate[c])
  BY <1>1, <1>6
<1> HIDE DEF lead
<1>9. /\ c \in connected \cap game
      /\ lead[c] < 0 \/ (c \in {d \in connected \cap game : cstate[d] = CREATED}
                          /\ Stage[stateNext] \in {0, 9 - 1})
  BY <1>1, <1>6, <1>8
<1>10. Promise!Proceed(c)
  BY <1>1, <1>6, <1>7, <1>8, <1>9 DEF Promise!Proceed, lead
<1> QED
  BY <1>10 DEF Promise!Next

LEMMA LogoutGoes ==
  ASSUME Barrier, NEW c \in Clients, Logout(c), Patient, Patient'
  PROVE  Promise!Next \/ UNCHANGED Promise!rounds
<1>1. UNCHANGED <<state, stateNext, game, cstate>> /\ connected' = connected \ {c}
  BY DEF Logout, serverVars, clientVars
<1>2. CASE c \notin game
  BY <1>1, <1>2, StaysTogether
<1>3. CASE c \in game
  <2>1. Ahead(state)' = Ahead(state) /\ \A d \in Clients : Ahead(cstate[d])' = Ahead(cstate[d])
    BY <1>1 DEF Ahead
  <2>2. Promise!Go(c)
    BY <1>1, <1>3, <2>1 DEF Promise!Go, Logout
  <2> QED
    BY <2>2 DEF Promise!Next
<1> QED
  BY <1>2, <1>3

\* As long as the server is patient, it and its clients go through the rounds together:
\* positions in the ring of states are never mistaken for those of another round, no client
\* goes further than stateNext was, and stateNext is changed only when all are where the
\* server is (gGame::StateUpdate, SetState, SyncState, sg_AbeforeB).
THEOREM StateImplementsRounds == Spec => ImplementsRounds
<1>1. Init => Promise!Init
  BY Stages DEF Init, Promise!Init, Patient, Ahead
<1>2. Barrier /\ [Next]_vars => [Promise!Next]_Promise!rounds
  <2> SUFFICES ASSUME Barrier, [Next]_vars
               PROVE  Promise!Next \/ UNCHANGED Promise!rounds
    OBVIOUS
  <2>1. CASE ~Patient'
    <3>1. Promise!LosePatience
      BY <2>1 DEF Promise!LosePatience, Patient
    <3> QED
      BY <3>1 DEF Promise!Next
  <2>2. CASE Patient'
    <3>1. Patient
      BY <2>2, HastyStays, StalledStays DEF Patient, Barrier, Knowing
    <3>2. Patient' = Patient
      BY <2>2, <3>1 DEF Patient
    <3>3. CASE ServerNext
      BY <2>2, <3>1, <3>3, ServerKeepsPromise
    <3>4. CASE ChangeMap \/ UNCHANGED vars
      BY <3>2, <3>4, StaysTogether DEF ChangeMap, vars, serverVars, usersVars, clientVars
    <3>5. ASSUME NEW c \in Clients, ClientNext(c) PROVE Promise!Next \/ UNCHANGED Promise!rounds
      <4>1. CASE ReadSync(c)
        BY <2>2, <3>1, <4>1, ReadComes
      <4>2. CASE ClientStep(c)
        BY <2>2, <3>1, <4>2, ClientProceeds
      <4>3. CASE Ready(c) \/ HandleReport(c) \/ ReceiveConfig(c) \/ AnswerSync(c)
        BY <3>2, <4>3, StaysTogether DEF Ready, HandleReport, ReceiveConfig, AnswerSync, serverVars,
           usersVars, clientVars
      <4> QED
        BY <3>5, <4>1, <4>2, <4>3 DEF ClientNext
    <3>6. ASSUME NEW c \in Clients, Login(c) PROVE UNCHANGED Promise!rounds
      <4>1. /\ UNCHANGED <<state, stateNext>> /\ c \notin connected
            /\ connected' = connected \cup {c} /\ game' = game \ {c}
            /\ cstate' = [cstate EXCEPT ![c] = CREATED]
        BY <3>6 DEF Login, serverVars
      <4>2. \A d \in connected \cap game : cstate'[d] = cstate[d]
        BY <4>1 DEF Barrier, Knowing, Types, TypeOK
      <4> QED
        BY <3>2, <4>1, <4>2, StaysTogether
    <3>7. ASSUME NEW c \in Clients, Logout(c) PROVE Promise!Next \/ UNCHANGED Promise!rounds
      BY <2>2, <3>1, <3>7, LogoutGoes
    <3> QED
      BY <3>3, <3>4, <3>5, <3>6, <3>7 DEF Next
  <2> QED
    BY <2>1, <2>2
<1> QED
  BY <1>1, <1>2, BarrierHolds, PTL DEF Spec, ImplementsRounds, Promise!Spec
=============================================================================
