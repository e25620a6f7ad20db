------------------------------- MODULE Server --------------------------------
(***************************************************************************)
(* The server process: start-up, the main loop of main.c with its phases   *)
(* (network_update, game_tick, render_clients, network_render_step), the   *)
(* players' side of the game that the loop depends on, SIGINT and          *)
(* shutdown.  The loop is single-threaded; it interleaves with the peers,  *)
(* the network and the signal.                                             *)
(***************************************************************************)
EXTENDS Clients

CONSTANTS
  Active,    \* players game_init creates: slots 0 and 1 in the code
  GcdMove,   \* GCD_MOVE, the cooldown after a move (100 ms in the code)
  DTs,       \* the time steps delta_time_get may return, in units of GcdMove
  Asserts    \* TRUE: assert() is compiled in (debug); FALSE: NDEBUG (release)

ASSUME ServerAssumption ==
  /\ Active \subseteq Slots
  /\ GcdMove \in Nat
  /\ DTs \subseteq Nat
  /\ Asserts \in BOOLEAN

VARIABLES
  phase,     \* what the main thread is doing
  turn,      \* the slot its current loop over the clients has reached
  running,   \* game->running
  action,    \* Player.action.kind
  gcd        \* cooldown of the player's actor

playerVars == <<action, gcd>>
loopVars   == <<phase, turn, running>>
vars == <<sockVars, termVars, tableVars, drawVars, playerVars, loopVars>>

StartPhases == {"boot", "init"}
LoopPhases  == {"test", "accept", "recv", "tick", "render", "send"}
Phases      == StartPhases \cup LoopPhases \cup {"stop", "done", "crashed"}

Stopped == phase \in {"done", "crashed"}

TypeOK ==
  /\ SocketsTypeOK
  /\ ClientsTypeOK
  /\ phase \in Phases
  /\ turn \in 0 .. PLAYER_COUNT
  /\ running \in BOOLEAN
  /\ action \in [Slots -> {"none", "move"}]
  /\ gcd \in [Slots -> 0 .. GcdMove]

Init ==
  /\ SocketsInit
  /\ ClientsInit
  /\ phase = "boot"
  /\ turn = 0
  /\ running = FALSE
  /\ action = [s \in Slots |-> "none"]
  /\ gcd = [s \in Slots |-> 0]

Goto(ph) == phase' = ph /\ turn' = 0 /\ UNCHANGED running
NextTurn == turn' = turn + 1 /\ UNCHANGED <<phase, running>>
Stay     == UNCHANGED loopVars

worldVars == <<sockVars, termVars, tableVars, drawVars>>

-----------------------------------------------------------------------------
(* Start-up: the SIGINT handler is installed before the game is allocated. *)

Allocate ==
  /\ phase = "boot"
  /\ Goto("init")
  /\ UNCHANGED <<worldVars, playerVars>>

(* network_init and game_init; the latter sets running whatever it was. *)
GameInit ==
  /\ phase = "init"
  /\ phase' = "test" /\ running' = TRUE
  /\ UNCHANGED <<worldVars, playerVars, turn>>

-----------------------------------------------------------------------------
(* network_update *)

Accept ==
  /\ phase = "accept"
  /\ AcceptClient
  /\ Stay
  /\ UNCHANGED playerVars

(* push_client's assert(0); without it, control leaves the function. *)
AcceptOverflow ==
  /\ phase = "accept"
  /\ TableFull
  /\ Goto("crashed")
  /\ UNCHANGED <<worldVars, playerVars>>

(* accept() finds no connection, or no descriptor for it. *)
AcceptNothing ==
  /\ phase = "accept"
  /\ Backlog = {} \/ FreeFds = {}
  /\ Goto("recv")
  /\ UNCHANGED <<worldVars, playerVars>>

RecvNothing ==
  /\ phase = "recv" /\ turn \in Slots
  /\ NothingToRead(turn)
  /\ NextTurn
  /\ UNCHANGED <<worldVars, playerVars>>

RecvFails ==
  /\ phase = "recv" /\ turn \in Slots
  /\ RecvError(turn)
  /\ NextTurn
  /\ UNCHANGED playerVars

(* game_input ignores keys while more than a move's cooldown remains. *)
Listening(s) == gcd[s] <= GcdMove

(* game_input asks for the actor of a player that was never created. *)
UnknownActor(s, n) ==
  /\ Asserts
  /\ s \notin Active
  /\ \E i \in 1 .. n : inbox[PeerOf(s)][i] # "naws"

(***************************************************************************)
(* client_recv, the lexer and game_input for every key it recognises: the  *)
(* last direction wins, and 'q' closes the client.                         *)
(***************************************************************************)
Recv ==
  /\ phase = "recv" /\ turn \in Slots
  /\ connected[turn]
  /\ \E n \in 1 .. Len(inbox[PeerOf(turn)]) :
       LET heard == {inbox[PeerOf(turn)][i] : i \in 1 .. n}
       IN  /\ ~UnknownActor(turn, n)
           /\ \E quits \in BOOLEAN :
                /\ quits => Listening(turn) /\ heard \cap {"quit", "tail"} # {}
                /\ "quit" \in heard /\ Listening(turn) => quits
                /\ RecvMessages(turn, n, quits)
           /\ action' = [action EXCEPT ![turn] =
                 IF "move" \in heard /\ Listening(turn) THEN "move" ELSE @]
  /\ NextTurn
  /\ UNCHANGED gcd

(* actor_get's assert(0), reached from game_input. *)
RecvUnknownActor ==
  /\ phase = "recv" /\ turn \in Slots
  /\ connected[turn]
  /\ \E n \in 1 .. Len(inbox[PeerOf(turn)]) : UnknownActor(turn, n)
  /\ Goto("crashed")
  /\ UNCHANGED <<worldVars, playerVars>>

RecvDone ==
  /\ phase = "recv" /\ turn = PLAYER_COUNT
  /\ Goto("tick")
  /\ UNCHANGED <<worldVars, playerVars>>

-----------------------------------------------------------------------------
(* game_tick *)

(* gcd_tick *)
Remaining_Unclamped(s, dt) == gcd[s] - dt   \* mutant: no test against dt
Remaining(s, dt) == IF gcd[s] < dt THEN 0 ELSE gcd[s] - dt

MayAct(s, dt) == s \in Active /\ Remaining(s, dt) = 0

(***************************************************************************)
(* player_tick for every active player: once the cooldown is over the      *)
(* buffered action is carried out and forgotten, and the game is dirty.    *)
(* Whether a move succeeds is up to the map (unobstructed).                *)
(***************************************************************************)
Tick ==
  /\ phase = "tick"
  /\ \E dt \in DTs, unobstructed \in SUBSET Active :
       /\ gcd' = [s \in Slots |->
            IF MayAct(s, dt) /\ action[s] = "move" /\ s \in unobstructed THEN GcdMove
            ELSE IF s \in Active THEN Remaining(s, dt) ELSE gcd[s]]
       /\ action' = [s \in Slots |-> IF MayAct(s, dt) THEN "none" ELSE action[s]]
       /\ IF \E s \in Slots : MayAct(s, dt) THEN Goto("render") ELSE Goto("send")
  /\ UNCHANGED worldVars

-----------------------------------------------------------------------------
(* render_clients and network_render_step *)

Render ==
  /\ phase = "render"
  /\ \A s \in Slots : connected[s] => s \in Active
  /\ RedrawAll
  /\ Goto("send")
  /\ UNCHANGED playerVars

(* game_render for a player that was never created: actor_get's assert(0);
   without it, map_render follows the player's null map. *)
RenderUnknownActor ==
  /\ phase = "render"
  /\ \E s \in Slots : connected[s] /\ s \notin Active
  /\ Goto("crashed")
  /\ UNCHANGED <<worldVars, playerVars>>

SendResized ==
  /\ phase = "send" /\ turn \in Slots
  /\ RenderResized(turn)
  /\ Stay
  /\ UNCHANGED playerVars

(* client_render returns, and the next client is rendered, if a send was
   not complete. *)
GivesUp_WhenClosed(res) == res = "epipe"   \* mutant: the row is retried
GivesUp(res) == res # "all"

SendRow ==
  /\ phase = "send" /\ turn \in Slots
  /\ \E res \in {"all", "short", "epipe", "error"} :
       /\ RenderRow(turn, res)
       /\ IF GivesUp(res) THEN NextTurn ELSE Stay
  /\ UNCHANGED playerVars

SendNothing ==
  /\ phase = "send" /\ turn \in Slots
  /\ connected[turn] => ~resized[turn] /\ ~Drawing(turn)
  /\ NextTurn
  /\ UNCHANGED <<worldVars, playerVars>>

(* The end of an iteration. *)
SendDone ==
  /\ phase = "send" /\ turn = PLAYER_COUNT
  /\ Goto("test")
  /\ UNCHANGED <<worldVars, playerVars>>

(* while (game_is_running()) *)
TestRunning ==
  /\ phase = "test"
  /\ Goto(IF running THEN "accept" ELSE "stop")
  /\ UNCHANGED <<worldVars, playerVars>>

Shutdown ==
  /\ phase = "stop"
  /\ CloseAll
  /\ Goto("done")
  /\ UNCHANGED playerVars

-----------------------------------------------------------------------------
(* handle_signal; before the game is allocated, game_exit follows NULL. *)
Sigint ==
  /\ ~Stopped
  /\ running' = FALSE
  /\ phase' = IF phase = "boot" THEN "crashed" ELSE phase
  /\ UNCHANGED <<worldVars, playerVars, turn>>

NetworkUpdate == \/ Accept \/ AcceptOverflow \/ AcceptNothing
                 \/ RecvNothing \/ RecvFails \/ Recv \/ RecvUnknownActor \/ RecvDone
Rendering == \/ Render \/ RenderUnknownActor
             \/ SendResized \/ SendRow \/ SendNothing \/ SendDone

MainThread == \/ Allocate \/ GameInit
              \/ TestRunning \/ NetworkUpdate \/ Tick \/ Rendering
              \/ Shutdown

(* The peers matter while the server listens. *)
Outside ==
  /\ phase \in LoopPhases
  /\ \E p \in Peers : PeerStep(p) \/ AnswerReset(p)
  /\ UNCHANGED <<tableVars, drawVars, playerVars, loopVars>>

Next == MainThread \/ Outside \/ Sigint

Spec == Init /\ [][Next]_vars

(***************************************************************************)
(* The main thread never blocks (every socket is non-blocking) and so goes *)
(* on; a closed peer's kernel does answer data with a RST.                 *)
(***************************************************************************)
Fairness ==
  /\ WF_vars(MainThread)
  /\ \A p \in Peers : WF_vars(Outside /\ AnswerReset(p))

FairSpec == Spec /\ Fairness
=============================================================================
