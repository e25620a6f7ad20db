----------------------------- MODULE ServerProps -----------------------------
(***************************************************************************)
(* What makes the server correct: its invariants, action properties and    *)
(* liveness properties, and the refinement of Sessions.                    *)
(***************************************************************************)
EXTENDS Server

CONSTANT NoSlot

ASSUME PropsAssumption == NoSlot \notin Slots

-----------------------------------------------------------------------------
(* Safety *)

(***************************************************************************)
(* Descriptors and slots stay in step, whichever of the four paths closes  *)
(* a client ('q', a failed recv, EPIPE, shutdown): a connected client has  *)
(* an open descriptor of its own, no descriptor is open that no connected  *)
(* client owns, and a free slot holds none.                                *)
(***************************************************************************)
SocketOwnership ==
  /\ \A s \in Slots : connected[s] => socket[s] \in Fds /\ sock[socket[s]] \in Peers
  /\ \A s \in Slots : ~connected[s] => socket[s] = NoFd
  /\ \A s, t \in Slots : connected[s] /\ connected[t] /\ socket[s] = socket[t] => s = t
  /\ \A f \in Fds : sock[f] # NoPeer => \E s \in Slots : connected[s] /\ socket[s] = f
  /\ \A f, g \in Fds : sock[f] = sock[g] /\ sock[f] # NoPeer => f = g
  /\ \A f \in Fds : sock[f] # NoPeer => conn[sock[f]] \notin {"idle", "gone"}

(***************************************************************************)
(* A terminal shows the current Display in every row above the client's    *)
(* scanline, however the sends of this and of earlier frames came out and  *)
(* whoever had the slot before; unless it was resized since the frame was  *)
(* begun (its report may still be on the way).                             *)
(***************************************************************************)
RowsAboveScanline ==
  \A s \in Slots :
    connected[s] /\ ~disturbed[PeerOf(s)] => 0 .. scanline[s] - 1 \subseteq shown[PeerOf(s)]

(***************************************************************************)
(* Every glyph is written in its own colour, although a colour is only     *)
(* sent when it differs from the one the server believes the terminal to   *)
(* have: whatever was cut off of earlier rows, or not sent at all.         *)
(***************************************************************************)
TrueColours == \A p \in Peers : stained[p] = {}

(***************************************************************************)
(* The output buffer is shared by all clients: what it holds between two   *)
(* sends was written for the client being rendered, who sends it next.     *)
(***************************************************************************)
BufferForNobodyElse ==
  buffer # <<>> => /\ phase = "send" /\ buffer = <<turn>>
                   /\ connected[turn] /\ scanline[turn] = 0

(***************************************************************************)
(* client_render does not spin on a socket that takes nothing: its loop    *)
(* turns only when a row has gone out, so that a slow client delays the    *)
(* others by one failed send.                                              *)
(***************************************************************************)
NoBusySending ==
  [][phase = "send" /\ turn \in Slots /\ turn' = turn
       => resized[turn] \/ scanline'[turn] = scanline[turn] + 1]_drawVars

(***************************************************************************)
(* The server hangs up on a peer whose connection is sound only when it    *)
(* shuts down, or on reading its 'q' (or what is left of a message that    *)
(* was split): never because of how a send came out.                       *)
(***************************************************************************)
Quitting(p) == \E i \in 1 .. Len(inbox[p]) : inbox[p][i] \in {"quit", "tail"}

OpenPeerKept ==
  [][\A p \in Peers : conn[p] = "open" /\ conn'[p] = "gone"
        => phase = "stop" \/ (phase = "recv" /\ Quitting(p))]_vars

-----------------------------------------------------------------------------
(* What two assertions of the code claim *)

(* network.c:52, assert(0): push_client always finds a free slot. *)
PushClientFindsSlot == phase = "accept" => ~TableFull

(* actors.c:50, assert(0): actor_get is only asked for living actors; game_render
   asks for the actor of every connected client's player. *)
RenderedPlayersHaveActors ==
  phase = "render" => \A s \in Slots : connected[s] => s \in Active

-----------------------------------------------------------------------------
(* Liveness *)

(***************************************************************************)
(* A client whose peer has gone loses its slot, although client_recv       *)
(* ignores the FIN: drawing its screen provokes the error that closes it.  *)
(***************************************************************************)
DeadPeerReaped ==
  \A s \in Slots, p \in Peers :
    connected[s] /\ PeerOf(s) = p /\ conn[p] \in {"closed", "poked", "reset", "broken"}
      ~> conn[p] = "gone" \/ Stopped

(* A client that keeps up with what it is sent sees, again and again, all of
   its Display, however slow the others are and whenever they come and go,
   unless its terminal is resized all the time. *)
WholeScreenShown ==
  \A s \in Slots :
    []<>(connected[s] /\ PeerOf(s) \notin Congested
           => \/ shown[PeerOf(s)] = Rows
              \/ disturbed[PeerOf(s)] \/ Stopped)

(* SIGINT during the main loop ends the program, however slow or silent the
   clients are: no phase of an iteration waits for any of them. *)
SigintStops == phase \in LoopPhases /\ ~running ~> Stopped

-----------------------------------------------------------------------------
(* Refinement of Sessions *)

seat == [p \in Peers |->
  IF \E s \in Slots : connected[s] /\ PeerOf(s) = p
  THEN CHOOSE s \in Slots : connected[s] /\ PeerOf(s) = p ELSE NoSlot]

stage == [p \in Peers |-> CASE conn[p] = "idle" -> "away"
                            [] conn[p] = "gone" -> "left"
                            [] OTHER -> IF seat[p] = NoSlot THEN "waiting" ELSE "seated"]

Promise == INSTANCE Sessions

(* Every step of the server is a step of Sessions, or changes nothing in it:
   two peers never share a slot, and no peer changes slots. *)
ImplementsSessions == Promise!Spec
=============================================================================
