------------------------------- MODULE Sockets -------------------------------
(***************************************************************************)
(* The world outside the server process: the peers (telnet users), their   *)
(* TCP connections, and the descriptors the kernel has handed to the       *)
(* server.  None of it is code of the repository; it is modelled from how  *)
(* network.c and client.c use accept, recv, send and close through         *)
(* tcp_server.c, and is marked external in the map.                        *)
(*                                                                         *)
(* A peer connects at most once; a person who comes back is another peer.  *)
(***************************************************************************)
EXTENDS Naturals, Sequences

CONSTANTS
  Peers,           \* the users' terminals
  Fds,             \* descriptors the kernel can hand out for connections
  NoPeer, NoFd,    \* a descriptor that is not open; the code's socket == 0
  Sent,            \* the keys users press, see Messages
  Resizing,        \* peers whose terminal is resized now and then
  MaxInbox,        \* bound: messages in flight from one peer
  Congested,       \* peers that are slow: a send to them may be short
  DISPLAY_HEIGHT   \* rows of the screen (config.h)

ASSUME SocketsAssumption ==
  /\ NoPeer \notin Peers
  /\ NoFd \notin Fds
  /\ Sent \subseteq {"move", "quit", "noise"}
  /\ Resizing \subseteq Peers
  /\ MaxInbox \in Nat \ {0}
  /\ Congested \subseteq Peers
  /\ DISPLAY_HEIGHT \in Nat \ {0}

Rows == 0 .. DISPLAY_HEIGHT - 1

(***************************************************************************)
(* What the lexer makes of the bytes of a peer (see Telnet): a direction;  *)
(* a 'q'; the terminal's report of its new size; any other key; and what   *)
(* is left of a size report or of a function key when TCP split it between *)
(* two reads.  The lexer has forgotten the first half by then and takes    *)
(* the second for single characters, which may include a 'q'.              *)
(***************************************************************************)
Messages == {"move", "quit", "naws", "noise", "tail"}

(***************************************************************************)
(* "open": established; "closed": the peer has sent its FIN; "poked": and  *)
(* the server has sent to it since; "reset": its RST has arrived;          *)
(* "broken": and a send has reported it, an error the kernel reports once; *)
(* "gone": the server has closed its descriptor.                           *)
(***************************************************************************)
ConnStates == {"idle", "open", "closed", "poked", "reset", "broken", "gone"}

VARIABLES
  conn,       \* state of each peer's connection
  sock,       \* the peer at the other end of each descriptor
  inbox,      \* messages sent by each peer and not yet received
  shown,      \* rows of its current Display that the peer's terminal shows
  disturbed   \* has the terminal been resized since the frame was begun?

sockVars == <<conn, sock, inbox>>
termVars == <<shown, disturbed>>

SocketsTypeOK ==
  /\ conn \in [Peers -> ConnStates]
  /\ sock \in [Fds -> Peers \cup {NoPeer}]
  /\ inbox \in [Peers -> Seq(Messages)]
  /\ shown \in [Peers -> SUBSET Rows]
  /\ disturbed \in [Peers -> BOOLEAN]

SocketsInit ==
  /\ conn = [p \in Peers |-> "idle"]
  /\ sock = [f \in Fds |-> NoPeer]
  /\ inbox = [p \in Peers |-> <<>>]
  /\ shown = [p \in Peers |-> {}]
  /\ disturbed = [p \in Peers |-> FALSE]

-----------------------------------------------------------------------------
(* Peers and network *)

Connect(p) ==
  /\ conn[p] = "idle"
  /\ conn' = [conn EXCEPT ![p] = "open"]
  /\ UNCHANGED <<sock, inbox, termVars>>

Type(p) ==
  /\ conn[p] = "open"
  /\ Len(inbox[p]) < MaxInbox
  /\ \E m \in Sent : inbox' = [inbox EXCEPT ![p] = Append(@, m)]
  /\ UNCHANGED <<conn, sock, termVars>>

(* The terminal is resized: it loses what it showed and reports its size. *)
Resize(p) ==
  /\ conn[p] = "open"
  /\ p \in Resizing
  /\ Len(inbox[p]) < MaxInbox
  /\ inbox' = [inbox EXCEPT ![p] = Append(@, "naws")]
  /\ shown' = [shown EXCEPT ![p] = {}]
  /\ disturbed' = [disturbed EXCEPT ![p] = TRUE]
  /\ UNCHANGED <<conn, sock>>

(* The network splits a message: the read that ends in its middle drops it. *)
Split(p) ==
  /\ \E i \in 1 .. Len(inbox[p]) :
       \/ /\ inbox[p][i] = "move"
          /\ inbox' = [inbox EXCEPT ![p][i] = "noise"]
       \/ /\ inbox[p][i] \in {"naws", "noise"}
          /\ inbox' = [inbox EXCEPT ![p][i] = "tail"]
  /\ UNCHANGED <<conn, sock, termVars>>

HangUp(p) ==
  /\ conn[p] = "open"
  /\ conn' = [conn EXCEPT ![p] = "closed"]
  /\ UNCHANGED <<sock, inbox, termVars>>

Abort(p) ==
  /\ conn[p] \in {"open", "closed"}
  /\ conn' = [conn EXCEPT ![p] = "reset"]
  /\ UNCHANGED <<sock, inbox, termVars>>

(* A closed peer answers data with a RST. *)
AnswerReset(p) ==
  /\ conn[p] = "poked"
  /\ conn' = [conn EXCEPT ![p] = "reset"]
  /\ UNCHANGED <<sock, inbox, termVars>>

PeerStep(p) ==
  Connect(p) \/ Type(p) \/ Resize(p) \/ Split(p) \/ HangUp(p) \/ Abort(p)

-----------------------------------------------------------------------------
(* System calls, as the server's actions use them *)

(* Connections accept() can return. *)
Backlog == {p \in Peers : /\ conn[p] \notin {"idle", "gone"}
                          /\ \A f \in Fds : sock[f] # p}

FreeFds == {f \in Fds : sock[f] = NoPeer}

(* recv() fails once nothing is left to read; it returns 0 after a FIN, and
   when a send has already been told of the reset. *)
RecvFailsOn(p) == inbox[p] = <<>> /\ conn[p] = "reset"

(* Results of send(): every byte; fewer bytes or EAGAIN; EPIPE; another error. *)
SendResults(p) == CASE conn[p] = "reset"  -> {"epipe", "error"}
                    [] conn[p] = "broken" -> {"epipe"}
                    [] OTHER -> IF p \in Congested THEN {"all", "short"} ELSE {"all"}

(* The connections after a send to p that came out as res. *)
AfterSend(p, res) ==
  [conn EXCEPT ![p] = IF @ = "closed" THEN "poked"
                      ELSE IF res = "error" THEN "broken" ELSE @]

=============================================================================
