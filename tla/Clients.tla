------------------------------- MODULE Clients -------------------------------
(***************************************************************************)
(* The server's table of clients (network.c, client.c): accepting a        *)
(* connection into a free slot, receiving from it, closing it, and drawing *)
(* its display row by row through the one buffer all clients share.        *)
(*                                                                         *)
(* Each action is one system call and everything the code does until the   *)
(* next one; peers and network may act between any two of them.            *)
(***************************************************************************)
EXTENDS Sockets

CONSTANTS
  PLAYER_COUNT,    \* slots of the table (config.h)
  DISPLAY_WIDTH,   \* cells of a row (config.h); 0 leaves colours out
  Colours          \* of glyphs; foreground and background are treated alike

ASSUME ClientsAssumption ==
  /\ PLAYER_COUNT \in Nat \ {0}
  /\ DISPLAY_WIDTH \in Nat
  /\ 0 \notin Colours

Slots == 0 .. PLAYER_COUNT - 1

VARIABLES
  connected,   \* Client.connected
  socket,      \* Client.socket
  resized,     \* Client.terminal.resized
  scanline,    \* Client.terminal.scanline: the next row to send
  buffer,      \* server.buffer: whose unsent screen-clear it holds, if any
  cached,      \* Client.terminal.fg, bg: the colour written last, 0 for none
  pen,         \* the colour the peer's terminal writes in, 0 for its own
  stained      \* rows of it that got a glyph in another colour than its own

tableVars  == <<connected, socket>>
colourVars == <<cached, pen, stained>>
drawVars   == <<resized, scanline, buffer, colourVars>>

ClientsTypeOK ==
  /\ connected \in [Slots -> BOOLEAN]
  /\ socket \in [Slots -> Fds \cup {NoFd}]
  /\ resized \in [Slots -> BOOLEAN]
  /\ scanline \in [Slots -> 0 .. DISPLAY_HEIGHT]
  /\ buffer \in {<<>>} \cup {<<s>> : s \in Slots}
  /\ cached \in [Slots -> Colours \cup {0}]
  /\ pen \in [Peers -> Colours \cup {0}]
  /\ stained \in [Peers -> SUBSET Rows]

ClientsInit ==
  /\ connected = [s \in Slots |-> FALSE]
  /\ socket = [s \in Slots |-> NoFd]
  /\ resized = [s \in Slots |-> FALSE]
  /\ scanline = [s \in Slots |-> 0]
  /\ buffer = <<>>
  /\ cached = [s \in Slots |-> 0]
  /\ pen = [p \in Peers |-> 0]
  /\ stained = [p \in Peers |-> {}]

PeerOf(s) == sock[socket[s]]

(* Mutant: the descriptor is forgotten, not closed. *)
CloseClient_Leak(s) ==
  /\ connected' = [connected EXCEPT ![s] = FALSE]
  /\ socket' = [socket EXCEPT ![s] = NoFd]
  /\ conn' = [conn EXCEPT ![PeerOf(s)] = "gone"]
  /\ UNCHANGED sock

(* client_close, and the close in client_recv: the slot and its descriptor. *)
CloseClient(s) ==
  /\ connected' = [connected EXCEPT ![s] = FALSE]
  /\ socket' = [socket EXCEPT ![s] = NoFd]
  /\ sock' = [sock EXCEPT ![socket[s]] = NoPeer]
  /\ conn' = [conn EXCEPT ![PeerOf(s)] = "gone"]

-----------------------------------------------------------------------------
(* accept_clients *)

(* push_client takes the first slot that is not connected. *)
FirstFree_NoTest(s) == \A t \in 0 .. s - 1 : connected[t]   \* mutant: any slot
FirstFree(s) == ~connected[s] /\ \A t \in 0 .. s - 1 : connected[t]

(***************************************************************************)
(* A slot is zeroed and given to the new connection, which is sent the     *)
(* telnet modes and the accept message.  If either send fails with EPIPE,  *)
(* the client is closed again before the next accept.                      *)
(***************************************************************************)
AcceptClient ==
  \E p \in Backlog, f \in FreeFds, s \in Slots :
    /\ FirstFree(s)
    /\ resized' = [resized EXCEPT ![s] = FALSE]
    /\ scanline' = [scanline EXCEPT ![s] = 0]
    /\ cached' = [cached EXCEPT ![s] = 0]
    /\ \E res \in SendResults(p) :
         \/ /\ res # "epipe"
            /\ connected' = [connected EXCEPT ![s] = TRUE]
            /\ socket' = [socket EXCEPT ![s] = f]
            /\ sock' = [sock EXCEPT ![f] = p]
            /\ conn' = AfterSend(p, res)
            /\ UNCHANGED inbox
         \/ /\ res = "epipe"
            /\ socket' = [socket EXCEPT ![s] = NoFd]
            /\ conn' = [conn EXCEPT ![p] = "gone"]
            /\ inbox' = [inbox EXCEPT ![p] = <<>>]
            /\ UNCHANGED <<connected, sock>>
    /\ UNCHANGED <<buffer, pen, stained, termVars>>

(* A connection is waiting and push_client has no slot for it. *)
TableFull == Backlog # {} /\ FreeFds # {} /\ \A s \in Slots : connected[s]

-----------------------------------------------------------------------------
(* client_recv *)

(* recv() fails with an error other than EWOULDBLOCK. *)
RecvBroken(s) == RecvFailsOn(PeerOf(s))

(* Nothing to read: not connected, EWOULDBLOCK, or the peer's FIN (n == 0). *)
NothingToRead_Blocking(s) == ~connected[s]   \* mutant: the socket is left blocking
NothingToRead(s) ==
  connected[s] => inbox[PeerOf(s)] = <<>> /\ ~RecvBroken(s)

RecvError(s) ==
  /\ connected[s]
  /\ RecvBroken(s)
  /\ CloseClient(s)
  /\ UNCHANGED <<inbox, drawVars, termVars>>

(***************************************************************************)
(* The first n messages of slot s are received and interpreted; quits says *)
(* whether one of them closed the client.  The lexer goes on with the rest *)
(* of what was read after the client has closed.                           *)
(***************************************************************************)
RecvMessages(s, n, quits) ==
  LET p == PeerOf(s)
      heard == {inbox[p][i] : i \in 1 .. n}
  IN  /\ resized' = [resized EXCEPT ![s] = @ \/ "naws" \in heard]
      /\ \/ /\ quits
            /\ CloseClient(s)
            /\ inbox' = [inbox EXCEPT ![p] = <<>>]
         \/ /\ ~quits
            /\ inbox' = [inbox EXCEPT ![p] = SubSeq(@, n + 1, Len(@))]
            /\ UNCHANGED <<conn, sock, tableVars>>
      /\ UNCHANGED <<scanline, buffer, colourVars, termVars>>

-----------------------------------------------------------------------------
(* render_clients and client_render *)

(***************************************************************************)
(* Every connected client gets a new Display and starts over at row 0      *)
(* (client_set_dirty).  What its terminal shows is now out of date.        *)
(***************************************************************************)
RedrawAll ==
  LET watching == {PeerOf(s) : s \in {t \in Slots : connected[t]}}
  IN  /\ scanline' = [s \in Slots |-> IF connected[s] THEN 0 ELSE scanline[s]]
      /\ shown' = [p \in Peers |-> IF p \in watching THEN {} ELSE shown[p]]
      /\ disturbed' = [p \in Peers |-> disturbed[p] /\ p \notin watching]
      /\ UNCHANGED <<sockVars, tableVars, resized, buffer, colourVars>>

(* client_render finds the terminal resized: it clears it and starts over. *)
RenderResized(s) ==
  /\ connected[s] /\ resized[s]
  /\ resized' = [resized EXCEPT ![s] = FALSE]
  /\ buffer' = <<s>>
  /\ scanline' = [scanline EXCEPT ![s] = 0]
  /\ cached' = [cached EXCEPT ![s] = 0]
  /\ disturbed' = [disturbed EXCEPT ![PeerOf(s)] = FALSE]
  /\ UNCHANGED <<sockVars, tableVars, pen, stained, shown>>

(* client_render's loop still has a row to send. *)
Drawing_ButLast(s) ==   \* mutant: off by one
  connected[s] /\ ~resized[s] /\ scanline[s] < DISPLAY_HEIGHT - 1
Drawing(s) == connected[s] /\ ~resized[s] /\ scanline[s] < DISPLAY_HEIGHT

(* Only a complete send advances the scanline. *)
RowSent_Always(res) == TRUE   \* mutant: the result of the send is ignored
RowSent(res) == res = "all"

(* What a send that came out as res leaves in the shared buffer. *)
BufferAfter_Kept(res) == IF res = "all" THEN <<>> ELSE buffer   \* mutant: not cleared on failure
BufferAfter(res) == <<>>

(* client_send closes the client when the send fails with EPIPE. *)
ClosesClient_AnyFailure(res) == res # "all"   \* mutant: errno is not examined
ClosesClient_Never(res) == FALSE              \* mutant: nor is the failure
ClosesClient(res) == res = "epipe"

(* client_render_row writes the colour of a row's first cell, and of those that
   differ from the one before. *)
Before(cells, x, cache) == IF x = 1 THEN cache ELSE cells[x - 1]
Recolours_Cached(cells, x, cache) == cells[x] # Before(cells, x, cache)   \* mutant
Recolours(cells, x, cache) == x = 1 \/ cells[x] # Before(cells, x, cache)

(* n cells of a row reach the terminal of p, which goes on in colour after. *)
Paints(p, row, pens, cells, n, after) ==
  /\ pen' = [pen EXCEPT ![p] = after]
  /\ stained' = [stained EXCEPT ![p] =
       IF \E x \in 1 .. n : pens[x] # cells[x] THEN @ \cup {row} ELSE @]

(***************************************************************************)
(* A row of any colours is sent to p and comes out as res.  pens[x] is the *)
(* colour its terminal writes cell x in, and pens[0] the one it has before *)
(* the row, reset if a screen-clear precedes it.  A short send stops after *)
(* n cells, and may still set the colour of the next, or lose the reset.   *)
(***************************************************************************)
RowColours(s, p, res) ==
  \E cells \in [1 .. DISPLAY_WIDTH -> Colours], pens \in [0 .. DISPLAY_WIDTH -> Colours \cup {0}] :
    /\ pens[0] = IF buffer = <<>> THEN pen[p] ELSE 0
    /\ \A x \in 1 .. DISPLAY_WIDTH :
         pens[x] = IF Recolours(cells, x, cached[s]) THEN cells[x] ELSE pens[x - 1]
    /\ cached' = IF DISPLAY_WIDTH = 0 THEN cached
                 ELSE [cached EXCEPT ![s] = cells[DISPLAY_WIDTH]]
    /\ \/ /\ res = "all"
          /\ Paints(p, scanline[s], pens, cells, DISPLAY_WIDTH, pens[DISPLAY_WIDTH])
       \/ /\ res = "short"
          /\ \/ UNCHANGED <<pen, stained>>
             \/ \E n \in 0 .. DISPLAY_WIDTH - 1 :
                  \E after \in {pens[n], pens[n + 1]} :
                    Paints(p, scanline[s], pens, cells, n, after)
       \/ /\ res \in {"epipe", "error"}
          /\ UNCHANGED <<pen, stained>>

(***************************************************************************)
(* One turn of client_render's loop: the buffer and the row at the         *)
(* scanline go out in one send, and the buffer is cleared whatever became  *)
(* of it.                                                                  *)
(***************************************************************************)
RenderRow(s, res) ==
  LET p == PeerOf(s)
      row == scanline[s]
      kept == IF buffer = <<>> THEN shown[p] ELSE {}   \* a clear comes first
  IN  /\ Drawing(s)
      /\ res \in SendResults(p)
      /\ RowColours(s, p, res)
      /\ buffer' = BufferAfter(res)
      /\ scanline' = [scanline EXCEPT ![s] = IF RowSent(res) THEN @ + 1 ELSE @]
      /\ \/ /\ res = "all"
            /\ shown' = [shown EXCEPT ![p] = kept \cup {row}]
         \/ /\ res = "short"
            /\ \E left \in {shown[p], kept, kept \ {row}} :
                 shown' = [shown EXCEPT ![p] = left]
         \/ /\ res \in {"epipe", "error"}
            /\ UNCHANGED shown
      /\ IF ClosesClient(res)
         THEN CloseClient(s) /\ inbox' = [inbox EXCEPT ![p] = <<>>]
         ELSE conn' = AfterSend(p, res) /\ UNCHANGED <<sock, inbox, tableVars>>
      /\ UNCHANGED <<resized, disturbed>>

(* network_destroy: every client is closed. *)
CloseAll ==
  /\ sock' = [f \in Fds |-> IF \E s \in Slots : connected[s] /\ socket[s] = f
                            THEN NoPeer ELSE sock[f]]
  /\ conn' = [p \in Peers |-> IF conn[p] = "idle" THEN "idle" ELSE "gone"]
  /\ socket' = [s \in Slots |-> IF connected[s] THEN NoFd ELSE socket[s]]
  /\ connected' = [s \in Slots |-> FALSE]
  /\ UNCHANGED <<inbox, drawVars, termVars>>

=============================================================================
