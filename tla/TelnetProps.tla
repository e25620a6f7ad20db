----------------------------- MODULE TelnetProps -----------------------------
(***************************************************************************)
(* What makes the input of a client correct.                               *)
(***************************************************************************)
EXTENDS Telnet

(***************************************************************************)
(* Every turn of client_telnet_receive's loop consumes a byte and none     *)
(* reads past in_len, whatever the bytes are: the loop ends.               *)
(***************************************************************************)
LexerProgress ==
  [][phase = "lexing" /\ phase' # "idle" /\ typed' = typed
       => head < head' /\ head' <= in_len]_vars

(***************************************************************************)
(* As long as reads end where messages end, the key strokes passed to      *)
(* game_input are those the user meant, in order, and the size is the last *)
(* reported; however many messages one read holds.                         *)
(***************************************************************************)
KeysDecoded ==
  ~torn /\ phase = "idle" /\ wire = <<>> => pressed = meant /\ terminal = meantSize

IsMove(k) == k.key \in 262 .. 265   \* the arrows

MovesIn(keys) == {i \in 1 .. Len(keys) : IsMove(keys[i])}

(***************************************************************************)
(* However the network splits what a player sends, the lexer may lose a    *)
(* direction but never makes one up, repeats one or changes their order    *)
(* (client_telnet_receive: what a read has cut off is dropped).            *)
(***************************************************************************)
SplitInventsNoMove ==
  \E at \in [MovesIn(pressed) -> MovesIn(meant)] :
    \A i \in MovesIn(pressed) :
      /\ pressed[i] = meant[at[i]]
      /\ \A j \in MovesIn(pressed) : i < j => at[i] < at[j]

(* Everything that is sent is read in the end: no byte blocks the client, and
   recv is never asked for 0 bytes, whose result client_recv would ignore. *)
WireDrained == []<>(wire = <<>>)

(***************************************************************************)
(* client_telnet.c:292, "NOTE: We read the whole input buffer": the buffer *)
(* is only emptied when all of it has been handled.                        *)
(***************************************************************************)
WholeBufferHandled ==
  phase = "finishing" /\ Ends(in_buffer, head) => handled = in_len
=============================================================================
