------------------------------- MODULE Telnet --------------------------------
(***************************************************************************)
(* One client's input (client_telnet.c and the reads of client_recv): the  *)
(* bytes its terminal sends, the receive buffer they are read into, and    *)
(* the lexer that turns them into key strokes and terminal sizes.          *)
(*                                                                         *)
(* A lexer function takes the buffer b and the number of bytes h consumed  *)
(* so far, and returns a result.                                           *)
(***************************************************************************)
EXTENDS Integers, Sequences

CONSTANTS
  IN_BUFFER,   \* sizeof(in_buffer): 64 (client.h)
  INT_MAX,     \* the largest int: 2^31 - 1 on both platforms
  Keyboard(_), \* what a terminal may send n-th, and what it means by it
  MaxTyped     \* bound: how often the user acts

Byte == 0 .. 255
UINT16_MAX == 65535
Short == 0 .. UINT16_MAX

(* A KeyStroke of key.h; the codes of the special keys are above 255. *)
KeyStroke == [key : 0 .. 301, shift : BOOLEAN, alt : BOOLEAN, ctrl : BOOLEAN]

(* Nothing, or the width and height a terminal reports. *)
Size == {<<>>} \cup Short \X Short

ASSUME TelnetAssumption ==
  /\ IN_BUFFER \in Nat \ {0}
  /\ INT_MAX \in Nat /\ (INT_MAX + 1) % 256 = 0
  /\ MaxTyped \in Nat
  /\ \A n \in 1 .. MaxTyped :
       Keyboard(n) \subseteq [bytes : Seq(Byte) \ {<<>>}, keys : Seq(KeyStroke), size : Size]

Plain(k) == [key |-> k, shift |-> FALSE, alt |-> FALSE, ctrl |-> FALSE]

-----------------------------------------------------------------------------
(* Results: LexerResult with the new head and what was recognised on the way *)

Result(r, h, ks) == [res |-> r, head |-> h, keys |-> ks, size |-> <<>>]
Ok(h, key)    == Result("ok", h, <<key>>)
Err(h)        == Result("err", h, <<>>)
Unfinished(h) == Result("unfinished", h, <<>>)

Ends(b, h) == h >= Len(b)   \* ~lexer_has_next
curr(b, h) == IF Ends(b, h) THEN 0 ELSE b[h + 1]

IAC == 255
ESC == 27
CSI == 91   \* '['
SS3 == 79   \* 'O'
TILDE == 126
SEMICOLON == 59

(* IAC SB NAWS, four bytes of any value (-1 here), IAC SE *)
SizeReport == <<IAC, 250, 31, -1, -1, -1, -1, IAC, 240>>

(* Every byte is compared as it is consumed; a wrong one is consumed too. *)
parse_telnet_command(b, h) ==
  LET Wrong(k) == SizeReport[k] # -1 /\ b[h + k] # SizeReport[k]
      there == {k \in 1 .. 9 : h + k <= Len(b)}
  IN  IF \E k \in there : Wrong(k)
      THEN Err(h + (CHOOSE k \in there : Wrong(k) /\ \A l \in 1 .. k - 1 : ~Wrong(l)))
      ELSE IF 9 \notin there THEN Unfinished(Len(b))
      ELSE [Result("ok", h + 9, <<>>) EXCEPT
              !.size = <<256 * b[h + 4] + b[h + 5], 256 * b[h + 6] + b[h + 7]>>]

-----------------------------------------------------------------------------
(* Numbers and modifiers *)

IsDigit(c) == c \in 48 .. 57

(* parse_number stops at the first byte that is not a digit. *)
NumberEnd(b, h) ==
  CHOOSE e \in h .. Len(b) : /\ e = Len(b) \/ ~IsDigit(b[e + 1])
                             /\ \A k \in h .. e - 1 : IsDigit(b[k + 1])

(* What is left of n in an int: the builds let it wrap. *)
Wrap(n) ==
  IF n \in -INT_MAX - 1 .. INT_MAX THEN n
  ELSE ((n + INT_MAX + 1) % (2 * (INT_MAX + 1))) - INT_MAX - 1

Number(b, h, e) ==
  LET value[k \in h .. e] == IF k = h THEN 0 ELSE Wrap(10 * value[k - 1] + b[k] - 48)
  IN  value[e]

(* parse_modifier: the bits of m - 1. *)
Modified_Raw(k, m) ==   \* mutant: the 1 is not subtracted
  [key |-> k, shift |-> m % 2 = 1, alt |-> (m \div 2) % 2 = 1, ctrl |-> (m \div 4) % 2 = 1]
Modified(k, m) ==
  [key |-> k, shift |-> (m - 1) % 2 = 1,
   alt |-> ((m - 1) \div 2) % 2 = 1, ctrl |-> ((m - 1) \div 4) % 2 = 1]

-----------------------------------------------------------------------------
(* Escape sequences *)

(* Letters after ESC [, and the first four of them after ESC O. *)
ss3Keys == {<<80, 290>>, <<81, 291>>, <<82, 292>>, <<83, 293>>}         \* F1 .. F4
csiKeys == ss3Keys \cup {<<65, 265>>, <<66, 264>>, <<67, 262>>, <<68, 263>>,
                         <<72, 268>>, <<70, 269>>}       \* arrows, home, end
(* Numbers before ~ *)
tildeKeys == {<<2, 260>>, <<3, 261>>, <<4, 269>>, <<5, 266>>, <<6, 267>>,
              <<15, 294>>, <<17, 295>>, <<18, 296>>, <<19, 297>>,
              <<20, 298>>, <<21, 299>>, <<23, 300>>, <<24, 301>>}
KEY_HOME   == 268
KEY_ESCAPE == 256
KEY_TAB    == 258

Known(table, c) == \E e \in table : e[1] = c
KeyOf(table, c) == (CHOOSE e \in table : e[1] = c)[2]

Letter(b, h, table, m) ==
  LET c == b[h + 1]
  IN  IF Known(table, c) THEN Ok(h + 1, Modified(KeyOf(table, c), m)) ELSE Err(h + 1)

(* parse_tilde_terminated_char: n is cut to 8 bits; an unknown key is key 0. *)
parse_tilde(b, h, n) ==
  LET k == IF Known(tildeKeys, n % 256) THEN KeyOf(tildeKeys, n % 256) ELSE 0
      e == NumberEnd(b, h + 1)
  IN  CASE b[h + 1] = TILDE -> Ok(h + 1, Plain(k))
        [] b[h + 1] = SEMICOLON ->
             IF Ends(b, e) THEN Unfinished(e)
             ELSE IF b[e + 1] = TILDE THEN Ok(e + 1, Modified(k, Number(b, h + 1, e)))
             ELSE Err(e + 1)
        [] OTHER -> Err(h + 1)

(* parse_csi_char, with h after the [ *)
parse_csi(b, h) ==
  LET e == NumberEnd(b, h)
      n == Number(b, h, e)
      f == NumberEnd(b, e + 1)
  IN  CASE Ends(b, e) -> Unfinished(e)
        [] ~Ends(b, e) /\ n = 0 -> Letter(b, e, csiKeys, 1)
        [] ~Ends(b, e) /\ n \notin {0, 1} -> parse_tilde(b, e, n)
        [] ~Ends(b, e) /\ n = 1 ->
             CASE b[e + 1] = TILDE -> Ok(e + 1, Plain(KEY_HOME))
               [] b[e + 1] = SEMICOLON ->
                    IF Ends(b, f) THEN Unfinished(f)
                    ELSE Letter(b, f, csiKeys, Number(b, e + 1, f))
               [] OTHER -> Err(e + 1)

(* parse_ss3_char, with h after the O *)
parse_ss3(b, h) == IF Ends(b, h) THEN Unfinished(h) ELSE Letter(b, h, ss3Keys, 1)

(* Mutant: the byte after a lone ESC is skipped. *)
parse_escaped_character_Skip(b, h) ==
  CASE curr(b, h + 1) = CSI -> parse_csi(b, h + 2)
    [] curr(b, h + 1) = SS3 -> parse_ss3(b, h + 2)
    [] OTHER -> Ok(h + 2, Plain(KEY_ESCAPE))

parse_escaped_character(b, h) ==
  CASE curr(b, h + 1) = CSI -> parse_csi(b, h + 2)
    [] curr(b, h + 1) = SS3 -> parse_ss3(b, h + 2)
    [] OTHER -> Ok(h + 1, Plain(KEY_ESCAPE))

parse_simple_character_Peek(b, h) == Ok(h, Plain(b[h + 1]))   \* mutant: nothing is consumed
parse_simple_character(b, h) ==
  LET c == b[h + 1]
  IN  Ok(h + 1, CASE c = 9 -> Plain(KEY_TAB)
                  [] c \in 1 .. 26 \ {9} -> [Plain(c + 96) EXCEPT !.ctrl = TRUE]
                  [] c \in 65 .. 90 -> [Plain(c + 32) EXCEPT !.shift = TRUE]
                  [] OTHER -> Plain(c))

parse_message(b, h) ==
  CASE b[h + 1] = IAC -> parse_telnet_command(b, h)
    [] b[h + 1] = ESC -> parse_escaped_character(b, h)
    [] OTHER -> parse_simple_character(b, h)

-----------------------------------------------------------------------------
(* Reading and lexing *)

VARIABLES
  wire,       \* bytes the terminal has sent and the server has not read
  ends,       \* how much of wire may be read for a message to end there
  torn,       \* some read has ended in the middle of a message
  in_buffer,  \* Client.in_buffer up to in_len
  phase,      \* "idle"; in the loop: "lexing"; after it: "finishing"
  head,       \* TelnetLexer.head
  handled,    \* TelnetLexer.handled_size
  pressed,    \* the key strokes passed to game_input
  terminal,   \* Client.terminal.width and height, once reported
  typed,      \* how often the user has acted
  meant,      \* the key strokes the user meant
  meantSize   \* the size the terminal last reported

userVars == <<typed, meant, meantSize>>
lexVars == <<head, handled, phase>>
wireVars == <<wire, ends, torn>>
vars == <<wireVars, in_buffer, lexVars, pressed, terminal, userVars>>

in_len == Len(in_buffer)

TypeOK ==
  /\ wire \in Seq(Byte)
  /\ ends \subseteq 1 .. Len(wire) /\ torn \in BOOLEAN
  /\ in_buffer \in Seq(Byte) /\ in_len <= IN_BUFFER
  /\ phase \in {"idle", "lexing", "finishing"}
  /\ handled \in Nat /\ head \in Nat
  /\ handled <= head /\ head <= in_len
  /\ pressed \in Seq(KeyStroke) /\ terminal \in Size
  /\ typed \in Nat
  /\ meant \in Seq(KeyStroke) /\ meantSize \in Size

Init ==
  /\ wire = <<>> /\ ends = {} /\ torn = FALSE
  /\ in_buffer = <<>>
  /\ phase = "idle" /\ head = 0 /\ handled = 0
  /\ pressed = <<>> /\ terminal = <<>>
  /\ typed = 0 /\ meant = <<>> /\ meantSize = <<>>

(* The user presses a key or resizes the terminal. *)
Send ==
  /\ typed < MaxTyped
  /\ \E k \in Keyboard(typed + 1) :
       /\ wire' = wire \o k.bytes
       /\ ends' = ends \cup {Len(wire')}
       /\ meant' = meant \o k.keys
       /\ meantSize' = IF k.size = <<>> THEN meantSize ELSE k.size
  /\ typed' = typed + 1
  /\ UNCHANGED <<torn, in_buffer, lexVars, pressed, terminal>>

(* How many bytes one recv may return: any part of what was sent, of which it
   asks for as much as there is room for. *)
Readable == {n \in 1 .. Len(wire) : n <= IN_BUFFER - in_len}

(* client_recv: the bytes are appended and client_telnet_receive is entered. *)
Recv ==
  /\ phase = "idle"
  /\ \E n \in Readable :
       /\ in_buffer' = in_buffer \o SubSeq(wire, 1, n)
       /\ wire' = SubSeq(wire, n + 1, Len(wire))
       /\ ends' = {e - n : e \in {e \in ends : e > n}}
       /\ torn' = (torn \/ n \notin ends)
  /\ phase' = "lexing" /\ head' = 0 /\ handled' = 0
  /\ UNCHANGED <<pressed, terminal, userVars>>

(* One turn of client_telnet_receive's loop. *)
Lex ==
  /\ phase = "lexing" /\ ~Ends(in_buffer, head)
  /\ LET r == parse_message(in_buffer, head)
     IN  /\ head' = r.head
         /\ handled' = IF r.res = "unfinished" THEN handled ELSE r.head
         /\ phase' = IF r.res = "unfinished" THEN "finishing" ELSE "lexing"
         /\ pressed' = pressed \o r.keys
         /\ terminal' = IF r.size = <<>> THEN terminal ELSE r.size
  /\ UNCHANGED <<wireVars, in_buffer, userVars>>

(* After the loop: what was not handled is kept, if the lexer has more to read. *)
Remainder_All == in_buffer   \* mutant: in_len is not reset
Remainder ==
  IF Ends(in_buffer, head) THEN <<>> ELSE SubSeq(in_buffer, handled + 1, in_len)

Finish ==
  /\ phase = "finishing" \/ (phase = "lexing" /\ Ends(in_buffer, head))
  /\ in_buffer' = Remainder
  /\ phase' = "idle" /\ head' = 0 /\ handled' = 0
  /\ UNCHANGED <<wireVars, pressed, terminal, userVars>>

Next == Send \/ Recv \/ Lex \/ Finish

Spec == Init /\ [][Next]_vars

(* The read and the lexer are straight-line code of a loop that goes round for
   ever; nothing but their own steps is assumed. *)
FairSpec == Spec /\ WF_vars(Recv \/ Lex \/ Finish)
=============================================================================
