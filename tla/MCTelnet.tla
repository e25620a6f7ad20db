------------------------------ MODULE MCTelnet -------------------------------
(***************************************************************************)
(* Telnet on small instances, for TLC, with what terminals send for some   *)
(* keys (xterm's sequences), written down independently of the lexer.      *)
(***************************************************************************)
EXTENDS TelnetProps

Key(bytes, k, mods) ==
  [bytes |-> bytes, size |-> <<>>,
   keys |-> <<[key |-> k, shift |-> "shift" \in mods,
               alt |-> "alt" \in mods, ctrl |-> "ctrl" \in mods]>>]

Up        == Key(<<27, 91, 65>>, 265, {})                      \* ESC [ A
ShiftDown == Key(<<27, 91, 49, 59, 50, 66>>, 264, {"shift"})   \* ESC [ 1 ; 2 B
CtrlAltF2 == Key(<<27, 91, 49, 59, 55, 81>>, 291, {"alt", "ctrl"})
Home      == Key(<<27, 91, 49, 126>>, 268, {})                 \* ESC [ 1 ~
F12       == Key(<<27, 91, 50, 52, 126>>, 301, {})             \* ESC [ 24 ~
AltDelete == Key(<<27, 91, 51, 59, 51, 126>>, 261, {"alt"})    \* ESC [ 3 ; 3 ~
F1        == Key(<<27, 79, 80>>, 290, {})                      \* ESC O P
Escape    == Key(<<27>>, 256, {})
Q         == Key(<<113>>, 113, {})
ShiftQ    == Key(<<81>>, 113, {"shift"})
CtrlC     == Key(<<3>>, 99, {"ctrl"})
Tab       == Key(<<9>>, 258, {})

Resized(w, h) ==
  [bytes |-> <<255, 250, 31, w \div 256, w % 256, h \div 256, h % 256, 255, 240>>,
   keys |-> <<>>, size |-> <<w, h>>]

(* A message the lexer does not know, and as long as some buffers. *)
UnknownCSI == [bytes |-> <<27, 91, 49, 48, 90>>, keys |-> <<>>, size |-> <<>>]

(* Another, whose number 65538 does not fit an int of 16 bits. *)
TooLarge == [bytes |-> <<27, 91, 54, 53, 53, 51, 56, 90>>, keys |-> <<>>, size |-> <<>>]

(* Any message, then any of those that are long or begin alike, then a move:
   so that each meets the remains of each. *)
AllKeys  == {Up, ShiftDown, CtrlAltF2, Home, F12, AltDelete, F1, Escape, Q, ShiftQ,
             CtrlC, Tab, UnknownCSI, TooLarge, Resized(80, 24), Resized(300, 113)}
LongKeys == {ShiftDown, AltDelete, UnknownCSI, F1, Resized(80, 27)}
Session(n) == CASE n = 1 -> AllKeys [] n = 2 -> LongKeys [] OTHER -> {Up, ShiftDown}
=============================================================================
