-------------------------------- MODULE Grid --------------------------------
(***************************************************************************)
(* The map as the game sees it: tiles at <<x, y>>, y growing downwards,    *)
(* and the directions of linalg.h.                                         *)
(***************************************************************************)
EXTENDS Integers, Sequences

CONSTANTS MAP_WIDTH, MAP_HEIGHT   \* config.h: 80 and 33

ASSUME GridAssumption == MAP_WIDTH \in Nat \ {0} /\ MAP_HEIGHT \in Nat \ {0}

(* map_contains: what lies outside is TILE_NONE, which is solid. *)
Tiles == (0 .. MAP_WIDTH - 1) \X (0 .. MAP_HEIGHT - 1)

ZERO  == <<0, 0>>
RIGHT == <<1, 0>>
LEFT  == <<-1, 0>>
UP    == <<0, -1>>
DOWN  == <<0, 1>>

Straight == {RIGHT, LEFT, UP, DOWN}

Plus(a, b)  == <<a[1] + b[1], a[2] + b[2]>>
Minus(a, b) == <<a[1] - b[1], a[2] - b[2]>>

AbsVal(n) == IF n < 0 THEN -n ELSE n

(* Steps between two tiles, when nothing is in the way. *)
Distance(a, b) == AbsVal(a[1] - b[1]) + AbsVal(a[2] - b[2])

Adjacent(a, b) == Distance(a, b) = 1

(* A path as it is stored: the target first, the next step last. *)
Coherent(w) == \A i \in 1 .. Len(w) - 1 : Adjacent(w[i], w[i + 1])

Leads(w, a, b) == /\ w # <<>> /\ w[1] = b
                  /\ Adjacent(a, w[Len(w)])
                  /\ Coherent(w)
=============================================================================
