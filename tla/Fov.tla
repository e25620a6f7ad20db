-------------------------------- MODULE Fov ---------------------------------
(***************************************************************************)
(* Shadow casting, fov_2d: each of eight octants is scanned row by row, by *)
(* beams that opaque tiles narrow and split.  A beam lies between two      *)
(* slopes; a slope <<n, d>> stands for n / d, d > 0, which is exact: the   *)
(* floats of the code compare as these fractions do, their denominators    *)
(* being at most twice the range.  The code casts the beam split off first *)
(* and then goes on; beams share nothing, so here a row takes all beams.   *)
(***************************************************************************)
EXTENDS Grid, FiniteSets

Below(s, t) == s[1] * t[2] < t[1] * s[2]

(* MULTIPLIERS: xx, xy, yx, yy of each octant. *)
Octants == {<<1, 0, 0, 1>>, <<0, 1, 1, 0>>, <<0, -1, 1, 0>>, <<-1, 0, 0, 1>>,
            <<-1, 0, 0, -1>>, <<0, -1, -1, 0>>, <<0, 1, -1, 0>>, <<1, 0, 0, -1>>}

(* The cell with dx = -a in the row with dy = -i, and the slopes of its sides. *)
Cell(eye, o, a, i) ==
  <<eye[1] - a * o[1] - i * o[2], eye[2] - a * o[3] - i * o[4]>>

LeftSlope_Inner(a, i) == <<2 * a - 1, 2 * i - 1>>   \* mutant: + 0.5 on the left, too
LeftSlope(a, i)  == <<2 * a + 1, 2 * i - 1>>
RightSlope(a, i) == <<2 * a - 1, 2 * i + 1>>

(* Cells beyond the low sides are passed over, as if they were not there. *)
OffLowSide_Edge(t) == t[1] <= 0 \/ t[2] <= 0   \* mutant: >= instead of >
OffLowSide(t) == t[1] < 0 \/ t[2] < 0

(* is_opaque: walls, and TILE_NONE outside of the map. *)
IsOpaque(walls, t) == t \notin Tiles \/ t \in walls

InRange(a, i, range) == a * a + i * i < range * range

(***************************************************************************)
(* The cells a = i, ..., 0 of row i, left to right, for one beam: start    *)
(* and next are start_slope and next_start_slope, over is the break, split *)
(* holds the beams cast from the next row on.                              *)
(***************************************************************************)
Entering(beam) ==
  [start |-> beam[1], next |-> beam[1], blocked |-> FALSE, over |-> FALSE,
   seen |-> {}, split |-> {}]

(* One cell t between the sides left and right. *)
Shadow(b, opaque, left, right) ==
  CASE opaque /\ b.blocked   -> [b EXCEPT !.next = right]
    [] opaque /\ ~b.blocked  -> [b EXCEPT !.blocked = TRUE, !.next = right,
                                          !.split = @ \cup {<<b.start, left>>}]
    [] ~opaque /\ b.blocked  -> [b EXCEPT !.blocked = FALSE, !.start = b.next]
    [] ~opaque /\ ~b.blocked -> b

Pass(b, walls, eye, o, end, a, i, range) ==
  LET t == Cell(eye, o, a, i)
      left == b.over \/ Below(b.start, RightSlope(a, i))
      right == Below(LeftSlope(a, i), end)
  IN  CASE left                                -> b
        [] ~left /\ right                      -> [b EXCEPT !.over = TRUE]
        [] ~left /\ ~right /\ OffLowSide(t)    -> b
        [] ~left /\ ~right /\ ~OffLowSide(t)   ->
             Shadow([b EXCEPT !.seen = @ \cup (IF InRange(a, i, range) THEN {t} ELSE {})],
                    IsOpaque(walls, t), LeftSlope(a, i), RightSlope(a, i))

RowOf(walls, eye, o, beam, i, range) ==
  LET scan[k \in 0 .. i + 1] ==
        IF k = 0 THEN Entering(beam)
        ELSE LET b == scan[k - 1] IN Pass(b, walls, eye, o, beam[2], i - (k - 1), i, range)
  IN  scan[i + 1]

(* The beams of the next row: those split off, if they are not empty, and what
   is left of this one, unless it ends in the dark. *)
BeamsAfter_Through(b, end) == b.split \cup {<<b.start, end>>}   \* mutant: no break
BeamsAfter(b, end) ==
  {c \in b.split : ~Below(c[1], c[2])} \cup (IF b.blocked THEN {} ELSE {<<b.start, end>>})

(* cast_light *)
CastLight(walls, eye, o, range) ==
  LET cast[i \in 0 .. range] ==
        IF i = 0 THEN [seen |-> {}, beams |-> {<<<<1, 1>>, <<0, 1>>>>}]
        ELSE LET before == cast[i - 1]
                 rows == {<<RowOf(walls, eye, o, beam, i, range), beam[2]>> : beam \in before.beams}
             IN  [seen  |-> before.seen \cup UNION {r[1].seen : r \in rows},
                  beams |-> UNION {BeamsAfter(r[1], r[2]) : r \in rows}]
  IN  cast[range].seen

(* Everything on_visible is called with, on the map or beyond its high sides. *)
fov_2d(walls, eye, range) ==
  {eye} \cup UNION {CastLight(walls, eye, o, range) : o \in Octants}
=============================================================================
