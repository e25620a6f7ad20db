------------------------------ MODULE MCSearch ------------------------------
(***************************************************************************)
(* Search and Fov on every map of a small size: the tiles from which       *)
(* enemies plan their paths are those from which they look around.         *)
(***************************************************************************)
EXTENDS Search, Fov

CONSTANT FOV_RANGE   \* how far an actor sees: 6, 8 and 12 in prefabs.c and player.c

ASSUME RangeAssumption == FOV_RANGE \in Nat

(* What is seen depends on the map and the eye only: asked once of each. *)
Looking == visited = <<>> /\ to = from

Seen == fov_2d(solid, from, FOV_RANGE)

Compass == Straight \cup {<<x, y>> : x, y \in {-1, 1}}

Along(d, n) == Plus(from, <<n * d[1], n * d[2]>>)

(***************************************************************************)
(* Along rows, columns and diagonals nothing is hidden or shown wrongly:   *)
(* one sees as far as the first wall, the wall included, and no further;   *)
(* whatever stands to the left and right of the line.                      *)
(***************************************************************************)
StraightSight ==
  Looking =>
    \A d \in Compass, n \in 1 .. MAP_WIDTH + MAP_HEIGHT :
      Along(d, n) \in Tiles =>
        (Along(d, n) \in Seen
           <=> /\ InRange(n * AbsVal(d[1]), n * AbsVal(d[2]), FOV_RANGE)
               /\ \A k \in 1 .. n - 1 : Along(d, k) \notin solid)

(***************************************************************************)
(* Light does not jump: a tile is seen only past an open tile that is seen *)
(* too, touches it, and is nearer to the eye.                              *)
(***************************************************************************)
Far(t) == LET dx == AbsVal(t[1] - from[1])
              dy == AbsVal(t[2] - from[2])
          IN  IF dx > dy THEN dx ELSE dy

SightReaches ==
  Looking =>
    \A t \in Seen \ {from} :
      \E d \in Compass : LET u == Minus(t, d)
                         IN  u \in (Seen \cap Tiles) \ solid /\ Far(u) < Far(t)
=============================================================================
