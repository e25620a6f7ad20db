----------------------------- MODULE MapGenProofs -----------------------------
(***************************************************************************)
(* Proofs about map_generate, for every size of the map and of its rooms   *)
(* and every number of attempts: rooms and corridors stay on the map, the  *)
(* game starts on free floor tiles, all floor hangs together, and a room   *)
(* is lit from its centre.                                                 *)
(***************************************************************************)
EXTENDS MCMapGen, FovProofs, SequenceTheorems, FiniteSetTheorems, TLAPS

-----------------------------------------------------------------------------
(* Rooms *)

(* What try_create_room draws: at least 5 tiles wide and high, walls included,
   and clear of the right and the lower edge. *)
Fits(r) ==
  /\ r \in Rects
  /\ 5 <= r.w /\ r.x + r.w <= MAP_WIDTH - 1
  /\ 5 <= r.h /\ r.y + r.h <= MAP_HEIGHT - 1

LEMMA CandidatesFit ==
  ASSUME NEW r \in Candidates
  PROVE  Fits(r)
<1>1. PICK w \in MIN_SIZE .. MAX_SIZE - 1, h \in MIN_SIZE .. MAX_SIZE - 1 :
        r \in [x : {n - 1 : n \in 1 .. MAP_WIDTH - w - 1 - 1},
               y : {n - 1 : n \in 1 .. MAP_HEIGHT - h - 1 - 1}, w : {w}, h : {h}]
  <2> DEFINE Sizes == MIN_SIZE .. MAX_SIZE - 1
             Drawn(w, h) == [x : {n - 1 : n \in 1 .. MAP_WIDTH - w - 1 - 1},
                             y : {n - 1 : n \in 1 .. MAP_HEIGHT - h - 1 - 1}, w : {w}, h : {h}]
  <2>1. Candidates = UNION {Drawn(w, h) : w \in Sizes, h \in Sizes}
    BY DEF Candidates, random_range
  <2> HIDE DEF Drawn, Sizes
  <2>2. PICK w \in Sizes, h \in Sizes : r \in Drawn(w, h)
    BY <2>1
  <2> QED
    BY <2>2 DEF Drawn, Sizes
<1>2. w \in Nat /\ h \in Nat /\ 5 <= w /\ 5 <= h
  BY MapGenAssumption
<1>3. /\ r = [x |-> r.x, y |-> r.y, w |-> r.w, h |-> r.h]
      /\ r.w = w /\ r.h = h
      /\ r.x \in 0 .. MAP_WIDTH - w - 3 /\ r.y \in 0 .. MAP_HEIGHT - h - 3
  BY <1>1, <1>2, GridAssumption
<1>4. /\ r.x \in 0 .. MAP_WIDTH /\ r.w \in 0 .. MAP_WIDTH
      /\ r.y \in 0 .. MAP_HEIGHT /\ r.h \in 0 .. MAP_HEIGHT
  BY <1>2, <1>3, GridAssumption, MapGenAssumption
<1>5. r \in Rects
  BY <1>3, <1>4 DEF Rects
<1> QED
  BY <1>2, <1>3, <1>5, GridAssumption, MapGenAssumption DEF Fits

(* A room's tiles, walls included, and those without. *)
LEMMA RoomTiles ==
  ASSUME NEW r, Fits(r)
  PROVE  /\ Area(r) = (r.x .. r.x + r.w - 1) \X (r.y .. r.y + r.h - 1)
         /\ Interior(r) = (r.x + 1 .. r.x + r.w - 2) \X (r.y + 1 .. r.y + r.h - 2)
         /\ Area(r) \subseteq Tiles
         /\ Interior(r) \subseteq (1 .. MAP_WIDTH - 2) \X (1 .. MAP_HEIGHT - 2)
         /\ Interior(r) \subseteq Area(r)
<1>1. /\ r.x \in Nat /\ r.y \in Nat /\ r.w \in Nat /\ r.h \in Nat
      /\ 5 <= r.w /\ r.x + r.w <= MAP_WIDTH - 1
      /\ 5 <= r.h /\ r.y + r.h <= MAP_HEIGHT - 1
  BY DEF Fits, Rects
<1>2. Area(r) = (r.x .. r.x + r.w - 1) \X (r.y .. r.y + r.h - 1)
  BY DEF Area
<1>3. Interior(r) = (r.x + 1 .. r.x + 1 + (r.w - 2) - 1) \X (r.y + 1 .. r.y + 1 + (r.h - 2) - 1)
  BY DEF Interior, Area
<1>4. r.x + 1 + (r.w - 2) - 1 = r.x + r.w - 2 /\ r.y + 1 + (r.h - 2) - 1 = r.y + r.h - 2
  BY <1>1
<1>5. Area(r) \subseteq Tiles
  BY <1>1, <1>2, GridAssumption DEF Tiles
<1>6. /\ Interior(r) \subseteq (1 .. MAP_WIDTH - 2) \X (1 .. MAP_HEIGHT - 2)
      /\ Interior(r) \subseteq Area(r)
  BY <1>1, <1>2, <1>3, <1>4, GridAssumption
<1> QED
  BY <1>2, <1>3, <1>4, <1>5, <1>6

(* The centre is a floor tile of the room and has one to its right. *)
LEMMA CenterInside ==
  ASSUME NEW r, Fits(r)
  PROVE  /\ center(r)[1] \in r.x + 2 .. r.x + r.w - 3
         /\ center(r)[2] \in r.y + 2 .. r.y + r.h - 3
         /\ center(r) \in Interior(r)
         /\ Plus(center(r), RIGHT) \in Interior(r)
<1>1. /\ r.x \in Nat /\ r.y \in Nat /\ r.w \in Nat /\ r.h \in Nat /\ 5 <= r.w /\ 5 <= r.h
  BY DEF Fits, Rects
<1>2. \A n \in Nat : 5 <= n => n \div 2 \in 2 .. n - 3
  OBVIOUS
<1>3. r.w \div 2 \in 2 .. r.w - 3 /\ r.h \div 2 \in 2 .. r.h - 3
  BY <1>1, <1>2
<1>4. center(r) = <<r.x + r.w \div 2, r.y + r.h \div 2>>
  BY DEF center
<1>5. /\ center(r)[1] \in r.x + 2 .. r.x + r.w - 3
      /\ center(r)[2] \in r.y + 2 .. r.y + r.h - 3
  BY <1>1, <1>3, <1>4
<1>6. Interior(r) = (r.x + 1 .. r.x + r.w - 2) \X (r.y + 1 .. r.y + r.h - 2)
  BY RoomTiles
<1>7. center(r) \in Interior(r)
  BY <1>1, <1>4, <1>5, <1>6
<1>8. Plus(center(r), RIGHT) = <<center(r)[1] + 1, center(r)[2]>>
  BY <1>1, <1>5 DEF Plus, RIGHT
<1>9. Plus(center(r), RIGHT) \in Interior(r)
  BY <1>1, <1>5, <1>6, <1>8
<1> QED
  BY <1>5, <1>7, <1>9

(* overlaps is symmetric, and rooms that do not overlap share no tile. *)
LEMMA ApartShareNothing ==
  ASSUME NEW a, NEW b, Fits(a), Fits(b), ~overlaps(a, b)
  PROVE  ~overlaps(b, a) /\ Area(a) \cap Area(b) = {}
<1>1. /\ a.x \in Nat /\ a.y \in Nat /\ a.w \in Nat /\ a.h \in Nat
      /\ b.x \in Nat /\ b.y \in Nat /\ b.w \in Nat /\ b.h \in Nat
  BY DEF Fits, Rects
<1>2. ~overlaps(b, a)
  BY <1>1 DEF overlaps
<1>3. ASSUME NEW t \in Area(a), t \in Area(b)
      PROVE  FALSE
  <2>1. /\ t[1] \in a.x .. a.x + a.w - 1 /\ t[2] \in a.y .. a.y + a.h - 1
        /\ t[1] \in b.x .. b.x + b.w - 1 /\ t[2] \in b.y .. b.y + b.h - 1
    BY <1>3 DEF Area
  <2> QED
    BY <1>1, <2>1 DEF overlaps
<1> QED
  BY <1>2, <1>3

-----------------------------------------------------------------------------
(* Lines of tiles *)

(* A set of numbers that has one of an interval and, with each number, its
   neighbours there, has them all: of those it had not, one would be nearest. *)
LEMMA IntervalFilled ==
  ASSUME NEW P, NEW lo \in Int, NEW hi \in Int, NEW c \in lo .. hi, c \in P,
         \A x \in lo .. hi : x \in P => /\ x + 1 \in lo .. hi => x + 1 \in P
                                        /\ x - 1 \in lo .. hi => x - 1 \in P
  PROVE  lo .. hi \subseteq P
<1> DEFINE Missing == {x \in lo .. hi : x \notin P}
           Away    == {AbsVal(x - c) : x \in Missing}
<1> SUFFICES ASSUME Missing # {} PROVE FALSE
  OBVIOUS
<1>1. Away \subseteq Nat /\ Away # {}
  BY DEF AbsVal
<1> HIDE DEF Away
<1>2. PICK n \in Away : \A m \in Away : n <= m
  BY <1>1, LeastNumber
<1> USE DEF Away
<1>3. PICK x \in Missing : n = AbsVal(x - c)
  BY <1>2
<1>4. x \in lo .. hi /\ x # c
  BY <1>3
<1>5. PICK y \in lo .. hi : (y = x - 1 \/ y = x + 1) /\ AbsVal(y - c) < n
  <2>1. CASE x > c
    <3>1. x - 1 \in lo .. hi /\ AbsVal(x - 1 - c) < n
      BY <1>3, <1>4, <2>1 DEF AbsVal
    <3> QED
      BY <3>1
  <2>2. CASE x < c
    <3>1. x + 1 \in lo .. hi /\ AbsVal(x + 1 - c) < n
      BY <1>3, <1>4, <2>2 DEF AbsVal
    <3> QED
      BY <3>1
  <2> QED
    BY <1>4, <2>1, <2>2
<1>6. y \notin P
  <2>1. x \in lo .. hi /\ x \notin P /\ (y + 1 = x \/ y - 1 = x)
    BY <1>3, <1>5
  <2> QED
    BY <2>1
<1>7. n <= AbsVal(y - c)
  BY <1>2, <1>6
<1>8. AbsVal(y - c) \in Nat /\ n \in Nat
  BY <1>1, <1>2 DEF AbsVal
<1> QED
  BY <1>5, <1>7, <1>8

(* S has, with each tile, the tiles of F beside it. *)
Closed(S, F) == \A t \in S, d \in Straight : Plus(t, d) \in F => Plus(t, d) \in S

LEMMA RowReached ==
  ASSUME NEW F, NEW S, Closed(S, F), NEW lo \in Int, NEW hi \in Int, NEW y \in Int,
         (lo .. hi) \X {y} \subseteq F, NEW c \in lo .. hi, <<c, y>> \in S
  PROVE  (lo .. hi) \X {y} \subseteq S
<1> DEFINE P == {x \in Int : <<x, y>> \in S}
<1>1. c \in P
  OBVIOUS
<1>2. ASSUME NEW x \in lo .. hi, x \in P
      PROVE  /\ x + 1 \in lo .. hi => x + 1 \in P
             /\ x - 1 \in lo .. hi => x - 1 \in P
  <2>1. Plus(<<x, y>>, RIGHT) = <<x + 1, y>> /\ Plus(<<x, y>>, LEFT) = <<x - 1, y>>
    BY DEF Plus, RIGHT, LEFT
  <2>2. \A d \in {RIGHT, LEFT} : Plus(<<x, y>>, d) \in F => Plus(<<x, y>>, d) \in S
    BY <1>2 DEF Closed, Straight
  <2>3. /\ x + 1 \in lo .. hi => <<x + 1, y>> \in F
        /\ x - 1 \in lo .. hi => <<x - 1, y>> \in F
    OBVIOUS
  <2> QED
    BY <2>1, <2>2, <2>3
<1> HIDE DEF P
<1>3. lo .. hi \subseteq P
  BY <1>1, <1>2, IntervalFilled
<1> QED
  BY <1>3 DEF P

LEMMA ColumnReached ==
  ASSUME NEW F, NEW S, Closed(S, F), NEW lo \in Int, NEW hi \in Int, NEW x \in Int,
         {x} \X (lo .. hi) \subseteq F, NEW c \in lo .. hi, <<x, c>> \in S
  PROVE  {x} \X (lo .. hi) \subseteq S
<1> DEFINE P == {y \in Int : <<x, y>> \in S}
<1>1. c \in P
  OBVIOUS
<1>2. ASSUME NEW y \in lo .. hi, y \in P
      PROVE  /\ y + 1 \in lo .. hi => y + 1 \in P
             /\ y - 1 \in lo .. hi => y - 1 \in P
  <2>1. Plus(<<x, y>>, DOWN) = <<x, y + 1>> /\ Plus(<<x, y>>, UP) = <<x, y - 1>>
    BY DEF Plus, DOWN, UP
  <2>2. \A d \in {DOWN, UP} : Plus(<<x, y>>, d) \in F => Plus(<<x, y>>, d) \in S
    BY <1>2 DEF Closed, Straight
  <2>3. /\ y + 1 \in lo .. hi => <<x, y + 1>> \in F
        /\ y - 1 \in lo .. hi => <<x, y - 1>> \in F
    OBVIOUS
  <2> QED
    BY <2>1, <2>2, <2>3
<1> HIDE DEF P
<1>3. lo .. hi \subseteq P
  BY <1>1, <1>2, IntervalFilled
<1> QED
  BY <1>3 DEF P

(* A room of which one floor tile is reached is reached whole. *)
LEMMA RoomReached ==
  ASSUME NEW F, NEW S, Closed(S, F), NEW r, Fits(r), Interior(r) \subseteq F,
         center(r) \in S
  PROVE  Interior(r) \subseteq S
<1> DEFINE x1 == r.x + 1
           x2 == r.x + r.w - 2
           y1 == r.y + 1
           y2 == r.y + r.h - 2
           cx == center(r)[1]
           cy == center(r)[2]
<1>1. /\ x1 \in Int /\ x2 \in Int /\ y1 \in Int /\ y2 \in Int
      /\ cx \in x1 .. x2 /\ cy \in y1 .. y2
  BY CenterInside DEF Fits, Rects
<1>2. Interior(r) = (x1 .. x2) \X (y1 .. y2)
  BY RoomTiles
<1>3. <<cx, cy>> \in S
  BY DEF center
<1> HIDE DEF x1, x2, y1, y2, cx, cy
<1>4. (x1 .. x2) \X {cy} \subseteq S
  <2>1. cy \in Int /\ (x1 .. x2) \X {cy} \subseteq F
    BY <1>1, <1>2
  <2> QED
    BY <1>1, <1>3, <2>1, RowReached
<1>5. ASSUME NEW x \in x1 .. x2
      PROVE  {x} \X (y1 .. y2) \subseteq S
  <2>1. x \in Int /\ {x} \X (y1 .. y2) \subseteq F /\ <<x, cy>> \in S
    BY <1>1, <1>2, <1>4
  <2> QED
    BY <1>1, <2>1, ColumnReached
<1> QED
  BY <1>2, <1>5

(* Both ends of a span belong to it, and it is an interval. *)
LEMMA SpanEnds ==
  ASSUME NEW m \in Int, NEW n \in Int
  PROVE  /\ m \in Span(m, n) /\ n \in Span(m, n)
         /\ Span(m, n) \subseteq Int
         /\ \E lo \in Int, hi \in Int : Span(m, n) = lo .. hi
<1>1. CASE m < n
  <2>1. Span(m, n) = m .. n
    BY <1>1 DEF Span
  <2> QED
    BY <1>1, <2>1
<1>2. CASE ~(m < n)
  <2>1. Span(m, n) = n .. m
    BY <1>2 DEF Span
  <2> QED
    BY <1>2, <2>1
<1> QED
  BY <1>1, <1>2

(* A corridor is reached whole from its old end. *)
LEMMA CorridorReached ==
  ASSUME NEW F, NEW S, Closed(S, F), NEW a \in Int, NEW b \in Int,
         NEW c \in Int, NEW d \in Int, NEW horizontalFirst \in BOOLEAN,
         Corridor(<<a, b>>, <<c, d>>, horizontalFirst) \subseteq F, <<a, b>> \in S
  PROVE  <<c, d>> \in S /\ Corridor(<<a, b>>, <<c, d>>, horizontalFirst) \subseteq S
<1>1. PICK x1 \in Int, x2 \in Int : Span(a, c) = x1 .. x2
  BY SpanEnds
<1>2. PICK y1 \in Int, y2 \in Int : Span(b, d) = y1 .. y2
  BY SpanEnds
<1>3. a \in x1 .. x2 /\ c \in x1 .. x2 /\ b \in y1 .. y2 /\ d \in y1 .. y2
  BY <1>1, <1>2, SpanEnds
<1>4. CASE horizontalFirst
  <2>1. Corridor(<<a, b>>, <<c, d>>, horizontalFirst)
          = ((x1 .. x2) \X {b}) \cup ({c} \X (y1 .. y2))
    BY <1>1, <1>2, <1>4 DEF Corridor, Horizontal, Vertical
  <2>2. (x1 .. x2) \X {b} \subseteq F /\ {c} \X (y1 .. y2) \subseteq F
    BY <2>1
  <2>3. (x1 .. x2) \X {b} \subseteq S
    BY <1>3, <2>2, RowReached
  <2>4. <<c, b>> \in S
    BY <1>3, <2>3
  <2>5. {c} \X (y1 .. y2) \subseteq S
    BY <1>3, <2>2, <2>4, ColumnReached
  <2> QED
    BY <1>3, <2>1, <2>3, <2>5
<1>5. CASE ~horizontalFirst
  <2>1. Corridor(<<a, b>>, <<c, d>>, horizontalFirst)
          = ({a} \X (y1 .. y2)) \cup ((x1 .. x2) \X {d})
    BY <1>1, <1>2, <1>5 DEF Corridor, Horizontal, Vertical
  <2>2. {a} \X (y1 .. y2) \subseteq F /\ (x1 .. x2) \X {d} \subseteq F
    BY <2>1
  <2>3. {a} \X (y1 .. y2) \subseteq S
    BY <1>3, <2>2, ColumnReached
  <2>4. <<a, d>> \in S
    BY <1>3, <2>3
  <2>5. (x1 .. x2) \X {d} \subseteq S
    BY <1>3, <2>2, <2>4, RowReached
  <2> QED
    BY <1>3, <2>1, <2>3, <2>5
<1> QED
  BY <1>4, <1>5

(* A corridor between two tiles within the edge of the map stays within it. *)
LEMMA CorridorWithin ==
  ASSUME NEW old \in (1 .. MAP_WIDTH - 2) \X (1 .. MAP_HEIGHT - 2),
         NEW new \in (1 .. MAP_WIDTH - 2) \X (1 .. MAP_HEIGHT - 2),
         NEW horizontalFirst \in BOOLEAN
  PROVE  Corridor(old, new, horizontalFirst)
           \subseteq (1 .. MAP_WIDTH - 2) \X (1 .. MAP_HEIGHT - 2)
<1>1. /\ old[1] \in 1 .. MAP_WIDTH - 2 /\ new[1] \in 1 .. MAP_WIDTH - 2
      /\ old[2] \in 1 .. MAP_HEIGHT - 2 /\ new[2] \in 1 .. MAP_HEIGHT - 2
  OBVIOUS
<1>2. /\ Span(old[1], new[1]) \subseteq 1 .. MAP_WIDTH - 2
      /\ Span(old[2], new[2]) \subseteq 1 .. MAP_HEIGHT - 2
  BY <1>1, GridAssumption DEF Span
<1> QED
  BY <1>1, <1>2 DEF Corridor, Horizontal, Vertical

-----------------------------------------------------------------------------
(* The invariant *)

Within == (1 .. MAP_WIDTH - 2) \X (1 .. MAP_HEIGHT - 2)

(* The rooms fit, lie apart, and have been dug. *)
RoomsDug ==
  /\ \A i \in DOMAIN rooms : Fits(rooms[i]) /\ Interior(rooms[i]) \subseteq floor
  /\ \A i, j \in DOMAIN rooms : i # j => ~overlaps(rooms[i], rooms[j])

MapTypes ==
  /\ floor \subseteq Within
  /\ rooms \in Seq(Rects) /\ Len(rooms) <= tries /\ tries \in 0 .. ROOM_MAX
  /\ tries > 0 => rooms # <<>>
  /\ rooms = <<>> => floor = {}

MapInv == MapTypes /\ RoomsDug

(* Whatever part of the floor has the start and, with each tile, the floor tiles
   beside it, is all of it. *)
HangsTogether ==
  rooms # <<>> => \A S \in SUBSET floor : spawn \in S /\ Around(S) \subseteq S => S = floor

LEMMA WithinTiles == Within \subseteq Tiles
  BY GridAssumption DEF Within, Tiles

(* A centre is a pair of numbers within the edge of the map. *)
LEMMA CenterWithin ==
  ASSUME NEW r, Fits(r)
  PROVE  /\ center(r) \in Within
         /\ center(r) = <<center(r)[1], center(r)[2]>>
         /\ center(r)[1] \in Int /\ center(r)[2] \in Int
<1>1. center(r) \in Within
  BY CenterInside, RoomTiles DEF Within
<1> QED
  BY <1>1 DEF Within

(* The room dug last, and the corridor that leads to it. *)
LastRoom == rooms[Len(rooms)]

CorridorTo(r, horizontalFirst) == Corridor(center(LastRoom), center(r), horizontalFirst)

(* What the attempts that add a room do, all of it within the edge. *)
LEMMA FirstRoomDug ==
  ASSUME MapInv, NEW r \in Candidates, AddFirst(r)
  PROVE  /\ Fits(r) /\ rooms' = <<r>>
         /\ Interior(r) \subseteq Within /\ floor' = Interior(r)
<1>1. Fits(r)
  BY CandidatesFit
<1>2. Interior(r) \subseteq Within
  BY <1>1, RoomTiles DEF Within
<1>3. floor = {} /\ floor' = floor \cup (Interior(r) \cap Tiles)
  BY DEF AddFirst, Dug, MapInv, MapTypes
<1> QED
  BY <1>1, <1>2, <1>3, WithinTiles DEF AddFirst

LEMMA NextRoomDug ==
  ASSUME MapInv, NEW r \in Candidates, NEW horizontalFirst \in BOOLEAN,
         AddNext(r, horizontalFirst)
  PROVE  /\ Fits(r) /\ Fits(LastRoom) /\ Interior(LastRoom) \subseteq floor
         /\ rooms' = Append(rooms, r) /\ Len(rooms) \in Nat \ {0}
         /\ Interior(r) \subseteq Within
         /\ CorridorTo(r, horizontalFirst) \subseteq Within
         /\ floor' = floor \cup Interior(r) \cup CorridorTo(r, horizontalFirst)
<1>1. Fits(r)
  BY CandidatesFit
<1>2. rooms \in Seq(Rects) /\ rooms # <<>>
  BY DEF AddNext, MapInv, MapTypes
<1>3. Len(rooms) \in Nat \ {0} /\ Len(rooms) \in DOMAIN rooms
  BY <1>2
<1>4. Fits(LastRoom) /\ Interior(LastRoom) \subseteq floor
  BY <1>3 DEF MapInv, RoomsDug, LastRoom
<1>5. Interior(r) \subseteq Within
  BY <1>1, RoomTiles DEF Within
<1>6. CorridorTo(r, horizontalFirst) \subseteq Within
  <2>1. center(LastRoom) \in Within /\ center(r) \in Within
    BY <1>1, <1>4, CenterWithin
  <2> QED
    BY <2>1, CorridorWithin DEF CorridorTo, Within
<1>7. floor' = floor \cup ((Interior(r) \cup CorridorTo(r, horizontalFirst)) \cap Tiles)
  BY DEF AddNext, Dug, CorridorTo, LastRoom
<1> QED
  BY <1>1, <1>3, <1>4, <1>5, <1>6, <1>7, WithinTiles DEF AddNext

LEMMA MapStep == MapInv /\ [TryCreateRoom]_vars => MapInv'
<1> SUFFICES ASSUME MapInv, [TryCreateRoom]_vars
             PROVE  MapInv'
  OBVIOUS
<1>1. CASE TryCreateRoom
  <2>1. /\ tries \in 0 .. ROOM_MAX /\ ROOM_MAX \in Nat /\ tries' = tries + 1
        /\ tries' \in 0 .. ROOM_MAX /\ rooms \in Seq(Rects) /\ Len(rooms) <= tries
    BY <1>1, MapGenAssumption DEF TryCreateRoom, MapInv, MapTypes
  <2>2. PICK r \in Candidates :
             Discard(r) \/ AddFirst(r)
               \/ \E horizontalFirst \in BOOLEAN : AddNext(r, horizontalFirst)
    BY <1>1 DEF TryCreateRoom
  <2>3. CASE Discard(r)
    <3>1. rooms # <<>>
      BY <2>3 DEF Discard
    <3>2. MapTypes'
      BY <2>1, <2>3, <3>1 DEF Discard, MapInv, MapTypes
    <3>3. RoomsDug'
      BY <2>3 DEF Discard, MapInv, RoomsDug
    <3> QED
      BY <3>2, <3>3 DEF MapInv
  <2>4. CASE AddFirst(r)
    <3>1. /\ Fits(r) /\ rooms' = <<r>>
          /\ Interior(r) \subseteq Within /\ floor' = Interior(r)
      BY <2>4, FirstRoomDug
    <3>2. /\ r \in Rects /\ rooms' \in Seq(Rects) /\ Len(rooms') = 1 /\ rooms' # <<>>
          /\ DOMAIN rooms' = {1} /\ rooms'[1] = r
      BY <3>1 DEF Fits
    <3>3. MapTypes'
      BY <2>1, <3>1, <3>2 DEF MapTypes
    <3>4. RoomsDug'
      BY <3>1, <3>2 DEF RoomsDug
    <3> QED
      BY <3>3, <3>4 DEF MapInv
  <2>5. ASSUME NEW horizontalFirst \in BOOLEAN, AddNext(r, horizontalFirst)
        PROVE  MapInv'
    <3>1. /\ Fits(r) /\ rooms' = Append(rooms, r)
          /\ Interior(r) \subseteq Within
          /\ CorridorTo(r, horizontalFirst) \subseteq Within
          /\ floor' = floor \cup Interior(r) \cup CorridorTo(r, horizontalFirst)
      BY <2>5, NextRoomDug
    <3>2. r \in Rects
      BY <3>1 DEF Fits
    <3>3. /\ rooms' \in Seq(Rects) /\ Len(rooms') = Len(rooms) + 1 /\ rooms' # <<>>
          /\ DOMAIN rooms' = DOMAIN rooms \cup {Len(rooms) + 1}
          /\ Len(rooms) + 1 \notin DOMAIN rooms
          /\ rooms'[Len(rooms) + 1] = r
          /\ \A i \in DOMAIN rooms : rooms'[i] = rooms[i]
      BY <2>1, <3>1, <3>2
    <3>4. floor \subseteq Within /\ floor' \subseteq Within
      BY <3>1 DEF MapInv, MapTypes
    <3>5. MapTypes'
      <4>1. Len(rooms') <= tries'
        BY <2>1, <3>3
      <4> QED
        BY <2>1, <3>3, <3>4, <4>1 DEF MapTypes
    <3>6. \A i \in DOMAIN rooms : Fits(rooms[i]) /\ Interior(rooms[i]) \subseteq floor'
      BY <3>1 DEF MapInv, RoomsDug
    <3>7. \A i \in DOMAIN rooms' : Fits(rooms'[i]) /\ Interior(rooms'[i]) \subseteq floor'
      BY <3>1, <3>3, <3>6
    <3>8. \A i \in DOMAIN rooms : ~overlaps(r, rooms[i]) /\ ~overlaps(rooms[i], r)
      BY <2>5, <3>1, <3>6, ApartShareNothing DEF AddNext
    <3>9. ASSUME NEW i \in DOMAIN rooms', NEW j \in DOMAIN rooms', i # j
          PROVE  ~overlaps(rooms'[i], rooms'[j])
      <4>1. CASE i \in DOMAIN rooms /\ j \in DOMAIN rooms
        BY <3>3, <3>9, <4>1 DEF MapInv, RoomsDug
      <4>2. CASE i \in DOMAIN rooms /\ j = Len(rooms) + 1
        BY <3>3, <3>8, <4>2
      <4>3. CASE i = Len(rooms) + 1 /\ j \in DOMAIN rooms
        BY <3>3, <3>8, <4>3
      <4> QED
        BY <3>3, <3>9, <4>1, <4>2, <4>3
    <3>10. RoomsDug'
      BY <3>7, <3>9 DEF RoomsDug
    <3> QED
      BY <3>5, <3>10 DEF MapInv
  <2> QED
    BY <2>2, <2>3, <2>4, <2>5
<1>2. CASE UNCHANGED vars
  BY <1>2 DEF vars, MapInv, MapTypes, RoomsDug
<1> QED
  BY <1>1, <1>2

LEMMA MapInvHolds == Spec => []MapInv
<1>1. Init => MapInv
  BY MapGenAssumption DEF Init, MapInv, MapTypes, RoomsDug
<1> QED
  BY <1>1, MapStep, PTL DEF Spec

(***************************************************************************)
(* Rooms and corridors stay on the map and off its edge, whatever numbers  *)
(* are drawn, and there are never more rooms than Map.rooms has space for. *)
(***************************************************************************)
THEOREM TypeCorrect == Spec => []TypeOK
<1>1. MapInv => TypeOK
  BY RoomTiles DEF MapInv, MapTypes, RoomsDug, TypeOK, Within
<1> QED
  BY <1>1, MapInvHolds, PTL

(***************************************************************************)
(* Once an attempt has been made there is a room, and game_init puts every *)
(* player and every enemy on a floor tile of its own inside a room.        *)
(***************************************************************************)
THEOREM StartsOnFreeFloor == Spec => []StartsFree
<1>1. ASSUME MapInv, tries > 0
      PROVE  /\ rooms # <<>>
             /\ \A a \in DOMAIN Start : Start[a] \in Interior(rooms[HomeOf(a)]) \cap floor
             /\ IsInjective(Start)
  <2>1. /\ rooms # <<>> /\ rooms \in Seq(Rects) /\ Len(rooms) \in Nat \ {0}
        /\ DOMAIN rooms = 1 .. Len(rooms)
    BY <1>1 DEF MapInv, MapTypes
  <2>2. /\ DOMAIN Start = 0 .. Len(rooms)
        /\ Start[0] = center(rooms[1])
        /\ Start[1] = Plus(center(rooms[1]), RIGHT)
        /\ \A a \in 2 .. Len(rooms) : Start[a] = center(rooms[a])
    BY <2>1 DEF Start, spawn
  <2>3. ASSUME NEW a \in DOMAIN Start
        PROVE  /\ HomeOf(a) \in DOMAIN rooms
               /\ Start[a] \in Interior(rooms[HomeOf(a)])
               /\ Start[a] \in Area(rooms[HomeOf(a)])
    <3>1. HomeOf(a) \in DOMAIN rooms
      BY <2>1, <2>2 DEF HomeOf
    <3>2. Fits(rooms[HomeOf(a)])
      BY <1>1, <3>1 DEF MapInv, RoomsDug
    <3>3. Start[a] \in {center(rooms[HomeOf(a)]), Plus(center(rooms[HomeOf(a)]), RIGHT)}
      BY <2>1, <2>2 DEF HomeOf
    <3> QED
      BY <3>1, <3>2, <3>3, CenterInside, RoomTiles
  <2>4. \A a \in DOMAIN Start : Start[a] \in Interior(rooms[HomeOf(a)]) \cap floor
    BY <1>1, <2>3 DEF MapInv, RoomsDug
  <2>5. ASSUME NEW a \in DOMAIN Start, NEW b \in DOMAIN Start, Start[a] = Start[b]
        PROVE  a = b
    <3>1. HomeOf(a) = HomeOf(b)
      <4> SUFFICES ASSUME HomeOf(a) # HomeOf(b) PROVE FALSE
        OBVIOUS
      <4> DEFINE ra == rooms[HomeOf(a)]
                 rb == rooms[HomeOf(b)]
      <4>1. Fits(ra) /\ Fits(rb) /\ ~overlaps(ra, rb)
        BY <1>1, <2>3 DEF MapInv, RoomsDug
      <4> HIDE DEF ra, rb
      <4>2. Area(ra) \cap Area(rb) = {}
        BY <4>1, ApartShareNothing
      <4> QED
        BY <2>3, <2>5, <4>2 DEF ra, rb
    <3>2. Start[0] # Start[1]
      <4>1. Fits(rooms[1])
        BY <1>1, <2>1 DEF MapInv, RoomsDug
      <4>2. center(rooms[1])[1] \in Int
        BY <4>1, CenterWithin
      <4> QED
        BY <2>2, <4>2 DEF Plus, RIGHT
    <3> QED
      BY <2>2, <2>5, <3>1, <3>2 DEF HomeOf
  <2> QED
    BY <2>1, <2>4, <2>5 DEF IsInjective
<1>2. MapInv => StartsFree
  BY <1>1 DEF StartsFree
<1> QED
  BY <1>2, MapInvHolds, PTL

-----------------------------------------------------------------------------
(* All floor hangs together *)

LEMMA HangsTogetherStep ==
  MapInv /\ HangsTogether /\ [TryCreateRoom]_vars => HangsTogether'
<1> SUFFICES ASSUME MapInv, HangsTogether, [TryCreateRoom]_vars, rooms' # <<>>,
                    NEW S \in SUBSET floor', spawn' \in S, Around(S)' \subseteq S
             PROVE  floor' \subseteq S
  BY DEF HangsTogether
<1>1. Closed(S, floor')
  BY DEF Closed, Around
<1>2. CASE TryCreateRoom
  <2>1. PICK r \in Candidates :
             Discard(r) \/ AddFirst(r)
               \/ \E horizontalFirst \in BOOLEAN : AddNext(r, horizontalFirst)
    BY <1>2 DEF TryCreateRoom
  <2>2. CASE Discard(r)
    <3>1. UNCHANGED <<floor, rooms>>
      BY <2>2 DEF Discard
    <3> QED
      BY <3>1 DEF HangsTogether, spawn, Around
  <2>3. CASE AddFirst(r)
    <3>1. Fits(r) /\ rooms' = <<r>> /\ floor' = Interior(r)
      BY <2>3, FirstRoomDug
    <3>2. center(r) \in S
      BY <3>1 DEF spawn
    <3> QED
      BY <1>1, <3>1, <3>2, RoomReached
  <2>4. ASSUME NEW horizontalFirst \in BOOLEAN, AddNext(r, horizontalFirst)
        PROVE  floor' \subseteq S
    <3>1. /\ Fits(r) /\ Fits(LastRoom) /\ Interior(LastRoom) \subseteq floor
          /\ rooms' = Append(rooms, r) /\ Len(rooms) \in Nat \ {0}
          /\ floor' = floor \cup Interior(r) \cup CorridorTo(r, horizontalFirst)
      BY <2>4, NextRoomDug
    <3>2. spawn' = spawn /\ spawn \in floor
      <4>1. rooms \in Seq(Rects) /\ rooms'[1] = rooms[1] /\ 1 \in DOMAIN rooms
        <5>1. rooms \in Seq(Rects) /\ r \in Rects
          BY <3>1 DEF MapInv, MapTypes, Fits
        <5> QED
          BY <3>1, <5>1
      <4>2. center(rooms[1]) \in floor
        BY <4>1, CenterInside DEF MapInv, RoomsDug
      <4> QED
        BY <4>1, <4>2 DEF spawn
    <3>3. floor \subseteq S
      <4> DEFINE T == S \cap floor
      <4>1. spawn \in T /\ T \in SUBSET floor
        BY <3>2
      <4>2. Around(T) \subseteq T
        BY <1>1, <3>1 DEF Closed, Around
      <4>3. rooms # <<>>
        BY <2>4 DEF AddNext
      <4> HIDE DEF T
      <4>4. T = floor
        BY <4>1, <4>2, <4>3 DEF HangsTogether
      <4> QED
        BY <4>4 DEF T
    <3>4. center(LastRoom) \in S
      BY <3>1, <3>3, CenterInside
    <3>5. center(r) \in S /\ CorridorTo(r, horizontalFirst) \subseteq S
      <4> DEFINE a == center(LastRoom)[1]
                 b == center(LastRoom)[2]
                 c == center(r)[1]
                 d == center(r)[2]
      <4>1. /\ center(LastRoom) = <<a, b>> /\ a \in Int /\ b \in Int
            /\ center(r) = <<c, d>> /\ c \in Int /\ d \in Int
        BY <3>1, CenterWithin
      <4>2. CorridorTo(r, horizontalFirst) = Corridor(<<a, b>>, <<c, d>>, horizontalFirst)
        BY <4>1 DEF CorridorTo
      <4> HIDE DEF a, b, c, d
      <4>3. Corridor(<<a, b>>, <<c, d>>, horizontalFirst) \subseteq floor' /\ <<a, b>> \in S
        BY <3>1, <3>4, <4>1, <4>2
      <4> QED
        BY <1>1, <4>1, <4>2, <4>3, CorridorReached
    <3>6. Interior(r) \subseteq S
      BY <1>1, <3>1, <3>5, RoomReached
    <3> QED
      BY <3>1, <3>3, <3>5, <3>6
  <2> QED
    BY <2>1, <2>2, <2>3, <2>4
<1>3. CASE UNCHANGED vars
  BY <1>3 DEF vars, HangsTogether, spawn, Around
<1> QED
  BY <1>2, <1>3

LEMMA HangsTogetherHolds == Spec => []HangsTogether
<1>1. Init => HangsTogether
  BY DEF Init, HangsTogether
<1> QED
  BY <1>1, HangsTogetherStep, MapInvHolds, PTL DEF Spec

LEMMA FloorFinite ==
  ASSUME MapInv
  PROVE  IsFiniteSet(floor)
<1>1. IsFiniteSet(1 .. MAP_WIDTH - 2) /\ IsFiniteSet(1 .. MAP_HEIGHT - 2)
  BY GridAssumption, FS_Interval
<1>2. IsFiniteSet(Within)
  BY <1>1, FS_Product DEF Within
<1> QED
  BY <1>2, FS_Subset DEF MapInv, MapTypes

(* The least part of the floor that holds ts and what is beside its tiles. *)
Spread(ts) ==
  {t \in floor : \A S \in SUBSET floor : ts \subseteq S /\ Around(S) \subseteq S => t \in S}

LEMMA SpreadTwice ==
  ASSUME NEW ts \in SUBSET floor
  PROVE  /\ Around(ts) \subseteq ts => Spread(ts) = ts
         /\ Spread(ts \cup Around(ts)) = Spread(ts)
<1>1. \A S \in SUBSET floor : ts \subseteq S /\ Around(S) \subseteq S => Around(ts) \subseteq S
  BY DEF Around
<1>2. Spread(ts \cup Around(ts)) = Spread(ts)
  BY <1>1 DEF Spread
<1>3. ASSUME Around(ts) \subseteq ts
      PROVE  Spread(ts) = ts
  BY <1>3 DEF Spread
<1> QED
  BY <1>2, <1>3

(* Reachable's recursion computes something, for instance Spread; and what it
   computes is closed, or the largest set for which it is not would lead to a
   larger one. *)
LEMMA ReachableClosed ==
  ASSUME MapInv, spawn \in floor
  PROVE  /\ spawn \in Reachable /\ Reachable \in SUBSET floor
         /\ Around(Reachable) \subseteq Reachable
<1> DEFINE reach == CHOOSE f : f = [seen \in SUBSET floor |->
                                      IF seen \cup Around(seen) = seen THEN seen
                                      ELSE f[seen \cup Around(seen)]]
<1>1. Reachable = reach[{spawn}]
  BY DEF Reachable
<1>2. \A ts \in SUBSET floor : ts \cup Around(ts) \in SUBSET floor
  BY DEF Around
<1>3. \E f : f = [seen \in SUBSET floor |-> IF seen \cup Around(seen) = seen THEN seen
                                          ELSE f[seen \cup Around(seen)]]
  <2> DEFINE f == [seen \in SUBSET floor |-> Spread(seen)]
  <2>1. ASSUME NEW seen \in SUBSET floor
        PROVE  f[seen] = IF seen \cup Around(seen) = seen THEN seen
                         ELSE f[seen \cup Around(seen)]
    <3>1. f[seen] = Spread(seen) /\ f[seen \cup Around(seen)] = Spread(seen \cup Around(seen))
      BY <1>2
    <3> HIDE DEF f
    <3> QED
      BY <3>1, SpreadTwice
  <2>2. f = [seen \in SUBSET floor |-> f[seen]]
    OBVIOUS
  <2> HIDE DEF f
  <2>3. f = [seen \in SUBSET floor |-> IF seen \cup Around(seen) = seen THEN seen
                                     ELSE f[seen \cup Around(seen)]]
    BY <2>1, <2>2
  <2> QED
    BY <2>3
<1>4. reach = [seen \in SUBSET floor |-> IF seen \cup Around(seen) = seen THEN seen
                                        ELSE reach[seen \cup Around(seen)]]
  BY <1>3, Zenon
<1> HIDE DEF reach
<1>5. \A seen \in SUBSET floor :
        reach[seen] = IF seen \cup Around(seen) = seen THEN seen ELSE reach[seen \cup Around(seen)]
  BY <1>4
<1> DEFINE Good(ts) == /\ ts \subseteq reach[ts] /\ reach[ts] \in SUBSET floor
                       /\ Around(reach[ts]) \subseteq reach[ts]
           left(ts) == Cardinality(floor \ ts)
           Lefts == {left(ts) : ts \in {us \in SUBSET floor : ~Good(us)}}
<1>6. \A ts \in SUBSET floor : IsFiniteSet(floor \ ts) /\ left(ts) \in Nat
  BY FloorFinite, FS_Subset, FS_CardinalityType
<1>7. ASSUME NEW ts \in SUBSET floor, ~Good(ts)
      PROVE  FALSE
  <2>1. Lefts \subseteq Nat /\ Lefts # {}
    BY <1>6, <1>7
  <2>2. PICK n \in Lefts : \A m \in Lefts : n <= m
    <3> HIDE DEF Lefts
    <3> QED
      BY <2>1, LeastNumber
  <2>3. PICK us \in SUBSET floor : n = left(us) /\ ~Good(us)
    BY <2>2
  <2> DEFINE ws == us \cup Around(us)
  <2>4. ~(Around(us) \subseteq us)
    BY <1>5, <2>3
  <2>5. reach[us] = reach[ws] /\ ws \in SUBSET floor /\ us \subseteq ws
    BY <1>2, <1>5, <2>4
  <2>6. ~Good(ws)
    BY <2>3, <2>5
  <2>7. left(ws) < left(us)
    <3>1. floor \ ws \subseteq floor \ us /\ floor \ ws # floor \ us
      BY <2>4 DEF Around
    <3>2. IsFiniteSet(floor \ us) /\ left(ws) \in Nat /\ left(us) \in Nat
      BY <1>6, <2>5
    <3> HIDE DEF ws
    <3>3. left(ws) <= left(us) /\ left(ws) # left(us)
      BY <3>1, <3>2, FS_Subset
    <3> QED
      BY <3>2, <3>3
  <2>8. left(ws) \in Lefts
    BY <2>5, <2>6
  <2>9. n <= left(ws) /\ n = left(us) /\ left(ws) \in Nat /\ left(us) \in Nat
    BY <1>6, <2>2, <2>3, <2>5, <2>8
  <2> QED
    BY <2>7, <2>9
<1>8. Good({spawn})
  <2>1. {spawn} \in SUBSET floor
    OBVIOUS
  <2> HIDE DEF Good
  <2> QED
    BY <1>7, <2>1
<1> QED
  BY <1>1, <1>8

(***************************************************************************)
(* However rooms and corridors cross, every floor tile can be reached from *)
(* the first player's start over floor tiles (map_generate).               *)
(***************************************************************************)
THEOREM FloorConnected == Spec => []AllReachable
<1>1. ASSUME MapInv, HangsTogether, rooms # <<>>
      PROVE  Reachable = floor
  <2>1. spawn \in floor
    <3>1. 1 \in DOMAIN rooms
      BY <1>1 DEF MapInv, MapTypes
    <3> QED
      BY <1>1, <3>1, CenterInside DEF MapInv, RoomsDug, spawn
  <2>2. /\ spawn \in Reachable /\ Reachable \in SUBSET floor
        /\ Around(Reachable) \subseteq Reachable
    BY <1>1, <2>1, ReachableClosed
  <2> QED
    BY <1>1, <2>2 DEF HangsTogether
<1>2. MapInv /\ HangsTogether => AllReachable
  BY <1>1 DEF AllReachable
<1> QED
  BY <1>2, MapInvHolds, HangsTogetherHolds, PTL

-----------------------------------------------------------------------------
(* What is seen of a room *)

(* Every tile but the eye's own lies in an octant: of the distances along the axes,
   the longer one is its row. *)
SeenAt(t, eye, range, o, i, a) ==
  /\ t = Cell(eye, o, a, i)
  /\ InRange(AbsVal(t[1] - eye[1]), AbsVal(t[2] - eye[2]), range) => InRange(a, i, range)

LEMMA InAnOctant ==
  ASSUME NEW eye \in Int \X Int, NEW t \in Int \X Int, t # eye, NEW range \in Nat
  PROVE  \E o \in Octants : \E i \in Nat \ {0} : \E a \in 0 .. i : SeenAt(t, eye, range, o, i, a)
<1> DEFINE dx == AbsVal(t[1] - eye[1])
           dy == AbsVal(t[2] - eye[2])
           sx == IF t[1] < eye[1] THEN 1 ELSE -1
           sy == IF t[2] < eye[2] THEN 1 ELSE -1
<1>1. /\ t[1] \in Int /\ t[2] \in Int /\ eye[1] \in Int /\ eye[2] \in Int
      /\ t = <<t[1], t[2]>> /\ eye = <<eye[1], eye[2]>>
  OBVIOUS
<1>2. /\ dx \in Nat /\ dy \in Nat /\ sx \in {-1, 1} /\ sy \in {-1, 1}
      /\ t[1] = eye[1] - dx * sx /\ t[2] = eye[2] - dy * sy
  BY <1>1 DEF AbsVal
<1>3. dx # 0 \/ dy # 0
  BY <1>1 DEF AbsVal
<1>4. /\ <<sx, 0, 0, sy>> \in Octants
      /\ <<0, sx, sy, 0>> \in Octants
  <2> HIDE DEF sx, sy
  <2>1. sx = 1 \/ sx = -1
    BY <1>2
  <2>2. sy = 1 \/ sy = -1
    BY <1>2
  <2> QED
    BY <2>1, <2>2 DEF Octants
<1> HIDE DEF dx, dy, sx, sy
<1>5. /\ Cell(eye, <<sx, 0, 0, sy>>, dx, dy) = <<eye[1] - dx * sx, eye[2] - dy * sy>>
      /\ Cell(eye, <<0, sx, sy, 0>>, dy, dx) = <<eye[1] - dx * sx, eye[2] - dy * sy>>
  <2>1. /\ (eye[1] - dx * sx) - dy * 0 = eye[1] - dx * sx
        /\ (eye[2] - dx * 0) - dy * sy = eye[2] - dy * sy
        /\ (eye[1] - dy * 0) - dx * sx = eye[1] - dx * sx
        /\ (eye[2] - dy * sy) - dx * 0 = eye[2] - dy * sy
    BY <1>1, <1>2
  <2> QED
    BY <2>1 DEF Cell
<1>6. t = <<eye[1] - dx * sx, eye[2] - dy * sy>>
  BY <1>1, <1>2
<1>7. CASE dx <= dy
  <2>1. dy \in Nat \ {0} /\ dx \in 0 .. dy
    BY <1>2, <1>3, <1>7
  <2> QED
    BY <1>4, <1>5, <1>6, <2>1 DEF SeenAt, dx, dy
<1>8. CASE dy <= dx
  <2>1. dx \in Nat \ {0} /\ dy \in 0 .. dx
    BY <1>2, <1>3, <1>8
  <2>2. InRange(dx, dy, range) => InRange(dy, dx, range)
    <3>1. dx * dx + dy * dy = dy * dy + dx * dx
      BY <1>2
    <3> QED
      BY <3>1 DEF InRange
  <2> QED
    BY <1>4, <1>5, <1>6, <2>1, <2>2 DEF SeenAt, dx, dy
<1> QED
  BY <1>2, <1>7, <1>8

(* From inside a room, nearer than a tile of the room there are floor tiles only. *)
LEMMA WithinWalls ==
  ASSUME NEW r, Fits(r), NEW eye \in Interior(r), NEW o \in Octants,
         NEW i \in Nat \ {0}, NEW a \in 0 .. i, Cell(eye, o, a, i) \in Area(r),
         NEW j \in 1 .. i - 1, NEW c \in 0 .. j, c = 0 \/ c < a
  PROVE  Cell(eye, o, c, j) \in Interior(r)
<1> DEFINE ex == eye[1]
           ey == eye[2]
           xx == o[1]
           xy == o[2]
           yx == o[3]
           yy == o[4]
           left   == r.x
           right  == r.x + r.w - 1
           top    == r.y
           bottom == r.y + r.h - 1
<1>1. /\ left \in Int /\ right \in Int /\ top \in Int /\ bottom \in Int
      /\ Area(r) = (left .. right) \X (top .. bottom)
      /\ Interior(r) = (left + 1 .. right - 1) \X (top + 1 .. bottom - 1)
  <2>1. r.x \in Nat /\ r.y \in Nat /\ r.w \in Nat /\ r.h \in Nat
    BY DEF Fits, Rects
  <2>2. r.x + r.w - 2 = right - 1 /\ r.y + r.h - 2 = bottom - 1
    BY <2>1
  <2> QED
    BY <2>1, <2>2, RoomTiles
<1>2. ex \in left + 1 .. right - 1 /\ ey \in top + 1 .. bottom - 1
  BY <1>1
<1>3. \A b, k : Cell(eye, o, b, k) = <<ex - b * xx - k * xy, ey - b * yx - k * yy>>
  BY DEF Cell
<1>4. /\ xx \in {-1, 0, 1} /\ xy \in {-1, 0, 1} /\ yx \in {-1, 0, 1} /\ yy \in {-1, 0, 1}
      /\ \/ xx # 0 /\ xy = 0 /\ yx = 0 /\ yy # 0
         \/ xx = 0 /\ xy # 0 /\ yx # 0 /\ yy = 0
  BY OctantIs
<1> HIDE DEF ex, ey, xx, xy, yx, yy, left, right, top, bottom
<1>5. ex - a * xx - i * xy \in left .. right /\ ey - a * yx - i * yy \in top .. bottom
  BY <1>1, <1>3
<1>6. /\ ex - c * xx - j * xy \in left + 1 .. right - 1
      /\ ey - c * yx - j * yy \in top + 1 .. bottom - 1
  BY <1>1, <1>2, <1>4, <1>5
<1> QED
  BY <1>1, <1>3, <1>6

(***************************************************************************)
(* Whoever stands inside a room, as players and enemies do when they       *)
(* start, is shown by fov_2d all of the room that is in range, walls and   *)
(* corners included, on every map that is generated and with any range.    *)
(***************************************************************************)
THEOREM RoomsLit == Spec => []RoomLit
<1>1. ASSUME MapInv, NEW n \in DOMAIN rooms, NEW eye \in Interior(rooms[n]),
             NEW t \in Area(rooms[n]),
             InRange(AbsVal(t[1] - eye[1]), AbsVal(t[2] - eye[2]), FOV_RANGE)
      PROVE  t \in fov_2d(Tiles \ floor, eye, FOV_RANGE)
  <2> DEFINE r == rooms[n]
             walls == Tiles \ floor
  <2>1. Fits(r) /\ Interior(r) \subseteq floor
    BY <1>1 DEF MapInv, RoomsDug
  <2> HIDE DEF r
  <2>2. t \in Tiles /\ t \in Int \X Int /\ t \in Area(r)
    BY <1>1, <2>1, RoomTiles, GridAssumption DEF Tiles, r
  <2>3. eye \in Interior(r) /\ eye \in Nat \X Nat /\ eye \in Int \X Int
    <3>1. eye \in Interior(r)
      BY DEF r
    <3>2. eye \in (1 .. MAP_WIDTH - 2) \X (1 .. MAP_HEIGHT - 2)
      BY <2>1, <3>1, RoomTiles
    <3> QED
      BY <3>1, <3>2, GridAssumption
  <2>4. CASE t = eye
    BY <2>4 DEF fov_2d, r
  <2>5. CASE t # eye
    <3>0. PICK o \in Octants : \E i \in Nat \ {0} : \E a \in 0 .. i : SeenAt(t, eye, FOV_RANGE, o, i, a)
      BY <2>2, <2>3, <2>5, RangeAssumption, InAnOctant
    <3>1. PICK i \in Nat \ {0} : \E a \in 0 .. i : SeenAt(t, eye, FOV_RANGE, o, i, a)
      BY <3>0
    <3>2. PICK a \in 0 .. i : t = Cell(eye, o, a, i) /\ InRange(a, i, FOV_RANGE)
      BY <1>1, <3>1 DEF r, SeenAt
    <3>3. i \in 1 .. FOV_RANGE
      BY <3>2, RangeAssumption, RowInRange
    <3> DEFINE A == IF a = 0 THEN 0 ELSE a - 1
    <3>4. /\ A \in Nat /\ a <= A + 1
          /\ \A c \in Nat : c <= A => c = 0 \/ c < a
      OBVIOUS
    <3> HIDE DEF A, walls
    <3>5. ASSUME NEW j \in 1 .. i - 1, NEW c \in 0 .. j, c <= A
          PROVE  ~IsOpaque(walls, Cell(eye, o, c, j))
      <4>1. Cell(eye, o, c, j) \in Interior(r)
        <5>1. c = 0 \/ c < a
          BY <3>4, <3>5
        <5>2. Fits(r) /\ eye \in Interior(r) /\ Cell(eye, o, a, i) \in Area(r)
          BY <2>1, <2>2, <2>3, <3>2
        <5> QED
          BY <5>1, <5>2, WithinWalls
      <4>2. Interior(r) \subseteq Tiles
        BY <2>1, RoomTiles
      <4> QED
        BY <2>1, <4>1, <4>2 DEF IsOpaque, walls
    <3>6. ~OffLowSide(t)
      <4>1. ~IsOpaque({}, t)
        BY <2>2 DEF IsOpaque
      <4> QED
        BY <4>1, OpenOnMap
    <3>7. ASSUME NEW cast, Casting(cast, walls, eye, o, FOV_RANGE)
          PROVE  LitCell(cast, eye, o, a, i, FOV_RANGE)
      BY <2>3, <3>2, <3>3, <3>4, <3>5, <3>6, <3>7, RangeAssumption, LitRectangle
    <3>8. Cell(eye, o, a, i) \in fov_2d(walls, eye, FOV_RANGE)
      BY <2>3, <3>3, <3>7, RangeAssumption, CellSeen
    <3> QED
      BY <3>2, <3>8 DEF walls
  <2> QED
    BY <2>4, <2>5
<1>2. MapInv => RoomLit
  BY <1>1 DEF RoomLit
<1> QED
  BY <1>2, MapInvHolds, PTL
=============================================================================
