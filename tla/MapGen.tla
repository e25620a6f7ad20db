------------------------------- MODULE MapGen -------------------------------
(***************************************************************************)
(* map_generate: from a map of walls, ROOM_MAX attempts to add a room at   *)
(* random that overlaps none, joined to the room before it by a corridor   *)
(* with one bend; and where game_init puts players and enemies then.       *)
(* Random numbers are any numbers in their range.                          *)
(***************************************************************************)
EXTENDS Grid, Functions

CONSTANTS
  MIN_SIZE, MAX_SIZE,   \* of a room with its walls: 6 and 10 (exclusive)
  ROOM_MAX              \* attempts, and size of Map.rooms: 32

(* Smaller maps would have random_range divide by zero; in smaller rooms the
   tile beside the centre is a wall. *)
ASSUME MapGenAssumption ==
  /\ MIN_SIZE \in Nat /\ MAX_SIZE \in Nat /\ ROOM_MAX \in Nat \ {0}
  /\ 5 <= MIN_SIZE /\ MIN_SIZE < MAX_SIZE
  /\ MAX_SIZE + 2 <= MAP_WIDTH /\ MAX_SIZE + 2 <= MAP_HEIGHT

VARIABLES
  floor,    \* tiles that are TILE_FLOOR; all others are TILE_WALL
  rooms,    \* Map.rooms up to room_c
  tries     \* the i of map_generate's loop

vars == <<floor, rooms, tries>>

-----------------------------------------------------------------------------
(* Rectangles *)

random_range_Below(min, max) == min - 1 .. max - 1   \* mutant: one too low
random_range(min, max) == min .. max - 1

Rects == [x : 0 .. MAP_WIDTH, y : 0 .. MAP_HEIGHT, w : 0 .. MAP_WIDTH, h : 0 .. MAP_HEIGHT]

overlaps_Corner(a, b) ==   \* mutant: only the corner of a is looked at
  /\ a.x < b.x + b.w /\ a.x >= b.x
  /\ a.y < b.y + b.h /\ a.y >= b.y
overlaps(a, b) ==
  /\ a.x < b.x + b.w /\ a.x + a.w > b.x
  /\ a.y < b.y + b.h /\ a.y + a.h > b.y

center(r) == <<r.x + r.w \div 2, r.y + r.h \div 2>>

Area(r) == (r.x .. r.x + r.w - 1) \X (r.y .. r.y + r.h - 1)

(* map_create_room: the room without its walls *)
Interior(r) == Area([x |-> r.x + 1, y |-> r.y + 1, w |-> r.w - 2, h |-> r.h - 2])

(* What try_create_room may draw. *)
Candidates ==
  UNION {[x : {n - 1 : n \in random_range(1, MAP_WIDTH - w - 1)},
          y : {n - 1 : n \in random_range(1, MAP_HEIGHT - h - 1)}, w : {w}, h : {h}] :
         w, h \in random_range(MIN_SIZE, MAX_SIZE)}

-----------------------------------------------------------------------------
(* Corridors *)

Span(m, n) == IF m < n THEN m .. n ELSE n .. m

Horizontal_Short(from, to, y) == (from .. to) \X {y}   \* mutant: never to the left
Horizontal(from, to, y) == Span(from, to) \X {y}
Vertical(from, to, x)   == {x} \X Span(from, to)

Corridor(old, new, horizontalFirst) ==
  IF horizontalFirst
  THEN Horizontal(old[1], new[1], old[2]) \cup Vertical(old[2], new[2], new[1])
  ELSE Vertical(old[2], new[2], old[1]) \cup Horizontal(old[1], new[1], new[2])

-----------------------------------------------------------------------------
Init == floor = {} /\ rooms = <<>> /\ tries = 0

(* map_set ignores what is not on the map. *)
Dug(ts) == floor \cup (ts \cap Tiles)

(* try_create_room *)
Discard(r) ==
  /\ \E i \in DOMAIN rooms : overlaps(r, rooms[i])
  /\ UNCHANGED <<floor, rooms>>

AddFirst(r) ==
  /\ rooms = <<>>
  /\ rooms' = <<r>>
  /\ floor' = Dug(Interior(r))

AddNext(r, horizontalFirst) ==
  /\ rooms # <<>>
  /\ \A i \in DOMAIN rooms : ~overlaps(r, rooms[i])
  /\ rooms' = Append(rooms, r)
  /\ floor' = Dug(Interior(r)
               \cup Corridor(center(rooms[Len(rooms)]), center(r), horizontalFirst))

TryCreateRoom ==
  /\ tries < ROOM_MAX
  /\ tries' = tries + 1
  /\ \E r \in Candidates :
       \/ Discard(r)
       \/ AddFirst(r)
       \/ \E horizontalFirst \in BOOLEAN : AddNext(r, horizontalFirst)

Spec == Init /\ [][TryCreateRoom]_vars

-----------------------------------------------------------------------------
(* game_init: the players side by side in the first room, an enemy in the
   centre of every other one. *)
spawn == center(rooms[1])

Start ==
  [a \in 0 .. Len(rooms) |->
     IF a = 0 THEN spawn ELSE IF a = 1 THEN Plus(spawn, RIGHT) ELSE center(rooms[a])]

-----------------------------------------------------------------------------
(* Every room lies on the map with its walls, and no room and no corridor
   breaks through the edge of the map: whoever walks on floor tiles stays away
   from tiles that do not exist.  There are no more rooms than attempts. *)
TypeOK ==
  /\ floor \subseteq (1 .. MAP_WIDTH - 2) \X (1 .. MAP_HEIGHT - 2)
  /\ rooms \in Seq(Rects) /\ \A i \in DOMAIN rooms : Area(rooms[i]) \subseteq Tiles
  /\ Len(rooms) <= tries
  /\ tries \in 0 .. ROOM_MAX

(***************************************************************************)
(* What game_init relies on, and World assumes of the start: once an       *)
(* attempt has been made there is a room (assert(room_c > 0)), both        *)
(* players start inside the first one and each enemy inside one of the     *)
(* others, and all on floor tiles, no two on the same one.                 *)
(***************************************************************************)
HomeOf(a) == IF a = 0 THEN 1 ELSE a

StartsFree ==
  tries > 0 =>
    /\ rooms # <<>>
    /\ \A a \in DOMAIN Start : Start[a] \in Interior(rooms[HomeOf(a)]) \cap floor
    /\ IsInjective(Start)

(***************************************************************************)
(* Everybody can get everywhere: from the first player's start, every      *)
(* floor tile can be reached over floor tiles, however rooms and corridors *)
(* cross.                                                                  *)
(***************************************************************************)
Around(ts) == {Plus(t, d) : t \in ts, d \in Straight} \cap floor

(* What can be reached, once the tiles seen can. *)
Reachable ==
  LET from[seen \in SUBSET floor] ==
        LET next == seen \cup Around(seen) IN IF next = seen THEN seen ELSE from[next]
  IN  from[{spawn}]

AllReachable == rooms # <<>> => Reachable = floor
=============================================================================
