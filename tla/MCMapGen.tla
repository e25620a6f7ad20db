------------------------------ MODULE MCMapGen ------------------------------
(* MapGen on small maps, for TLC, with what is seen there. *)
EXTENDS MapGen, Fov

CONSTANT FOV_RANGE   \* how far an actor sees

ASSUME RangeAssumption == FOV_RANGE \in Nat

(***************************************************************************)
(* Whoever stands in a room, anywhere, sees all of it, walls and corners   *)
(* included, as far as the range goes: nothing lurks in it unseen.  Where  *)
(* game_init puts players and enemies is in a room (StartsFree).           *)
(***************************************************************************)
RoomLit ==
  \A i \in DOMAIN rooms : \A eye \in Interior(rooms[i]) :
    LET seen == fov_2d(Tiles \ floor, eye, FOV_RANGE)
    IN  \A t \in Area(rooms[i]) :
          InRange(AbsVal(t[1] - eye[1]), AbsVal(t[2] - eye[2]), FOV_RANGE) => t \in seen
=============================================================================
