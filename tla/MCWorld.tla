------------------------------ MODULE MCWorld -------------------------------
(* World on a small map, for TLC, with what fov_2d shows from its tiles and
   the paths pathfind_2d finds on it. *)
EXTENDS World, Pathfind, Fov, TLC

(* A corridor with a bay, in which one can pass and walk diagonally. *)
Walls == {<<0, 1>>, <<3, 1>>}

(* game_init puts the players side by side and the enemies elsewhere. *)
Beside == {0 :> <<0, 0>> @@ 1 :> <<1, 0>> @@ 2 :> <<3, 0>> @@ 3 :> <<2, 1>>}

(* Players see further than enemies. *)
Seen(t, range) == fov_2d(Walls, t, range) \cap Tiles

Lit == [at \in Players \X Tiles |-> Seen(at[2], 4)] @@ [at \in Enemies \X Tiles |-> Seen(at[2], 3)]

Sight(a, t) == IF t \in Tiles THEN Lit[a, t] ELSE {}

(* All the paths of the map, searched once. *)
Found == [from, to \in Tiles \ Solid |-> pathfind_2d(Solid, from, to)]

Paths(from, to) == Found[from, to]
=============================================================================
