------------------------------- MODULE World --------------------------------
(***************************************************************************)
(* The players and enemies on the map, and game_tick: first every player   *)
(* acts (player_tick), then every actor of the pool in its order           *)
(* (actor_tick).  A step is one call of player_tick or actor_tick; keys    *)
(* arrive between two ticks.  All actors the game creates block their tile *)
(* and none is ever destroyed.                                             *)
(***************************************************************************)
EXTENDS Grid, Sequences, Functions

CONSTANTS
  NPlayers, NActors,    \* players, and all actors; the pool has the players first
  Solid,                \* solid tiles of the generated map
  Starts,               \* where game_init may put the actors
  Sees(_, _),           \* tiles an actor sees from a tile (fov_2d)
  PathBetween(_, _),    \* the path pathfind_2d finds, <<>> if there is none
  GcdMove, MoveGcd,     \* cooldown after a player's and after an enemy's move
  DTs                   \* time steps

Players == 0 .. NPlayers - 1
Enemies == NPlayers .. NActors - 1
Actors  == 0 .. NActors - 1

ASSUME WorldAssumption ==
  /\ NPlayers \in Nat \ {0} /\ NActors \in Nat /\ NPlayers <= NActors
  /\ Solid \subseteq Tiles
  /\ \A start \in Starts : /\ start \in [Actors -> Tiles \ Solid]
                           /\ IsInjective(start)
  /\ GcdMove \in Nat /\ MoveGcd \in Nat
  /\ DTs \subseteq Nat

(* What is used of the field of view, and of the search: see Search. *)
ASSUME SightAssumption == \A a \in Actors, t \in Tiles : Sees(a, t) \subseteq Tiles

ASSUME PathAssumption ==
  \A a, b \in Tiles \ Solid :
    /\ PathBetween(a, b) \in Seq(Tiles)
    /\ PathBetween(a, b) # <<>> => Leads(PathBetween(a, b), a, b)

VARIABLES
  position,    \* Actor.position
  blocked,     \* map.blocked: the tiles where it is set
  gcd,         \* Actor.gcd
  action,      \* Player.action: a direction, or ZERO for ACTION_NONE
  visible,     \* Player.vision: tiles seen now ...
  revealed,    \* ... and ever
  viewshed,    \* Actor.viewshed of the enemies
  dirty,       \* Viewshed.dirty
  path,        \* Actor.path: the target first, the next step last
  skipped,     \* steps taken from the path and not entered since it was planned
  turn,        \* the next actor to tick; NActors between two ticks
  dt           \* the time step of this tick

playerVars == <<action, visible, revealed>>
enemyVars  == <<viewshed, dirty, path, skipped>>
vars == <<position, blocked, gcd, playerVars, enemyVars, turn, dt>>

Resting == NActors

(* Nobody leaves the map, and no cooldown becomes negative. *)
TypeOK ==
  /\ position \in [Actors -> Tiles]
  /\ blocked \subseteq Tiles
  /\ gcd \in [Actors -> Nat]
  /\ action \in [Players -> {-1, 0, 1} \X {-1, 0, 1}]
  /\ visible \in [Players -> SUBSET Tiles] /\ revealed \in [Players -> SUBSET Tiles]
  /\ viewshed \in [Enemies -> SUBSET Tiles] /\ dirty \in [Enemies -> BOOLEAN]
  /\ path \in [Enemies -> Seq(Tiles)] /\ skipped \in [Enemies -> Nat]
  /\ turn \in Actors \cup {Resting}
  /\ dt \in DTs \cup {0}

(* actor_create_opt blocks the tile of everyone it creates. *)
CreateActors ==
  /\ position \in Starts
  /\ blocked = {position[a] : a \in Actors}
  /\ gcd = [a \in Actors |-> 0]

(* player_init *)
InitPlayers ==
  /\ action = [p \in Players |-> ZERO]
  /\ visible = [p \in Players |-> Sees(p, position[p])]
  /\ revealed = visible

(* goblin_create, orc_create: their viewsheds wait for the first tick. *)
InitEnemies ==
  /\ viewshed = [e \in Enemies |-> {}]
  /\ dirty = [e \in Enemies |-> TRUE]
  /\ path = [e \in Enemies |-> <<>>]
  /\ skipped = [e \in Enemies |-> 0]

Init ==
  /\ CreateActors /\ InitPlayers /\ InitEnemies
  /\ turn = Resting
  /\ dt = 0

-----------------------------------------------------------------------------
(* game_is_solid, of what may be outside the map *)
IsSolid_Anywhere(t) == t \in Solid \/ t \in blocked   \* mutant: no map_contains
IsSolid(t) == t \notin Tiles \/ t \in Solid \/ t \in blocked

CanMove(a, delta) == delta # ZERO /\ ~IsSolid(Plus(position[a], delta))

(* The flags actor_try_move leaves when a goes to t. *)
BlockedAfter_Trail(a, t) == blocked \cup {t}   \* mutant: the old tile stays blocked
BlockedAfter(a, t) == (blocked \ {position[a]}) \cup {t}

(* actor_try_move, where it succeeds and where it does not; cool is the
   cooldown that is left in the latter case. *)
TryMove(a, delta, cooldown, cool) ==
  IF CanMove(a, delta)
  THEN LET t == Plus(position[a], delta)
       IN  /\ blocked' = BlockedAfter(a, t)
           /\ position' = [position EXCEPT ![a] = t]
           /\ gcd' = [gcd EXCEPT ![a] = cooldown]
  ELSE gcd' = [gcd EXCEPT ![a] = cool] /\ UNCHANGED <<position, blocked>>

(* gcd_tick *)
Remaining(a) == IF gcd[a] < dt THEN 0 ELSE gcd[a] - dt

-----------------------------------------------------------------------------
(* game_input: an arrow key, with shift for the diagonals. *)
Straighten(d) == CASE d = UP -> <<-1, -1>> [] d = DOWN -> <<1, 1>>
                   [] d = LEFT -> <<-1, 1>> [] d = RIGHT -> <<1, -1>>

Key(p) ==
  /\ turn = Resting
  /\ gcd[p] <= GcdMove
  /\ \E d \in Straight, shift \in BOOLEAN :
       action' = [action EXCEPT ![p] = IF shift THEN Straighten(d) ELSE d]
  /\ UNCHANGED <<position, blocked, gcd, visible, revealed, enemyVars, turn, dt>>

BeginTick ==
  /\ turn = Resting
  /\ turn' = 0
  /\ dt' \in DTs
  /\ UNCHANGED <<position, blocked, gcd, playerVars, enemyVars>>

NextActor == turn' = turn + 1 /\ UNCHANGED dt

CoolDown(a) ==
  /\ gcd' = [gcd EXCEPT ![a] = Remaining(a)]
  /\ UNCHANGED <<position, blocked>>

(* update_player_fov, where the player has come to a tile *)
UpdateFov(p, moved) ==
  /\ visible' = [visible EXCEPT ![p] = IF moved THEN Sees(p, position'[p]) ELSE @]
  /\ revealed' = [revealed EXCEPT ![p] = @ \cup visible'[p]]

(* player_tick: the buffered action is tried once and forgotten. *)
PlayerTick(p) ==
  /\ turn = p
  /\ \/ /\ Remaining(p) > 0
        /\ CoolDown(p)
        /\ UNCHANGED playerVars
     \/ /\ Remaining(p) = 0
        /\ TryMove(p, action[p], GcdMove, 0)
        /\ action' = [action EXCEPT ![p] = ZERO]
        /\ UpdateFov(p, CanMove(p, action[p]))
  /\ NextActor
  /\ UNCHANGED enemyVars

-----------------------------------------------------------------------------
(* Enemies are after the first player only. *)
Target == position[0]

(* viewshed_contains *)
SeesTarget(e) == Target \in viewshed[e]

(* enemy_chase plans again when the path does not end where the target stands;
   a search that fails leaves the old path alone. *)
Replans(e) == /\ SeesTarget(e)
              /\ path[e] = <<>> \/ path[e][1] # Target

NewPath(e) == PathBetween(position[e], Target)

Planned_Added(e) == IF Replans(e) THEN path[e] \o NewPath(e) ELSE path[e]   \* mutant: no da_clear
Planned(e) == IF Replans(e) /\ NewPath(e) # <<>> THEN NewPath(e) ELSE path[e]

(* viewshed_process at the end of actor_tick, for an enemy that has moved or
   has never looked. *)
LookAround_Moved(e, moved) ==    \* mutant: actor_try_move does not raise dirty
  viewshed' = [viewshed EXCEPT ![e] = IF dirty[e] THEN Sees(e, position'[e]) ELSE @]
LookAround(e, moved) ==
  viewshed' = [viewshed EXCEPT ![e] =
                 IF dirty[e] \/ moved THEN Sees(e, position'[e]) ELSE @]

(* enemy_move along the path: its last step is taken from it, whether it can
   be made or not. *)
FollowPath(e) ==
  LET plan  == Planned(e)
      delta == Minus(plan[Len(plan)], position[e])
  IN  /\ plan # <<>>
      /\ TryMove(e, delta, MoveGcd, 0)
      /\ path' = [path EXCEPT ![e] = SubSeq(plan, 1, Len(plan) - 1)]
      /\ skipped' = [skipped EXCEPT ![e] =
            IF CanMove(e, delta) THEN 0 ELSE IF plan = path[e] THEN @ + 1 ELSE 1]
      /\ LookAround(e, CanMove(e, delta))

(* enemy_move without a path: one of four directions, or nothing. *)
Wander(e) ==
  /\ Planned(e) = <<>>
  /\ \E d \in Straight \cup {ZERO} :
       TryMove(e, d, MoveGcd, 0) /\ LookAround(e, CanMove(e, d))
  /\ path' = [path EXCEPT ![e] = <<>>]
  /\ skipped' = [skipped EXCEPT ![e] = 0]

(* actor_tick of an enemy; that of a player changes nothing that is read. *)
EnemyTick(e) ==
  /\ turn = e
  /\ \/ Remaining(e) > 0 /\ CoolDown(e) /\ LookAround(e, FALSE) /\ UNCHANGED <<path, skipped>>
     \/ Remaining(e) = 0 /\ (FollowPath(e) \/ Wander(e))
  /\ dirty' = [dirty EXCEPT ![e] = FALSE]
  /\ NextActor
  /\ UNCHANGED playerVars

Next ==
  \/ \E p \in Players : Key(p) \/ PlayerTick(p)
  \/ \E e \in Enemies : EnemyTick(e)
  \/ BeginTick

Spec == Init /\ [][Next]_vars

-----------------------------------------------------------------------------
(***************************************************************************)
(* map.blocked is set exactly where an actor stands, although every move   *)
(* updates it by itself, and no two actors ever share a tile or stand in a *)
(* wall.                                                                   *)
(***************************************************************************)
OneActorPerTile ==
  /\ blocked = {position[a] : a \in Actors}
  /\ \A a, b \in Actors : position[a] = position[b] => a = b
  /\ \A a \in Actors : position[a] \notin Solid

(***************************************************************************)
(* enemy_move takes a step from the path even when it is then refused, so  *)
(* that the next one may leap.  It never leaps further than over the tiles *)
(* it has been refused since it last moved: what is left of a path hangs   *)
(* together, whatever was planned before and wherever the target went.     *)
(***************************************************************************)
PathLeadsOn ==
  \A e \in Enemies :
    /\ Coherent(path[e])
    /\ path[e] # <<>> => Distance(position[e], path[e][Len(path[e])]) <= 1 + skipped[e]

(***************************************************************************)
(* What players and enemies are taken to see is what is seen from where    *)
(* they stand, however they came there; enemies that have never looked     *)
(* excepted.                                                               *)
(***************************************************************************)
SightCurrent ==
  /\ \A p \in Players : visible[p] = Sees(p, position[p]) /\ visible[p] \subseteq revealed[p]
  /\ \A e \in Enemies : ~dirty[e] => viewshed[e] = Sees(e, position[e])
=============================================================================
