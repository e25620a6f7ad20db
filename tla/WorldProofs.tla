----------------------------- MODULE WorldProofs -----------------------------
(***************************************************************************)
(* Proofs, for every map, number of players and enemies, field of view and *)
(* search that finds coherent paths, that actors never share a tile, that  *)
(* map.blocked is exact, that the enemies' stored paths hang together, and *)
(* that what everybody is taken to see is up to date.                      *)
(***************************************************************************)
EXTENDS World, SequenceTheorems, TLAPS

WorldInv == TypeOK /\ OneActorPerTile /\ PathLeadsOn /\ SightCurrent

-----------------------------------------------------------------------------
(* Arithmetic of tiles *)

LEMMA TileParts ==
  ASSUME NEW t \in Tiles
  PROVE  t[1] \in Int /\ t[2] \in Int /\ t = <<t[1], t[2]>>
  BY GridAssumption DEF Tiles

(* Taking the difference to a tile as a step leads to it. *)
LEMMA PlusMinus ==
  ASSUME NEW t \in Tiles, NEW u \in Tiles
  PROVE  Plus(t, Minus(u, t)) = u
  BY TileParts DEF Plus, Minus

LEMMA DistanceProps ==
  ASSUME NEW t \in Tiles, NEW u \in Tiles, NEW v \in Tiles
  PROVE  /\ Distance(t, u) \in Nat
         /\ Distance(t, u) = Distance(u, t)
         /\ Distance(t, v) <= Distance(t, u) + Distance(u, v)
  BY TileParts DEF Distance, AbsVal

(* All but the last step of a coherent path. *)
LEMMA PathFront ==
  ASSUME NEW w \in Seq(Tiles), w # <<>>, Coherent(w)
  PROVE  LET v == SubSeq(w, 1, Len(w) - 1)
         IN  /\ v \in Seq(Tiles)
             /\ Coherent(v)
             /\ w[Len(w)] \in Tiles
             /\ v # <<>> => /\ v[Len(v)] \in Tiles
                            /\ Adjacent(v[Len(v)], w[Len(w)])
<1> DEFINE n == Len(w)
           v == SubSeq(w, 1, n - 1)
<1>1. n \in Nat \ {0}
  BY EmptySeq
<1>2. v \in Seq(Tiles) /\ Len(v) = n - 1 /\ \A i \in 1 .. n - 1 : v[i] = w[i]
  <2>1. \A i \in 1 .. n - 1 : w[i] \in Tiles
    BY <1>1, ElementOfSeq
  <2>2. /\ v \in Seq(Tiles)
        /\ Len(v) = IF 1 <= n - 1 THEN n - 1 - 1 + 1 ELSE 0
        /\ \A i \in 1 .. n - 1 - 1 + 1 : v[i] = w[1 + i - 1]
    BY <1>1, <2>1, SubSeqProperties
  <2> HIDE DEF n, v
  <2> QED
    BY <1>1, <2>2
<1>3. Coherent(v)
  BY <1>1, <1>2 DEF Coherent
<1>4. w[n] \in Tiles
  BY <1>1
<1>5. ASSUME v # <<>>
      PROVE  v[Len(v)] \in Tiles /\ Adjacent(v[Len(v)], w[n])
  <2>1. n - 1 \in 1 .. n - 1
    BY <1>1, <1>2, <1>5, EmptySeq
  <2>2. v[Len(v)] = w[n - 1] /\ w[n - 1] \in Tiles
    BY <1>1, <1>2, <2>1
  <2> QED
    BY <1>1, <2>1, <2>2 DEF Coherent
<1> QED
  BY <1>2, <1>3, <1>4, <1>5

-----------------------------------------------------------------------------
(* Moving one actor *)

LEMMA ConstantFacts ==
  /\ NPlayers \in Nat \ {0} /\ NActors \in Nat /\ NPlayers <= NActors
  /\ Solid \subseteq Tiles
  /\ GcdMove \in Nat /\ MoveGcd \in Nat /\ DTs \subseteq Nat
  /\ Players \subseteq Actors /\ Enemies \subseteq Actors
  /\ 0 \in Players /\ Players \cap Enemies = {}
  BY WorldAssumption DEF Players, Enemies, Actors

(* A tile that game_is_solid lets through is free. *)
LEMMA FreeTile ==
  ASSUME NEW a, NEW d, CanMove(a, d)
  PROVE  Plus(position[a], d) \in Tiles \ (Solid \cup blocked)
  BY DEF CanMove, IsSolid

(* actor_try_move keeps the map exact, whatever the direction. *)
LEMMA TryMoveKeeps ==
  ASSUME TypeOK, OneActorPerTile,
         NEW a \in Actors, NEW d, NEW cooldown \in Nat, NEW cool \in Nat,
         TryMove(a, d, cooldown, cool)
  PROVE  /\ position' \in [Actors -> Tiles]
         /\ blocked' \subseteq Tiles
         /\ gcd' \in [Actors -> Nat]
         /\ OneActorPerTile'
         /\ \A b \in Actors \ {a} : position'[b] = position[b]
         /\ position'[a] = IF CanMove(a, d) THEN Plus(position[a], d) ELSE position[a]
<1>0. position \in [Actors -> Tiles] /\ blocked \subseteq Tiles /\ gcd \in [Actors -> Nat]
  BY DEF TypeOK
<1>1. CASE CanMove(a, d)
  <2> DEFINE t == Plus(position[a], d)
  <2>1. t \in Tiles \ (Solid \cup blocked)
    BY <1>1, FreeTile
  <2>2. /\ blocked' = (blocked \ {position[a]}) \cup {t}
        /\ position' = [position EXCEPT ![a] = t]
        /\ gcd' = [gcd EXCEPT ![a] = cooldown]
    BY <1>1 DEF TryMove, BlockedAfter
  <2> HIDE DEF t
  <2>3. /\ position'[a] = t
        /\ \A b \in Actors \ {a} : position'[b] = position[b]
    BY <2>2, <1>0
  <2>4. \A b \in Actors : position[b] # t
    BY <2>1 DEF OneActorPerTile
  <2>5. \A b, c \in Actors : position'[b] = position'[c] => b = c
    BY <2>3, <2>4 DEF OneActorPerTile
  <2>6. \A b \in Actors : position'[b] \notin Solid
    BY <2>1, <2>3 DEF OneActorPerTile
  <2>7. blocked' = {position'[b] : b \in Actors}
    <3>1. \A u : u \in blocked' => \E b \in Actors : u = position'[b]
      BY <2>2, <2>3 DEF OneActorPerTile
    <3>2. \A b \in Actors : position'[b] \in blocked'
      BY <2>2, <2>3 DEF OneActorPerTile
    <3> QED
      BY <3>1, <3>2
  <2> QED
    BY <1>0, <1>1, <2>1, <2>2, <2>3, <2>5, <2>6, <2>7 DEF OneActorPerTile, t
<1>2. CASE ~CanMove(a, d)
  BY <1>0, <1>2 DEF TryMove, OneActorPerTile
<1> QED
  BY <1>1, <1>2

(* A cooldown running down is still a cooldown. *)
LEMMA RemainingNat ==
  ASSUME TypeOK, NEW a \in Actors
  PROVE  Remaining(a) \in Nat
  BY ConstantFacts DEF TypeOK, Remaining

-----------------------------------------------------------------------------
(* The stored paths *)

(* What enemy_chase leaves is coherent and leads on from where the enemy is:
   directly, if it has just been planned. *)
LEMMA PlannedLeadsOn ==
  ASSUME WorldInv, NEW e \in Enemies, Planned(e) # <<>>
  PROVE  LET w == Planned(e) IN
         /\ w \in Seq(Tiles) /\ Coherent(w)
         /\ Distance(position[e], w[Len(w)]) <= IF w = path[e] THEN 1 + skipped[e] ELSE 1
<1>1. CASE Planned(e) = path[e]
  BY <1>1 DEF WorldInv, TypeOK, PathLeadsOn
<1>2. CASE Planned(e) = NewPath(e) /\ Planned(e) # path[e]
  <2>1. position[e] \in Tiles \ Solid /\ Target \in Tiles \ Solid
    BY ConstantFacts DEF WorldInv, TypeOK, OneActorPerTile, Target
  <2>2. NewPath(e) \in Seq(Tiles) /\ Leads(NewPath(e), position[e], Target)
    BY <2>1, <1>2, PathAssumption DEF NewPath
  <2> QED
    BY <1>2, <2>2 DEF Leads, Adjacent
<1> QED
  BY <1>1, <1>2 DEF Planned

LEMMA FollowKeepsPath ==
  ASSUME WorldInv, NEW e \in Enemies, FollowPath(e),
         position' \in [Actors -> Tiles],
         \A b \in Actors \ {e} : position'[b] = position[b]
  PROVE  /\ path' \in [Enemies -> Seq(Tiles)]
         /\ skipped' \in [Enemies -> Nat]
         /\ PathLeadsOn'
<1> DEFINE w == Planned(e)
           v == SubSeq(w, 1, Len(w) - 1)
           delta == Minus(w[Len(w)], position[e])
           moved == CanMove(e, delta)
<1>1. /\ w # <<>>
      /\ path' = [path EXCEPT ![e] = v]
      /\ skipped' = [skipped EXCEPT ![e] =
            IF moved THEN 0 ELSE IF w = path[e] THEN @ + 1 ELSE 1]
      /\ TryMove(e, delta, MoveGcd, 0)
  BY DEF FollowPath
<1>2. /\ w \in Seq(Tiles) /\ Coherent(w)
      /\ Distance(position[e], w[Len(w)]) <= IF w = path[e] THEN 1 + skipped[e] ELSE 1
  BY <1>1, PlannedLeadsOn
<1> HIDE DEF w
<1>3. /\ v \in Seq(Tiles) /\ Coherent(v)
      /\ w[Len(w)] \in Tiles
      /\ v # <<>> => v[Len(v)] \in Tiles /\ Adjacent(v[Len(v)], w[Len(w)])
  BY <1>1, <1>2, PathFront
<1>4. /\ position \in [Actors -> Tiles] /\ e \in Actors
      /\ path \in [Enemies -> Seq(Tiles)] /\ skipped \in [Enemies -> Nat]
  BY ConstantFacts DEF WorldInv, TypeOK
<1>5. position'[e] = IF moved THEN w[Len(w)] ELSE position[e]
  <2>1. Plus(position[e], delta) = w[Len(w)]
    BY <1>3, <1>4, PlusMinus
  <2> QED
    BY <1>1, <1>4, <2>1 DEF TryMove
<1> HIDE DEF v, moved, delta
<1>6. path' \in [Enemies -> Seq(Tiles)] /\ skipped' \in [Enemies -> Nat]
  BY <1>1, <1>3, <1>4
<1>7. path'[e] = v /\ skipped'[e] = IF moved THEN 0 ELSE IF w = path[e] THEN skipped[e] + 1 ELSE 1
  BY <1>1, <1>4
<1>8. v # <<>> => Distance(position'[e], v[Len(v)]) <= 1 + skipped'[e]
  <2> HAVE v # <<>>
  <2> DEFINE next == w[Len(w)]
             after == v[Len(v)]
  <2>1. next \in Tiles /\ after \in Tiles /\ Distance(after, next) = 1
    BY <1>3 DEF Adjacent
  <2>2. Distance(next, after) = 1
    BY <2>1, DistanceProps
  <2>3. CASE moved
    BY <2>2, <2>3, <1>5, <1>7
  <2>4. CASE ~moved
    <3>1. Distance(position[e], after) <= Distance(position[e], next) + 1
      BY <2>1, <2>2, <1>4, DistanceProps
    <3>2. Distance(position[e], next) \in Nat /\ Distance(position[e], after) \in Nat
      BY <2>1, <1>4, DistanceProps
    <3>3. skipped[e] \in Nat
      BY <1>4
    <3> QED
      BY <3>1, <3>2, <3>3, <2>4, <1>2, <1>5, <1>7
  <2> QED
    BY <2>3, <2>4
<1>9. \A x \in Enemies \ {e} : /\ path'[x] = path[x] /\ skipped'[x] = skipped[x]
                               /\ position'[x] = position[x]
  BY <1>1, <1>4, ConstantFacts
<1>10. PathLeadsOn'
  <2> SUFFICES ASSUME NEW x \in Enemies
               PROVE  /\ Coherent(path'[x])
                      /\ path'[x] # <<>> =>
                           Distance(position'[x], path'[x][Len(path'[x])]) <= 1 + skipped'[x]
    BY DEF PathLeadsOn
  <2>1. CASE x = e
    BY <2>1, <1>3, <1>7, <1>8
  <2>2. CASE x # e
    BY <2>2, <1>9 DEF WorldInv, PathLeadsOn
  <2> QED
    BY <2>1, <2>2
<1> QED
  BY <1>6, <1>10

LEMMA WanderKeepsPath ==
  ASSUME WorldInv, NEW e \in Enemies, Wander(e),
         \A b \in Actors \ {e} : position'[b] = position[b]
  PROVE  /\ path' \in [Enemies -> Seq(Tiles)]
         /\ skipped' \in [Enemies -> Nat]
         /\ PathLeadsOn'
<1>1. /\ path' = [path EXCEPT ![e] = <<>>]
      /\ skipped' = [skipped EXCEPT ![e] = 0]
  BY DEF Wander
<1>2. path \in [Enemies -> Seq(Tiles)] /\ skipped \in [Enemies -> Nat]
  BY DEF WorldInv, TypeOK
<1>3. path' \in [Enemies -> Seq(Tiles)] /\ skipped' \in [Enemies -> Nat]
  BY <1>1, <1>2
<1>4. Coherent(<<>>)
  BY DEF Coherent
<1>5. \A x \in Enemies : x # e => /\ path'[x] = path[x] /\ skipped'[x] = skipped[x]
                                  /\ position'[x] = position[x]
  BY <1>1, <1>2, ConstantFacts
<1>6. path'[e] = <<>>
  BY <1>1, <1>2
<1>7. PathLeadsOn'
  <2> SUFFICES ASSUME NEW x \in Enemies
               PROVE  /\ Coherent(path'[x])
                      /\ path'[x] # <<>> =>
                           Distance(position'[x], path'[x][Len(path'[x])]) <= 1 + skipped'[x]
    BY DEF PathLeadsOn
  <2>1. CASE x = e
    BY <2>1, <1>4, <1>6
  <2>2. CASE x # e
    BY <2>2, <1>5 DEF WorldInv, PathLeadsOn
  <2> QED
    BY <2>1, <2>2
<1> QED
  BY <1>3, <1>7
-----------------------------------------------------------------------------
(* The actions *)

LEMMA InitInv == Init => WorldInv
<1> SUFFICES ASSUME Init PROVE WorldInv
  OBVIOUS
<1>1. /\ position \in [Actors -> Tiles \ Solid]
      /\ \A a, b \in Actors : position[a] = position[b] => a = b
  BY WorldAssumption DEF Init, CreateActors, IsInjective
<1>2. OneActorPerTile
  BY <1>1 DEF Init, CreateActors, OneActorPerTile
<1>3. TypeOK
  <2>1. visible \in [Players -> SUBSET Tiles]
    BY <1>1, SightAssumption, ConstantFacts DEF Init, InitPlayers
  <2>2. ZERO \in {-1, 0, 1} \X {-1, 0, 1}
    BY DEF ZERO
  <2> QED
    BY <1>1, <2>1, <2>2 DEF Init, CreateActors, InitPlayers, InitEnemies, TypeOK, Resting
<1>4. PathLeadsOn
  BY DEF Init, InitEnemies, PathLeadsOn, Coherent
<1>5. SightCurrent
  BY DEF Init, InitPlayers, InitEnemies, SightCurrent
<1> QED
  BY <1>2, <1>3, <1>4, <1>5 DEF WorldInv

LEMMA KeyInv ==
  ASSUME WorldInv, NEW p \in Players, Key(p)
  PROVE  WorldInv'
<1>1. action' \in [Players -> {-1, 0, 1} \X {-1, 0, 1}]
  <2>1. PICK d \in Straight, shift \in BOOLEAN :
          action' = [action EXCEPT ![p] = IF shift THEN Straighten(d) ELSE d]
    BY DEF Key
  <2>2. d \in {-1, 0, 1} \X {-1, 0, 1}
    BY DEF Straight, UP, DOWN, LEFT, RIGHT
  <2>3. Straighten(d) \in {-1, 0, 1} \X {-1, 0, 1}
    BY DEF Straighten, Straight, UP, DOWN, LEFT, RIGHT
  <2> QED
    BY <2>1, <2>2, <2>3 DEF WorldInv, TypeOK
<1> QED
  BY <1>1 DEF Key, enemyVars, WorldInv, TypeOK, OneActorPerTile, PathLeadsOn, SightCurrent

LEMMA BeginTickInv ==
  ASSUME WorldInv, BeginTick
  PROVE  WorldInv'
<1>1. turn' \in Actors \cup {Resting} /\ dt' \in DTs \cup {0}
  BY ConstantFacts DEF BeginTick
<1> QED
  BY <1>1 DEF BeginTick, playerVars, enemyVars,
              WorldInv, TypeOK, OneActorPerTile, PathLeadsOn, SightCurrent

(* After the last actor the loop rests. *)
LEMMA NextActorType ==
  ASSUME NEW a \in Actors, turn = a, NextActor, TypeOK
  PROVE  turn' \in Actors \cup {Resting} /\ dt' \in DTs \cup {0}
  BY ConstantFacts DEF NextActor, Actors, Resting, TypeOK

LEMMA PlayerTickInv ==
  ASSUME WorldInv, NEW p \in Players, PlayerTick(p)
  PROVE  WorldInv'
<1>0. p \in Actors /\ TypeOK /\ OneActorPerTile /\ PathLeadsOn /\ SightCurrent
  BY ConstantFacts DEF WorldInv
<1>1. turn' \in Actors \cup {Resting} /\ dt' \in DTs \cup {0}
  BY <1>0, NextActorType DEF PlayerTick
<1>2. UNCHANGED <<viewshed, dirty, path, skipped>>
  BY DEF PlayerTick, enemyVars
<1>3. CASE CoolDown(p) /\ UNCHANGED playerVars
  <2>1. gcd' \in [Actors -> Nat] /\ UNCHANGED <<position, blocked>>
    BY <1>0, <1>3, RemainingNat DEF CoolDown, TypeOK
  <2> QED
    BY <1>0, <1>1, <1>2, <1>3, <2>1
    DEF playerVars, WorldInv, TypeOK, OneActorPerTile, PathLeadsOn, SightCurrent
<1>4. CASE /\ TryMove(p, action[p], GcdMove, 0)
           /\ action' = [action EXCEPT ![p] = ZERO]
           /\ visible' = [visible EXCEPT ![p] =
                 IF CanMove(p, action[p]) THEN Sees(p, position'[p]) ELSE @]
           /\ revealed' = [revealed EXCEPT ![p] = @ \cup visible'[p]]
  <2>1. /\ position' \in [Actors -> Tiles]
        /\ blocked' \subseteq Tiles
        /\ gcd' \in [Actors -> Nat]
        /\ OneActorPerTile'
        /\ \A b \in Actors \ {p} : position'[b] = position[b]
        /\ position'[p] = IF CanMove(p, action[p]) THEN Plus(position[p], action[p])
                          ELSE position[p]
    BY <1>0, <1>4, ConstantFacts, TryMoveKeeps
  <2>2. action' \in [Players -> {-1, 0, 1} \X {-1, 0, 1}]
    BY <1>0, <1>4 DEF TypeOK, ZERO
  <2>3. visible'[p] = Sees(p, position'[p]) /\ visible'[p] \subseteq Tiles
    <3>1. position'[p] \in Tiles
      BY <1>0, <2>1
    <3>2. visible'[p] = Sees(p, position'[p])
      BY <1>0, <1>4, <2>1 DEF TypeOK, SightCurrent
    <3> QED
      BY <1>0, <3>1, <3>2, SightAssumption
  <2>4. /\ visible' \in [Players -> SUBSET Tiles] /\ revealed' \in [Players -> SUBSET Tiles]
        /\ visible'[p] \subseteq revealed'[p]
        /\ \A q \in Players \ {p} : visible'[q] = visible[q] /\ revealed'[q] = revealed[q]
    BY <1>0, <1>4, <2>3 DEF TypeOK
  <2>5. TypeOK'
    BY <1>0, <1>1, <1>2, <2>1, <2>2, <2>4 DEF TypeOK
  <2>6. \A e \in Enemies : position'[e] = position[e]
    BY <2>1, ConstantFacts
  <2>7. PathLeadsOn'
    BY <1>0, <1>2, <2>6 DEF PathLeadsOn
  <2>8. SightCurrent'
    <3>1. ASSUME NEW q \in Players
          PROVE  visible'[q] = Sees(q, position'[q]) /\ visible'[q] \subseteq revealed'[q]
      <4>1. CASE q = p
        BY <4>1, <2>3, <2>4
      <4>2. CASE q # p
        BY <4>2, <1>0, <2>1, <2>4, ConstantFacts DEF SightCurrent
      <4> QED
        BY <4>1, <4>2
    <3>2. ASSUME NEW e \in Enemies, ~dirty'[e]
          PROVE  viewshed'[e] = Sees(e, position'[e])
      BY <1>0, <1>2, <2>6, <3>2 DEF SightCurrent
    <3> QED
      BY <3>1, <3>2 DEF SightCurrent
  <2> QED
    BY <2>1, <2>5, <2>7, <2>8 DEF WorldInv
<1> QED
  BY <1>3, <1>4 DEF PlayerTick, UpdateFov

(* viewshed_process leaves the enemy's viewshed current. *)
LEMMA LookAroundCurrent ==
  ASSUME WorldInv, NEW e \in Enemies, NEW moved \in BOOLEAN,
         LookAround(e, moved), dirty' = [dirty EXCEPT ![e] = FALSE],
         position' \in [Actors -> Tiles],
         \A b \in Actors \ {e} : position'[b] = position[b],
         ~moved => position'[e] = position[e],
         UNCHANGED playerVars
  PROVE  /\ viewshed' \in [Enemies -> SUBSET Tiles]
         /\ dirty' \in [Enemies -> BOOLEAN]
         /\ SightCurrent'
<1>0. /\ viewshed \in [Enemies -> SUBSET Tiles] /\ dirty \in [Enemies -> BOOLEAN]
      /\ e \in Actors /\ SightCurrent
  BY ConstantFacts DEF WorldInv, TypeOK
<1>1. viewshed' = [viewshed EXCEPT ![e] = IF dirty[e] \/ moved THEN Sees(e, position'[e]) ELSE @]
  BY DEF LookAround
<1>2. viewshed'[e] = Sees(e, position'[e])
  BY <1>0, <1>1 DEF SightCurrent
<1>3. Sees(e, position'[e]) \subseteq Tiles
  BY <1>0, SightAssumption
<1>4. viewshed' \in [Enemies -> SUBSET Tiles] /\ dirty' \in [Enemies -> BOOLEAN]
  BY <1>0, <1>1, <1>3
<1>5. ASSUME NEW x \in Enemies, ~dirty'[x]
      PROVE  viewshed'[x] = Sees(x, position'[x])
  <2>1. CASE x = e
    BY <2>1, <1>2
  <2>2. CASE x # e
    BY <2>2, <1>0, <1>1, <1>5, ConstantFacts DEF SightCurrent
  <2> QED
    BY <2>1, <2>2
<1>6. ASSUME NEW p \in Players
      PROVE  visible'[p] = Sees(p, position'[p]) /\ visible'[p] \subseteq revealed'[p]
  <2>1. p \in Actors \ {e}
    BY ConstantFacts
  <2> QED
    BY <2>1, <1>0 DEF SightCurrent, playerVars
<1> QED
  BY <1>4, <1>5, <1>6 DEF SightCurrent

LEMMA EnemyTickInv ==
  ASSUME WorldInv, NEW e \in Enemies, EnemyTick(e)
  PROVE  WorldInv'
<1>0. e \in Actors /\ TypeOK /\ OneActorPerTile /\ PathLeadsOn /\ SightCurrent
  BY ConstantFacts DEF WorldInv
<1>1. /\ turn' \in Actors \cup {Resting} /\ dt' \in DTs \cup {0}
      /\ dirty' = [dirty EXCEPT ![e] = FALSE]
      /\ UNCHANGED playerVars
  BY <1>0, NextActorType DEF EnemyTick
<1>2. CASE CoolDown(e) /\ LookAround(e, FALSE) /\ UNCHANGED <<path, skipped>>
  <2>1. gcd' \in [Actors -> Nat] /\ UNCHANGED <<position, blocked>>
    BY <1>0, <1>2, RemainingNat DEF CoolDown, TypeOK
  <2>2. /\ viewshed' \in [Enemies -> SUBSET Tiles] /\ dirty' \in [Enemies -> BOOLEAN]
        /\ SightCurrent'
    BY <1>0, <1>1, <1>2, <2>1, LookAroundCurrent DEF TypeOK
  <2> QED
    BY <1>0, <1>1, <1>2, <2>1, <2>2
    DEF playerVars, WorldInv, TypeOK, OneActorPerTile, PathLeadsOn
<1>3. ASSUME NEW d, TryMove(e, d, MoveGcd, 0), LookAround(e, CanMove(e, d)),
             FollowPath(e) \/ Wander(e)
      PROVE  WorldInv'
  <2>1. /\ position' \in [Actors -> Tiles]
        /\ blocked' \subseteq Tiles
        /\ gcd' \in [Actors -> Nat]
        /\ OneActorPerTile'
        /\ \A b \in Actors \ {e} : position'[b] = position[b]
        /\ ~CanMove(e, d) => position'[e] = position[e]
    BY <1>0, <1>3, ConstantFacts, TryMoveKeeps
  <2>2. CanMove(e, d) \in BOOLEAN
    BY DEF CanMove
  <2>3. /\ viewshed' \in [Enemies -> SUBSET Tiles] /\ dirty' \in [Enemies -> BOOLEAN]
        /\ SightCurrent'
    BY <1>1, <1>3, <2>1, <2>2, LookAroundCurrent
  <2>4. path' \in [Enemies -> Seq(Tiles)] /\ skipped' \in [Enemies -> Nat] /\ PathLeadsOn'
    BY <1>3, <2>1, FollowKeepsPath, WanderKeepsPath
  <2>5. TypeOK'
    BY <1>0, <1>1, <2>1, <2>3, <2>4 DEF TypeOK, playerVars
  <2> QED
    BY <2>1, <2>3, <2>4, <2>5 DEF WorldInv
<1>4. CASE FollowPath(e)
  BY <1>3, <1>4 DEF FollowPath
<1>5. CASE Wander(e)
  BY <1>3, <1>5 DEF Wander
<1> QED
  BY <1>2, <1>4, <1>5 DEF EnemyTick

LEMMA WorldInvInductive == WorldInv /\ [Next]_vars => WorldInv'
<1> SUFFICES ASSUME WorldInv, [Next]_vars PROVE WorldInv'
  OBVIOUS
<1>1. CASE UNCHANGED vars
  BY <1>1 DEF vars, playerVars, enemyVars,
              WorldInv, TypeOK, OneActorPerTile, PathLeadsOn, SightCurrent
<1> QED
  BY <1>1, KeyInv, PlayerTickInv, EnemyTickInv, BeginTickInv DEF Next

-----------------------------------------------------------------------------
(* The results *)

LEMMA WorldInvariant == Spec => []WorldInv
  BY InitInv, WorldInvInductive, PTL DEF Spec

(* map.blocked is exact and nobody ever shares a tile: actor_try_move updates
   two flags by itself, and game_is_solid trusts them. *)
THEOREM TilesExclusive == Spec => []OneActorPerTile
<1>1. WorldInv => OneActorPerTile
  BY DEF WorldInv
<1> QED
  BY <1>1, WorldInvariant, PTL

(* Enemies leap no further than over the tiles they were refused: what
   enemy_move leaves of a path hangs together. *)
THEOREM PathsHangTogether == Spec => []PathLeadsOn
<1>1. WorldInv => PathLeadsOn
  BY DEF WorldInv
<1> QED
  BY <1>1, WorldInvariant, PTL

(* The dirty flag is raised and processed so that vision and viewsheds are
   those of where players and enemies stand. *)
THEOREM SightUpToDate == Spec => []SightCurrent
<1>1. WorldInv => SightCurrent
  BY DEF WorldInv
<1> QED
  BY <1>1, WorldInvariant, PTL

(* Nothing leaves the map, and cooldowns stay cooldowns. *)
THEOREM WorldTypes == Spec => []TypeOK
<1>1. WorldInv => TypeOK
  BY DEF WorldInv
<1> QED
  BY <1>1, WorldInvariant, PTL
=============================================================================
