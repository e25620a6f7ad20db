---------------------------- MODULE SearchProofs ----------------------------
(***************************************************************************)
(* Proofs about pathfind_2d, for every size of the map, every map of that  *)
(* size, every start and every target: the queue stays sorted, the path is *)
(* a walk to the target, and the search gives up only if there is none.    *)
(* And about fov_2d from the tiles where a search starts: what is seen     *)
(* along straight lines, and that light comes past tiles that are seen.    *)
(***************************************************************************)
EXTENDS MCSearch, FovProofs, FiniteSetTheorems, TLAPS

-----------------------------------------------------------------------------
(* Tiles *)

Open == Tiles \ solid

LEMMA StepsAreAdjacent ==
  ASSUME NEW t \in Tiles, NEW d \in Straight
  PROVE  Adjacent(t, Plus(t, d)) /\ Plus(t, d) \in Int \X Int
<1>1. t[1] \in Int /\ t[2] \in Int
  BY GridAssumption DEF Tiles
<1>2. CASE d \in {RIGHT, LEFT}
  BY <1>1, <1>2 DEF RIGHT, LEFT, Adjacent, Distance, AbsVal, Plus
<1>3. CASE d \in {UP, DOWN}
  BY <1>1, <1>3 DEF UP, DOWN, Adjacent, Distance, AbsVal, Plus
<1> QED
  BY <1>2, <1>3 DEF Straight

LEMMA AdjacentSymmetric ==
  ASSUME NEW a \in Tiles, NEW b \in Tiles, Adjacent(a, b)
  PROVE  Adjacent(b, a)
<1>1. a[1] \in Int /\ a[2] \in Int /\ b[1] \in Int /\ b[2] \in Int
  BY GridAssumption DEF Tiles
<1>2. AbsVal(a[1] - b[1]) = AbsVal(b[1] - a[1]) /\ AbsVal(a[2] - b[2]) = AbsVal(b[2] - a[2])
  BY <1>1 DEF AbsVal
<1> QED
  BY <1>2 DEF Adjacent, Distance

(* The estimate is a number of steps, or more. *)
LEMMA EstimateIsNumber ==
  ASSUME NEW t \in Tiles, NEW target \in Tiles, NEW cost \in Nat
  PROVE  h_cost(t, target, cost) \in Nat
<1>1. t[1] \in Int /\ t[2] \in Int /\ target[1] \in Int /\ target[2] \in Int
  BY GridAssumption DEF Tiles
<1>2. AbsVal(t[1] - target[1]) \in Nat /\ AbsVal(t[2] - target[2]) \in Nat
  BY <1>1 DEF AbsVal
<1> QED
  BY <1>2 DEF h_cost

(* There are as many tiles as the map has, and no more different ones are found. *)
LEMMA TilesCounted ==
  IsFiniteSet(Tiles) /\ Cardinality(Tiles) = MAP_WIDTH * MAP_HEIGHT
<1> DEFINE X == 0 .. MAP_WIDTH - 1
           Y == 0 .. MAP_HEIGHT - 1
<1>1. IsFiniteSet(X) /\ Cardinality(X) = MAP_WIDTH
  BY GridAssumption, FS_Interval
<1>2. IsFiniteSet(Y) /\ Cardinality(Y) = MAP_HEIGHT
  BY GridAssumption, FS_Interval
<1>3. Tiles = X \X Y
  BY DEF Tiles
<1> HIDE DEF X, Y
<1>4. IsFiniteSet(X \X Y) /\ Cardinality(X \X Y) = Cardinality(X) * Cardinality(Y)
  BY <1>1, <1>2, FS_Product
<1> QED
  BY <1>1, <1>2, <1>3, <1>4, Zenon

LEMMA DistinctTilesBounded ==
  ASSUME NEW n \in Nat, NEW f \in [1 .. n -> Tiles],
         \A i, j \in 1 .. n : f[i] = f[j] => i = j
  PROVE  n <= MAP_WIDTH * MAP_HEIGHT
<1>1. f \in Injection(1 .. n, Tiles)
  BY DEF Injection, IsInjective
<1>2. Cardinality(1 .. n) <= Cardinality(Tiles)
  BY <1>1, TilesCounted, FS_Injection
<1>3. Cardinality(1 .. n) = n
  BY FS_Interval
<1> QED
  BY <1>2, <1>3, TilesCounted

-----------------------------------------------------------------------------
(* Lists *)

LEMMA Joined ==
  ASSUME NEW S, NEW s \in Seq(S), NEW t \in Seq(S)
  PROVE  /\ s \o t \in Seq(S) /\ Len(s \o t) = Len(s) + Len(t)
         /\ \A j \in 1 .. Len(s) + Len(t) :
              (s \o t)[j] = IF j <= Len(s) THEN s[j] ELSE t[j - Len(s)]
  OBVIOUS

(* What InsertAt makes of a sequence. *)
LEMMA Inserted ==
  ASSUME NEW S, NEW s \in Seq(S), NEW e \in S, NEW i \in 1 .. Len(s) + 1
  PROVE  /\ InsertAt(s, i, e) \in Seq(S)
         /\ Len(InsertAt(s, i, e)) = Len(s) + 1
         /\ InsertAt(s, i, e)[i] = e
         /\ \A j \in 1 .. i - 1 : InsertAt(s, i, e)[j] = s[j]
         /\ \A j \in i + 1 .. Len(s) + 1 : InsertAt(s, i, e)[j] = s[j - 1]
<1> DEFINE before == SubSeq(s, 1, i - 1)
           after  == SubSeq(s, i, Len(s))
<1>1. /\ before \in Seq(S) /\ Len(before) = i - 1
      /\ \A j \in 1 .. i - 1 : before[j] = s[j]
  OBVIOUS
<1>2. /\ after \in Seq(S) /\ Len(after) = Len(s) - i + 1
      /\ \A j \in 1 .. Len(s) - i + 1 : after[j] = s[i + j - 1]
  OBVIOUS
<1>3. InsertAt(s, i, e) = before \o <<e>> \o after
  BY DEF InsertAt
<1> HIDE DEF before, after
<1> DEFINE upto == before \o <<e>>
<1>4. /\ upto \in Seq(S) /\ Len(upto) = i /\ upto[i] = e
      /\ \A j \in 1 .. i - 1 : upto[j] = s[j]
  BY <1>1
<1> DEFINE all == upto \o after
<1>5. InsertAt(s, i, e) = all
  BY <1>3
<1> HIDE DEF upto
<1>6. /\ all \in Seq(S) /\ Len(all) = i + Len(after)
      /\ \A j \in 1 .. i + Len(after) : all[j] = IF j <= i THEN upto[j] ELSE after[j - i]
  BY <1>2, <1>4, Joined
<1>7. Len(all) = Len(s) + 1
  BY <1>2, <1>6
<1>8. \A j \in 1 .. i : all[j] = upto[j]
  BY <1>2, <1>6
<1>9. \A j \in i + 1 .. Len(s) + 1 : all[j] = s[j - 1]
  <2> TAKE j \in i + 1 .. Len(s) + 1
  <2>1. all[j] = after[j - i]
    BY <1>2, <1>6
  <2>2. j - i \in 1 .. Len(s) - i + 1 /\ i + (j - i) - 1 = j - 1
    OBVIOUS
  <2>3. after[j - i] = s[i + (j - i) - 1]
    BY <1>2, <2>2
  <2> QED
    BY <2>1, <2>2, <2>3
<1> HIDE DEF all
<1> QED
  BY <1>4, <1>5, <1>6, <1>7, <1>8, <1>9

LEMMA FrontIs ==
  ASSUME NEW S, NEW s \in Seq(S), NEW n \in Nat, Len(s) = n + 1
  PROVE  /\ SubSeq(s, 1, n) \in Seq(S) /\ Len(SubSeq(s, 1, n)) = n
         /\ \A i \in 1 .. n : SubSeq(s, 1, n)[i] = s[i]
  OBVIOUS

(* try_add's loop finds a place for every node: behind the last one that is not
   cheaper, and before those that are. *)
LEMMA PlaceFound ==
  ASSUME NEW q, Len(q) \in Nat, \A j \in 1 .. Len(q) : q[j].h \in Nat, NEW n, n.h \in Nat
  PROVE  /\ Place(q, n) \in 1 .. Len(q) + 1
         /\ \A j \in Place(q, n) .. Len(q) : q[j].h < n.h
         /\ Place(q, n) > 1 => q[Place(q, n) - 1].h >= n.h
<1> DEFINE Cheaper == {i \in 1 .. Len(q) + 1 : \A j \in i .. Len(q) : q[j].h < n.h}
           Fitting(i) == /\ \A j \in i .. Len(q) : q[j].h < n.h
                         /\ i > 1 => q[i - 1].h >= n.h
<1>1. Len(q) + 1 \in Cheaper /\ Cheaper \subseteq Nat
  OBVIOUS
<1> HIDE DEF Cheaper
<1>2. PICK i \in Cheaper : \A k \in Cheaper : i <= k
  BY <1>1, LeastNumber
<1> USE DEF Cheaper
<1>3. i \in 1 .. Len(q) + 1 /\ \A j \in i .. Len(q) : q[j].h < n.h
  BY <1>2
<1>4. ASSUME i > 1
      PROVE  q[i - 1].h >= n.h
  <2>1. i - 1 \in 1 .. Len(q) /\ i - 1 \notin Cheaper
    BY <1>2, <1>3, <1>4
  <2>2. PICK j \in i - 1 .. Len(q) : ~(q[j].h < n.h)
    BY <2>1
  <2>3. j = i - 1
    BY <1>3, <2>1, <2>2
  <2> QED
    BY <2>1, <2>2, <2>3
<1>5. Fitting(i)
  BY <1>3, <1>4
<1>6. Place(q, n) = CHOOSE k \in 1 .. Len(q) + 1 : Fitting(k)
  BY DEF Place
<1> HIDE DEF Fitting
<1>7. Place(q, n) \in 1 .. Len(q) + 1 /\ Fitting(Place(q, n))
  BY <1>3, <1>5, <1>6
<1> QED
  BY <1>7 DEF Fitting

-----------------------------------------------------------------------------
(* The invariant *)

OpenNodes == [pos : Open, c : Nat \ {0}, h : Nat, prev : Nat \ {0}]

SearchTypes ==
  /\ from \in Open /\ to \in Open
  /\ queue \in Seq(OpenNodes) /\ visited \in Seq(OpenNodes)
  /\ tries \in Seq(Straight)
  /\ tries # <<>> => visited # <<>>

Descending == \A i, j \in 1 .. Len(queue) : i < j => queue[i].h >= queue[j].h

(* No tile is in the lists twice. *)
Once ==
  /\ \A i, j \in 1 .. Len(visited) : visited[i].pos = visited[j].pos => i = j
  /\ \A i, j \in 1 .. Len(queue) : queue[i].pos = queue[j].pos => i = j
  /\ \A i \in 1 .. Len(visited), j \in 1 .. Len(queue) : visited[i].pos # queue[j].pos

(* A node found from one of the first k nodes visited lies next to it. *)
FoundFrom(n, k) == n.prev \in 1 .. k /\ Adjacent(visited[n.prev].pos, n.pos)

(* The start is visited first; every other node was found from one visited before. *)
Linked ==
  IF visited = <<>>
  THEN Len(queue) = 1 /\ queue[1].pos = from /\ queue[1].prev = 1
  ELSE /\ visited[1].pos = from /\ visited[1].prev = 1
       /\ \A i \in 2 .. Len(visited) : FoundFrom(visited[i], i - 1)
       /\ \A j \in 1 .. Len(queue) : FoundFrom(queue[j], Len(visited))

(* Whatever is next to a visited tile and can be entered is in one of the lists,
   or try_add is still to be called for it, or the search is over. *)
Tried ==
  \A i \in 1 .. Len(visited), d \in Straight :
    Plus(visited[i].pos, d) \in Open =>
      \/ Known(visited, Plus(visited[i].pos, d)) \/ Known(queue, Plus(visited[i].pos, d))
      \/ i = Len(visited) /\ \E k \in 1 .. Len(tries) : tries[k] = d
      \/ visited[i].pos = to

(* The target is visited last, and then the path is stored. *)
EndsAtTarget ==
  /\ \A i \in 1 .. Len(visited) - 1 : visited[i].pos # to
  /\ Found => tries = <<>>
  /\ path = IF Found THEN Trace(visited, from) ELSE NoPath

SearchInv == SearchTypes /\ Descending /\ Once /\ Linked /\ Tried /\ EndsAtTarget

LEMMA SearchInit == Init => SearchInv
<1> SUFFICES ASSUME Init PROVE SearchInv
  OBVIOUS
<1>1. from \in Open /\ to \in Open /\ from \in Tiles /\ to \in Tiles /\ from \notin solid
  BY DEF Init, Open
<1> DEFINE n == Node(from, to, CostOf(solid, from), 1)
<1>2. n = [pos |-> from, c |-> 1, h |-> h_cost(from, to, 1), prev |-> 1]
  BY <1>1 DEF CostOf, Node
<1>3. n \in OpenNodes /\ n.pos = from /\ n.prev = 1
  BY <1>1, <1>2, EstimateIsNumber DEF OpenNodes
<1>4. queue = <<n>> /\ visited = <<>> /\ tries = <<>> /\ path = NoPath
  BY DEF Init, Started
<1> HIDE DEF n
<1>5. queue \in Seq(OpenNodes) /\ Len(queue) = 1 /\ queue[1] = n /\ Len(visited) = 0
  BY <1>3, <1>4
<1>6. SearchTypes
  BY <1>1, <1>4, <1>5 DEF SearchTypes
<1>7. Descending /\ Once /\ Linked /\ Tried
  BY <1>3, <1>4, <1>5 DEF Descending, Once, Linked, Tried
<1>8. EndsAtTarget
  BY <1>4, <1>5 DEF EndsAtTarget, Found, Reached
<1> QED
  BY <1>6, <1>7, <1>8 DEF SearchInv

-----------------------------------------------------------------------------
(* A node is visited *)

LEMMA Visiting ==
  ASSUME SearchInv, Visit
  PROVE  /\ Len(queue) \in Nat \ {0} /\ Len(visited) \in Nat
         /\ queue[Len(queue)] \in OpenNodes
         /\ queue' \in Seq(OpenNodes) /\ Len(queue') = Len(queue) - 1
         /\ \A i \in 1 .. Len(queue) - 1 : queue'[i] = queue[i]
         /\ visited' \in Seq(OpenNodes) /\ Len(visited') = Len(visited) + 1
         /\ \A i \in 1 .. Len(visited) : visited'[i] = visited[i]
         /\ visited'[Len(visited) + 1] = queue[Len(queue)]
         /\ UNCHANGED args /\ tries = <<>> /\ ~Found
<1>1. /\ tries = <<>> /\ ~Found /\ queue # <<>> /\ UNCHANGED args
      /\ queue' = Front(queue) /\ visited' = Append(visited, Last(queue))
  BY DEF Visit, Ended
<1>2. queue \in Seq(OpenNodes) /\ visited \in Seq(OpenNodes)
  BY DEF SearchInv, SearchTypes
<1>3. Len(queue) \in Nat \ {0} /\ Len(visited) \in Nat
  BY <1>1, <1>2
<1>4. Last(queue) = queue[Len(queue)] /\ queue[Len(queue)] \in OpenNodes
  BY <1>2, <1>3 DEF Last
<1>5. queue' = SubSeq(queue, 1, Len(queue) - 1)
  BY <1>1 DEF Front
<1>6. /\ queue' \in Seq(OpenNodes) /\ Len(queue') = Len(queue) - 1
      /\ \A i \in 1 .. Len(queue) - 1 : queue'[i] = queue[i]
  <2> DEFINE k == Len(queue) - 1
  <2>1. k \in Nat /\ Len(queue) = k + 1
    BY <1>3
  <2>2. queue' = SubSeq(queue, 1, k)
    BY <1>5
  <2> HIDE DEF k
  <2>3. queue' \in Seq(OpenNodes) /\ Len(queue') = k /\ \A i \in 1 .. k : queue'[i] = queue[i]
    BY <1>2, <2>1, <2>2, FrontIs
  <2> QED
    BY <2>3 DEF k
<1>7. /\ visited' \in Seq(OpenNodes) /\ Len(visited') = Len(visited) + 1
      /\ \A i \in 1 .. Len(visited) : visited'[i] = visited[i]
      /\ visited'[Len(visited) + 1] = queue[Len(queue)]
  BY <1>1, <1>2, <1>4
<1> QED
  BY <1>1, <1>3, <1>4, <1>6, <1>7

LEMMA VisitKeepsInv ==
  ASSUME SearchInv, Visit
  PROVE  SearchInv'
<1> DEFINE q == Len(queue)
           v == Len(visited)
           n == queue[Len(queue)]
<1>1. /\ q \in Nat \ {0} /\ v \in Nat /\ n \in OpenNodes
      /\ queue' \in Seq(OpenNodes) /\ Len(queue') = q - 1
      /\ \A i \in 1 .. q - 1 : queue'[i] = queue[i]
      /\ visited' \in Seq(OpenNodes) /\ Len(visited') = v + 1
      /\ \A i \in 1 .. v : visited'[i] = visited[i]
      /\ visited'[v + 1] = n
      /\ UNCHANGED args /\ tries = <<>> /\ ~Found
  BY Visiting
<1>2. solid' = solid /\ from' = from /\ to' = to /\ Open' = Open /\ OpenNodes' = OpenNodes
  BY <1>1 DEF args, Open, OpenNodes
<1>3. visited' # <<>> /\ Last(visited') = n
  BY <1>1 DEF Last
<1>4. Found' <=> n.pos = to
  BY <1>2, <1>3 DEF Found, Reached
<1>5. IF n.pos = to THEN tries' = <<>> /\ path' = Trace(visited', from)
      ELSE tries' = Directions /\ UNCHANGED path
  BY DEF Visit, Last
<1>6. Directions \in Seq(Straight)
  BY DEF Directions, Straight
<1>7. SearchTypes'
  BY <1>1, <1>2, <1>3, <1>5, <1>6 DEF SearchInv, SearchTypes
<1>8. Descending'
  BY SMTT(30), <1>1 DEF SearchInv, Descending
<1>9. Once'
  <2>1. /\ \A i, j \in 1 .. v : visited[i].pos = visited[j].pos => i = j
        /\ \A i, j \in 1 .. q : queue[i].pos = queue[j].pos => i = j
        /\ \A i \in 1 .. v, j \in 1 .. q : visited[i].pos # queue[j].pos
    BY DEF SearchInv, Once
  <2>2. \A i, j \in 1 .. v + 1 : visited'[i].pos = visited'[j].pos => i = j
    <3>1. \A i \in 1 .. v : visited'[i].pos # visited'[v + 1].pos
      BY <1>1, <2>1
    <3>2. \A i \in 1 .. v + 1 : i = v + 1 \/ i \in 1 .. v
      BY <1>1
    <3> QED
      BY <1>1, <2>1, <3>1, <3>2
  <2>3. \A i, j \in 1 .. q - 1 : queue'[i].pos = queue'[j].pos => i = j
    BY <1>1, <2>1
  <2>4. \A i \in 1 .. v + 1, j \in 1 .. q - 1 : visited'[i].pos # queue'[j].pos
    BY <1>1, <2>1
  <2> QED
    BY <1>1, <2>2, <2>3, <2>4 DEF Once
<1>10. Linked'
  <2>1. CASE visited = <<>>
    <3>1. q = 1 /\ v = 0 /\ n.pos = from /\ n.prev = 1
      BY <2>1 DEF SearchInv, Linked
    <3> QED
      BY <1>1, <1>2, <1>3, <3>1 DEF Linked
  <2>2. CASE visited # <<>>
    <3>1. /\ v >= 1 /\ visited[1].pos = from /\ visited[1].prev = 1
          /\ \A i \in 2 .. v : FoundFrom(visited[i], i - 1)
          /\ \A j \in 1 .. q : FoundFrom(queue[j], v)
      BY <1>1, <2>2 DEF SearchInv, SearchTypes, Linked
    <3>2. ASSUME NEW m, NEW k \in 0 .. v, FoundFrom(m, k)
          PROVE  m.prev \in 1 .. k /\ Adjacent(visited'[m.prev].pos, m.pos)
      BY SMTT(30), <1>1, <3>2 DEF FoundFrom
    <3>3. ASSUME NEW i \in 2 .. v
          PROVE  /\ visited'[i].prev \in 1 .. i - 1
                 /\ Adjacent(visited'[visited'[i].prev].pos, visited'[i].pos)
      <4>1. i - 1 \in 0 .. v /\ visited'[i] = visited[i] /\ FoundFrom(visited[i], i - 1)
        BY <1>1, <3>1, <3>3
      <4> QED
        BY <3>2, <4>1
    <3>4. n.prev \in 1 .. v /\ Adjacent(visited'[n.prev].pos, n.pos)
      BY <1>1, <3>1, <3>2
    <3>5. ASSUME NEW j \in 1 .. q - 1
          PROVE  /\ queue'[j].prev \in 1 .. v + 1
                 /\ Adjacent(visited'[queue'[j].prev].pos, queue'[j].pos)
      <4>1. queue'[j] = queue[j] /\ FoundFrom(queue[j], v) /\ v \in 0 .. v
        BY <1>1, <3>1, <3>5
      <4>2. queue[j].prev \in 1 .. v /\ Adjacent(visited'[queue[j].prev].pos, queue[j].pos)
        BY <3>2, <4>1
      <4> QED
        BY <1>1, <4>1, <4>2
    <3>6. visited'[v + 1].prev \in 1 .. v + 1 - 1
      BY <1>1, <3>4
    <3> QED
      BY <1>1, <1>2, <1>3, <3>1, <3>3, <3>4, <3>5, <3>6 DEF Linked, FoundFrom
  <2> QED
    BY <2>1, <2>2
<1>11. Tried'
  <2> SUFFICES ASSUME NEW i \in 1 .. v + 1, NEW d \in Straight,
                      Plus(visited'[i].pos, d) \in Open, visited'[i].pos # to
               PROVE  \/ Known(visited', Plus(visited'[i].pos, d))
                      \/ Known(queue', Plus(visited'[i].pos, d))
                      \/ i = v + 1 /\ \E k \in 1 .. Len(tries') : tries'[k] = d
    BY <1>1, <1>2 DEF Tried
  <2>1. CASE i = v + 1
    <3>1. tries' = Directions
      BY <1>1, <1>5, <2>1
    <3>2. \E k \in 1 .. 4 : Directions[k] = d
      BY DEF Directions, Straight
    <3> QED
      BY <2>1, <3>1, <3>2 DEF Directions
  <2>2. CASE i \in 1 .. v
    <3> DEFINE t == Plus(visited[i].pos, d)
    <3>1. visited'[i] = visited[i] /\ t \in Open /\ visited[i].pos # to
      BY <1>1, <2>2
    <3>2. Known(visited, t) \/ Known(queue, t)
      BY <1>1, <2>2, <3>1 DEF SearchInv, Tried
    <3> HIDE DEF t
    <3>3. Known(visited, t) => Known(visited', t)
      BY <1>1 DEF Known
    <3>4. ASSUME Known(queue, t)
          PROVE  Known(queue', t) \/ Known(visited', t)
      <4>1. PICK j \in 1 .. q : queue[j].pos = t
        BY <3>4 DEF Known
      <4>2. CASE j = q
        BY <1>1, <4>1, <4>2 DEF Known
      <4>3. CASE j # q
        BY <1>1, <4>1, <4>3 DEF Known
      <4> QED
        BY <4>2, <4>3
    <3> QED
      BY <3>1, <3>2, <3>3, <3>4 DEF t
  <2> QED
    BY <1>1, <2>1, <2>2
<1>12. EndsAtTarget'
  <2>1. ASSUME NEW i \in 1 .. v
        PROVE  visited'[i].pos # to
    <3>1. CASE i = v
      <4>1. Last(visited) = visited[v] /\ visited # <<>>
        BY <1>1, <3>1 DEF Last
      <4> QED
        BY <1>1, <3>1, <4>1 DEF Found, Reached
    <3>2. CASE i # v
      BY <1>1, <3>2 DEF SearchInv, EndsAtTarget
    <3> QED
      BY <3>1, <3>2
  <2>2. path = NoPath
    BY <1>1 DEF SearchInv, EndsAtTarget
  <2> QED
    BY <1>1, <1>2, <1>4, <1>5, <2>1, <2>2 DEF EndsAtTarget
<1> QED
  BY <1>7, <1>8, <1>9, <1>10, <1>11, <1>12 DEF SearchInv

-----------------------------------------------------------------------------
(* try_add is called *)

(* A call of try_add leaves the queue alone, the tile being in a list already or
   impossible to enter; or it puts the tile's node in its place. *)
LEMMA Trying ==
  ASSUME SearchInv, Try
  PROVE  LET v == Len(visited)
             t == Plus(visited[v].pos, Head(tries))
         IN  /\ v \in Nat \ {0} /\ visited[v] \in OpenNodes /\ Head(tries) \in Straight
             /\ UNCHANGED <<args, visited, path>> /\ tries' = Tail(tries) /\ tries # <<>>
             /\ \/ /\ queue' = queue
                   /\ t \in Open => Known(visited, t) \/ Known(queue, t)
                \/ /\ t \in Open /\ ~Known(visited, t) /\ ~Known(queue, t)
                   /\ \E n \in OpenNodes : /\ n.pos = t /\ n.prev = v
                                           /\ queue' = InsertAt(queue, Place(queue, n), n)
<1> DEFINE v == Len(visited)
           t == Plus(visited[v].pos, Head(tries))
<1>1. /\ tries # <<>> /\ tries' = Tail(tries) /\ UNCHANGED <<args, visited, path>>
      /\ queue' = TryAdd(solid, to, visited, queue, Head(tries))
  BY DEF Try
<1>2. /\ visited \in Seq(OpenNodes) /\ visited # <<>> /\ tries \in Seq(Straight)
      /\ to \in Tiles
  BY <1>1 DEF SearchInv, SearchTypes, Open
<1>3. v \in Nat \ {0} /\ visited[v] \in OpenNodes /\ Head(tries) \in Straight
  BY <1>1, <1>2
<1> DEFINE cost == visited[v].c + CostOf(solid, t)
           n == Node(t, to, cost, v)
<1>4. queue' = IF CostOf(solid, t) # PATHFIND_BLOCK /\ Addable(visited, queue, t)
               THEN InsertAt(queue, Place(queue, n), n) ELSE queue
  BY <1>1 DEF TryAdd
<1>5. t \in Open <=> CostOf(solid, t) # PATHFIND_BLOCK
  BY DEF CostOf, PATHFIND_BLOCK, Open
<1>6. n = [pos |-> t, c |-> cost, h |-> h_cost(t, to, cost), prev |-> v]
  BY DEF Node
<1>7. ASSUME t \in Open
      PROVE  n \in OpenNodes
  <2>1. CostOf(solid, t) = 1
    BY <1>7 DEF CostOf, Open
  <2>2. visited[v].c \in Nat \ {0}
    BY <1>3 DEF OpenNodes
  <2>3. cost \in Nat \ {0} /\ t \in Tiles
    BY <1>7, <2>1, <2>2 DEF Open
  <2> HIDE DEF cost, t
  <2>4. h_cost(t, to, cost) \in Nat
    BY <1>2, <2>3, EstimateIsNumber
  <2> QED
    BY <1>3, <1>6, <1>7, <2>3, <2>4 DEF OpenNodes
<1>8. n.pos = t /\ n.prev = v
  BY <1>6
<1> HIDE DEF n, v, t, cost
<1>9. \/ /\ queue' = queue
         /\ t \in Open => Known(visited, t) \/ Known(queue, t)
      \/ /\ t \in Open /\ ~Known(visited, t) /\ ~Known(queue, t)
         /\ n \in OpenNodes /\ queue' = InsertAt(queue, Place(queue, n), n)
  BY <1>4, <1>5, <1>7 DEF Addable
<1>10. \/ /\ queue' = queue
          /\ t \in Open => Known(visited, t) \/ Known(queue, t)
       \/ /\ t \in Open /\ ~Known(visited, t) /\ ~Known(queue, t)
          /\ \E m \in OpenNodes : /\ m.pos = t /\ m.prev = v
                                  /\ queue' = InsertAt(queue, Place(queue, m), m)
  BY <1>8, <1>9
<1> QED
  BY <1>1, <1>3, <1>10 DEF v, t

(* What a node does to the queue it is put into: it keeps the order, and no other
   node leaves or enters. *)
LEMMA Queued ==
  ASSUME SearchInv, NEW n \in OpenNodes, queue' = InsertAt(queue, Place(queue, n), n),
         ~Known(queue, n.pos)
  PROVE  /\ queue' \in Seq(OpenNodes)
         /\ Descending'
         /\ \A i, j \in 1 .. Len(queue') : queue'[i].pos = queue'[j].pos => i = j
         /\ \A i \in 1 .. Len(queue') :
               queue'[i] = n \/ \E j \in 1 .. Len(queue) : queue'[i] = queue[j]
         /\ \A j \in 1 .. Len(queue) : \E i \in 1 .. Len(queue') : queue'[i] = queue[j]
         /\ \E i \in 1 .. Len(queue') : queue'[i] = n
<1> DEFINE p == Place(queue, n)
           q == Len(queue)
<1>1. queue \in Seq(OpenNodes) /\ q \in Nat
  BY DEF SearchInv, SearchTypes
<1>2. n.h \in Nat /\ \A j \in 1 .. q : queue[j].h \in Nat
  <2>1. \A m \in OpenNodes : m.h \in Nat
    BY DEF OpenNodes
  <2>2. \A j \in 1 .. q : queue[j] \in OpenNodes
    BY <1>1
  <2> QED
    BY <2>1, <2>2
<1>3. /\ p \in 1 .. q + 1
      /\ \A j \in p .. q : queue[j].h < n.h
      /\ p > 1 => queue[p - 1].h >= n.h
  BY <1>1, <1>2, PlaceFound
<1>0. queue' = InsertAt(queue, p, n)
  OBVIOUS
<1> HIDE DEF p
<1>4. /\ queue' \in Seq(OpenNodes) /\ Len(queue') = q + 1
      /\ queue'[p] = n
      /\ \A j \in 1 .. p - 1 : queue'[j] = queue[j]
      /\ \A j \in p + 1 .. q + 1 : queue'[j] = queue[j - 1]
  <2>1. p \in 1 .. Len(queue) + 1
    BY <1>3
  <2>2. /\ InsertAt(queue, p, n) \in Seq(OpenNodes)
        /\ Len(InsertAt(queue, p, n)) = Len(queue) + 1
        /\ InsertAt(queue, p, n)[p] = n
        /\ \A j \in 1 .. p - 1 : InsertAt(queue, p, n)[j] = queue[j]
        /\ \A j \in p + 1 .. Len(queue) + 1 : InsertAt(queue, p, n)[j] = queue[j - 1]
    BY <1>1, <2>1, Inserted
  <2> QED
    BY <1>0, <2>2
<1> DEFINE old(i) == IF i < p THEN i ELSE i - 1
<1>5. \A i \in 1 .. q + 1 : i # p => old(i) \in 1 .. q /\ queue'[i] = queue[old(i)]
  <2> TAKE i \in 1 .. q + 1
  <2> HAVE i # p
  <2>1. CASE i < p
    BY <1>1, <1>3, <1>4, <2>1
  <2>2. CASE i > p
    <3>1. i \in p + 1 .. q + 1 /\ i - 1 \in 1 .. q
      BY <1>1, <1>3, <2>2
    <3> QED
      BY <1>3, <1>4, <2>2, <3>1
  <2> QED
    BY <1>3, <2>1, <2>2
<1>6. \A i, j \in 1 .. q : i < j => queue[i].h >= queue[j].h
  BY DEF SearchInv, Descending
<1>7. \A i \in 1 .. p - 1 : queue[i].h >= n.h
  <2> TAKE i \in 1 .. p - 1
  <2>1. p - 1 \in 1 .. q /\ i \in 1 .. q /\ p > 1 /\ i <= p - 1
    BY <1>1, <1>3
  <2>2. queue[p - 1].h \in Nat /\ queue[i].h \in Nat /\ queue[p - 1].h >= n.h
    BY <1>2, <1>3, <2>1
  <2>3. i = p - 1 \/ queue[i].h >= queue[p - 1].h
    BY <1>6, <2>1
  <2> QED
    BY <1>2, <2>2, <2>3
<1>8. Descending'
  <2> SUFFICES ASSUME NEW i \in 1 .. q + 1, NEW j \in 1 .. q + 1, i < j
               PROVE  queue'[i].h >= queue'[j].h
    BY <1>4 DEF Descending
  <2>1. CASE i = p
    <3>1. j \in p + 1 .. q + 1 /\ j - 1 \in p .. q /\ j - 1 \in 1 .. q
      BY <1>1, <1>3, <2>1
    <3>2. queue'[j] = queue[j - 1] /\ queue[j - 1].h < n.h /\ queue[j - 1].h \in Nat
      BY <1>2, <1>3, <1>4, <3>1
    <3> QED
      BY <1>2, <1>4, <2>1, <3>2
  <2>2. CASE j = p
    <3>1. i \in 1 .. p - 1
      BY <1>1, <1>3, <2>2
    <3> QED
      BY <1>4, <1>7, <2>2, <3>1
  <2>3. CASE i # p /\ j # p
    <3>1. /\ old(i) \in 1 .. q /\ queue'[i] = queue[old(i)]
          /\ old(j) \in 1 .. q /\ queue'[j] = queue[old(j)]
      BY <1>5, <2>3
    <3>2. old(i) < old(j)
      BY <1>1, <1>3, <2>3
    <3> QED
      BY <1>6, <3>1, <3>2
  <2> QED
    BY <2>1, <2>2, <2>3
<1>9. \A i \in 1 .. q : queue[i].pos # n.pos
  BY DEF Known
<1>10. ASSUME NEW i \in 1 .. q + 1, NEW j \in 1 .. q + 1, queue'[i].pos = queue'[j].pos
       PROVE  i = j
  <2>1. CASE i = p \/ j = p
    BY <1>4, <1>5, <1>9, <1>10, <2>1
  <2>2. CASE i # p /\ j # p
    <3>1. /\ old(i) \in 1 .. q /\ queue'[i] = queue[old(i)]
          /\ old(j) \in 1 .. q /\ queue'[j] = queue[old(j)]
      BY <1>5, <2>2
    <3>2. old(i) = old(j)
      BY <1>10, <3>1 DEF SearchInv, Once
    <3> QED
      BY <1>1, <1>3, <2>2, <3>2
  <2> QED
    BY <2>1, <2>2
<1>11. \A i \in 1 .. q + 1 : queue'[i] = n \/ \E j \in 1 .. q : queue'[i] = queue[j]
  BY <1>4, <1>5
<1>12. ASSUME NEW j \in 1 .. q
       PROVE  \E i \in 1 .. q + 1 : queue'[i] = queue[j]
  <2>1. CASE j < p
    <3>1. j \in 1 .. p - 1 /\ j \in 1 .. q + 1
      BY <1>1, <1>3, <2>1
    <3> QED
      BY <1>4, <3>1
  <2>2. CASE ~(j < p)
    <3>1. j + 1 \in p + 1 .. q + 1 /\ j + 1 \in 1 .. q + 1 /\ (j + 1) - 1 = j
      BY <1>1, <1>3, <2>2
    <3>2. queue'[j + 1] = queue[j]
      BY <1>4, <3>1
    <3> QED
      BY <3>1, <3>2
  <2> QED
    BY <2>1, <2>2
<1> QED
  BY <1>3, <1>4, <1>8, <1>10, <1>11, <1>12

LEMMA TryKeepsInv ==
  ASSUME SearchInv, Try
  PROVE  SearchInv'
<1> DEFINE v == Len(visited)
           t == Plus(visited[v].pos, Head(tries))
<1>1. /\ v \in Nat \ {0} /\ visited[v] \in OpenNodes /\ Head(tries) \in Straight
      /\ UNCHANGED <<args, visited, path>> /\ tries' = Tail(tries) /\ tries # <<>>
      /\ \/ /\ queue' = queue
            /\ t \in Open => Known(visited, t) \/ Known(queue, t)
         \/ /\ t \in Open /\ ~Known(visited, t) /\ ~Known(queue, t)
            /\ \E n \in OpenNodes : /\ n.pos = t /\ n.prev = v
                                    /\ queue' = InsertAt(queue, Place(queue, n), n)
  BY Trying
<1>2. /\ solid' = solid /\ from' = from /\ to' = to /\ Open' = Open /\ OpenNodes' = OpenNodes
      /\ visited' = visited /\ path' = path
  BY <1>1 DEF args, Open, OpenNodes
<1>3. visited \in Seq(OpenNodes) /\ visited # <<>> /\ tries \in Seq(Straight)
  BY <1>1 DEF SearchInv, SearchTypes
<1> HIDE DEF t
(* In both cases no node leaves the queue, and t is in a list if it can be. *)
<1>4. /\ queue' \in Seq(OpenNodes) /\ Descending'
      /\ \A i, j \in 1 .. Len(queue') : queue'[i].pos = queue'[j].pos => i = j
      /\ \A j \in 1 .. Len(queue') :
           \/ \E k \in 1 .. Len(queue) : queue'[j] = queue[k]
           \/ queue'[j].pos = t /\ queue'[j].prev = v /\ ~Known(visited, t)
      /\ \A j \in 1 .. Len(queue) : \E i \in 1 .. Len(queue') : queue'[i] = queue[j]
      /\ t \in Open => Known(visited, t) \/ Known(queue', t)
  <2>1. CASE queue' = queue /\ (t \in Open => Known(visited, t) \/ Known(queue, t))
    BY <2>1 DEF SearchInv, SearchTypes, Descending, Once
  <2>2. CASE ~(queue' = queue /\ (t \in Open => Known(visited, t) \/ Known(queue, t)))
    <3>1. ~Known(visited, t) /\ ~Known(queue, t)
      BY <1>1, <2>2
    <3>2. PICK n \in OpenNodes : /\ n.pos = t /\ n.prev = v
                                 /\ queue' = InsertAt(queue, Place(queue, n), n)
      BY <1>1, <2>2
    <3>3. /\ queue' \in Seq(OpenNodes)
          /\ Descending'
          /\ \A i, j \in 1 .. Len(queue') : queue'[i].pos = queue'[j].pos => i = j
          /\ \A i \in 1 .. Len(queue') :
               queue'[i] = n \/ \E j \in 1 .. Len(queue) : queue'[i] = queue[j]
          /\ \A j \in 1 .. Len(queue) : \E i \in 1 .. Len(queue') : queue'[i] = queue[j]
          /\ \E i \in 1 .. Len(queue') : queue'[i] = n
      BY <3>1, <3>2, Queued
    <3>4. Known(queue', t)
      BY <3>2, <3>3 DEF Known
    <3> QED
      BY <3>1, <3>2, <3>3, <3>4
  <2> QED
    BY <2>1, <2>2
<1>5. SearchTypes'
  <2>1. tries' \in Seq(Straight)
    BY <1>1, <1>3
  <2> QED
    BY <1>2, <1>3, <1>4, <2>1 DEF SearchInv, SearchTypes
<1>6. Once'
  <2>1. ASSUME NEW i \in 1 .. v, NEW j \in 1 .. Len(queue')
        PROVE  visited[i].pos # queue'[j].pos
    <3>1. CASE \E k \in 1 .. Len(queue) : queue'[j] = queue[k]
      BY <3>1 DEF SearchInv, Once
    <3>2. CASE queue'[j].pos = t /\ ~Known(visited, t)
      BY <3>2 DEF Known
    <3> QED
      BY <1>4, <3>1, <3>2
  <2>2. \A i, j \in 1 .. v : visited[i].pos = visited[j].pos => i = j
    BY DEF SearchInv, Once
  <2> QED
    BY <1>2, <1>4, <2>1, <2>2 DEF Once
<1>7. Linked'
  <2>1. Adjacent(visited[v].pos, t)
    <3>1. visited[v].pos \in Tiles
      BY <1>1 DEF OpenNodes, Open
    <3> QED
      BY <1>1, <3>1, StepsAreAdjacent DEF t
  <2>2. ASSUME NEW j \in 1 .. Len(queue')
        PROVE  queue'[j].prev \in 1 .. v /\ Adjacent(visited[queue'[j].prev].pos, queue'[j].pos)
    <3>1. CASE \E k \in 1 .. Len(queue) : queue'[j] = queue[k]
      BY <1>3, <3>1 DEF SearchInv, Linked, FoundFrom
    <3>2. CASE queue'[j].pos = t /\ queue'[j].prev = v
      BY <1>1, <2>1, <3>2
    <3> QED
      BY <1>4, <3>1, <3>2
  <2>3. /\ visited[1].pos = from /\ visited[1].prev = 1
        /\ \A i \in 2 .. v : FoundFrom(visited[i], i - 1)
    BY <1>3 DEF SearchInv, Linked
  <2> QED
    BY <1>2, <1>3, <2>2, <2>3 DEF Linked, FoundFrom
<1>8. Tried'
  <2> SUFFICES ASSUME NEW i \in 1 .. v, NEW d \in Straight,
                      Plus(visited[i].pos, d) \in Open, visited[i].pos # to
               PROVE  \/ Known(visited, Plus(visited[i].pos, d))
                      \/ Known(queue', Plus(visited[i].pos, d))
                      \/ i = v /\ \E k \in 1 .. Len(tries') : tries'[k] = d
    BY <1>2 DEF Tried
  <2> DEFINE u == Plus(visited[i].pos, d)
  <2>1. \/ Known(visited, u) \/ Known(queue, u)
        \/ i = v /\ \E k \in 1 .. Len(tries) : tries[k] = d
    BY DEF SearchInv, Tried
  <2>2. Known(queue, u) => Known(queue', u)
    BY <1>4 DEF Known
  <2>3. ASSUME i = v, NEW k \in 1 .. Len(tries), tries[k] = d
        PROVE  \/ Known(visited, u) \/ Known(queue', u)
               \/ \E l \in 1 .. Len(tries') : tries'[l] = d
    <3>1. CASE k = 1
      <4>1. t = u
        BY <1>3, <2>3, <3>1 DEF t
      <4> QED
        BY <1>4, <4>1
    <3>2. CASE k # 1
      <4>1. k - 1 \in 1 .. Len(tries') /\ tries'[k - 1] = tries[k]
        BY <1>1, <1>3, <2>3, <3>2
      <4> QED
        BY <2>3, <4>1
    <3> QED
      BY <3>1, <3>2
  <2> QED
    BY <2>1, <2>2, <2>3
<1>9. EndsAtTarget'
  <2>1. Found' <=> Found
    BY <1>2 DEF Found
  <2>2. ~Found
    BY <1>1 DEF SearchInv, EndsAtTarget
  <2> QED
    BY <1>2, <2>1, <2>2 DEF SearchInv, EndsAtTarget
<1> QED
  BY <1>4, <1>5, <1>6, <1>7, <1>8, <1>9 DEF SearchInv

LEMMA SearchInvHolds == Spec => []SearchInv
<1>1. SearchInv /\ [Next]_vars => SearchInv'
  <2> SUFFICES ASSUME SearchInv, [Next]_vars PROVE SearchInv'
    OBVIOUS
  <2>1. CASE UNCHANGED vars
    BY <2>1 DEF vars, args, SearchInv, SearchTypes, Open, OpenNodes, Descending, Once,
                Linked, FoundFrom, Tried, Known, EndsAtTarget, Found
  <2> QED
    BY <2>1, VisitKeepsInv, TryKeepsInv DEF Next
<1> QED
  BY <1>1, SearchInit, PTL DEF Spec

-----------------------------------------------------------------------------
(* The path *)

(* Trace's recursion goes to earlier nodes only, so that it computes something:
   the longest beginning of the list for which it did would be all of it. *)
LEMMA TraceUnfolds ==
  ASSUME NEW nodes, NEW start, Len(nodes) \in Nat,
         \A i \in 1 .. Len(nodes) : nodes[i].pos # start => nodes[i].prev \in 1 .. i - 1
  PROVE  \E f : /\ Trace(nodes, start) = f[Len(nodes)]
                /\ \A i \in 1 .. Len(nodes) :
                     f[i] = IF nodes[i].pos = start THEN <<>>
                            ELSE <<nodes[i].pos>> \o f[nodes[i].prev]
<1> DEFINE One(f, i) == IF nodes[i].pos = start THEN <<>>
                        ELSE <<nodes[i].pos>> \o f[nodes[i].prev]
           Traced(f, n) == f = [i \in 1 .. n |-> One(f, i)]
           Untraced == {n \in 0 .. Len(nodes) : \A f : ~Traced(f, n)}
<1>1. ASSUME NEW n \in 0 .. Len(nodes) - 1, NEW f, Traced(f, n)
      PROVE  \E g : Traced(g, n + 1)
  <2> DEFINE g == [i \in 1 .. n + 1 |-> IF i = n + 1 THEN One(f, n + 1) ELSE f[i]]
  <2>1. \A i \in 1 .. n + 1 : One(g, i) = One(f, i)
    <3> TAKE i \in 1 .. n + 1
    <3>1. CASE nodes[i].pos = start
      BY <3>1
    <3>2. CASE nodes[i].pos # start
      <4>1. i \in 1 .. Len(nodes) /\ nodes[i].prev \in 1 .. n + 1 /\ nodes[i].prev # n + 1
        BY <3>2
      <4>2. g[nodes[i].prev] = f[nodes[i].prev]
        BY <4>1
      <4> QED
        BY <4>2
    <3> QED
      BY <3>1, <3>2
  <2>2. \A i \in 1 .. n : f[i] = One(f, i)
    BY <1>1
  <2>3. ASSUME NEW i \in 1 .. n + 1
        PROVE  g[i] = One(g, i)
    <3>1. i = n + 1 \/ i \in 1 .. n
      OBVIOUS
    <3>2. n + 1 \notin 1 .. n
      OBVIOUS
    <3>3. g[i] = IF i = n + 1 THEN One(f, n + 1) ELSE f[i]
      OBVIOUS
    <3> HIDE DEF One, g
    <3> QED
      BY <2>1, <2>2, <3>1, <3>2, <3>3
  <2>4. g = [i \in 1 .. n + 1 |-> g[i]]
    OBVIOUS
  <2> HIDE DEF g, One
  <2>5. g = [i \in 1 .. n + 1 |-> One(g, i)]
    BY <2>3, <2>4
  <2> QED
    BY <2>5
<1>2. Traced(<<>>, 0)
  <2>1. 1 .. 0 = {}
    OBVIOUS
  <2>2. <<>> = [i \in 1 .. 0 |-> One(<<>>, i)]
    OBVIOUS
  <2> QED
    BY <2>2
<1> HIDE DEF Traced
<1>3. Untraced = {}
  <2> SUFFICES ASSUME Untraced # {} PROVE FALSE
    OBVIOUS
  <2>1. PICK n \in Untraced : \A m \in Untraced : n <= m
    <3>1. Untraced \subseteq Nat
      OBVIOUS
    <3> HIDE DEF Untraced
    <3> QED
      BY <3>1, LeastNumber
  <2>2. n \in 0 .. Len(nodes) /\ n # 0 /\ \A f : ~Traced(f, n)
    BY <1>2, <2>1
  <2>3. n - 1 \in 0 .. Len(nodes) - 1 /\ n - 1 \notin Untraced /\ (n - 1) + 1 = n
    BY SMTT(30), <2>1, <2>2
  <2>4. PICK f : Traced(f, n - 1)
    BY <2>2, <2>3
  <2> QED
    BY <1>1, <2>2, <2>3, <2>4
<1> DEFINE back == CHOOSE f : f = [i \in 1 .. Len(nodes) |->
                                     IF nodes[i].pos = start THEN <<>>
                                     ELSE <<nodes[i].pos>> \o f[nodes[i].prev]]
<1>4. Trace(nodes, start) = back[Len(nodes)]
  BY DEF Trace
<1>5. \E f : Traced(f, Len(nodes))
  BY <1>3
<1>6. back = [i \in 1 .. Len(nodes) |-> One(back, i)]
  BY <1>5, Zenon DEF Traced
<1> HIDE DEF back
<1>7. \A i \in 1 .. Len(nodes) : back[i] = One(back, i)
  BY <1>6
<1> QED
  BY <1>4, <1>7

(* What Trace finds from the i-th node visited: over tiles visited before it, and
   next to each other, to a tile beside the start. *)
WalkFrom(w, i) ==
  /\ w \in Seq(Open \ {from})
  /\ \A k \in 1 .. Len(w) : \E m \in 2 .. i : w[k] = visited[m].pos
  /\ IF i = 1 THEN w = <<>>
     ELSE /\ Len(w) # 0 /\ w[1] = visited[i].pos
          /\ Adjacent(from, w[Len(w)])
  /\ Coherent(w)
  /\ \A k, l \in 1 .. Len(w) : w[k] = w[l] => k = l

(* A tile in front of a walk. *)
LEMMA Prepended ==
  ASSUME NEW S, NEW w \in Seq(S), NEW t \in S
  PROVE  /\ <<t>> \o w \in Seq(S) /\ Len(<<t>> \o w) = Len(w) + 1
         /\ (<<t>> \o w)[1] = t
         /\ \A k \in 2 .. Len(w) + 1 : (<<t>> \o w)[k] = w[k - 1]
  OBVIOUS

LEMMA WalkExtended ==
  ASSUME SearchInv, NEW i \in 2 .. Len(visited), NEW w, WalkFrom(w, visited[i].prev)
  PROVE  WalkFrom(<<visited[i].pos>> \o w, i)
<1> DEFINE t == visited[i].pos
           p == visited[i].prev
           x == <<t>> \o w
<1>1. /\ visited \in Seq(OpenNodes) /\ i \in Nat /\ i \in 1 .. Len(visited) /\ 1 \in 1 .. Len(visited)
      /\ visited # <<>> /\ i # 1 /\ i - 1 \in Nat
  BY DEF SearchInv, SearchTypes
<1>2. visited[1].pos = from /\ p \in 1 .. i - 1 /\ Adjacent(visited[p].pos, t)
  BY <1>1 DEF SearchInv, Linked, FoundFrom
<1>3. /\ visited[i] \in OpenNodes /\ visited[p] \in OpenNodes /\ p \in 1 .. Len(visited)
      /\ p \in Nat /\ p < i
  BY <1>1, <1>2
<1>4. t \in Open /\ t \in Tiles /\ visited[p].pos \in Tiles
  BY <1>3 DEF OpenNodes, Open
<1>5. \A m \in 1 .. Len(visited) : visited[m].pos = t => m = i
  BY <1>1 DEF SearchInv, Once
<1>6. t \in Open \ {from}
  BY <1>1, <1>2, <1>4, <1>5
<1>7. /\ w \in Seq(Open \ {from}) /\ Len(w) \in Nat
      /\ \A k \in 1 .. Len(w) : \E m \in 2 .. p : w[k] = visited[m].pos
  BY DEF WalkFrom
<1> HIDE DEF t, p, x
<1>8. /\ x \in Seq(Open \ {from}) /\ Len(x) = Len(w) + 1 /\ x[1] = t
      /\ \A k \in 2 .. Len(w) + 1 : x[k] = w[k - 1]
  BY <1>6, <1>7, Prepended DEF x
<1>9. \A k \in 2 .. Len(w) + 1 : k - 1 \in 1 .. Len(w)
  BY <1>7
<1>10. ASSUME NEW k \in 2 .. Len(w) + 1
       PROVE  \E m \in 2 .. i - 1 : x[k] = visited[m].pos
  <2>1. PICK m \in 2 .. p : w[k - 1] = visited[m].pos
    BY <1>7, <1>9
  <2>2. m \in 2 .. i - 1
    BY <1>1, <1>2, <1>3, <2>1
  <2> QED
    BY <1>8, <2>1, <2>2
<1>11. \A k \in 1 .. Len(x) : k = 1 \/ k \in 2 .. Len(w) + 1
  BY <1>7, <1>8
<1>12. ASSUME NEW k \in 1 .. Len(x)
       PROVE  \E m \in 2 .. i : x[k] = visited[m].pos
  <2>1. CASE k = 1
    BY <1>8, <2>1 DEF t
  <2>2. CASE k \in 2 .. Len(w) + 1
    BY <1>1, <1>10, <2>2
  <2> QED
    BY <1>11, <2>1, <2>2
<1>13. \A k \in 2 .. Len(w) + 1 : x[k] # t
  <2> TAKE k \in 2 .. Len(w) + 1
  <2>1. PICK m \in 2 .. i - 1 : x[k] = visited[m].pos
    BY <1>10
  <2>2. m \in 1 .. Len(visited) /\ m # i
    BY <1>1, <2>1
  <2> QED
    BY <1>5, <2>1, <2>2
<1>14. ASSUME NEW k \in 1 .. Len(x), NEW l \in 1 .. Len(x), x[k] = x[l]
       PROVE  k = l
  <2>1. CASE k = 1 \/ l = 1
    BY <1>8, <1>11, <1>13, <1>14, <2>1
  <2>2. CASE k \in 2 .. Len(w) + 1 /\ l \in 2 .. Len(w) + 1
    <3>1. w[k - 1] = w[l - 1] /\ k - 1 \in 1 .. Len(w) /\ l - 1 \in 1 .. Len(w)
      BY <1>8, <1>9, <1>14, <2>2
    <3>2. k - 1 = l - 1
      BY <3>1 DEF WalkFrom
    <3> QED
      BY <1>7, <2>2, <3>2
  <2> QED
    BY <1>11, <2>1, <2>2
<1>15. CASE p = 1
  <2>1. w = <<>> /\ Len(w) = 0
    BY <1>15 DEF WalkFrom, p
  <2>2. Len(x) = 1 /\ Coherent(x) /\ Adjacent(from, x[Len(x)])
    BY <1>2, <1>8, <1>15, <2>1 DEF Coherent
  <2> QED
    BY <1>1, <1>8, <1>12, <1>14, <2>2 DEF WalkFrom, x, t
<1>16. CASE p # 1
  <2>1. Len(w) # 0 /\ w[1] = visited[p].pos /\ Adjacent(from, w[Len(w)]) /\ Coherent(w)
    BY <1>16 DEF WalkFrom, p
  <2>2. Adjacent(t, w[1])
    BY <1>2, <1>4, <2>1, AdjacentSymmetric
  <2>3. Adjacent(from, x[Len(x)])
    <3>1. Len(w) + 1 \in 2 .. Len(w) + 1 /\ (Len(w) + 1) - 1 = Len(w)
      BY <1>7, <2>1
    <3> QED
      BY <1>8, <2>1, <3>1
  <2>4. Coherent(x)
    <3> SUFFICES ASSUME NEW k \in 1 .. Len(x) - 1 PROVE Adjacent(x[k], x[k + 1])
      BY DEF Coherent
    <3>1. k \in 1 .. Len(w) /\ k + 1 \in 2 .. Len(w) + 1 /\ (k + 1) - 1 = k
      BY <1>7, <1>8
    <3>2. x[k + 1] = w[k]
      BY <1>8, <3>1
    <3>3. CASE k = 1
      BY <1>8, <2>2, <3>2, <3>3
    <3>4. CASE k # 1
      <4>1. k \in 2 .. Len(w) + 1 /\ k - 1 \in 1 .. Len(w) - 1 /\ (k - 1) + 1 = k
        BY <1>7, <3>1, <3>4
      <4>2. x[k] = w[k - 1]
        BY <1>8, <4>1
      <4>3. Adjacent(w[k - 1], w[(k - 1) + 1])
        BY <2>1, <4>1 DEF Coherent
      <4> QED
        BY <3>2, <4>1, <4>2, <4>3
    <3> QED
      BY <3>3, <3>4
  <2>5. Len(x) # 0
    BY <1>7, <1>8
  <2> QED
    BY <1>1, <1>8, <1>12, <1>14, <2>3, <2>4, <2>5 DEF WalkFrom, x, t
<1> QED
  BY <1>15, <1>16

LEMMA TraceIsWalk ==
  ASSUME SearchInv, visited # <<>>
  PROVE  WalkFrom(Trace(visited, from), Len(visited))
<1> DEFINE v == Len(visited)
<1>1. visited \in Seq(OpenNodes) /\ v \in Nat \ {0} /\ visited[1].pos = from
  BY DEF SearchInv, SearchTypes, Linked
<1>2. \A i \in 2 .. v : visited[i].pos # from /\ visited[i].prev \in 1 .. i - 1
  <2>1. \A i \in 1 .. v : visited[i].pos = from => i = 1
    BY <1>1 DEF SearchInv, Once
  <2>2. \A i \in 2 .. v : visited[i].prev \in 1 .. i - 1
    BY <1>1 DEF SearchInv, Linked, FoundFrom
  <2> QED
    BY <1>1, <2>1, <2>2
<1>3. \A i \in 1 .. v : i = 1 \/ i \in 2 .. v
  BY <1>1
<1>4. \A i \in 1 .. v : visited[i].pos # from => visited[i].prev \in 1 .. i - 1
  BY <1>1, <1>2, <1>3
<1>5. PICK f : /\ Trace(visited, from) = f[v]
               /\ \A i \in 1 .. v : f[i] = IF visited[i].pos = from THEN <<>>
                                         ELSE <<visited[i].pos>> \o f[visited[i].prev]
  BY <1>1, <1>4, TraceUnfolds
<1> DEFINE Astray == {i \in 1 .. v : ~WalkFrom(f[i], i)}
<1>6. Astray = {}
  <2> SUFFICES ASSUME Astray # {} PROVE FALSE
    OBVIOUS
  <2>1. PICK i \in Astray : \A m \in Astray : i <= m
    <3>1. Astray \subseteq Nat
      OBVIOUS
    <3> HIDE DEF Astray
    <3> QED
      BY <3>1, LeastNumber
  <2>2. i \in 1 .. v /\ ~WalkFrom(f[i], i)
    BY <2>1
  <2>3. CASE i = 1
    <3>1. f[1] = <<>>
      BY <1>1, <1>5, <2>2, <2>3
    <3>2. WalkFrom(<<>>, 1)
      BY DEF WalkFrom, Coherent
    <3> QED
      BY <2>2, <2>3, <3>1, <3>2
  <2>4. CASE i \in 2 .. v
    <3> DEFINE p == visited[i].prev
    <3>1. p \in 1 .. i - 1 /\ visited[i].pos # from
      BY <1>2, <2>4
    <3>2. p \in 1 .. v /\ ~(i <= p)
      BY <1>1, <2>4, <3>1
    <3>3. WalkFrom(f[p], p)
      BY <2>1, <3>2
    <3>4. f[i] = <<visited[i].pos>> \o f[p]
      BY <1>5, <2>2, <3>1
    <3>5. WalkFrom(<<visited[i].pos>> \o f[p], i)
      BY <2>4, <3>3, WalkExtended
    <3> QED
      BY <2>2, <3>4, <3>5
  <2> QED
    BY <1>3, <2>2, <2>3, <2>4
<1> QED
  BY <1>1, <1>5, <1>6

-----------------------------------------------------------------------------
(* The theorems *)

(***************************************************************************)
(* The path pathfind_2d stores leads from the start to the target over     *)
(* adjacent tiles that can be entered, each once, on every map.            *)
(***************************************************************************)
THEOREM PathCorrect == Spec => []PathIsWalk
<1>1. ASSUME SearchInv, Found
      PROVE  /\ from # to => Leads(path, from, to)
             /\ \A i \in 1 .. Len(path) : path[i] \in Tiles \ (solid \cup {from})
             /\ IsInjective(path)
  <2>1. /\ visited # <<>> /\ Last(visited).pos = to
        /\ visited \in Seq(OpenNodes) /\ path = Trace(visited, from)
    BY <1>1 DEF Found, Reached, SearchInv, SearchTypes, EndsAtTarget
  <2>2. WalkFrom(path, Len(visited))
    BY <1>1, <2>1, TraceIsWalk
  <2>3. path \in Seq(Open \ {from}) /\ DOMAIN path = 1 .. Len(path)
    BY <2>2 DEF WalkFrom
  <2>4. \A i \in 1 .. Len(path) : path[i] \in Tiles \ (solid \cup {from})
    BY <2>3 DEF Open
  <2>5. IsInjective(path)
    BY <2>2, <2>3 DEF WalkFrom, IsInjective
  <2>6. ASSUME from # to
        PROVE  Leads(path, from, to)
    <3>1. Len(visited) # 1 /\ visited[Len(visited)].pos = to
      BY <1>1, <2>1, <2>6 DEF SearchInv, Linked, Last
    <3> QED
      BY <2>2, <2>3, <3>1 DEF WalkFrom, Leads
  <2> QED
    BY <2>4, <2>5, <2>6
<1>2. SearchInv => PathIsWalk
  BY <1>1 DEF PathIsWalk
<1> QED
  BY <1>2, SearchInvHolds, PTL

(* No two places in the two lists hold the same tile. *)
LEMMA NoTileTwice ==
  ASSUME SearchInv
  PROVE  LET both == visited \o queue
         IN  /\ Len(both) = Len(visited) + Len(queue)
             /\ \A i \in 1 .. Len(both) : both[i] \in OpenNodes
             /\ \A i, j \in 1 .. Len(both) : both[i].pos = both[j].pos => i = j
<1> DEFINE v == Len(visited)
           q == Len(queue)
           both == visited \o queue
<1>1. visited \in Seq(OpenNodes) /\ queue \in Seq(OpenNodes) /\ v \in Nat /\ q \in Nat
  BY DEF SearchInv, SearchTypes
<1>2. /\ Len(both) = v + q
      /\ \A i \in 1 .. v : both[i] = visited[i]
      /\ \A i \in v + 1 .. v + q : both[i] = queue[i - v]
  BY <1>1
<1>3. /\ \A i, j \in 1 .. v : visited[i].pos = visited[j].pos => i = j
      /\ \A i, j \in 1 .. q : queue[i].pos = queue[j].pos => i = j
      /\ \A i \in 1 .. v, j \in 1 .. q : visited[i].pos # queue[j].pos
  BY DEF SearchInv, Once
<1>4. both \in Seq(OpenNodes)
  BY <1>1
<1> HIDE DEF v, q, both
<1>5. \A i \in 1 .. v + q : i \in 1 .. v \/ (i \in v + 1 .. v + q /\ i - v \in 1 .. q)
  BY <1>1
<1>6. ASSUME NEW i \in 1 .. v + q, NEW j \in 1 .. v + q, both[i].pos = both[j].pos
      PROVE  i = j
  <2>1. CASE i \in 1 .. v /\ j \in 1 .. v
    BY <1>2, <1>3, <1>6, <2>1
  <2>2. CASE i \in v + 1 .. v + q /\ i - v \in 1 .. q /\ j \in v + 1 .. v + q /\ j - v \in 1 .. q
    <3>1. i - v = j - v
      BY <1>2, <1>3, <1>6, <2>2
    <3> QED
      BY <1>1, <2>2, <3>1
  <2> QED
    BY <1>2, <1>3, <1>5, <1>6, <2>1, <2>2
<1>7. \A i \in 1 .. Len(both) : both[i] \in OpenNodes
  BY <1>4
<1> QED
  BY <1>2, <1>6, <1>7 DEF v, q, both

(***************************************************************************)
(* Through all calls of try_add the queue stays sorted by the h_cost given *)
(* to its nodes, so that pathfind_2d, which takes the last one, visits a   *)
(* node with the least; and no tile gets into the two lists twice.  What   *)
(* calculate_h_cost makes of the cost is another matter (see h_cost).      *)
(***************************************************************************)
THEOREM QueueStaysSorted == Spec => []QueueSorted
<1>1. ASSUME SearchInv
      PROVE  \A i, j \in 1 .. Len(visited \o queue) :
               (visited \o queue)[i].pos = (visited \o queue)[j].pos => i = j
  BY <1>1, NoTileTwice
<1>2. SearchInv => QueueSorted
  BY <1>1 DEF QueueSorted, SearchInv, Descending
<1> QED
  BY <1>2, SearchInvHolds, PTL

(***************************************************************************)
(* When pathfind_2d returns without a path there is none: the visited      *)
(* tiles hold the start, everything beside them that can be entered, and   *)
(* not the target.                                                         *)
(***************************************************************************)
THEOREM GivesUpRightly == Spec => []GivesUpOnlyIfCutOff
<1>1. ASSUME SearchInv, Ended, ~Found
      PROVE  \E ts \in SUBSET (Tiles \ solid) : from \in ts /\ to \notin ts /\ Enclosed(ts)
  <2> DEFINE v == Len(visited)
             ts == {visited[i].pos : i \in 1 .. v}
  <2>1. tries = <<>> /\ queue = <<>> /\ Len(tries) = 0 /\ Len(queue) = 0
    BY <1>1 DEF Ended
  <2>2. visited # <<>> /\ visited[1].pos = from
    BY <1>1, <2>1 DEF SearchInv, Linked
  <2>3. visited \in Seq(OpenNodes) /\ v \in Nat \ {0}
    BY <1>1, <2>2 DEF SearchInv, SearchTypes
  <2>4. ts \subseteq Tiles \ solid
    <3>1. \A i \in 1 .. v : visited[i] \in OpenNodes
      BY <2>3
    <3>2. \A n \in OpenNodes : n.pos \in Tiles \ solid
      BY DEF OpenNodes, Open
    <3> QED
      BY <3>1, <3>2
  <2>5. \A i \in 1 .. v : visited[i].pos # to
    <3>1. visited[v].pos # to
      BY <1>1, <2>2 DEF Found, Reached, Last
    <3>2. \A i \in 1 .. v - 1 : visited[i].pos # to
      BY <1>1 DEF SearchInv, EndsAtTarget
    <3>3. \A i \in 1 .. v : i = v \/ i \in 1 .. v - 1
      BY <2>3
    <3> QED
      BY <3>1, <3>2, <3>3
  <2>6. Enclosed(ts)
    <3> SUFFICES ASSUME NEW i \in 1 .. v, NEW d \in Straight,
                        Plus(visited[i].pos, d) \in Tiles \ solid
                 PROVE  Plus(visited[i].pos, d) \in ts
      BY DEF Enclosed
    <3>1. Known(visited, Plus(visited[i].pos, d)) \/ Known(queue, Plus(visited[i].pos, d))
      BY <1>1, <2>1, <2>5 DEF SearchInv, Tried, Open
    <3>2. Known(visited, Plus(visited[i].pos, d))
      BY <2>1, <3>1 DEF Known
    <3> QED
      BY <3>2 DEF Known
  <2>7. from \in ts /\ to \notin ts
    BY <2>2, <2>3, <2>5
  <2> HIDE DEF ts
  <2> QED
    BY <2>4, <2>6, <2>7
<1>2. SearchInv => GivesUpOnlyIfCutOff
  BY <1>1 DEF GivesUpOnlyIfCutOff
<1> QED
  BY <1>2, SearchInvHolds, PTL

(***************************************************************************)
(* The lists of pathfind_2d hold nodes on the map, and never more of them  *)
(* than the map has tiles; and prev, by which the path is read off, is the *)
(* index of a node visited before.                                         *)
(***************************************************************************)
THEOREM TypeCorrect == Spec => []TypeOK
<1>1. ASSUME SearchInv
      PROVE  TypeOK
  <2> DEFINE v == Len(visited)
             q == Len(queue)
  <2>1. /\ visited \in Seq(OpenNodes) /\ v \in Nat /\ queue \in Seq(OpenNodes)
        /\ q \in Nat
    BY <1>1 DEF SearchInv, SearchTypes
  <2>2. OpenNodes \subseteq Nodes
    BY DEF OpenNodes, Open, Nodes
  <2>3. v + q <= MAP_WIDTH * MAP_HEIGHT
    <3> DEFINE both == visited \o queue
               f == [i \in 1 .. v + q |-> both[i].pos]
    <3>1. /\ Len(both) = v + q
          /\ \A i \in 1 .. Len(both) : both[i] \in OpenNodes
          /\ \A i, j \in 1 .. Len(both) : both[i].pos = both[j].pos => i = j
      BY <1>1, NoTileTwice
    <3> HIDE DEF both
    <3>2. \A n \in OpenNodes : n.pos \in Tiles
      BY DEF OpenNodes, Open
    <3>3. v + q \in Nat
      BY <2>1
    <3> HIDE DEF v, q
    <3>4. f \in [1 .. v + q -> Tiles]
      BY <3>1, <3>2
    <3>5. \A i, j \in 1 .. v + q : f[i] = f[j] => i = j
      BY <3>1
    <3> HIDE DEF f
    <3> QED
      BY <3>3, <3>4, <3>5, DistinctTilesBounded
  <2>4. \A i \in 1 .. v : visited[i].prev \in {1} \cup 1 .. i - 1
    <3> TAKE i \in 1 .. v
    <3>1. visited # <<>>
      BY <2>1
    <3>2. i = 1 \/ i \in 2 .. v
      BY <2>1
    <3>3. CASE i = 1
      BY <1>1, <3>1, <3>3 DEF SearchInv, Linked
    <3>4. CASE i \in 2 .. v
      BY <1>1, <3>1, <3>4 DEF SearchInv, Linked, FoundFrom
    <3> QED
      BY <3>2, <3>3, <3>4
  <2>5. \A j \in 1 .. q : queue[j].prev \in {1} \cup 1 .. v
    <3> TAKE j \in 1 .. q
    <3>1. CASE visited = <<>>
      <4>1. q = 1 /\ queue[1].prev = 1
        BY <1>1, <3>1 DEF SearchInv, Linked
      <4> QED
        BY <2>1, <4>1
    <3>2. CASE visited # <<>>
      BY <1>1, <3>2 DEF SearchInv, Linked, FoundFrom
    <3> QED
      BY <3>1, <3>2
  <2>6. visited \in Seq(Nodes) /\ queue \in Seq(Nodes)
    BY <2>1, <2>2
  <2>7. path \in Seq(Tiles)
    <3>1. CASE Found
      <4>1. visited # <<>> /\ path = Trace(visited, from)
        BY <1>1, <3>1 DEF Found, Reached, SearchInv, EndsAtTarget
      <4>2. path \in Seq(Open \ {from})
        BY <1>1, <4>1, TraceIsWalk DEF WalkFrom
      <4> QED
        BY <4>2 DEF Open
    <3>2. CASE ~Found
      BY <1>1, <3>2 DEF SearchInv, EndsAtTarget, NoPath
    <3> QED
      BY <3>1, <3>2
  <2> QED
    BY <2>3, <2>4, <2>5, <2>6, <2>7 DEF TypeOK
<1> QED
  BY <1>1, SearchInvHolds, PTL

-----------------------------------------------------------------------------
(* Lines of sight *)

LEMMA CompassIs ==
  ASSUME NEW d \in Compass
  PROVE  /\ d \in {-1, 0, 1} \X {-1, 0, 1} /\ d # ZERO
         /\ d[1] \in {-1, 0, 1} /\ d[2] \in {-1, 0, 1} /\ (d[1] # 0 \/ d[2] # 0)
  BY DEF Compass, Straight, RIGHT, LEFT, UP, DOWN, ZERO

(* The middle (e = 0) and the diagonal (e = 1) of an octant are straight lines. *)
OnLine(o, e, d) == d[1] + e * o[1] + o[2] = 0 /\ d[2] + e * o[3] + o[4] = 0

LEMMA LineOfCells ==
  ASSUME from \in Int \X Int, NEW o \in Octants, NEW e \in {0, 1}, NEW d \in Compass,
         OnLine(o, e, d), NEW k \in Nat
  PROVE  Cell(from, o, e * k, k) = Along(d, k)
<1>1. from[1] \in Int /\ from[2] \in Int /\ d[1] \in {-1, 0, 1} /\ d[2] \in {-1, 0, 1}
  BY CompassIs
<1>2. /\ from[1] - (e * k) * o[1] - k * o[2] = from[1] + k * d[1]
      /\ from[2] - (e * k) * o[3] - k * o[4] = from[2] + k * d[2]
  BY <1>1, OctantIs DEF OnLine
<1> QED
  BY <1>2, Zenon DEF Cell, Along, Plus

LEMMA RangeOnLine ==
  ASSUME NEW o \in Octants, NEW e \in {0, 1}, NEW d \in Compass, OnLine(o, e, d), NEW n \in Nat
  PROVE  InRange(e * n, n, FOV_RANGE)
           <=> InRange(n * AbsVal(d[1]), n * AbsVal(d[2]), FOV_RANGE)
<1>1. d[1] \in {-1, 0, 1} /\ d[2] \in {-1, 0, 1}
  BY CompassIs
<1>2. \/ AbsVal(d[1]) = e /\ AbsVal(d[2]) = 1
      \/ AbsVal(d[1]) = 1 /\ AbsVal(d[2]) = e
  BY <1>1, OctantIs DEF AbsVal, OnLine
<1>3. e * n = n * e /\ n * 1 = n /\ e * n \in Nat
  OBVIOUS
<1>4. (e * n) * (e * n) \in Nat /\ n * n \in Nat
  BY <1>3
<1>5. (e * n) * (e * n) + n * n = n * n + (e * n) * (e * n)
  BY <1>4
<1> QED
  BY <1>2, <1>3, <1>5 DEF InRange

LEMMA LineOfOctant ==
  ASSUME NEW d \in Compass
  PROVE  \E o \in Octants : \E e \in {0, 1} : OnLine(o, e, d)
<1>0. ASSUME NEW o \in Octants, d[1] + o[2] = 0, d[2] + o[4] = 0
      PROVE  OnLine(o, 0, d)
  BY <1>0, OctantIs, CompassIs DEF OnLine
<1>1. CASE d = UP
  <2>1. PICK o \in Octants : o = <<1, 0, 0, 1>>
    BY Zenon DEF Octants
  <2>2. d[1] = 0 /\ d[2] = -1 /\ o[2] = 0 /\ o[4] = 1
    BY <1>1, <2>1 DEF UP
  <2>3. d[1] + o[2] = 0 /\ d[2] + o[4] = 0
    BY <2>2
  <2> QED
    BY <1>0, <2>3
<1>2. CASE d = DOWN
  <2>1. PICK o \in Octants : o = <<1, 0, 0, -1>>
    BY Zenon DEF Octants
  <2>2. d[1] = 0 /\ d[2] = 1 /\ o[2] = 0 /\ o[4] = -1
    BY <1>2, <2>1 DEF DOWN
  <2>3. d[1] + o[2] = 0 /\ d[2] + o[4] = 0
    BY <2>2
  <2> QED
    BY <1>0, <2>3
<1>3. CASE d = LEFT
  <2>1. PICK o \in Octants : o = <<0, 1, 1, 0>>
    BY Zenon DEF Octants
  <2>2. d[1] = -1 /\ d[2] = 0 /\ o[2] = 1 /\ o[4] = 0
    BY <1>3, <2>1 DEF LEFT
  <2>3. d[1] + o[2] = 0 /\ d[2] + o[4] = 0
    BY <2>2
  <2> QED
    BY <1>0, <2>3
<1>4. CASE d = RIGHT
  <2>1. PICK o \in Octants : o = <<0, -1, 1, 0>>
    BY Zenon DEF Octants
  <2>2. d[1] = 1 /\ d[2] = 0 /\ o[2] = -1 /\ o[4] = 0
    BY <1>4, <2>1 DEF RIGHT
  <2>3. d[1] + o[2] = 0 /\ d[2] + o[4] = 0
    BY <2>2
  <2> QED
    BY <1>0, <2>3
<1>5. ASSUME NEW x \in {-1, 1}, NEW y \in {-1, 1}, d = <<x, y>>
      PROVE  \E o \in Octants : \E e \in {0, 1} : OnLine(o, e, d)
  <2>1. OnLine(<<-x, 0, 0, -y>>, 1, d)
    BY <1>5 DEF OnLine
  <2>2. <<-x, 0, 0, -y>> \in Octants
    <3>1. x = 1 \/ x = -1
      OBVIOUS
    <3>2. y = 1 \/ y = -1
      OBVIOUS
    <3> QED
      BY <3>1, <3>2 DEF Octants
  <2> QED
    BY <2>1, <2>2
<1> QED
  BY <1>1, <1>2, <1>3, <1>4, <1>5 DEF Compass, Straight

LEMMA LineSolved ==
  ASSUME NEW n \in Nat \ {0}, NEW i \in Nat \ {0}, NEW a \in 0 .. i,
         NEW x \in {-1, 0, 1}, NEW y \in {-1, 0, 1}, NEW s \in {-1, 1}, NEW r \in {-1, 1},
         n * x + a * s = 0, n * y + i * r = 0
  PROVE  i = n /\ y + r = 0 /\ \E e \in {0, 1} : a = e * n /\ x + e * s = 0
<1>1. i = n /\ y + r = 0
  OBVIOUS
<1>2. CASE x = 0
  <2>1. a = 0 * n /\ x + 0 * s = 0
    BY <1>2
  <2> QED
    BY <1>1, <2>1
<1>3. CASE x # 0
  <2>1. a = 1 * n /\ x + 1 * s = 0
    BY <1>3
  <2> QED
    BY <1>1, <2>1
<1> QED
  BY <1>2, <1>3

(* A cell of an octant on a straight line is on its middle or its diagonal. *)
LEMMA SameLine ==
  ASSUME NEW o \in Octants, NEW d \in Compass, NEW n \in Nat \ {0}, NEW i \in Nat \ {0},
         NEW a \in 0 .. i, from \in Int \X Int, Along(d, n) = Cell(from, o, a, i)
  PROVE  i = n /\ \E e \in {0, 1} : a = e * n /\ OnLine(o, e, d)
<1> DEFINE fx == from[1]
           fy == from[2]
           dx == d[1]
           dy == d[2]
           xx == o[1]
           xy == o[2]
           yx == o[3]
           yy == o[4]
<1>1. /\ fx \in Int /\ fy \in Int /\ dx \in {-1, 0, 1} /\ dy \in {-1, 0, 1}
      /\ xx \in {-1, 0, 1} /\ xy \in {-1, 0, 1} /\ yx \in {-1, 0, 1} /\ yy \in {-1, 0, 1}
      /\ \/ xx # 0 /\ xy = 0 /\ yx = 0 /\ yy # 0
         \/ xx = 0 /\ xy # 0 /\ yx # 0 /\ yy = 0
  BY CompassIs, OctantIs
<1>2. /\ fx + n * dx = fx - a * xx - i * xy
      /\ fy + n * dy = fy - a * yx - i * yy
  BY DEF Along, Plus, Cell
<1>3. \A e : OnLine(o, e, d) <=> dx + e * xx + xy = 0 /\ dy + e * yx + yy = 0
  BY DEF OnLine
<1> SUFFICES i = n /\ \E e \in {0, 1} : /\ a = e * n
                                        /\ dx + e * xx + xy = 0 /\ dy + e * yx + yy = 0
  BY <1>3, Zenon
<1> HIDE DEF fx, fy, dx, dy, xx, xy, yx, yy
<1>4. CASE xx # 0 /\ xy = 0 /\ yx = 0 /\ yy # 0
  <2>1. n * dx + a * xx = 0 /\ n * dy + i * yy = 0 /\ xx \in {-1, 1} /\ yy \in {-1, 1}
    BY <1>1, <1>2, <1>4
  <2>2. i = n /\ dy + yy = 0 /\ \E e \in {0, 1} : a = e * n /\ dx + e * xx = 0
    BY <1>1, <2>1, LineSolved
  <2>3. PICK e \in {0, 1} : a = e * n /\ dx + e * xx = 0
    BY <2>2
  <2>4. dx + e * xx + xy = 0 /\ dy + e * yx + yy = 0
    BY <1>1, <1>4, <2>2, <2>3
  <2> QED
    BY <2>2, <2>3, <2>4
<1>5. CASE xx = 0 /\ xy # 0 /\ yx # 0 /\ yy = 0
  <2>1. n * dy + a * yx = 0 /\ n * dx + i * xy = 0 /\ xy \in {-1, 1} /\ yx \in {-1, 1}
    BY <1>1, <1>2, <1>5
  <2>2. i = n /\ dx + xy = 0 /\ \E e \in {0, 1} : a = e * n /\ dy + e * yx = 0
    BY <1>1, <2>1, LineSolved
  <2>3. PICK e \in {0, 1} : a = e * n /\ dy + e * yx = 0
    BY <2>2
  <2>4. dx + e * xx + xy = 0 /\ dy + e * yx + yy = 0
    BY <1>1, <1>5, <2>2, <2>3
  <2> QED
    BY <2>2, <2>3, <2>4
<1> QED
  BY <1>1, <1>4, <1>5

(* The tiles between two of the map are of the map. *)
LEMMA LineOnMap ==
  ASSUME from \in Tiles, NEW d \in Compass, NEW n \in Nat, Along(d, n) \in Tiles, NEW k \in 1 .. n
  PROVE  Along(d, k) \in Tiles
<1> DEFINE fx == from[1]
           fy == from[2]
           dx == d[1]
           dy == d[2]
<1>1. \A j : Along(d, j) = <<fx + j * dx, fy + j * dy>>
  BY DEF Along, Plus
<1>2. /\ fx \in 0 .. MAP_WIDTH - 1 /\ fy \in 0 .. MAP_HEIGHT - 1
      /\ dx \in {-1, 0, 1} /\ dy \in {-1, 0, 1}
  BY CompassIs DEF Tiles
<1>3. fx + n * dx \in 0 .. MAP_WIDTH - 1 /\ fy + n * dy \in 0 .. MAP_HEIGHT - 1
  BY <1>1 DEF Tiles
<1> HIDE DEF fx, fy, dx, dy
<1>4. fx + k * dx \in 0 .. MAP_WIDTH - 1
  BY <1>2, <1>3, GridAssumption
<1>5. fy + k * dy \in 0 .. MAP_HEIGHT - 1
  BY <1>2, <1>3, GridAssumption
<1> QED
  BY <1>1, <1>4, <1>5 DEF Tiles

LEMMA FromIsPlace ==
  ASSUME from \in Open
  PROVE  from \in Tiles /\ from \in Nat \X Nat /\ from \in Int \X Int /\ from \notin solid
  BY GridAssumption DEF Open, Tiles

LEMMA SeenOnLine ==
  ASSUME from \in Open, NEW d \in Compass, NEW n \in Nat \ {0}, Along(d, n) \in Tiles,
         InRange(n * AbsVal(d[1]), n * AbsVal(d[2]), FOV_RANGE),
         \A k \in 1 .. n - 1 : Along(d, k) \notin solid
  PROVE  Along(d, n) \in Seen
<1>1. PICK o \in Octants : \E e \in {0, 1} : OnLine(o, e, d)
  BY LineOfOctant
<1>2. PICK e \in {0, 1} : OnLine(o, e, d)
  BY <1>1
<1>3. \A k \in Nat : Cell(from, o, e * k, k) = Along(d, k)
  BY <1>2, FromIsPlace, LineOfCells
<1>4. InRange(e * n, n, FOV_RANGE)
  BY <1>2, RangeOnLine
<1>5. ~OffLowSide(Cell(from, o, e * n, n))
  <2>1. ~IsOpaque({}, Along(d, n))
    BY DEF IsOpaque
  <2> QED
    BY <1>3, <2>1, OpenOnMap
<1>6. ASSUME NEW k \in 1 .. n - 1
      PROVE  ~IsOpaque(solid, Cell(from, o, e * k, k))
  <2>1. Along(d, k) \in Tiles
    BY FromIsPlace, LineOnMap
  <2> QED
    BY <1>3, <2>1 DEF IsOpaque
<1>7. Cell(from, o, e * n, n) \in fov_2d(solid, from, FOV_RANGE)
  BY <1>4, <1>5, <1>6, FromIsPlace, RangeAssumption, LineSeen
<1> QED
  BY <1>3, <1>7 DEF Seen

LEMMA LineSeenPast ==
  ASSUME from \in Open, NEW d \in Compass, NEW n \in Nat \ {0}, Along(d, n) \in Seen
  PROVE  /\ InRange(n * AbsVal(d[1]), n * AbsVal(d[2]), FOV_RANGE)
         /\ \A k \in 1 .. n - 1 : Along(d, k) \notin solid
<1> DEFINE t == Along(d, n)
<1>1. t # from
  <2>1. /\ from[1] \in Int /\ from[2] \in Int
        /\ d[1] \in {-1, 0, 1} /\ d[2] \in {-1, 0, 1} /\ (d[1] # 0 \/ d[2] # 0)
    BY FromIsPlace, CompassIs
  <2>2. from[1] + n * d[1] # from[1] \/ from[2] + n * d[2] # from[2]
    BY <2>1
  <2> QED
    BY <2>2 DEF Along, Plus
<1>2. t \in fov_2d(solid, from, FOV_RANGE)
  BY DEF Seen
<1> HIDE DEF t
<1>3. PICK o \in Octants : \E cast : \E i \in 1 .. FOV_RANGE : \E a \in 0 .. i :
        LitBy(t, solid, from, FOV_RANGE, o, cast, i, a)
  BY <1>1, <1>2, FromIsPlace, RangeAssumption, Sees
<1>4. PICK cast : \E i \in 1 .. FOV_RANGE : \E a \in 0 .. i :
        LitBy(t, solid, from, FOV_RANGE, o, cast, i, a)
  BY <1>3
<1>5. PICK i \in 1 .. FOV_RANGE : \E a \in 0 .. i :
        LitBy(t, solid, from, FOV_RANGE, o, cast, i, a)
  BY <1>4
<1>6. PICK a \in 0 .. i : LitBy(t, solid, from, FOV_RANGE, o, cast, i, a)
  BY <1>5
<1>7. /\ Casting(cast, solid, from, o, FOV_RANGE)
      /\ LitCell(cast, from, o, a, i, FOV_RANGE)
      /\ Along(d, n) = Cell(from, o, a, i)
  BY <1>6 DEF LitBy, t
<1>8. i = n /\ \E e \in {0, 1} : a = e * n /\ OnLine(o, e, d)
  BY <1>7, FromIsPlace, SameLine
<1>9. PICK e \in {0, 1} : a = e * n /\ OnLine(o, e, d)
  BY <1>8
<1>10. LitCell(cast, from, o, e * n, n, FOV_RANGE) /\ n \in 1 .. FOV_RANGE
  BY <1>7, <1>8, <1>9
<1>11. InRange(n * AbsVal(d[1]), n * AbsVal(d[2]), FOV_RANGE)
  <2>1. InRange(e * n, n, FOV_RANGE)
    BY <1>10 DEF LitCell
  <2> QED
    BY <1>9, <2>1, RangeOnLine
<1>12. ASSUME NEW k \in 1 .. n - 1
       PROVE  Along(d, k) \notin solid
  <2>1. ~IsOpaque(solid, Cell(from, o, e * k, k))
    BY <1>7, <1>10, FromIsPlace, RangeAssumption, LineLit
  <2>2. Cell(from, o, e * k, k) = Along(d, k)
    BY <1>9, FromIsPlace, LineOfCells
  <2> QED
    BY <2>1, <2>2 DEF IsOpaque
<1> QED
  BY <1>11, <1>12

(***************************************************************************)
(* From any tile, on any map and with any range, fov_2d shows of a row, a  *)
(* column or a diagonal what is in range up to the first wall, the wall    *)
(* included, and nothing beyond it.                                        *)
(***************************************************************************)
THEOREM StraightLinesSeen == Spec => []StraightSight
<1>1. ASSUME SearchInv
      PROVE  \A d \in Compass, n \in 1 .. MAP_WIDTH + MAP_HEIGHT :
               Along(d, n) \in Tiles =>
                 (Along(d, n) \in Seen
                    <=> /\ InRange(n * AbsVal(d[1]), n * AbsVal(d[2]), FOV_RANGE)
                        /\ \A k \in 1 .. n - 1 : Along(d, k) \notin solid)
  <2>1. from \in Open
    BY <1>1 DEF SearchInv, SearchTypes
  <2> TAKE d \in Compass, n \in 1 .. MAP_WIDTH + MAP_HEIGHT
  <2> HAVE Along(d, n) \in Tiles
  <2>2. n \in Nat \ {0}
    BY GridAssumption
  <2> QED
    BY <2>1, <2>2, SeenOnLine, LineSeenPast
<1>2. SearchInv => StraightSight
  BY <1>1 DEF StraightSight
<1> QED
  BY <1>2, SearchInvHolds, PTL

-----------------------------------------------------------------------------
(* The way of the light *)

(* The rows of an octant are as far from the eye as their number. *)
LEMMA FarIsRow ==
  ASSUME from \in Int \X Int, NEW o \in Octants, NEW i \in Nat, NEW a \in 0 .. i
  PROVE  Far(Cell(from, o, a, i)) = i
<1> DEFINE fx == from[1]
           fy == from[2]
           xx == o[1]
           xy == o[2]
           yx == o[3]
           yy == o[4]
           dx == AbsVal((fx - a * xx - i * xy) - fx)
           dy == AbsVal((fy - a * yx - i * yy) - fy)
<1>1. /\ fx \in Int /\ fy \in Int
      /\ xx \in {-1, 0, 1} /\ xy \in {-1, 0, 1} /\ yx \in {-1, 0, 1} /\ yy \in {-1, 0, 1}
      /\ \/ xx # 0 /\ xy = 0 /\ yx = 0 /\ yy # 0
         \/ xx = 0 /\ xy # 0 /\ yx # 0 /\ yy = 0
  BY OctantIs
<1>2. Far(Cell(from, o, a, i)) = IF dx > dy THEN dx ELSE dy
  BY DEF Far, Cell
<1> HIDE DEF fx, fy, xx, xy, yx, yy
<1>3. \/ dx = a /\ dy = i
      \/ dx = i /\ dy = a
  BY <1>1 DEF AbsVal
<1> HIDE DEF dx, dy
<1> QED
  BY <1>2, <1>3

(* Neighbours in neighbouring rows of an octant touch. *)
LEMMA RowsTouch ==
  ASSUME from \in Int \X Int, NEW o \in Octants, NEW i \in Nat \ {0}, NEW a \in 0 .. i,
         NEW c \in 0 .. i - 1, c \in {a - 1, a}
  PROVE  \E d \in Compass : Minus(Cell(from, o, a, i), d) = Cell(from, o, c, i - 1)
<1> DEFINE fx == from[1]
           fy == from[2]
           xx == o[1]
           xy == o[2]
           yx == o[3]
           yy == o[4]
           e  == a - c
           dx == -(e * xx) - xy
           dy == -(e * yx) - yy
<1>1. /\ fx \in Int /\ fy \in Int /\ e \in {0, 1}
      /\ xx \in {-1, 0, 1} /\ xy \in {-1, 0, 1} /\ yx \in {-1, 0, 1} /\ yy \in {-1, 0, 1}
      /\ \/ xx # 0 /\ xy = 0 /\ yx = 0 /\ yy # 0
         \/ xx = 0 /\ xy # 0 /\ yx # 0 /\ yy = 0
  BY OctantIs
<1>2. Minus(Cell(from, o, a, i), <<dx, dy>>)
        = <<(fx - a * xx - i * xy) - dx, (fy - a * yx - i * yy) - dy>>
  BY DEF Minus, Cell
<1>3. Cell(from, o, c, i - 1) = <<fx - c * xx - (i - 1) * xy, fy - c * yx - (i - 1) * yy>>
  BY DEF Cell
<1> HIDE DEF fx, fy, xx, xy, yx, yy
<1>4. /\ (fx - a * xx - i * xy) - dx = fx - c * xx - (i - 1) * xy
      /\ (fy - a * yx - i * yy) - dy = fy - c * yx - (i - 1) * yy
  BY <1>1
<1>5. <<dx, dy>> \in Compass
  <2>1. \/ dx \in {-1, 1} /\ dy \in {-1, 1}
        \/ dx = 0 /\ dy \in {-1, 1}
        \/ dx \in {-1, 1} /\ dy = 0
    BY <1>1
  <2> HIDE DEF dx, dy
  <2> QED
    BY <2>1 DEF Compass, Straight, RIGHT, LEFT, UP, DOWN
<1> HIDE DEF dx, dy
<1> QED
  BY <1>2, <1>3, <1>4, <1>5

(***************************************************************************)
(* With the ranges of the game's players and enemies, light does not jump: *)
(* what fov_2d shows touches an open tile that it shows, too, nearer to    *)
(* the eye.  With a range of 14 it may: walls at a = 0 in row 2 and a = 2  *)
(* in row 5 leave a beam whose ends have changed places, which passes      *)
(* between the sides of row 12's cells and shows a = 4 in row 13.          *)
(***************************************************************************)
THEOREM LightDoesNotJump ==
  ASSUME FOV_RANGE <= 12
  PROVE  Spec => []SightReaches
<1>1. ASSUME SearchInv, NEW t \in Seen \ {from}
      PROVE  \E d \in Compass : LET u == Minus(t, d)
                                IN  u \in (Seen \cap Tiles) \ solid /\ Far(u) < Far(t)
  <2>1. from \in Open
    BY <1>1 DEF SearchInv, SearchTypes
  <2>2. from \in Int \X Int /\ from \in Tiles \ solid
    BY <2>1, FromIsPlace
  <2>3. t \in fov_2d(solid, from, FOV_RANGE) /\ t # from
    BY DEF Seen
  <2>4. PICK o \in Octants, i \in 1 .. FOV_RANGE : \E a \in 0 .. i : \E c \in 0 .. i - 1 :
          /\ t = Cell(from, o, a, i) /\ c \in {a - 1, a}
          /\ Cell(from, o, c, i - 1) \in fov_2d(solid, from, FOV_RANGE)
          /\ ~IsOpaque(solid, Cell(from, o, c, i - 1))
    BY <2>2, <2>3, RangeAssumption, LightComes
  <2>5. PICK a \in 0 .. i, c \in 0 .. i - 1 :
          /\ t = Cell(from, o, a, i) /\ c \in {a - 1, a}
          /\ Cell(from, o, c, i - 1) \in fov_2d(solid, from, FOV_RANGE)
          /\ ~IsOpaque(solid, Cell(from, o, c, i - 1))
    BY <2>4
  <2> DEFINE u == Cell(from, o, c, i - 1)
  <2>6. i \in Nat \ {0} /\ i - 1 \in Nat /\ c \in 0 .. i - 1
    BY RangeAssumption
  <2>7. PICK d \in Compass : Minus(t, d) = u
    BY <2>2, <2>5, <2>6, RowsTouch
  <2>8. u \in (Seen \cap Tiles) \ solid
    BY <2>5 DEF IsOpaque, Seen
  <2>9. Far(u) < Far(t)
    <3>1. Far(t) = i
      BY <2>2, <2>5, <2>6, FarIsRow
    <3>2. Far(u) = i - 1
      BY <2>2, <2>6, FarIsRow
    <3> QED
      BY <2>6, <3>1, <3>2
  <2> QED
    BY <2>7, <2>8, <2>9, Zenon
<1>2. SearchInv => SightReaches
  BY <1>1 DEF SightReaches
<1> QED
  BY <1>2, SearchInvHolds, PTL
=============================================================================
