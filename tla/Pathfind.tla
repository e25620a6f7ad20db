------------------------------ MODULE Pathfind ------------------------------
(***************************************************************************)
(* The search of pathfind_2d: a list of visited nodes, and a queue sorted  *)
(* by h_cost from whose end the next node is taken.  Its operators say     *)
(* what one turn of the loop does; pathfind_2d is the whole call.          *)
(***************************************************************************)
EXTENDS Grid, Sequences, SequencesExt, FiniteSets

PATHFIND_BLOCK == 0

(* path_cost, the cost function enemies pass: other actors do not count. *)
CostOf(solid, t) == IF t \in Tiles \ solid THEN 1 ELSE PATHFIND_BLOCK

(* calculate_h_cost.  The body of max has no parentheses, so that the cost so
   far is added to the second branch only: the "Estimated final cost of the
   path" (pathfind.c:10) may be less than what the path has cost already. *)
h_cost(t, target, cost) ==
  LET dx == AbsVal(t[1] - target[1])
      dy == AbsVal(t[2] - target[2])
  IN  IF dx > dy THEN dx ELSE dy + cost

Node_Count(t, target, cost, prev) ==   \* mutant: visited.count is taken for the last index
  [pos |-> t, c |-> cost, h |-> h_cost(t, target, cost), prev |-> prev + 1]
Node(t, target, cost, prev) ==
  [pos |-> t, c |-> cost, h |-> h_cost(t, target, cost), prev |-> prev]

Known(nodes, t) == \E i \in 1 .. Len(nodes) : nodes[i].pos = t

(* The node goes behind the last one whose h_cost is not smaller. *)
Place_AtTail(queue, n) == Len(queue) + 1        \* mutant: not sorted in
Place(queue, n) ==
  CHOOSE i \in 1 .. Len(queue) + 1 :
    /\ \A j \in i .. Len(queue) : queue[j].h < n.h
    /\ i > 1 => queue[i - 1].h >= n.h

(* try_add: the neighbour of the node visited last in direction d. *)
Addable(visited, queue, t) == ~Known(visited, t) /\ ~Known(queue, t)

TryAdd(solid, target, visited, queue, d) ==
  LET prev == Len(visited)
      t == Plus(visited[prev].pos, d)
      n == Node(t, target, visited[prev].c + CostOf(solid, t), prev)
  IN  IF CostOf(solid, t) # PATHFIND_BLOCK /\ Addable(visited, queue, t)
      THEN InsertAt(queue, Place(queue, n), n) ELSE queue

(* The four calls of try_add. *)
Directions_Three == <<RIGHT, LEFT, UP>>   \* mutant: one call is missing
Directions == <<RIGHT, LEFT, UP, DOWN>>

AddNeighbours(solid, target, visited, queue) ==
  FoldLeft(LAMBDA q, d : TryAdd(solid, target, visited, q, d), queue, Directions)

Reached(target, visited) == visited # <<>> /\ Last(visited).pos = target

(* One turn of the loop: the node at the end of the queue is visited, and
   its neighbours are queued unless it is the target. *)
Turn(solid, target, s) ==
  LET visited == Append(s.visited, Last(s.queue))
  IN  [visited |-> visited,
       queue   |-> IF Reached(target, visited) THEN Front(s.queue)
                   ELSE AddNeighbours(solid, target, visited, Front(s.queue))]

Started(solid, from, target) ==
  [visited |-> <<>>, queue |-> <<Node(from, target, CostOf(solid, from), 1)>>]

Finished(target, s) == s.queue = <<>> \/ Reached(target, s.visited)

(* The path as it is stored: the target first, the next step last, and the
   tile the search started from left out. *)
Trace_WithStart(visited, from) ==   \* mutant: stops one node too late
  LET back[i \in 1 .. Len(visited)] ==
        IF visited[i].pos = from THEN <<from>>
        ELSE <<visited[i].pos>> \o back[visited[i].prev]
  IN  back[Len(visited)]
Trace(visited, from) ==
  LET back[i \in 1 .. Len(visited)] ==
        IF visited[i].pos = from THEN <<>>
        ELSE <<visited[i].pos>> \o back[visited[i].prev]
  IN  back[Len(visited)]

(* The whole search, as a function of the turns made; every turn visits
   another tile. *)
Search(solid, from, target) ==
  LET run[n \in Nat] ==
        IF n = 0 THEN Started(solid, from, target)
        ELSE LET s == run[n - 1]
             IN  IF Finished(target, s) THEN s ELSE Turn(solid, target, s)
  IN  run[MAP_WIDTH * MAP_HEIGHT]

(* pathfind_2d from one tile to another, <<>> where it finds no path. *)
pathfind_2d(solid, from, target) ==
  LET s == Search(solid, from, target)
  IN  IF Reached(target, s.visited) THEN Trace(s.visited, from) ELSE <<>>
=============================================================================
