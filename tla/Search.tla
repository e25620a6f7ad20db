------------------------------- MODULE Search -------------------------------
(***************************************************************************)
(* The search of Pathfind as a process, on every map of a given size: a    *)
(* step visits a node, or makes one of the calls of try_add that follow.   *)
(***************************************************************************)
EXTENDS Pathfind

VARIABLES
  solid,             \* tiles that cannot be entered
  from, to,          \* arguments of pathfind_2d
  queue, visited,    \* its static lists
  tries,             \* directions try_add is still to be called with
  path               \* the result: the path of the enemy

args == <<solid, from, to>>
vars == <<solid, from, to, queue, visited, tries, path>>

NoPath == <<>>

Init ==
  /\ solid \in SUBSET Tiles
  /\ from \in Tiles \ solid /\ to \in Tiles \ solid
  /\ queue = Started(solid, from, to).queue
  /\ visited = <<>>
  /\ tries = <<>>
  /\ path = NoPath

Found == Reached(to, visited)
Ended == tries = <<>> /\ (Found \/ queue = <<>>)

Visit_ButLast ==   \* mutant: while (queue.count > 1)
  /\ tries = <<>> /\ ~Found /\ Len(queue) > 1
  /\ queue' = Front(queue)
  /\ visited' = Append(visited, Last(queue))
  /\ tries' = Directions
  /\ UNCHANGED <<args, path>>

Visit ==
  /\ tries = <<>> /\ ~Ended
  /\ queue' = Front(queue)
  /\ visited' = Append(visited, Last(queue))
  /\ IF Last(queue).pos = to
     THEN tries' = <<>> /\ path' = Trace(visited', from)
     ELSE tries' = Directions /\ UNCHANGED path
  /\ UNCHANGED args

Try ==
  /\ tries # <<>>
  /\ queue' = TryAdd(solid, to, visited, queue, Head(tries))
  /\ tries' = Tail(tries)
  /\ UNCHANGED <<args, visited, path>>

Next == Visit \/ Try

Spec == Init /\ [][Next]_vars /\ WF_vars(Next)

-----------------------------------------------------------------------------
Nodes == [pos : Tiles, c : Nat \ {0}, h : Nat, prev : Nat \ {0}]

(* Nodes lie on the map and cost something.  prev is an index into visited: of a
   node visited before, or of the first place, which the start has from the
   beginning.  There are never more nodes than the map has tiles. *)
TypeOK ==
  /\ queue \in Seq(Nodes) /\ visited \in Seq(Nodes)
  /\ Len(visited) + Len(queue) <= MAP_WIDTH * MAP_HEIGHT
  /\ \A i \in 1 .. Len(visited) : visited[i].prev \in {1} \cup 1 .. i - 1
  /\ \A j \in 1 .. Len(queue) : queue[j].prev \in {1} \cup 1 .. Len(visited)
  /\ path \in Seq(Tiles)

(* Through all insertions of try_add the queue stays sorted by the h_cost its
   nodes were given: the one pathfind_2d takes from its end has the least.  That
   this is the "Estimated final cost of the path" (pathfind.c:10) is not so, see
   h_cost, and not claimed.  No tile is in the lists twice. *)
QueueSorted ==
  /\ \A i, j \in 1 .. Len(queue) : i < j => queue[i].h >= queue[j].h
  /\ \A i, j \in 1 .. Len(visited \o queue) :
       (visited \o queue)[i].pos = (visited \o queue)[j].pos => i = j

(* The stored path leads from the tile behind its last step to the target over
   adjacent tiles that can be entered, each once. *)
PathIsWalk ==
  Found => /\ from # to => Leads(path, from, to)
           /\ \A i \in 1 .. Len(path) : path[i] \in Tiles \ (solid \cup {from})
           /\ IsInjective(path)

(* The search gives up only if there is no way: some set of tiles holds the
   start, everything next to it that can be entered, and not the target. *)
Enclosed(ts) == \A t \in ts, d \in Straight : Plus(t, d) \in (Tiles \ solid) => Plus(t, d) \in ts

GivesUpOnlyIfCutOff ==
  Ended /\ ~Found =>
    \E ts \in SUBSET (Tiles \ solid) : from \in ts /\ to \notin ts /\ Enclosed(ts)

(* Whatever the map, the search ends. *)
SearchEnds == <>Ended

=============================================================================
