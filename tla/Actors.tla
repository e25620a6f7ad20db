------------------------------- MODULE Actors --------------------------------
(***************************************************************************)
(* The pool of actors (actors.c): a fixed array whose removed slots are    *)
(* chained into a free list, handles (ActorId) that carry the generation   *)
(* of their slot, and the foreach_actor loop.  Slot 0 is never given out:  *)
(* index 0 ends the free list.                                             *)
(*                                                                         *)
(* The users of the pool create an actor (actor.c, actor_create_opt),      *)
(* destroy one by any handle they kept, and loop over all of them; a loop  *)
(* body may itself create and destroy.                                     *)
(***************************************************************************)
EXTENDS Naturals, FiniteSets

CONSTANTS
  ACTOR_COUNT,    \* slots, the reserved one included (config.h)
  GenWidth,       \* 2^16: generations that fit the uint16_t of actors_push
  MaxGeneration   \* bound: how often a slot is reused

ASSUME ActorsAssumption ==
  /\ ACTOR_COUNT \in Nat \ {0}
  /\ GenWidth \in Nat \ {0}
  /\ MaxGeneration \in Nat

Indices == 0 .. ACTOR_COUNT - 1
ActorId == [index : Indices, gen : 0 .. GenWidth - 1]

VARIABLES
  generation,   \* Actors.generation
  next_free,    \* Actors.next_free
  alive,        \* Actors.alive
  first_free,   \* Actors.first_free
  max_index,    \* Actors.max_index: slots from here on were never used
  halted,       \* an assertion has failed
  issued,       \* the handles actor_create_opt has returned
  cursor,       \* where the running foreach_actor loop stands; 0: no loop
  visited,      \* the handles that loop has been given
  present       \* the handles that were live ever since that loop began

poolVars == <<generation, next_free, alive, first_free, max_index>>
loopVars == <<cursor, visited, present>>
vars == <<poolVars, halted, issued, loopVars>>

TypeOK ==
  /\ generation \in [Indices -> 0 .. MaxGeneration]
  /\ next_free \in [Indices -> Indices]
  /\ alive \in [Indices -> BOOLEAN]
  /\ first_free \in Indices
  /\ max_index \in 1 .. ACTOR_COUNT
  /\ halted \in BOOLEAN
  /\ issued \subseteq ActorId
  /\ cursor \in 0 .. ACTOR_COUNT
  /\ visited \subseteq [index : Indices, gen : 0 .. MaxGeneration]
  /\ present \subseteq [index : Indices, gen : 0 .. MaxGeneration]

(* actors_init: the first slot that is given out. *)
FirstIndex_Zero == 0   \* mutant: actors_init is forgotten
FirstIndex == 1

Init ==
  /\ generation = [i \in Indices |-> 0]
  /\ next_free = [i \in Indices |-> 0]
  /\ alive = [i \in Indices |-> FALSE]
  /\ first_free = 0
  /\ max_index = FirstIndex
  /\ halted = FALSE
  /\ issued = {}
  /\ cursor = 0
  /\ visited = {}
  /\ present = {}

is_alive_AnyGeneration(id) == alive[id.index]   \* mutant: generations are not compared
is_alive(id) == alive[id.index] /\ generation[id.index] = id.gen

-----------------------------------------------------------------------------
(* actors_push and actor_create_opt *)

PopFree(i) ==
  /\ first_free # 0 /\ i = first_free
  /\ first_free' = next_free[i]
  /\ next_free' = [next_free EXCEPT ![i] = 0]
  /\ UNCHANGED max_index

UseFresh(i) ==
  /\ first_free = 0 /\ i = max_index
  /\ max_index' = max_index + 1
  /\ UNCHANGED <<first_free, next_free>>

(* The new handle: its generation is cut to 16 bits. *)
NewId(i) == [index |-> i, gen |-> (generation[i] + 1) % GenWidth]

(***************************************************************************)
(* actor_create_opt asks actor_get for the actor of the handle it has been *)
(* given, which asserts that it is alive: the handle is not, once the      *)
(* slot's generation has outgrown it.                                      *)
(***************************************************************************)
Create ==
  \E i \in Indices :
    /\ ~halted
    /\ generation[i] < MaxGeneration
    /\ PopFree(i) \/ UseFresh(i)
    /\ generation' = [generation EXCEPT ![i] = @ + 1]
    /\ alive' = [alive EXCEPT ![i] = TRUE]
    /\ IF NewId(i).gen = generation[i] + 1
       THEN issued' = issued \cup {NewId(i)} /\ UNCHANGED halted
       ELSE halted' = TRUE /\ UNCHANGED issued
    /\ UNCHANGED loopVars

(* The assertion of actors_push: no slot is left. *)
CreateInFull ==
  /\ ~halted
  /\ first_free = 0 /\ max_index = ACTOR_COUNT
  /\ halted' = TRUE
  /\ UNCHANGED <<poolVars, issued, loopVars>>

-----------------------------------------------------------------------------
(* actor_destroy and actors_remove, by any handle ever returned *)

Removable_Always(id) == id.index # 0   \* mutant: a dead handle is not refused
Removable(id) == is_alive(id)

Destroy ==
  \E id \in issued :
    /\ ~halted
    /\ Removable(id)
    /\ alive' = [alive EXCEPT ![id.index] = FALSE]
    /\ next_free' = [next_free EXCEPT ![id.index] = first_free]
    /\ first_free' = id.index
    /\ present' = present \ {id}
    /\ UNCHANGED <<generation, max_index, halted, issued, cursor, visited>>

-----------------------------------------------------------------------------
(* foreach_actor: actors_begin, actors_has_next, actors_next *)

IdAt(i) == [index |-> i, gen |-> generation[i]]

(* actors_next stops at the next living slot after i, or past the last. *)
NextIndex_Twice(i) ==   \* mutant: the index is advanced once too often
  {j \in i + 1 .. max_index : /\ j = max_index \/ (alive[j] /\ j > i + 1)
                              /\ \A k \in i + 2 .. j - 1 : ~alive[k]}
NextIndex(i) ==
  {j \in i + 1 .. max_index : /\ j = max_index \/ alive[j]
                              /\ \A k \in i + 1 .. j - 1 : ~alive[k]}

(* The loop goes on from slot i; has_next tells whether its body runs again. *)
Advance(i, seen) ==
  \E j \in NextIndex(i) :
    IF j < max_index
    THEN cursor' = j /\ visited' = seen \cup {IdAt(j)}
    ELSE cursor' = 0 /\ visited' = seen

BeginLoop ==
  /\ ~halted
  /\ cursor = 0
  /\ present' = {IdAt(i) : i \in {k \in Indices : alive[k]}}
  /\ Advance(0, {})
  /\ UNCHANGED <<poolVars, halted, issued>>

NextLoop ==
  /\ ~halted
  /\ cursor # 0
  /\ Advance(cursor, visited)
  /\ UNCHANGED <<poolVars, halted, issued, present>>

Next == Create \/ CreateInFull \/ Destroy \/ BeginLoop \/ NextLoop

Spec == Init /\ [][Next]_vars

-----------------------------------------------------------------------------
(* Properties *)

FreeSlots == {i \in 1 .. max_index - 1 : ~alive[i]}

(* s runs through the free list, and through every slot that is free, once. *)
Chain(s, n) ==
  /\ \A k, l \in 1 .. n : s[k] = s[l] => k = l
  /\ \A i \in FreeSlots : \E k \in 1 .. n : s[k] = i
  /\ first_free = IF n = 0 THEN 0 ELSE s[1]
  /\ \A k \in 1 .. n : next_free[s[k]] = IF k = n THEN 0 ELSE s[k + 1]

(***************************************************************************)
(* The free list holds exactly the removed slots, each once, and ends:     *)
(* after any sequence of creations and destructions, by stale handles too, *)
(* no slot is lost and none is given out while it is in use.               *)
(***************************************************************************)
FreeListExact ==
  \E s \in [1 .. Cardinality(FreeSlots) -> FreeSlots] : Chain(s, Cardinality(FreeSlots))

(***************************************************************************)
(* foreach_actor gives each body a living actor it has not yet been given, *)
(* and by its end it has given every actor that lived from the loop's      *)
(* beginning to its end, whatever its bodies created and destroyed.        *)
(***************************************************************************)
LoopVisitsEachOnce ==
  [][/\ cursor' \notin {0, cursor} =>
          IdAt(cursor') \notin (IF cursor = 0 THEN {} ELSE visited) /\ alive[cursor']
     /\ cursor # 0 /\ cursor' = 0 => present \subseteq visited]_vars

(* A handle resolves while it is alive. *)
live == {id \in issued : is_alive(id)}

Pool == INSTANCE Registry WITH Handles <- ActorId

(* Stale handles never find another actor: the pool implements Registry. *)
ImplementsRegistry == Pool!Spec
=============================================================================
