---------------------------- MODULE ActorsProofs -----------------------------
(***************************************************************************)
(* Proofs, for every size of the pool and every width of a generation,     *)
(* that the free list of the actor pool is exact and that the pool keeps   *)
(* the promise of Registry: a stale handle never finds another actor.      *)
(***************************************************************************)
EXTENDS Actors, Integers, FiniteSetTheorems, TLAPS

(* The loop neither reads nor writes what the rest of the pool depends on. *)
PoolTypes ==
  /\ generation \in [Indices -> 0 .. MaxGeneration]
  /\ next_free \in [Indices -> Indices]
  /\ alive \in [Indices -> BOOLEAN]
  /\ first_free \in Indices
  /\ max_index \in 1 .. ACTOR_COUNT
  /\ halted \in BOOLEAN
  /\ issued \subseteq ActorId

(* Only slots between the reserved one and the first unused one are alive. *)
AliveInUse == \A i \in Indices : alive[i] => i \in 1 .. max_index - 1

(* A slot's generation only grows past those of the handles issued for it. *)
IssuedBefore == \A id \in issued : id.gen <= generation[id.index]

(* The inductive invariant: the chain is exact because a slot that is taken from
   it is dead, and that slot's next handle is new because generations only grow. *)
PoolInv == PoolTypes /\ FreeListExact /\ AliveInUse /\ IssuedBefore

(* There are finitely many free slots, and the reserved one is not among them. *)
LEMMA FreeSlotsFinite ==
  ASSUME PoolTypes
  PROVE  /\ IsFiniteSet(FreeSlots)
         /\ Cardinality(FreeSlots) \in Nat
         /\ FreeSlots \subseteq Indices \ {0}
<1>1. IsFiniteSet(1 .. max_index - 1)
  BY FS_Interval DEF PoolTypes
<1>2. FreeSlots \subseteq 1 .. max_index - 1
  BY DEF FreeSlots
<1>3. IsFiniteSet(FreeSlots)
  BY <1>1, <1>2, FS_Subset
<1> QED
  BY <1>2, <1>3, FS_CardinalityType, ActorsAssumption DEF PoolTypes, Indices

-----------------------------------------------------------------------------
(* The free list *)

(* Taking the head of the free list leaves its tail. *)
LEMMA PopKeepsChain ==
  ASSUME PoolInv, NEW i \in Indices, PopFree(i), alive' = [alive EXCEPT ![i] = TRUE]
  PROVE  FreeListExact' /\ ~alive[i] /\ i \in 1 .. max_index - 1
<1>0. PICK F, n : F = FreeSlots /\ n = Cardinality(FreeSlots)
  OBVIOUS
<1>1. IsFiniteSet(F) /\ n \in Nat /\ F \subseteq Indices \ {0}
  BY <1>0, FreeSlotsFinite DEF PoolInv
<1>2. PICK s \in [1 .. n -> F] : Chain(s, n)
  BY <1>0 DEF PoolInv, FreeListExact
<1>3. n > 0 /\ i = s[1] /\ i \in F
  BY <1>1, <1>2 DEF Chain, PopFree
<1>4. FreeSlots' = F \ {i}
  <2>1. /\ max_index' = max_index
        /\ \A j \in 1 .. max_index - 1 : j \in Indices
    BY ActorsAssumption DEF PopFree, PoolInv, PoolTypes, Indices
  <2>2. \A j \in 1 .. max_index - 1 : ~alive'[j] <=> ~alive[j] /\ j # i
    BY <2>1 DEF PoolInv, PoolTypes
  <2> QED
    BY <1>0, <2>1, <2>2 DEF FreeSlots
<1>5. Cardinality(FreeSlots') = n - 1
  BY <1>0, <1>1, <1>3, <1>4, FS_RemoveElement
<1> DEFINE t == [k \in 1 .. n - 1 |-> s[k + 1]]
<1>6. t \in [1 .. n - 1 -> FreeSlots']
  BY <1>1, <1>2, <1>3, <1>4 DEF Chain
<1>7. Chain(t, n - 1)'
  <2>1. \A k, l \in 1 .. n - 1 : t[k] = t[l] => k = l
    BY <1>1, <1>2 DEF Chain
  <2>2. \A j \in FreeSlots' : \E k \in 1 .. n - 1 : t[k] = j
    <3> TAKE j \in FreeSlots'
    <3>1. PICK k \in 1 .. n : s[k] = j
      BY <1>0, <1>2, <1>4 DEF Chain
    <3>2. k # 1
      BY <3>1, <1>3, <1>4
    <3>3. k - 1 \in 1 .. n - 1 /\ t[k - 1] = j
      BY <3>1, <3>2, <1>1
    <3> QED
      BY <3>3
  <2>3. first_free' = IF n - 1 = 0 THEN 0 ELSE t[1]
    BY <1>1, <1>2, <1>3 DEF Chain, PopFree
  <2>4. \A k \in 1 .. n - 1 : next_free'[t[k]] = IF k = n - 1 THEN 0 ELSE t[k + 1]
    <3> TAKE k \in 1 .. n - 1
    <3>1. k + 1 \in 1 .. n /\ t[k] = s[k + 1] /\ t[k] # i /\ t[k] \in Indices
      BY <1>1, <1>2, <1>3 DEF Chain
    <3>2. next_free'[t[k]] = next_free[s[k + 1]]
      BY <3>1 DEF PopFree, PoolInv, PoolTypes
    <3>3. next_free[s[k + 1]] = IF k + 1 = n THEN 0 ELSE s[k + 2]
      BY <3>1, <1>1, <1>2 DEF Chain
    <3> QED
      BY <3>2, <3>3, <1>1
  <2> QED
    BY <2>1, <2>2, <2>3, <2>4 DEF Chain
<1> QED
  <2>1. FreeListExact'
    BY <1>5, <1>6, <1>7 DEF FreeListExact
  <2>2. ~alive[i] /\ i \in 1 .. max_index - 1
    BY <1>0, <1>3 DEF FreeSlots
  <2> QED
    BY <2>1, <2>2

(* A slot that was never used does not touch the free list. *)
LEMMA FreshKeepsChain ==
  ASSUME PoolInv, NEW i \in Indices, UseFresh(i), alive' = [alive EXCEPT ![i] = TRUE]
  PROVE  FreeListExact'
<1>1. FreeSlots' = FreeSlots
  BY DEF FreeSlots, UseFresh, PoolInv, PoolTypes, AliveInUse
<1>2. PICK n : n = Cardinality(FreeSlots)
  OBVIOUS
<1>3. PICK s \in [1 .. n -> FreeSlots] : Chain(s, n)
  BY <1>2 DEF PoolInv, FreeListExact
<1>4. Chain(s, n)'
  BY <1>1, <1>3 DEF Chain, UseFresh
<1> QED
  BY <1>1, <1>2, <1>3, <1>4 DEF FreeListExact

(* A removed slot becomes the head of the free list. *)
LEMMA DestroyKeepsChain ==
  ASSUME PoolInv, Destroy
  PROVE  FreeListExact'
<1>0. PICK F, n : F = FreeSlots /\ n = Cardinality(FreeSlots)
  OBVIOUS
<1>1. IsFiniteSet(F) /\ n \in Nat /\ F \subseteq Indices \ {0}
  BY <1>0, FreeSlotsFinite DEF PoolInv
<1>2. PICK s \in [1 .. n -> F] : Chain(s, n)
  BY <1>0 DEF PoolInv, FreeListExact
<1>3. PICK id \in issued :
        /\ is_alive(id)
        /\ alive' = [alive EXCEPT ![id.index] = FALSE]
        /\ next_free' = [next_free EXCEPT ![id.index] = first_free]
        /\ first_free' = id.index
        /\ max_index' = max_index
  BY DEF Destroy, Removable
<1> DEFINE d == id.index
<1>4. d \in Indices /\ alive[d] /\ d \in 1 .. max_index - 1 /\ d \notin F
  BY <1>0, <1>3 DEF is_alive, PoolInv, PoolTypes, AliveInUse, ActorId, FreeSlots
<1>5. FreeSlots' = F \cup {d}
  BY <1>0, <1>3, <1>4 DEF FreeSlots, PoolInv, PoolTypes, Indices
<1>6. Cardinality(FreeSlots') = n + 1
  BY <1>0, <1>1, <1>4, <1>5, FS_AddElement
<1> DEFINE t == [k \in 1 .. n + 1 |-> IF k = 1 THEN d ELSE s[k - 1]]
<1> HIDE DEF d
<1>7. t \in [1 .. n + 1 -> FreeSlots']
  BY <1>1, <1>2, <1>5
<1>8. Chain(t, n + 1)'
  <2>1. \A k, l \in 1 .. n + 1 : t[k] = t[l] => k = l
    BY <1>1, <1>2, <1>4 DEF Chain
  <2>2. \A j \in FreeSlots' : \E k \in 1 .. n + 1 : t[k] = j
    <3> TAKE j \in FreeSlots'
    <3>1. CASE j = d
      <4>1. 1 \in 1 .. n + 1 /\ t[1] = j
        BY <3>1, <1>1
      <4> QED
        BY <4>1
    <3>2. CASE j # d
      <4>1. PICK k \in 1 .. n : s[k] = j
        BY <3>2, <1>0, <1>2, <1>5 DEF Chain
      <4>2. k + 1 \in 1 .. n + 1 /\ t[k + 1] = j
        BY <4>1, <1>1
      <4> QED
        BY <4>2
    <3> QED
      BY <3>1, <3>2
  <2>3. first_free' = IF n + 1 = 0 THEN 0 ELSE t[1]
    BY <1>1, <1>3 DEF d
  <2>4. \A k \in 1 .. n + 1 : next_free'[t[k]] = IF k = n + 1 THEN 0 ELSE t[k + 1]
    <3> TAKE k \in 1 .. n + 1
    <3>1. CASE k = 1
      <4>1. next_free'[t[k]] = first_free
        BY <3>1, <1>1, <1>3, <1>4 DEF d, PoolInv, PoolTypes
      <4>2. first_free = IF n = 0 THEN 0 ELSE s[1]
        BY <1>2 DEF Chain
      <4> QED
        BY <3>1, <4>1, <4>2, <1>1
    <3>2. CASE k # 1
      <4>1. k - 1 \in 1 .. n /\ t[k] = s[k - 1] /\ s[k - 1] \in F /\ s[k - 1] # d
        BY <3>2, <1>1, <1>2, <1>4
      <4>2. next_free'[t[k]] = next_free[s[k - 1]]
        BY <4>1, <1>1, <1>3 DEF d, PoolInv, PoolTypes
      <4>3. next_free[s[k - 1]] = IF k - 1 = n THEN 0 ELSE s[k]
        BY <4>1, <1>1, <1>2 DEF Chain
      <4> QED
        BY <4>2, <4>3, <3>2, <1>1
    <3> QED
      BY <3>1, <3>2
  <2> QED
    BY <2>1, <2>2, <2>3, <2>4 DEF Chain
<1> QED
  BY <1>6, <1>7, <1>8 DEF FreeListExact

-----------------------------------------------------------------------------
(* The invariant *)

LEMMA PoolInit == Init => PoolInv
<1> SUFFICES ASSUME Init PROVE PoolInv
  OBVIOUS
<1>1. PoolTypes
  <2>1. 0 \in Indices /\ 1 \in 1 .. ACTOR_COUNT /\ 0 \in 0 .. MaxGeneration
    BY ActorsAssumption DEF Indices
  <2> QED
    BY <2>1 DEF Init, FirstIndex, PoolTypes
<1>2. FreeSlots = {}
  BY DEF Init, FirstIndex, FreeSlots
<1>3. Cardinality(FreeSlots) = 0
  BY <1>2, FS_EmptySet
<1>4. PICK s \in [1 .. 0 -> FreeSlots] : TRUE
  <2>1. [k \in 1 .. 0 |-> 0] \in [1 .. 0 -> FreeSlots]
    OBVIOUS
  <2> QED
    BY <2>1
<1>5. Chain(s, 0)
  BY <1>2 DEF Chain, Init
<1>6. FreeListExact
  BY <1>3, <1>4, <1>5 DEF FreeListExact
<1>7. AliveInUse /\ IssuedBefore
  BY DEF Init, AliveInUse, IssuedBefore
<1> QED
  BY <1>1, <1>6, <1>7 DEF PoolInv

(* What Create does to slot i, which was dead, and to the handle it returns. *)
LEMMA CreateTakesDeadSlot ==
  ASSUME PoolInv, NEW i \in Indices, PopFree(i) \/ UseFresh(i),
         alive' = [alive EXCEPT ![i] = TRUE]
  PROVE  /\ FreeListExact'
         /\ ~alive[i] /\ i \in 1 .. max_index' - 1
         /\ max_index' \in max_index .. ACTOR_COUNT
         /\ next_free' \in [Indices -> Indices] /\ first_free' \in Indices
<1>0. i \in Int /\ i < ACTOR_COUNT /\ ACTOR_COUNT \in Nat /\ 0 \in Indices
  BY ActorsAssumption DEF Indices
<1>1. CASE PopFree(i)
  <2>1. FreeListExact' /\ ~alive[i] /\ i \in 1 .. max_index - 1
    BY <1>1, PopKeepsChain
  <2>2. max_index' = max_index /\ max_index \in 1 .. ACTOR_COUNT
    BY <1>1 DEF PopFree, PoolInv, PoolTypes
  <2>3. next_free' \in [Indices -> Indices] /\ first_free' \in Indices
    BY <1>0, <1>1 DEF PopFree, PoolInv, PoolTypes
  <2> QED
    BY <1>0, <2>1, <2>2, <2>3
<1>2. CASE UseFresh(i)
  <2>1. i = max_index /\ max_index' = max_index + 1 /\ max_index \in 1 .. ACTOR_COUNT
    BY <1>2 DEF UseFresh, PoolInv, PoolTypes
  <2>2. ~alive[i]
    BY <2>1 DEF PoolInv, AliveInUse
  <2>3. next_free' \in [Indices -> Indices] /\ first_free' \in Indices
    BY <1>2 DEF UseFresh, PoolInv, PoolTypes
  <2>4. FreeListExact'
    BY <1>2, FreshKeepsChain
  <2>5. i \in 1 .. max_index' - 1 /\ max_index' \in max_index .. ACTOR_COUNT
    BY <1>0, <2>1
  <2> QED
    BY <2>2, <2>3, <2>4, <2>5
<1> QED
  BY <1>1, <1>2

(* A slot in use stays in use when max_index grows. *)
LEMMA IntervalGrows ==
  ASSUME NEW m \in Int, NEW n \in Int, m <= n, NEW k \in 1 .. m - 1
  PROVE  k \in 1 .. n - 1
  OBVIOUS

(* actors_push and actor_create_opt keep the invariant. *)
LEMMA CreateKeepsPool ==
  ASSUME PoolInv, Create
  PROVE  PoolInv'
<1>1. PICK i \in Indices :
        /\ generation[i] < MaxGeneration
        /\ PopFree(i) \/ UseFresh(i)
        /\ generation' = [generation EXCEPT ![i] = @ + 1]
        /\ alive' = [alive EXCEPT ![i] = TRUE]
        /\ \/ /\ NewId(i).gen = generation[i] + 1
              /\ issued' = issued \cup {NewId(i)}
              /\ halted' = halted
           \/ halted' = TRUE /\ issued' = issued
  BY DEF Create
<1>2. /\ FreeListExact'
      /\ ~alive[i] /\ i \in 1 .. max_index' - 1
      /\ max_index' \in max_index .. ACTOR_COUNT
      /\ next_free' \in [Indices -> Indices] /\ first_free' \in Indices
  BY <1>1, CreateTakesDeadSlot
<1>3. NewId(i) \in ActorId
  BY ActorsAssumption DEF NewId, ActorId, PoolInv, PoolTypes
<1>4. PoolTypes'
  <2>1. generation' \in [Indices -> 0 .. MaxGeneration]
    BY <1>1, ActorsAssumption DEF PoolInv, PoolTypes
  <2>2. alive' \in [Indices -> BOOLEAN] /\ halted' \in BOOLEAN
    BY <1>1 DEF PoolInv, PoolTypes
  <2>3. issued' \subseteq ActorId
    BY <1>1, <1>3 DEF PoolInv, PoolTypes
  <2>4. max_index' \in 1 .. ACTOR_COUNT
    BY <1>2 DEF PoolInv, PoolTypes
  <2> QED
    BY <1>2, <2>1, <2>2, <2>3, <2>4 DEF PoolTypes
<1>5. AliveInUse'
  <2> SUFFICES ASSUME NEW k \in Indices, alive'[k] PROVE k \in 1 .. max_index' - 1
    BY DEF AliveInUse
  <2>1. CASE k = i
    BY <1>2, <2>1
  <2>2. CASE k # i
    <3>1. alive[k]
      BY <1>1, <2>2 DEF PoolInv, PoolTypes
    <3>2. k \in 1 .. max_index - 1
      BY <3>1 DEF PoolInv, AliveInUse
    <3>3. max_index \in Int
      BY DEF PoolInv, PoolTypes
    <3>4. max_index' \in Int /\ max_index <= max_index'
      BY <1>2, <3>3, ActorsAssumption
    <3> QED
      BY <3>2, <3>3, <3>4, IntervalGrows
  <2> QED
    BY <2>1, <2>2
<1>6. \A id \in issued : id.gen <= generation'[id.index]
  BY <1>1, ActorsAssumption DEF PoolInv, PoolTypes, IssuedBefore, ActorId
<1>7. IssuedBefore'
  BY <1>1, <1>6, ActorsAssumption DEF IssuedBefore, NewId, PoolInv, PoolTypes
<1> QED
  BY <1>2, <1>4, <1>5, <1>7 DEF PoolInv

LEMMA DestroyKeepsPool ==
  ASSUME PoolInv, Destroy
  PROVE  PoolInv'
<1>1. PICK id \in issued :
        /\ alive' = [alive EXCEPT ![id.index] = FALSE]
        /\ next_free' = [next_free EXCEPT ![id.index] = first_free]
        /\ first_free' = id.index
        /\ UNCHANGED <<generation, max_index, halted, issued>>
  BY DEF Destroy
<1>2. id.index \in Indices
  BY DEF PoolInv, PoolTypes, ActorId
<1>3. PoolTypes' /\ AliveInUse' /\ IssuedBefore'
  BY <1>1, <1>2 DEF PoolInv, PoolTypes, AliveInUse, IssuedBefore
<1> QED
  BY <1>3, DestroyKeepsChain DEF PoolInv

(* One step per action; the loop and a failed assertion leave the pool alone. *)
LEMMA PoolStep ==
  ASSUME PoolInv, [Next]_vars
  PROVE  PoolInv'
<1>1. ASSUME UNCHANGED <<poolVars, issued>>, halted' \in BOOLEAN
      PROVE  PoolInv'
  <2>1. PoolTypes' /\ AliveInUse' /\ IssuedBefore'
    BY <1>1 DEF poolVars, PoolInv, PoolTypes, AliveInUse, IssuedBefore
  <2>2. FreeSlots' = FreeSlots
    BY <1>1 DEF poolVars, FreeSlots
  <2>3. PICK n : n = Cardinality(FreeSlots)
    OBVIOUS
  <2>4. PICK s \in [1 .. n -> FreeSlots] : Chain(s, n)
    BY <2>3 DEF PoolInv, FreeListExact
  <2>5. Chain(s, n)'
    BY <1>1, <2>2, <2>4 DEF Chain, poolVars
  <2>6. FreeListExact'
    BY <2>2, <2>3, <2>4, <2>5 DEF FreeListExact
  <2> QED
    BY <2>1, <2>6 DEF PoolInv
<1>2. ASSUME CreateInFull \/ BeginLoop \/ NextLoop \/ UNCHANGED vars
      PROVE  PoolInv'
  <2>1. UNCHANGED <<poolVars, issued>> /\ halted' \in BOOLEAN
    BY <1>2 DEF CreateInFull, BeginLoop, NextLoop, vars, PoolInv, PoolTypes
  <2> QED
    BY <2>1, <1>1
<1> QED
  BY <1>2, CreateKeepsPool, DestroyKeepsPool DEF Next

(***************************************************************************)
(* In a pool of any size the free list holds exactly the removed slots     *)
(* (actors.c actors_push, actors_remove).                                  *)
(***************************************************************************)
THEOREM FreeListCorrect == Spec => []FreeListExact
<1>1. PoolInv => FreeListExact
  BY DEF PoolInv
<1> QED
  BY <1>1, PoolInit, PoolStep, PTL DEF Spec

-----------------------------------------------------------------------------
(* Refinement of Registry *)

(* A handle issued earlier stays what it was: its slot's generation has passed it. *)
LEMMA CreateImplementsIssue ==
  ASSUME PoolInv, Create
  PROVE  [Pool!Next]_<<issued, live>>
<1>1. PICK i \in Indices :
        /\ PopFree(i) \/ UseFresh(i)
        /\ generation' = [generation EXCEPT ![i] = @ + 1]
        /\ alive' = [alive EXCEPT ![i] = TRUE]
        /\ \/ /\ NewId(i).gen = generation[i] + 1
              /\ issued' = issued \cup {NewId(i)}
           \/ issued' = issued
  BY DEF Create
<1>2. ~alive[i]
  BY <1>1, CreateTakesDeadSlot
<1>3. generation[i] \in Nat /\ generation'[i] = generation[i] + 1
  BY <1>1 DEF PoolInv, PoolTypes
<1>4. \A id \in issued : id.index = i => ~is_alive(id) /\ ~is_alive(id)' /\ id.gen <= generation[i]
  <2> TAKE id \in issued
  <2> HAVE id.index = i
  <2>1. id.gen \in Nat /\ id.gen <= generation[i]
    BY DEF PoolInv, PoolTypes, IssuedBefore, ActorId
  <2> QED
    BY <2>1, <1>2, <1>3 DEF is_alive
<1>5. \A id \in issued : id.index # i => (is_alive(id)' <=> is_alive(id))
  BY <1>1 DEF is_alive, PoolInv, PoolTypes, ActorId
<1>6. \A id \in issued : is_alive(id)' <=> is_alive(id)
  BY <1>4, <1>5
<1>7. CASE NewId(i).gen = generation[i] + 1 /\ issued' = issued \cup {NewId(i)}
  <2>0. PICK id : id = NewId(i)
    OBVIOUS
  <2>1. id \in ActorId /\ id.index = i /\ id.gen = generation[i] + 1
    BY ActorsAssumption, <1>3, <1>7, <2>0 DEF NewId, ActorId
  <2>2. id \notin issued
    BY <1>3, <1>4, <2>1
  <2>3. is_alive(id)'
    BY <1>1, <1>3, <2>1 DEF is_alive, PoolInv, PoolTypes
  <2>4. live' = live \cup {id} /\ issued' = issued \cup {id}
    BY <1>6, <1>7, <2>0, <2>3 DEF live
  <2> QED
    BY <2>1, <2>2, <2>4 DEF Pool!Next, Pool!Issue
<1>8. CASE issued' = issued
  BY <1>6, <1>8 DEF live
<1> QED
  BY <1>1, <1>7, <1>8

(* actors_remove revokes the handle it is given, and no other. *)
LEMMA DestroyImplementsRevoke ==
  ASSUME PoolInv, Destroy
  PROVE  [Pool!Next]_<<issued, live>>
<1>1. PICK id \in issued :
        /\ is_alive(id)
        /\ alive' = [alive EXCEPT ![id.index] = FALSE]
        /\ UNCHANGED <<generation, issued>>
  BY DEF Destroy, Removable
<1>2. id \in ActorId /\ id \in live
  BY <1>1 DEF PoolInv, PoolTypes, live
<1>3. ~is_alive(id)'
  BY <1>1, <1>2 DEF is_alive, PoolInv, PoolTypes, ActorId
<1>4. \A h \in issued : h # id => (is_alive(h)' <=> is_alive(h))
  <2> TAKE h \in issued
  <2> HAVE h # id
  <2>1. h \in ActorId
    BY DEF PoolInv, PoolTypes
  <2>2. CASE h.index = id.index
    <3>1. h.gen # id.gen
      BY <2>1, <2>2, <1>2 DEF ActorId
    <3> QED
      BY <3>1, <2>2, <1>1 DEF is_alive
  <2>3. CASE h.index # id.index
    BY <2>1, <2>3, <1>1, <1>2 DEF is_alive, PoolInv, PoolTypes, ActorId
  <2> QED
    BY <2>2, <2>3
<1>5. live' = live \ {id}
  BY <1>1, <1>3, <1>4 DEF live
<1> QED
  BY <1>1, <1>2, <1>5 DEF Pool!Next, Pool!Revoke

(***************************************************************************)
(* A pool of any size implements Registry: whatever is created and         *)
(* destroyed, by stale handles too, a handle finds the actor it was issued *)
(* for or none (actors.c is_alive, actors_push, actors_remove).            *)
(***************************************************************************)
THEOREM PoolImplementsRegistry == Spec => ImplementsRegistry
<1>1. Init => Pool!Init
  BY DEF Init, Pool!Init, live
<1>2. PoolInv /\ [Next]_vars => [Pool!Next]_<<issued, live>>
  <2> SUFFICES ASSUME PoolInv, [Next]_vars
               PROVE  [Pool!Next]_<<issued, live>>
    OBVIOUS
  <2>1. ASSUME CreateInFull \/ BeginLoop \/ NextLoop \/ UNCHANGED vars
        PROVE  UNCHANGED <<issued, live>>
    BY <2>1 DEF CreateInFull, BeginLoop, NextLoop, vars, poolVars, live, is_alive
  <2> QED
    BY <2>1, CreateImplementsIssue, DestroyImplementsRevoke DEF Next
<1> QED
  BY <1>1, <1>2, PoolInit, PoolStep, PTL DEF Spec, ImplementsRegistry, Pool!Spec

-----------------------------------------------------------------------------
(* The foreach_actor loop *)

Ids == [index : Indices, gen : 0 .. MaxGeneration]

LoopTypes ==
  /\ cursor \in 0 .. ACTOR_COUNT
  /\ visited \subseteq Ids /\ present \subseteq Ids

(* What lived ever since the loop began lives, and in the slots up to the cursor
   it has been visited; nothing has been visited beyond.  A body that creates an
   actor takes a dead slot, wherever that is, so that this does not concern it. *)
LoopKept ==
  cursor # 0 =>
    /\ cursor < max_index
    /\ \A id \in visited : id.index <= cursor
    /\ \A id \in present : is_alive(id) /\ (id.index <= cursor => id \in visited)

LoopInv == PoolInv /\ LoopTypes /\ LoopKept

(* Where the loop goes on from slot i: to the next living slot, all between being
   dead, or past the last. *)
LEMMA AdvanceSteps ==
  ASSUME PoolInv, NEW i \in 0 .. max_index - 1, NEW seen, seen \subseteq Ids, Advance(i, seen)
  PROVE  \/ /\ cursor' \in Indices /\ cursor' \in i + 1 .. max_index - 1
            /\ alive[cursor'] /\ \A k \in i + 1 .. cursor' - 1 : ~alive[k]
            /\ visited' = seen \cup {IdAt(cursor')} /\ visited' \subseteq Ids
         \/ /\ cursor' = 0 /\ visited' = seen
            /\ \A k \in i + 1 .. max_index - 1 : ~alive[k]
<1>1. max_index \in 1 .. ACTOR_COUNT /\ ACTOR_COUNT \in Nat /\ i \in Int
  BY ActorsAssumption DEF PoolInv, PoolTypes
<1>2. PICK j \in NextIndex(i) :
        IF j < max_index THEN cursor' = j /\ visited' = seen \cup {IdAt(j)}
        ELSE cursor' = 0 /\ visited' = seen
  BY DEF Advance
<1>3. /\ j \in i + 1 .. max_index /\ (j = max_index \/ alive[j])
      /\ \A k \in i + 1 .. j - 1 : ~alive[k]
  BY <1>2 DEF NextIndex
<1>4. CASE j < max_index
  <2>1. j \in i + 1 .. max_index - 1 /\ j \in Indices
    BY <1>1, <1>3, <1>4 DEF Indices
  <2>2. IdAt(j) \in Ids
    BY <2>1 DEF IdAt, Ids, PoolInv, PoolTypes
  <2>3. alive[j] /\ cursor' = j /\ visited' = seen \cup {IdAt(j)}
    BY <1>1, <1>2, <1>3, <1>4
  <2> QED
    BY <1>3, <2>1, <2>2, <2>3
<1>5. CASE ~(j < max_index)
  <2>1. j = max_index
    BY <1>1, <1>3, <1>5
  <2> QED
    BY <1>2, <1>3, <1>5, <2>1
<1> QED
  BY <1>4, <1>5

(* Bodies and others create and destroy while the loop stands at its cursor. *)
LEMMA CreateKeepsLoop ==
  ASSUME LoopInv, Create
  PROVE  LoopTypes' /\ LoopKept'
<1>1. PICK i \in Indices :
        /\ PopFree(i) \/ UseFresh(i)
        /\ generation' = [generation EXCEPT ![i] = @ + 1]
        /\ alive' = [alive EXCEPT ![i] = TRUE]
        /\ UNCHANGED loopVars
  BY DEF Create
<1>2. ~alive[i] /\ max_index' \in max_index .. ACTOR_COUNT
  BY <1>1, CreateTakesDeadSlot DEF LoopInv
<1>3. LoopTypes'
  BY <1>1 DEF loopVars, LoopInv, LoopTypes
<1>4. ASSUME NEW id \in Ids, is_alive(id)
      PROVE  is_alive(id)'
  <2>1. id.index \in Indices /\ id.index # i
    BY <1>2, <1>4 DEF is_alive, Ids
  <2> QED
    BY <1>1, <1>4, <2>1 DEF is_alive, LoopInv, PoolInv, PoolTypes
<1>5. cursor # 0 => cursor < max_index'
  BY <1>2, ActorsAssumption DEF LoopInv, LoopKept, LoopTypes, PoolInv, PoolTypes
<1> QED
  BY <1>1, <1>3, <1>4, <1>5 DEF loopVars, LoopInv, LoopTypes, LoopKept

LEMMA DestroyKeepsLoop ==
  ASSUME LoopInv, Destroy
  PROVE  LoopTypes' /\ LoopKept'
<1>1. PICK id \in issued :
        /\ is_alive(id)
        /\ alive' = [alive EXCEPT ![id.index] = FALSE]
        /\ present' = present \ {id}
        /\ UNCHANGED <<generation, max_index, cursor, visited>>
  BY DEF Destroy, Removable
<1>2. id \in ActorId
  BY DEF LoopInv, PoolInv, PoolTypes
<1>3. LoopTypes'
  BY <1>1 DEF LoopInv, LoopTypes
<1>4. ASSUME NEW p \in present', is_alive(p)
      PROVE  is_alive(p)'
  <2>1. p \in Ids /\ p # id
    BY <1>1, <1>4 DEF LoopInv, LoopTypes
  <2>2. p.index # id.index
    BY <1>1, <1>2, <1>4, <2>1 DEF is_alive, Ids, ActorId
  <2> QED
    BY <1>1, <1>2, <1>4, <2>1, <2>2 DEF is_alive, Ids, LoopInv, PoolInv, PoolTypes
<1> QED
  BY <1>1, <1>3, <1>4 DEF LoopInv, LoopKept

LEMMA BeginKeepsLoop ==
  ASSUME LoopInv, BeginLoop
  PROVE  LoopTypes' /\ LoopKept'
<1>0. PoolInv /\ UNCHANGED poolVars
  BY DEF LoopInv, BeginLoop
<1>1. /\ max_index \in 1 .. ACTOR_COUNT /\ ACTOR_COUNT \in Nat
      /\ 0 \in 0 .. max_index - 1 /\ 0 \in Indices
  BY <1>0, ActorsAssumption DEF PoolInv, PoolTypes, Indices
<1>2. /\ present' \subseteq Ids
      /\ \A id \in present' : is_alive(id) /\ id.index \in 1 .. max_index - 1
  <2> SUFFICES ASSUME NEW k \in Indices, alive[k]
               PROVE  IdAt(k) \in Ids /\ is_alive(IdAt(k)) /\ IdAt(k).index \in 1 .. max_index - 1
    BY DEF BeginLoop
  <2> QED
    BY <1>0 DEF IdAt, Ids, is_alive, PoolInv, PoolTypes, AliveInUse
<1>3. \A id \in present' : is_alive(id)'
  BY <1>0, <1>2 DEF is_alive, poolVars
<1>4. \/ /\ cursor' \in Indices /\ cursor' \in 0 + 1 .. max_index - 1
         /\ alive[cursor'] /\ \A k \in 0 + 1 .. cursor' - 1 : ~alive[k]
         /\ visited' = {} \cup {IdAt(cursor')} /\ visited' \subseteq Ids
      \/ /\ cursor' = 0 /\ visited' = {}
  BY <1>0, <1>1, AdvanceSteps DEF BeginLoop
<1>5. LoopTypes'
  BY <1>1, <1>2, <1>4 DEF LoopTypes, Indices
<1>6. ASSUME cursor' # 0
      PROVE  /\ cursor' < max_index'
             /\ \A id \in visited' : id.index <= cursor'
             /\ \A id \in present' : id.index <= cursor' => id \in visited'
  <2>1. cursor' < max_index'
    BY <1>0, <1>1, <1>4, <1>6 DEF poolVars
  <2>2. \A id \in visited' : id.index <= cursor'
    BY <1>1, <1>4, <1>6 DEF IdAt
  <2>3. ASSUME NEW id \in present', id.index <= cursor'
        PROVE  id \in visited'
    <3>1. id \in Ids /\ alive[id.index] /\ id.index \in 1 .. max_index - 1
      BY <1>2, <2>3 DEF is_alive
    <3>2. id.index = cursor'
      BY <1>1, <1>4, <1>6, <2>3, <3>1
    <3>3. id = IdAt(cursor')
      BY <1>2, <3>1, <3>2 DEF IdAt, Ids, is_alive
    <3> QED
      BY <1>4, <1>6, <3>3
  <2> QED
    BY <2>1, <2>2, <2>3
<1> QED
  BY <1>3, <1>5, <1>6 DEF LoopKept

LEMMA NextKeepsLoop ==
  ASSUME LoopInv, NextLoop
  PROVE  LoopTypes' /\ LoopKept'
<1>0. PoolInv /\ UNCHANGED poolVars /\ present' = present /\ cursor # 0
  BY DEF LoopInv, NextLoop
<1>1. /\ max_index \in 1 .. ACTOR_COUNT /\ ACTOR_COUNT \in Nat /\ cursor \in Nat
      /\ cursor \in 0 .. max_index - 1 /\ visited \subseteq Ids /\ present \subseteq Ids
  BY <1>0, ActorsAssumption DEF LoopInv, LoopTypes, LoopKept, PoolInv, PoolTypes
<1>2. \/ /\ cursor' \in Indices /\ cursor' \in cursor + 1 .. max_index - 1
         /\ alive[cursor'] /\ \A k \in cursor + 1 .. cursor' - 1 : ~alive[k]
         /\ visited' = visited \cup {IdAt(cursor')} /\ visited' \subseteq Ids
      \/ /\ cursor' = 0 /\ visited' = visited
  BY <1>0, <1>1, AdvanceSteps DEF NextLoop
<1>3. LoopTypes'
  BY <1>0, <1>1, <1>2 DEF LoopTypes, Indices
<1>4. \A id \in present' : is_alive(id) /\ is_alive(id)'
  BY <1>0 DEF LoopInv, LoopKept, is_alive, poolVars
<1>5. ASSUME cursor' # 0
      PROVE  /\ cursor' < max_index'
             /\ \A id \in visited' : id.index <= cursor'
             /\ \A id \in present' : id.index <= cursor' => id \in visited'
  <2>1. cursor' < max_index' /\ cursor < cursor' /\ cursor' \in Nat
    BY <1>0, <1>1, <1>2, <1>5 DEF poolVars
  <2>2. ASSUME NEW id \in visited'
        PROVE  id.index <= cursor'
    <3>1. CASE id \in visited
      <4>1. id.index <= cursor /\ id.index \in Int
        BY <1>0, <1>1, <3>1 DEF LoopInv, LoopKept, Ids, Indices
      <4> QED
        BY <1>1, <2>1, <4>1
    <3>2. CASE id = IdAt(cursor')
      BY <2>1, <3>2 DEF IdAt
    <3> QED
      BY <1>2, <1>5, <2>2, <3>1, <3>2
  <2>3. ASSUME NEW id \in present', id.index <= cursor'
        PROVE  id \in visited'
    <3>1. id \in Ids /\ id.index \in Int /\ alive[id.index]
      BY <1>0, <1>1, <1>4, <2>3 DEF is_alive, Ids, Indices
    <3>2. CASE id.index <= cursor
      BY <1>0, <1>2, <1>5, <2>3, <3>2 DEF LoopInv, LoopKept
    <3>3. CASE ~(id.index <= cursor)
      <4>0. \A k \in cursor + 1 .. cursor' - 1 : ~alive[k]
        BY <1>2, <1>5
      <4>1. id.index = cursor'
        <5>1. cursor \in Int /\ cursor' \in Int /\ id.index \in Int
          BY <1>1, <2>1, <3>1
        <5>2. id.index # cursor' => id.index \in cursor + 1 .. cursor' - 1
          BY <2>3, <3>3, <5>1
        <5> QED
          BY <3>1, <4>0, <5>2
      <4>2. id = IdAt(cursor')
        BY <1>4, <3>1, <4>1 DEF IdAt, Ids, is_alive
      <4> QED
        BY <1>2, <1>5, <4>2
    <3> QED
      BY <3>2, <3>3
  <2> QED
    BY <2>1, <2>2, <2>3
<1> QED
  BY <1>3, <1>4, <1>5 DEF LoopKept

LEMMA LoopStep == LoopInv /\ [Next]_vars => LoopInv'
<1> SUFFICES ASSUME LoopInv, [Next]_vars
             PROVE  LoopInv'
  OBVIOUS
<1>1. PoolInv'
  BY PoolStep DEF LoopInv
<1>2. ASSUME CreateInFull \/ UNCHANGED vars
      PROVE  LoopTypes' /\ LoopKept'
  BY <1>2 DEF CreateInFull, vars, poolVars, loopVars, LoopInv, LoopTypes, LoopKept, is_alive
<1> QED
  BY <1>1, <1>2, CreateKeepsLoop, DestroyKeepsLoop, BeginKeepsLoop, NextKeepsLoop
     DEF Next, LoopInv

LEMMA LoopInvHolds == Spec => []LoopInv
<1>1. Init => LoopInv
  BY PoolInit, ActorsAssumption DEF Init, LoopInv, LoopTypes, LoopKept
<1> QED
  BY <1>1, LoopStep, PTL DEF Spec

(***************************************************************************)
(* Indices, generations and handles stay in their ranges (actors.c): in    *)
(* particular max_index never passes the end of the arrays.                *)
(***************************************************************************)
THEOREM TypeCorrect == Spec => []TypeOK
<1>1. LoopInv => TypeOK
  BY DEF LoopInv, LoopTypes, PoolInv, PoolTypes, Ids, TypeOK
<1> QED
  BY <1>1, LoopInvHolds, PTL

(***************************************************************************)
(* A foreach_actor loop over a pool of any size visits no actor twice and  *)
(* no dead one, and by its end every one that lived throughout, whatever   *)
(* its bodies create and destroy (actors_begin, actors_next).              *)
(***************************************************************************)
THEOREM LoopVisitsCorrectly == Spec => LoopVisitsEachOnce
<1> DEFINE Visits ==
      /\ cursor' \notin {0, cursor} =>
           IdAt(cursor') \notin (IF cursor = 0 THEN {} ELSE visited) /\ alive[cursor']
      /\ cursor # 0 /\ cursor' = 0 => present \subseteq visited
<1>1. LoopInv /\ [Next]_vars => [Visits]_vars
  <2> SUFFICES ASSUME LoopInv, Next
               PROVE  Visits
    OBVIOUS
  <2>0. /\ max_index \in 1 .. ACTOR_COUNT /\ ACTOR_COUNT \in Nat
        /\ 0 \in 0 .. max_index - 1 /\ PoolInv
    BY ActorsAssumption DEF LoopInv, PoolInv, PoolTypes
  <2>1. CASE Create \/ CreateInFull \/ Destroy
    BY <2>1 DEF Create, CreateInFull, Destroy, loopVars
  <2>2. CASE BeginLoop
    <3>1. cursor' # 0 => alive[cursor'] /\ cursor = 0
      BY <2>0, <2>2, AdvanceSteps DEF BeginLoop
    <3> QED
      BY <2>2, <3>1 DEF BeginLoop
  <2>3. CASE NextLoop
    <3>0. /\ cursor # 0 /\ cursor \in Nat /\ cursor \in 0 .. max_index - 1
          /\ visited \subseteq Ids /\ present \subseteq Ids
      BY <2>0, <2>3 DEF NextLoop, LoopInv, LoopTypes, LoopKept
    <3>1. \/ cursor' \in cursor + 1 .. max_index - 1 /\ alive[cursor']
          \/ cursor' = 0 /\ \A k \in cursor + 1 .. max_index - 1 : ~alive[k]
      BY <2>0, <2>3, <3>0, AdvanceSteps DEF NextLoop
    <3>2. CASE cursor' \in cursor + 1 .. max_index - 1 /\ alive[cursor']
      <4>1. cursor' \in Nat /\ cursor < cursor' /\ IdAt(cursor').index = cursor'
        BY <2>0, <3>0, <3>2 DEF IdAt
      <4>2. \A id \in visited : id.index <= cursor /\ id.index \in Nat
        BY <3>0 DEF LoopInv, LoopKept, Ids, Indices
      <4>3. IdAt(cursor') \notin visited
        BY <3>0, <4>1, <4>2
      <4> QED
        BY <3>0, <3>2, <4>1, <4>3
    <3>3. CASE cursor' = 0 /\ \A k \in cursor + 1 .. max_index - 1 : ~alive[k]
      <4>1. ASSUME NEW id \in present
            PROVE  id \in visited
        <5>1. id.index \in Indices /\ alive[id.index]
          BY <3>0, <4>1 DEF LoopInv, LoopKept, is_alive, Ids
        <5>2. id.index \in 1 .. max_index - 1
          BY <2>0, <5>1 DEF PoolInv, AliveInUse
        <5>3. id.index <= cursor
          BY <2>0, <3>0, <3>3, <5>1, <5>2
        <5> QED
          BY <3>0, <4>1, <5>3 DEF LoopInv, LoopKept
      <4> QED
        BY <3>3, <4>1
    <3> QED
      BY <3>1, <3>2, <3>3
  <2> QED
    BY <2>1, <2>2, <2>3 DEF Next
<1>2. LoopInv /\ [Next]_vars
        => [/\ cursor' \notin {0, cursor} =>
                 IdAt(cursor') \notin (IF cursor = 0 THEN {} ELSE visited) /\ alive[cursor']
            /\ cursor # 0 /\ cursor' = 0 => present \subseteq visited]_vars
  BY <1>1
<1> HIDE DEF Visits
<1> QED
  BY <1>2, LoopInvHolds, PTL DEF Spec, LoopVisitsEachOnce
=============================================================================
