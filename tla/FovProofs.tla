----------------------------- MODULE FovProofs ------------------------------
(***************************************************************************)
(* Proofs about fov_2d, for every map, eye and range: which cells of a row *)
(* a beam visits, which beams it leaves to the next row, that light comes  *)
(* to a cell past a transparent one of the row before, and what is sure to *)
(* be lit.                                                                 *)
(***************************************************************************)
EXTENDS Fov, WellFoundedInduction, TLAPS

-----------------------------------------------------------------------------
(* Induction *)

(* Every set of natural numbers that is not empty has a least element. *)
LEMMA LeastNumber ==
  ASSUME NEW T, T \subseteq Nat, T # {}
  PROVE  \E n \in T : \A m \in T : n <= m
<1> DEFINE R == OpToRel(<, Nat)
<1>1. IsWellFoundedOn(R, Nat)
  BY NatLessThanWellFounded
<1>2. \A m, n \in Nat : m < n => <<m, n>> \in R
  BY DEF OpToRel
<1> HIDE DEF R
<1>3. PICK n \in T : \A m \in T : ~(<<m, n>> \in R)
  BY <1>1, WFMin
<1>4. n \in Nat
  BY <1>3
<1>5. \A m \in T : m \in Nat /\ ~(m < n)
  BY <1>2, <1>3, <1>4
<1> QED
  BY <1>3, <1>4, <1>5

(* What holds of 0 and passes on from each number to the next holds up to n. *)
LEMMA UpTo ==
  ASSUME NEW n \in Nat, NEW T, 0 \in T,
         \A k \in 1 .. n : k - 1 \in T => k \in T
  PROVE  \A k \in 0 .. n : k \in T
<1> DEFINE Bad == {k \in 0 .. n : k \notin T}
<1>1. Bad = {}
  <2> SUFFICES ASSUME Bad # {} PROVE FALSE
    OBVIOUS
  <2>0. Bad \subseteq 0 .. n /\ Bad \subseteq Nat
    OBVIOUS
  <2> HIDE DEF Bad
  <2>1. PICK k \in Bad : \A m \in Bad : k <= m
    BY <2>0, LeastNumber
  <2>2. k \in 1 .. n /\ k - 1 \in 0 .. n /\ ~(k <= k - 1)
    BY <2>0 DEF Bad
  <2>3. k - 1 \in T
    BY <2>1, <2>2 DEF Bad
  <2> QED
    BY <2>2, <2>3 DEF Bad
<1> QED
  BY <1>1

(* A recursion along 1 .. n whose steps stay in S defines a function. *)
Chain(f, S, base, step, n) ==
  /\ f \in [0 .. n -> S]
  /\ f[0] = base
  /\ \A k \in 1 .. n : f[k] = step[<<k, f[k - 1]>>]

LEMMA ChainExists ==
  ASSUME NEW S, NEW base \in S, NEW n \in Nat, NEW step \in [(1 .. n) \X S -> S]
  PROVE  \E f : Chain(f, S, base, step, n)
<1> DEFINE T == {m \in 0 .. n : \E f : Chain(f, S, base, step, m)}
<1>1. 0 \in T
  <2> DEFINE f == [k \in 0 .. 0 |-> base]
  <2>1. Chain(f, S, base, step, 0)
    BY DEF Chain
  <2> QED
    BY <2>1
<1>2. ASSUME NEW m \in 1 .. n, m - 1 \in T PROVE m \in T
  <2>1. PICK f : Chain(f, S, base, step, m - 1)
    BY <1>2
  <2> DEFINE g == [k \in 0 .. m |-> IF k = m THEN step[<<m, f[m - 1]>>] ELSE f[k]]
  <2>2. f[m - 1] \in S /\ step[<<m, f[m - 1]>>] \in S
    BY <2>1 DEF Chain
  <2>3. g \in [0 .. m -> S] /\ g[0] = base
    BY <2>1, <2>2 DEF Chain
  <2>4. ASSUME NEW k \in 1 .. m PROVE g[k] = step[<<k, g[k - 1]>>]
    <3>0. k \in 0 .. m /\ k - 1 \in 0 .. m /\ k - 1 # m
      OBVIOUS
    <3>1. g[k - 1] = f[k - 1] /\ (k # m => g[k] = f[k]) /\ g[m] = step[<<m, f[m - 1]>>]
      BY <3>0
    <3> HIDE DEF g
    <3>2. CASE k = m
      BY <3>1, <3>2
    <3>3. CASE k # m
      <4>1. k \in 1 .. m - 1
        BY <3>3
      <4> QED
        BY <4>1, <3>1, <2>1 DEF Chain
    <3> QED
      BY <3>2, <3>3
  <2> HIDE DEF g
  <2>5. Chain(g, S, base, step, m)
    BY <2>3, <2>4 DEF Chain
  <2> QED
    BY <2>5
<1> HIDE DEF T
<1>3. n \in T
  BY <1>1, <1>2, UpTo
<1> QED
  BY <1>3 DEF T

-----------------------------------------------------------------------------
(* Slopes *)

Slopes == Int \X (Nat \ {0})

AtMost(s, t) == ~Below(t, s)

LEMMA SlopesOrdered ==
  ASSUME NEW s \in Slopes, NEW t \in Slopes
  PROVE  /\ AtMost(s, t) <=> s[1] * t[2] <= t[1] * s[2]
         /\ AtMost(s, t) \/ AtMost(t, s)
         /\ Below(s, t) => AtMost(s, t)
         /\ AtMost(s, s)
         /\ Below(s, t) <=> ~AtMost(t, s)
<1> DEFINE x == s[1] * t[2]
           y == t[1] * s[2]
           z == s[1] * s[2]
<1>1. x \in Int /\ y \in Int /\ z \in Int
  BY DEF Slopes
<1> QED
  BY <1>1 DEF AtMost, Below

LEMMA Cancelled ==
  ASSUME NEW m \in Int, NEW n \in Int, NEW d \in Nat \ {0}, m * d <= n * d
  PROVE  m <= n
OBVIOUS

LEMMA Scaled ==
  ASSUME NEW m \in Int, NEW n \in Int, NEW d \in Nat, m <= n
  PROVE  m * d <= n * d
OBVIOUS

LEMMA AtMostTransitive ==
  ASSUME NEW s \in Slopes, NEW t \in Slopes, NEW u \in Slopes, AtMost(s, t), AtMost(t, u)
  PROVE  AtMost(s, u)
<1>1. /\ s[1] \in Int /\ t[1] \in Int /\ u[1] \in Int
      /\ s[2] \in Nat \ {0} /\ t[2] \in Nat \ {0} /\ u[2] \in Nat \ {0}
  BY DEF Slopes
<1>2. s[1] * t[2] <= t[1] * s[2] /\ t[1] * u[2] <= u[1] * t[2]
  BY SlopesOrdered
<1>3. (s[1] * t[2]) * u[2] <= (t[1] * s[2]) * u[2]
  BY <1>1, <1>2, Scaled
<1>4. (t[1] * u[2]) * s[2] <= (u[1] * t[2]) * s[2]
  BY <1>1, <1>2, Scaled
<1>5. (s[1] * u[2]) * t[2] <= (u[1] * s[2]) * t[2]
  BY <1>1, <1>3, <1>4
<1>6. s[1] * u[2] <= u[1] * s[2]
  BY <1>1, <1>5, Cancelled
<1> QED
  BY <1>6, SlopesOrdered

LEMMA BelowTransitive ==
  ASSUME NEW s \in Slopes, NEW t \in Slopes, NEW u \in Slopes,
         \/ Below(s, t) /\ AtMost(t, u)
         \/ AtMost(s, t) /\ Below(t, u)
  PROVE  Below(s, u)
<1> SUFFICES ASSUME AtMost(u, s) PROVE FALSE
  BY SlopesOrdered
<1>1. CASE Below(s, t) /\ AtMost(t, u)
  BY <1>1, AtMostTransitive, SlopesOrdered
<1>2. CASE AtMost(s, t) /\ Below(t, u)
  BY <1>2, AtMostTransitive, SlopesOrdered
<1> QED
  BY <1>1, <1>2

-----------------------------------------------------------------------------
(* The sides of cells *)

LEMMA SidesAreSlopes ==
  ASSUME NEW i \in Nat \ {0}, NEW a \in Int
  PROVE  LeftSlope(a, i) \in Slopes /\ RightSlope(a, i) \in Slopes
BY DEF LeftSlope, RightSlope, Slopes

(* Along a row. *)
LEMMA SidesAlongRow ==
  ASSUME NEW i \in Nat \ {0}, NEW a \in Int, NEW c \in Int, a <= c
  PROVE  /\ AtMost(LeftSlope(a, i), LeftSlope(c, i))
         /\ AtMost(RightSlope(a, i), RightSlope(c, i))
         /\ a < c => Below(RightSlope(a, i), RightSlope(c, i))
<1>1. (2 * a + 1) * (2 * i - 1) <= (2 * c + 1) * (2 * i - 1)
  BY Scaled
<1>2. (2 * a - 1) * (2 * i + 1) <= (2 * c - 1) * (2 * i + 1)
  BY Scaled
<1>3. a < c => (2 * a - 1) * (2 * i + 1) < (2 * c - 1) * (2 * i + 1)
  BY Cancelled
<1> QED
  BY <1>1, <1>2, <1>3 DEF AtMost, Below, LeftSlope, RightSlope

LEMMA NextSides ==
  ASSUME NEW i \in Nat \ {0}, NEW a \in Nat
  PROVE  Below(RightSlope(a + 1, i), LeftSlope(a, i))
<1>1. (2 * (a + 1) - 1) * (2 * i - 1) < (2 * a + 1) * (2 * i + 1)
  OBVIOUS
<1> QED
  BY <1>1 DEF Below, LeftSlope, RightSlope

(* From a row to the next one. *)
LEMMA SidesAcrossRows ==
  ASSUME NEW i \in Nat \ {0}, NEW a \in 0 .. i + 1
  PROVE  /\ Below(RightSlope(a - 1, i), RightSlope(a, i + 1))
         /\ AtMost(LeftSlope(a, i + 1), LeftSlope(a, i))
         /\ i <= a => AtMost(LeftSlope(a, i + 1), LeftSlope(a - 1, i))
<1>1. (2 * (a - 1) - 1) * (2 * (i + 1) + 1) < (2 * a - 1) * (2 * i + 1)
  OBVIOUS
<1>2. (2 * a + 1) * (2 * i - 1) <= (2 * a + 1) * (2 * (i + 1) - 1)
  OBVIOUS
<1>3. i <= a => (2 * a + 1) * (2 * i - 1) <= (2 * (a - 1) + 1) * (2 * (i + 1) - 1)
  OBVIOUS
<1> QED
  BY <1>1, <1>2, <1>3 DEF AtMost, Below, LeftSlope, RightSlope

(* What lies left of a cell in the next row lies left of it in this one. *)
LEMMA LeftOfSplit ==
  ASSUME NEW i \in Nat \ {0}, NEW q \in 0 .. i, NEW a \in 0 .. i + 1,
         AtMost(LeftSlope(q, i), LeftSlope(a, i + 1))
  PROVE  q + 1 <= a /\ (a = q + 1 => a <= i)
<1>1. (2 * q + 1) * (2 * (i + 1) - 1) <= (2 * a + 1) * (2 * i - 1)
  BY DEF AtMost, Below, LeftSlope
<1>2. ASSUME a <= q PROVE FALSE
  <2>1. (2 * a + 1) * (2 * i - 1) <= (2 * q + 1) * (2 * i - 1)
    BY <1>2, Scaled
  <2> QED
    BY <1>1, <2>1
<1>3. ASSUME a = q + 1, a = i + 1 PROVE FALSE
  BY <1>1, <1>3
<1> QED
  BY <1>2, <1>3

-----------------------------------------------------------------------------
(* Rows *)

BeamStates ==
  [start : Slopes, next : Slopes, blocked : BOOLEAN, over : BOOLEAN,
   seen : SUBSET (Int \X Int), split : SUBSET (Slopes \X Slopes)]

LEMMA CellIsPlace ==
  ASSUME NEW eye \in Int \X Int, NEW o \in Octants, NEW a \in Int, NEW i \in Int
  PROVE  Cell(eye, o, a, i) \in Int \X Int
<1>1. o[1] \in Int /\ o[2] \in Int /\ o[3] \in Int /\ o[4] \in Int
  BY DEF Octants
<1> QED
  BY <1>1 DEF Cell

LEMMA ShadowTyped ==
  ASSUME NEW b \in BeamStates, NEW opaque \in BOOLEAN,
         NEW left \in Slopes, NEW right \in Slopes
  PROVE  Shadow(b, opaque, left, right) \in BeamStates
<1>1. <<b.start, left>> \in Slopes \X Slopes
  BY DEF BeamStates
<1> HIDE DEF Slopes
<1>2. CASE opaque
  BY <1>1, <1>2 DEF Shadow, BeamStates
<1>3. CASE ~opaque
  BY <1>3 DEF Shadow, BeamStates
<1> QED
  BY <1>2, <1>3

LEMMA PassTyped ==
  ASSUME NEW walls, NEW eye \in Int \X Int, NEW o \in Octants, NEW end \in Slopes,
         NEW i \in Nat \ {0}, NEW a \in Int, NEW range \in Nat, NEW b \in BeamStates
  PROVE  Pass(b, walls, eye, o, end, a, i, range) \in BeamStates
<1> DEFINE t == Cell(eye, o, a, i)
           d == [b EXCEPT !.seen = @ \cup (IF InRange(a, i, range) THEN {t} ELSE {})]
           opaque == IsOpaque(walls, t)
<1>1. t \in Int \X Int
  BY CellIsPlace
<1>2. d \in BeamStates
  <2> HIDE DEF t
  <2> QED
    BY <1>1 DEF BeamStates
<1>3. opaque \in BOOLEAN
  BY DEF IsOpaque
<1>4. [b EXCEPT !.over = TRUE] \in BeamStates
  BY DEF BeamStates
<1>5. Shadow(d, opaque, LeftSlope(a, i), RightSlope(a, i)) \in BeamStates
  <2> HIDE DEF d, opaque
  <2> QED
    BY <1>2, <1>3, ShadowTyped, SidesAreSlopes
<1> HIDE DEF d, opaque
<1> QED
  BY <1>4, <1>5 DEF Pass, d, opaque

(* The recursion of RowOf, from the beam as it enters the row. *)
Scan(scan, walls, eye, o, beam, i, range) ==
  /\ scan \in [0 .. i + 1 -> BeamStates]
  /\ scan[0] = Entering(beam)
  /\ \A k \in 1 .. i + 1 :
       scan[k] = Pass(scan[k - 1], walls, eye, o, beam[2], i - (k - 1), i, range)

LEMMA EnteringTyped ==
  ASSUME NEW beam \in Slopes \X Slopes
  PROVE  Entering(beam) \in BeamStates
<1>1. beam[1] \in Slopes
  OBVIOUS
<1> QED
  BY <1>1 DEF Entering, BeamStates

LEMMA RowUnfolds ==
  ASSUME NEW walls, NEW eye \in Int \X Int, NEW o \in Octants, NEW beam \in Slopes \X Slopes,
         NEW i \in Nat \ {0}, NEW range \in Nat
  PROVE  \E scan : /\ Scan(scan, walls, eye, o, beam, i, range)
                   /\ RowOf(walls, eye, o, beam, i, range) = scan[i + 1]
<1> DEFINE One(b, k) == Pass(b, walls, eye, o, beam[2], i - (k - 1), i, range)
           step == [x \in (1 .. i + 1) \X BeamStates |-> One(x[2], x[1])]
           scan == CHOOSE f : f = [k \in 0 .. i + 1 |-> IF k = 0 THEN Entering(beam)
                                                        ELSE One(f[k - 1], k)]
<1>1. beam[2] \in Slopes
  OBVIOUS
<1>2. \A b \in BeamStates, k \in 1 .. i + 1 : One(b, k) \in BeamStates
  BY <1>1, PassTyped
<1>3. RowOf(walls, eye, o, beam, i, range) = scan[i + 1]
  BY DEF RowOf
<1> HIDE DEF One
<1>4. step \in [(1 .. i + 1) \X BeamStates -> BeamStates]
  BY <1>2
<1>5. \A b \in BeamStates, k \in 1 .. i + 1 : step[<<k, b>>] = One(b, k)
  OBVIOUS
<1> HIDE DEF step
<1>6. PICK f : Chain(f, BeamStates, Entering(beam), step, i + 1)
  BY SMTT(30), <1>4, EnteringTyped, ChainExists
<1>7. f = [k \in 0 .. i + 1 |-> IF k = 0 THEN Entering(beam) ELSE One(f[k - 1], k)]
  <2>1. f = [k \in 0 .. i + 1 |-> f[k]]
    BY <1>6 DEF Chain
  <2>2. \A k \in 0 .. i + 1 : f[k] = IF k = 0 THEN Entering(beam) ELSE One(f[k - 1], k)
    <3> TAKE k \in 0 .. i + 1
    <3>1. CASE k = 0
      BY <3>1, <1>6 DEF Chain
    <3>2. CASE k # 0
      <4>1. k \in 1 .. i + 1 /\ k - 1 \in 0 .. i + 1
        BY <3>2
      <4>2. f[k - 1] \in BeamStates
        BY <4>1, <1>6 DEF Chain
      <4>3. f[k] = step[<<k, f[k - 1]>>]
        BY <4>1, <1>6 DEF Chain
      <4> QED
        BY <3>2, <4>1, <4>2, <4>3, <1>5
    <3> QED
      BY <3>1, <3>2
  <2> QED
    BY <2>1, <2>2
<1>8. scan = [k \in 0 .. i + 1 |-> IF k = 0 THEN Entering(beam) ELSE One(scan[k - 1], k)]
  BY <1>7, Zenon
<1> HIDE DEF scan
<1>9. /\ scan[0] = Entering(beam)
      /\ \A k \in 1 .. i + 1 : scan[k] = One(scan[k - 1], k)
  BY <1>8
<1>10. \A k \in 0 .. i + 1 : scan[k] \in BeamStates
  <2> DEFINE T == {k \in 0 .. i + 1 : scan[k] \in BeamStates}
  <2>1. 0 \in T
    BY <1>9, EnteringTyped
  <2>2. \A k \in 1 .. i + 1 : k - 1 \in T => k \in T
    BY <1>2, <1>9
  <2>3. i + 1 \in Nat
    OBVIOUS
  <2> HIDE DEF T
  <2>4. \A k \in 0 .. i + 1 : k \in T
    BY <2>1, <2>2, <2>3, UpTo
  <2> QED
    BY <2>4 DEF T
<1>11. scan \in [0 .. i + 1 -> BeamStates]
  BY <1>8, <1>10
<1> QED
  BY <1>3, <1>9, <1>11 DEF Scan, One

-----------------------------------------------------------------------------
(* What a row does to a beam *)

(* The cells of row i between the slopes of a beam, and those where it meets a
   wall. *)
Visited(eye, o, beam, i) ==
  {c \in 0 .. i : /\ ~OffLowSide(Cell(eye, o, c, i))
                  /\ AtMost(RightSlope(c, i), beam[1])
                  /\ AtMost(beam[2], LeftSlope(c, i))}

Dark(walls, eye, o, beam, i) ==
  {c \in Visited(eye, o, beam, i) : IsOpaque(walls, Cell(eye, o, c, i))}

Lit(eye, o, cells, i, range) ==
  {Cell(eye, o, c, i) : c \in {n \in cells : InRange(n, i, range)}}

(* Where what is left of the beam ends on the left. *)
Edge(b) == IF b.blocked THEN b.next ELSE b.start

(* The beam that goes on once the cells m, ..., i are done: it starts where it
   did, or right of one of the walls among them. *)
Narrowed(b, m, vis, dark, beam, i) ==
  /\ AtMost(b.start, beam[1])
  /\ b.start # beam[1] =>
       \E p \in dark : /\ m < p
                       /\ b.start = RightSlope(p, i)
                       /\ AtMost(beam[2], LeftSlope(p - 1, i))
  /\ b.blocked =>
       \E p \in dark : /\ m <= p
                       /\ b.next = RightSlope(p, i)
                       /\ AtMost(b.next, b.start)
                       /\ \A c \in vis : c < m \/ p <= c
  /\ \A c \in dark : m <= c => AtMost(Edge(b), RightSlope(c, i))
  /\ b.over => \A c \in vis : m <= c

(* The beams split off by then end left of a wall, and have no other in them. *)
SplitRight(b, m, dark, beam, i) ==
  /\ \A x \in b.split :
       \E q \in dark : /\ m <= q
                       /\ x[2] = LeftSlope(q, i)
                       /\ AtMost(x[1], beam[1])
                       /\ \A c \in dark : q < c => AtMost(x[1], RightSlope(c, i))
  /\ \/ b.start = beam[1] /\ ~b.blocked
     \/ \E x \in b.split : x[1] = beam[1]

LEMMA DarkTyped ==
  ASSUME NEW walls, NEW eye, NEW o, NEW beam, NEW i \in Nat \ {0}
  PROVE  /\ Visited(eye, o, beam, i) \subseteq 0 .. i
         /\ Dark(walls, eye, o, beam, i) \subseteq Visited(eye, o, beam, i)
BY DEF Visited, Dark

(* A cell between the slopes of the beam is visited: that the beam narrows as
   the row is scanned makes no difference. *)
LEMMA PassVisits ==
  ASSUME NEW b \in BeamStates, NEW walls, NEW eye, NEW o, NEW beam \in Slopes \X Slopes,
         NEW i \in Nat \ {0}, NEW range, NEW a \in Visited(eye, o, beam, i),
         Narrowed(b, a + 1, Visited(eye, o, beam, i), Dark(walls, eye, o, beam, i), beam, i)
  PROVE  Pass(b, walls, eye, o, beam[2], a, i, range)
           = Shadow([b EXCEPT !.seen = @ \cup Lit(eye, o, {a}, i, range)],
                    a \in Dark(walls, eye, o, beam, i), LeftSlope(a, i), RightSlope(a, i))
<1>1. a \in 0 .. i
  BY DarkTyped
<1>2. AtMost(RightSlope(a, i), b.start)
  <2>1. CASE b.start = beam[1]
    BY <2>1 DEF Visited
  <2>2. CASE b.start # beam[1]
    <3>1. PICK p \in Dark(walls, eye, o, beam, i) : a + 1 < p /\ b.start = RightSlope(p, i)
      BY <2>2 DEF Narrowed
    <3>2. a \in Int /\ p \in Int /\ a <= p
      BY <3>1, DarkTyped
    <3> QED
      BY <3>1, <3>2, SidesAlongRow
  <2> QED
    BY <2>1, <2>2
<1>3. ~b.over
  BY <1>1 DEF Narrowed
<1>4. /\ AtMost(beam[2], LeftSlope(a, i))
      /\ ~OffLowSide(Cell(eye, o, a, i))
  BY DEF Visited
<1>5. (IF InRange(a, i, range) THEN {Cell(eye, o, a, i)} ELSE {}) = Lit(eye, o, {a}, i, range)
  BY DEF Lit
<1>6. IsOpaque(walls, Cell(eye, o, a, i)) = (a \in Dark(walls, eye, o, beam, i))
  BY DEF Dark, IsOpaque
<1> HIDE DEF BeamStates
<1> QED
  BY <1>2, <1>3, <1>4, <1>5, <1>6, Zenon DEF Pass, AtMost

LEMMA PassMisses ==
  ASSUME NEW b \in BeamStates, NEW walls, NEW eye, NEW o, NEW beam \in Slopes \X Slopes,
         NEW i \in Nat \ {0}, NEW range, NEW a \in 0 .. i, a \notin Visited(eye, o, beam, i),
         AtMost(b.start, beam[1])
  PROVE  LET d == Pass(b, walls, eye, o, beam[2], a, i, range)
         IN  /\ d.start = b.start /\ d.next = b.next /\ d.blocked = b.blocked
             /\ d.split = b.split /\ d.seen = b.seen
             /\ d.over => b.over \/ \A c \in Visited(eye, o, beam, i) : a < c
<1> DEFINE d == Pass(b, walls, eye, o, beam[2], a, i, range)
<1>0. /\ b.start \in Slopes /\ beam[1] \in Slopes /\ beam[2] \in Slopes
      /\ LeftSlope(a, i) \in Slopes /\ RightSlope(a, i) \in Slopes
  BY SidesAreSlopes DEF BeamStates
<1>1. CASE b.over \/ Below(b.start, RightSlope(a, i))
  <2>1. d = b
    BY <1>1, Zenon DEF Pass
  <2> QED
    BY <2>1
<1>2. CASE ~(b.over \/ Below(b.start, RightSlope(a, i))) /\ Below(LeftSlope(a, i), beam[2])
  <2>1. ASSUME NEW c \in Visited(eye, o, beam, i), ~(a < c)
        PROVE  FALSE
    <3>1. c \in 0 .. i /\ c <= a /\ AtMost(beam[2], LeftSlope(c, i))
      BY <2>1 DEF Visited
    <3>2. LeftSlope(c, i) \in Slopes /\ AtMost(LeftSlope(c, i), LeftSlope(a, i))
      <4>1. c \in Int /\ a \in Int
        BY <3>1
      <4> QED
        BY <3>1, <4>1, SidesAreSlopes, SidesAlongRow
    <3>3. AtMost(beam[2], LeftSlope(a, i))
      BY <3>1, <3>2, <1>0, AtMostTransitive
    <3> QED
      BY <3>3, <1>2 DEF AtMost
  <2>2. d = [b EXCEPT !.over = TRUE]
    BY <1>2, Zenon DEF Pass
  <2> HIDE DEF d
  <2>3. /\ d.start = b.start /\ d.next = b.next /\ d.blocked = b.blocked
        /\ d.split = b.split /\ d.seen = b.seen
    BY <2>2 DEF BeamStates
  <2> QED
    BY <2>1, <2>3 DEF d
<1>3. CASE ~(b.over \/ Below(b.start, RightSlope(a, i))) /\ ~Below(LeftSlope(a, i), beam[2])
  <2>1. AtMost(RightSlope(a, i), beam[1])
    <3>1. AtMost(RightSlope(a, i), b.start)
      BY <1>3 DEF AtMost
    <3> QED
      BY <3>1, <1>0, AtMostTransitive
  <2>2. OffLowSide(Cell(eye, o, a, i))
    BY <1>3, <2>1 DEF Visited, AtMost
  <2>3. d = b
    BY <1>3, <2>2, Zenon DEF Pass
  <2> QED
    BY <2>3
<1> QED
  BY <1>1, <1>2, <1>3

LEMMA ShadowNarrows ==
  ASSUME NEW i \in Nat \ {0}, NEW vis, vis \subseteq 0 .. i, NEW dark, dark \subseteq vis,
         NEW beam \in Slopes \X Slopes, NEW b \in BeamStates, NEW a \in vis,
         Narrowed(b, a + 1, vis, dark, beam, i),
         AtMost(RightSlope(a, i), b.start), AtMost(beam[2], LeftSlope(a, i))
  PROVE  Narrowed(Shadow(b, a \in dark, LeftSlope(a, i), RightSlope(a, i)),
                  a, vis, dark, beam, i)
<1> DEFINE d == Shadow(b, a \in dark, LeftSlope(a, i), RightSlope(a, i))
<1>0. /\ b.start \in Slopes /\ b.next \in Slopes /\ beam[1] \in Slopes /\ beam[2] \in Slopes
      /\ b.blocked \in BOOLEAN /\ b.over \in BOOLEAN
  BY DEF BeamStates
<1>7. a \in Int /\ \A c \in dark : c \in Int
  OBVIOUS
<1>8. \A c \in dark : a <= c => AtMost(RightSlope(a, i), RightSlope(c, i))
  BY <1>7, SidesAlongRow
<1>9. \A c \in dark : (a + 1 <= c => a < c) /\ (a + 1 < c => a < c)
                     /\ (a <= c /\ c # a => a + 1 <= c)
  BY <1>7
<1>1. ~b.over
  BY <1>7 DEF Narrowed
<1>2. CASE a \in dark
  <2>1. /\ d.start = b.start /\ d.blocked /\ d.next = RightSlope(a, i) /\ d.over = b.over
    BY <1>2 DEF Shadow, BeamStates
  <2>2. Edge(d) = RightSlope(a, i)
    BY <2>1 DEF Edge
  <2> HIDE DEF d
  <2>3. \A c \in dark : a <= c => AtMost(Edge(d), RightSlope(c, i))
    BY <2>2, <1>8
  <2>4. \E p \in dark : /\ a <= p /\ d.next = RightSlope(p, i) /\ AtMost(d.next, d.start)
                        /\ \A c \in vis : c < a \/ p <= c
    <3>1. \A c \in vis : c < a \/ a <= c
      BY <1>7
    <3> QED
      BY <1>2, <1>7, <2>1, <3>1
  <2>5. d.start # beam[1] =>
          \E p \in dark : /\ a < p /\ d.start = RightSlope(p, i)
                          /\ AtMost(beam[2], LeftSlope(p - 1, i))
    <3> SUFFICES ASSUME d.start # beam[1]
                 PROVE  \E p \in dark : /\ a < p /\ d.start = RightSlope(p, i)
                                        /\ AtMost(beam[2], LeftSlope(p - 1, i))
      OBVIOUS
    <3>1. PICK p \in dark : /\ a + 1 < p /\ d.start = RightSlope(p, i)
                            /\ AtMost(beam[2], LeftSlope(p - 1, i))
      BY <2>1 DEF Narrowed
    <3>2. a < p
      BY <3>1, <1>9
    <3> QED
      BY <3>1, <3>2
  <2>6. AtMost(d.start, beam[1]) /\ ~d.over
    BY <2>1, <1>1 DEF Narrowed
  <2>7. Narrowed(d, a, vis, dark, beam, i)
    BY <2>3, <2>4, <2>5, <2>6, Zenon DEF Narrowed
  <2> QED
    BY <2>7 DEF d
<1>3. CASE a \notin dark
  <2>1. d.start = Edge(b) /\ ~d.blocked /\ d.over = b.over
    BY <1>3, <1>0 DEF Shadow, BeamStates, Edge
  <2>2. Edge(d) = Edge(b)
    BY <2>1 DEF Edge
  <2> HIDE DEF d
  <2>3. \A c \in dark : a <= c => AtMost(Edge(d), RightSlope(c, i))
    <3> TAKE c \in dark
    <3> HAVE a <= c
    <3>1. a + 1 <= c
      BY <1>3, <1>9
    <3> QED
      BY <2>2, <3>1 DEF Narrowed
  <2>4. /\ AtMost(d.start, beam[1])
        /\ d.start # beam[1] =>
             \E p \in dark : /\ a < p /\ d.start = RightSlope(p, i)
                             /\ AtMost(beam[2], LeftSlope(p - 1, i))
    <3>1. CASE b.blocked
      <4>1. PICK p \in dark : /\ a + 1 <= p /\ b.next = RightSlope(p, i)
                              /\ AtMost(b.next, b.start)
        BY <3>1 DEF Narrowed
      <4>2. d.start = RightSlope(p, i) /\ a < p
        BY <4>1, <3>1, <2>1, <1>9 DEF Edge
      <4>3. AtMost(d.start, beam[1])
        BY <4>1, <4>2, <1>0, AtMostTransitive DEF Narrowed
      <4>4. /\ p - 1 \in Int /\ a \in Int /\ a <= p - 1
        BY <4>1, <1>7
      <4>5. AtMost(LeftSlope(a, i), LeftSlope(p - 1, i))
        BY <4>4, SidesAlongRow
      <4>6. AtMost(beam[2], LeftSlope(p - 1, i))
        BY <4>4, <4>5, <1>0, SidesAreSlopes, AtMostTransitive
      <4> QED
        BY <4>2, <4>3, <4>6
    <3>2. CASE ~b.blocked
      <4>1. d.start = b.start
        BY <3>2, <2>1 DEF Edge
      <4>2. ASSUME d.start # beam[1]
            PROVE  \E p \in dark : /\ a < p /\ d.start = RightSlope(p, i)
                                   /\ AtMost(beam[2], LeftSlope(p - 1, i))
        <5>1. PICK p \in dark : /\ a + 1 < p /\ d.start = RightSlope(p, i)
                                /\ AtMost(beam[2], LeftSlope(p - 1, i))
          BY <4>1, <4>2 DEF Narrowed
        <5>2. a < p
          BY <5>1, <1>9
        <5> QED
          BY <5>1, <5>2
      <4> QED
        BY <4>1, <4>2 DEF Narrowed
    <3> QED
      BY <3>1, <3>2
  <2>5. Narrowed(d, a, vis, dark, beam, i)
    BY <2>1, <2>3, <2>4, <1>1, Zenon DEF Narrowed
  <2> QED
    BY <2>5 DEF d
<1> QED
  BY <1>2, <1>3

LEMMA ShadowSplits ==
  ASSUME NEW i \in Nat \ {0}, NEW vis, vis \subseteq 0 .. i, NEW dark, dark \subseteq vis,
         NEW beam \in Slopes \X Slopes, NEW b \in BeamStates, NEW a \in vis,
         Narrowed(b, a + 1, vis, dark, beam, i), SplitRight(b, a + 1, dark, beam, i)
  PROVE  SplitRight(Shadow(b, a \in dark, LeftSlope(a, i), RightSlope(a, i)),
                    a, dark, beam, i)
<1> DEFINE d == Shadow(b, a \in dark, LeftSlope(a, i), RightSlope(a, i))
           Rests(x, m) ==
             \E q \in dark : /\ m <= q
                             /\ x[2] = LeftSlope(q, i)
                             /\ AtMost(x[1], beam[1])
                             /\ \A c \in dark : q < c => AtMost(x[1], RightSlope(c, i))
<1>0. b.blocked \in BOOLEAN /\ b.start \in Slopes
  BY DEF BeamStates
<1>7. a \in Int /\ \A c \in dark : c \in Int
  OBVIOUS
<1>9. \A c \in dark : (a + 1 <= c => a <= c) /\ (a < c => a + 1 <= c)
  BY <1>7
<1>1. \A x \in b.split : Rests(x, a)
  <2> TAKE x \in b.split
  <2>1. PICK q \in dark : /\ a + 1 <= q
                          /\ x[2] = LeftSlope(q, i)
                          /\ AtMost(x[1], beam[1])
                          /\ \A c \in dark : q < c => AtMost(x[1], RightSlope(c, i))
    BY DEF SplitRight
  <2>2. a <= q
    BY <2>1, <1>9
  <2> QED
    BY <2>1, <2>2
<1>2. CASE a \in dark /\ ~b.blocked
  <2> DEFINE x == <<b.start, LeftSlope(a, i)>>
  <2>1. d.split = b.split \cup {x} /\ d.start = b.start
    BY <1>2 DEF Shadow, BeamStates
  <2>2. Rests(x, a)
    <3>1. \A c \in dark : a < c => AtMost(b.start, RightSlope(c, i))
      BY <1>9, <1>2 DEF Narrowed, Edge
    <3>2. AtMost(b.start, beam[1])
      BY DEF Narrowed
    <3> QED
      BY <3>1, <3>2, <1>2, <1>7
  <2>3. \E y \in d.split : y[1] = beam[1]
    <3>1. CASE b.start = beam[1]
      <4>1. x \in d.split /\ x[1] = beam[1]
        BY <3>1, <2>1
      <4> QED
        BY <4>1
    <3>2. CASE \E y \in b.split : y[1] = beam[1]
      BY <3>2, <2>1
    <3> QED
      BY <3>1, <3>2 DEF SplitRight
  <2> HIDE DEF d, x, Rests
  <2>4. \A y \in d.split : Rests(y, a)
    BY <1>1, <2>1, <2>2
  <2>5. SplitRight(d, a, dark, beam, i)
    BY <2>3, <2>4, Zenon DEF SplitRight, Rests
  <2> QED
    BY <2>5 DEF d
<1>3. CASE b.blocked
  <2>1. d.split = b.split
    BY <1>3 DEF Shadow, BeamStates
  <2>2. \E y \in b.split : y[1] = beam[1]
    BY <1>3 DEF SplitRight
  <2> HIDE DEF d, Rests
  <2>5. SplitRight(d, a, dark, beam, i)
    BY <1>1, <2>1, <2>2, Zenon DEF SplitRight, Rests
  <2> QED
    BY <2>5 DEF d
<1>4. CASE a \notin dark /\ ~b.blocked
  <2>1. d = b
    BY <1>4 DEF Shadow
  <2> HIDE DEF d, Rests
  <2>5. SplitRight(d, a, dark, beam, i)
    BY <1>1, <2>1, Zenon DEF SplitRight, Rests
  <2> QED
    BY <2>5 DEF d
<1> QED
  BY <1>2, <1>3, <1>4, <1>0

ScanInv(b, m, walls, eye, o, beam, i, range) ==
  /\ Narrowed(b, m, Visited(eye, o, beam, i), Dark(walls, eye, o, beam, i), beam, i)
  /\ SplitRight(b, m, Dark(walls, eye, o, beam, i), beam, i)
  /\ b.seen = Lit(eye, o, {c \in Visited(eye, o, beam, i) : m <= c}, i, range)

LEMMA ScanStarts ==
  ASSUME NEW walls, NEW eye, NEW o, NEW beam \in Slopes \X Slopes,
         NEW i \in Nat \ {0}, NEW range
  PROVE  ScanInv(Entering(beam), i + 1, walls, eye, o, beam, i, range)
<1> DEFINE vis == Visited(eye, o, beam, i)
           dark == Dark(walls, eye, o, beam, i)
<1>1. vis \subseteq 0 .. i /\ dark \subseteq vis
  BY DarkTyped
<1> HIDE DEF vis, dark
<1>2. \A c \in vis : c \in Int /\ ~(i + 1 <= c)
  BY <1>1
<1>3. beam[1] \in Slopes
  OBVIOUS
<1>4. AtMost(beam[1], beam[1])
  BY <1>3, SlopesOrdered
<1>5. Narrowed(Entering(beam), i + 1, vis, dark, beam, i)
  BY <1>1, <1>2, <1>4 DEF Narrowed, Entering
<1>6. SplitRight(Entering(beam), i + 1, dark, beam, i)
  BY DEF SplitRight, Entering
<1>7. {c \in vis : i + 1 <= c} = {}
  BY <1>2
<1>8. Entering(beam).seen = Lit(eye, o, {c \in vis : i + 1 <= c}, i, range)
  BY <1>7 DEF Entering, Lit
<1> QED
  BY <1>5, <1>6, <1>8 DEF ScanInv, vis, dark

LEMMA ScanGoesOn ==
  ASSUME NEW walls, NEW eye \in Int \X Int, NEW o \in Octants, NEW beam \in Slopes \X Slopes,
         NEW i \in Nat \ {0}, NEW range \in Nat, NEW a \in 0 .. i, NEW b \in BeamStates,
         ScanInv(b, a + 1, walls, eye, o, beam, i, range)
  PROVE  ScanInv(Pass(b, walls, eye, o, beam[2], a, i, range), a, walls, eye, o, beam, i, range)
<1> DEFINE vis == Visited(eye, o, beam, i)
           dark == Dark(walls, eye, o, beam, i)
           d == Pass(b, walls, eye, o, beam[2], a, i, range)
           From(m) == {c \in vis : m <= c}
<1>1. vis \subseteq 0 .. i /\ dark \subseteq vis /\ a \in Int
  <2>1. vis \subseteq 0 .. i /\ dark \subseteq vis
    BY DarkTyped
  <2> QED
    BY <2>1
<1>2. /\ Narrowed(b, a + 1, vis, dark, beam, i)
      /\ SplitRight(b, a + 1, dark, beam, i)
      /\ b.seen = Lit(eye, o, From(a + 1), i, range)
  BY DEF ScanInv
<1>3. CASE a \in vis
  <2> DEFINE e == [b EXCEPT !.seen = @ \cup Lit(eye, o, {a}, i, range)]
  <2>1. d = Shadow(e, a \in dark, LeftSlope(a, i), RightSlope(a, i))
    <3>1. /\ a \in Visited(eye, o, beam, i)
          /\ Narrowed(b, a + 1, Visited(eye, o, beam, i), Dark(walls, eye, o, beam, i), beam, i)
      BY <1>2, <1>3
    <3>2. Pass(b, walls, eye, o, beam[2], a, i, range)
            = Shadow([b EXCEPT !.seen = @ \cup Lit(eye, o, {a}, i, range)],
                     a \in Dark(walls, eye, o, beam, i), LeftSlope(a, i), RightSlope(a, i))
      BY <3>1, PassVisits
    <3> QED
      BY <3>2
  <2>2. AtMost(RightSlope(a, i), b.start) /\ AtMost(beam[2], LeftSlope(a, i))
    <3>1. AtMost(beam[2], LeftSlope(a, i))
      BY <1>3 DEF Visited
    <3>2. CASE b.start = beam[1]
      BY <1>3, <3>1, <3>2 DEF Visited
    <3>3. CASE b.start # beam[1]
      <4>1. PICK p \in dark : a + 1 < p /\ b.start = RightSlope(p, i)
        BY <1>2, <3>3 DEF Narrowed
      <4>2. p \in Int
        BY <1>1
      <4>3. a <= p
        BY <1>1, <4>1, <4>2
      <4> QED
        BY <1>1, <3>1, <4>1, <4>2, <4>3, SidesAlongRow
    <3> QED
      BY <3>2, <3>3
  <2>3. e \in BeamStates
    <3>1. Lit(eye, o, {a}, i, range) \subseteq Int \X Int
      BY <1>1, CellIsPlace DEF Lit
    <3> QED
      BY <3>1 DEF BeamStates
  <2>4. /\ e.start = b.start /\ e.next = b.next /\ e.blocked = b.blocked /\ e.over = b.over
        /\ e.split = b.split
        /\ e.seen = b.seen \cup Lit(eye, o, {a}, i, range)
    BY DEF BeamStates
  <2>5. d.seen = e.seen
    <3> HIDE DEF e, d
    <3> QED
      BY <2>1, <2>3 DEF Shadow, BeamStates
  <2> HIDE DEF e, d, vis, dark
  <2>6. Narrowed(e, a + 1, vis, dark, beam, i) /\ SplitRight(e, a + 1, dark, beam, i)
    BY <1>2, <2>4 DEF Narrowed, SplitRight, Edge
  <2>7. Narrowed(d, a, vis, dark, beam, i)
    BY <1>1, <1>3, <2>1, <2>2, <2>3, <2>4, <2>6, ShadowNarrows
  <2>8. SplitRight(d, a, dark, beam, i)
    BY <1>1, <1>3, <2>1, <2>3, <2>6, ShadowSplits
  <2>9. From(a) = From(a + 1) \cup {a}
    <3>1. \A c \in vis : c \in Int
      BY <1>1
    <3>2. \A c \in vis : a <= c <=> (a + 1 <= c \/ c = a)
      BY <1>1, <3>1
    <3> QED
      BY <1>1, <1>3, <3>2
  <2>10. d.seen = Lit(eye, o, From(a), i, range)
    BY <1>2, <2>4, <2>5, <2>9, Zenon DEF Lit
  <2> QED
    BY <2>7, <2>8, <2>10 DEF ScanInv, vis, dark, d
<1>4. CASE a \notin vis
  <2>1. AtMost(b.start, beam[1])
    BY <1>2 DEF Narrowed
  <2>2. /\ d.start = b.start /\ d.next = b.next /\ d.blocked = b.blocked
        /\ d.split = b.split /\ d.seen = b.seen
        /\ d.over => b.over \/ \A c \in vis : a < c
    BY <1>4, <2>1, PassMisses
  <2> HIDE DEF d, vis, dark
  <2>3. \A c \in vis : /\ a <= c <=> a + 1 <= c
                       /\ c < a + 1 <=> c < a
                       /\ a < c => a <= c
                       /\ a + 1 < c => a < c
    <3>1. \A c \in vis : c \in Int /\ c # a
      BY <1>1, <1>4
    <3> QED
      BY <1>1, <3>1
  <2>4. \A c \in dark : (a <= c <=> a + 1 <= c) /\ (a + 1 < c => a < c)
    BY <1>1, <2>3
  <2>5. Edge(d) = Edge(b)
    BY <2>2 DEF Edge
  <2>6. Narrowed(d, a, vis, dark, beam, i)
    <3>1. d.start # beam[1] =>
            \E p \in dark : /\ a < p /\ d.start = RightSlope(p, i)
                            /\ AtMost(beam[2], LeftSlope(p - 1, i))
      BY <1>2, <2>2, <2>4 DEF Narrowed
    <3>2. d.blocked =>
            \E p \in dark : /\ a <= p /\ d.next = RightSlope(p, i) /\ AtMost(d.next, d.start)
                            /\ \A c \in vis : c < a \/ p <= c
      BY <1>2, <2>2, <2>3, <2>4 DEF Narrowed
    <3>3. \A c \in dark : a <= c => AtMost(Edge(d), RightSlope(c, i))
      BY <1>2, <2>4, <2>5 DEF Narrowed
    <3>4. AtMost(d.start, beam[1]) /\ (d.over => \A c \in vis : a <= c)
      BY <1>2, <2>2, <2>3 DEF Narrowed
    <3> QED
      BY <3>1, <3>2, <3>3, <3>4, Zenon DEF Narrowed
  <2>7. SplitRight(d, a, dark, beam, i)
    BY <1>2, <2>2, <2>4 DEF SplitRight
  <2>8. From(a) = From(a + 1)
    BY <2>3
  <2>9. d.seen = Lit(eye, o, From(a), i, range)
    BY <1>2, <2>2, <2>8
  <2> QED
    BY <2>6, <2>7, <2>9 DEF ScanInv, vis, dark, d
<1> QED
  BY <1>3, <1>4

(* What RowOf returns: all cells between the slopes are seen, if they are in
   range, and of the beams that go on none has a wall of this row in it. *)
LEMMA RowResult ==
  ASSUME NEW walls, NEW eye \in Int \X Int, NEW o \in Octants, NEW beam \in Slopes \X Slopes,
         NEW i \in Nat \ {0}, NEW range \in Nat
  PROVE  /\ RowOf(walls, eye, o, beam, i, range) \in BeamStates
         /\ ScanInv(RowOf(walls, eye, o, beam, i, range), 0, walls, eye, o, beam, i, range)
<1>1. PICK scan : /\ Scan(scan, walls, eye, o, beam, i, range)
                  /\ RowOf(walls, eye, o, beam, i, range) = scan[i + 1]
  BY RowUnfolds
<1> DEFINE Inv(b, m) == ScanInv(b, m, walls, eye, o, beam, i, range)
           T == {k \in 0 .. i + 1 : Inv(scan[k], (i + 1) - k)}
<1>2. Inv(scan[0], i + 1) /\ (i + 1) - 0 = i + 1
  BY <1>1, ScanStarts DEF Scan
<1>3. ASSUME NEW k \in 1 .. i + 1, Inv(scan[k - 1], (i + 1) - (k - 1))
      PROVE  Inv(scan[k], (i + 1) - k)
  <2> DEFINE a == (i + 1) - k
  <2>1. a \in 0 .. i /\ i - (k - 1) = a /\ (i + 1) - (k - 1) = a + 1 /\ k - 1 \in 0 .. i + 1
    OBVIOUS
  <2> HIDE DEF a
  <2>2. scan[k - 1] \in BeamStates
    BY <1>1, <2>1 DEF Scan
  <2>3. scan[k] = Pass(scan[k - 1], walls, eye, o, beam[2], a, i, range)
    BY <1>1, <2>1 DEF Scan
  <2>4. Inv(scan[k], a)
    BY <1>3, <2>1, <2>2, <2>3, ScanGoesOn
  <2> QED
    BY <2>4 DEF a
<1> HIDE DEF Inv
<1>4. 0 \in T /\ \A k \in 1 .. i + 1 : k - 1 \in T => k \in T
  BY <1>2, <1>3
<1> HIDE DEF T
<1>5. i + 1 \in T
  <2>1. i + 1 \in Nat /\ i + 1 \in 0 .. i + 1
    OBVIOUS
  <2> QED
    BY <1>4, <2>1, UpTo
<1>6. Inv(scan[i + 1], 0)
  <2>1. (i + 1) - (i + 1) = 0
    OBVIOUS
  <2> QED
    BY <1>5, <2>1 DEF T
<1>7. scan[i + 1] \in BeamStates
  BY <1>1 DEF Scan
<1> QED
  BY <1>1, <1>6, <1>7 DEF Inv

-----------------------------------------------------------------------------
(* From one row to the next *)

(***************************************************************************)
(* The beams that enter row i + 1.  One that was split off and narrowed    *)
(* later may start below its end: right of the wall at p of row j, with    *)
(* its end left of the one at q of row r.  The code goes on with it.       *)
(***************************************************************************)
BeamShape(x, i) ==
  /\ x \in Slopes \X Slopes
  /\ \/ x[2] = <<0, 1>>
     \/ \E r \in 1 .. i : \E q \in 0 .. r : x[2] = LeftSlope(q, r)
  /\ \/ AtMost(x[2], x[1])
     \/ \E r \in 1 .. i : \E j \in r + 1 .. i : \E q \in 0 .. r : \E p \in 1 .. j :
          /\ x[1] = RightSlope(p, j) /\ x[2] = LeftSlope(q, r)
          /\ AtMost(x[2], LeftSlope(p - 1, j))

LEMMA FirstShape == BeamShape(<<<<1, 1>>, <<0, 1>>>>, 0)
<1>1. <<1, 1>> \in Slopes /\ <<0, 1>> \in Slopes
  BY DEF Slopes
<1>2. AtMost(<<0, 1>>, <<1, 1>>)
  BY DEF AtMost, Below
<1> QED
  BY <1>1, <1>2 DEF BeamShape

(* The beams a row leaves: those split off, each between the walls next to it,
   and what is left of the beam itself. *)
LEMMA BeamsLeft ==
  ASSUME NEW b \in BeamStates, NEW end \in Slopes, NEW y \in BeamsAfter(b, end)
  PROVE  \/ y \in b.split /\ AtMost(y[2], y[1])
         \/ y = <<b.start, end>> /\ ~b.blocked
<1> HIDE DEF Slopes
<1>1. CASE y \in b.split /\ ~Below(y[1], y[2])
  BY <1>1 DEF AtMost
<1>2. CASE y \in (IF b.blocked THEN {} ELSE {<<b.start, end>>})
  BY <1>2
<1> QED
  BY <1>1, <1>2 DEF BeamsAfter

LEMMA ShapeKept ==
  ASSUME NEW walls, NEW eye \in Int \X Int, NEW o \in Octants, NEW i \in Nat \ {0},
         NEW range \in Nat, NEW beam, BeamShape(beam, i - 1),
         NEW y \in BeamsAfter(RowOf(walls, eye, o, beam, i, range), beam[2])
  PROVE  BeamShape(y, i)
<1> DEFINE b == RowOf(walls, eye, o, beam, i, range)
           vis == Visited(eye, o, beam, i)
           dark == Dark(walls, eye, o, beam, i)
<1>0. beam \in Slopes \X Slopes
  BY DEF BeamShape
<1>1. beam[1] \in Slopes /\ beam[2] \in Slopes
  BY <1>0
<1>2. b \in BeamStates /\ Narrowed(b, 0, vis, dark, beam, i) /\ SplitRight(b, 0, dark, beam, i)
  BY <1>0, RowResult DEF ScanInv
<1>3. \A c \in dark : c \in 0 .. i
  BY DarkTyped
<1> HIDE DEF b, dark, vis, Slopes
<1>4. CASE y \in b.split /\ AtMost(y[2], y[1])
  <2>1. PICK q \in dark : y[2] = LeftSlope(q, i)
    BY <1>2, <1>4 DEF SplitRight
  <2>2. y \in Slopes \X Slopes
    BY <1>2, <1>4 DEF BeamStates
  <2>3. i \in 1 .. i /\ q \in 0 .. i
    BY <2>1, <1>3
  <2> QED
    BY <2>1, <2>2, <2>3, <1>4 DEF BeamShape
<1>5. CASE y = <<b.start, beam[2]>> /\ ~b.blocked
  <2>1. y \in Slopes \X Slopes /\ y[1] = b.start /\ y[2] = beam[2]
    BY <1>1, <1>2, <1>5 DEF BeamStates
  <2>2. \A r \in 1 .. i - 1 : r \in 1 .. i /\ \A j \in r + 1 .. i - 1 : j \in r + 1 .. i
    OBVIOUS
  <2>3. y[2] = <<0, 1>> \/ \E r \in 1 .. i : \E q \in 0 .. r : y[2] = LeftSlope(q, r)
    BY <2>1, <2>2 DEF BeamShape
  <2>4. CASE b.start = beam[1]
    <3>1. CASE AtMost(beam[2], beam[1])
      BY <3>1, <2>1, <2>3, <2>4 DEF BeamShape
    <3>2. CASE ~AtMost(beam[2], beam[1])
      <4>1. PICK r \in 1 .. i - 1 : \E j \in r + 1 .. i - 1 : \E q \in 0 .. r : \E p \in 1 .. j :
              /\ beam[1] = RightSlope(p, j) /\ beam[2] = LeftSlope(q, r)
              /\ AtMost(beam[2], LeftSlope(p - 1, j))
        BY <3>2 DEF BeamShape
      <4>2. PICK j \in r + 1 .. i - 1 : \E q \in 0 .. r : \E p \in 1 .. j :
              /\ beam[1] = RightSlope(p, j) /\ beam[2] = LeftSlope(q, r)
              /\ AtMost(beam[2], LeftSlope(p - 1, j))
        BY <4>1
      <4>3. r \in 1 .. i /\ j \in r + 1 .. i
        BY <2>2
      <4> QED
        BY <4>2, <4>3, <2>1, <2>3, <2>4 DEF BeamShape
    <3> QED
      BY <3>1, <3>2
  <2>5. CASE b.start # beam[1]
    <3>1. PICK p \in dark : /\ 0 < p /\ b.start = RightSlope(p, i)
                            /\ AtMost(beam[2], LeftSlope(p - 1, i))
      BY <1>2, <2>5 DEF Narrowed
    <3>2. p \in 1 .. i
      BY <3>1, <1>3
    <3>3. CASE beam[2] = <<0, 1>>
      <4>1. AtMost(<<0, 1>>, RightSlope(p, i))
        BY <3>2 DEF AtMost, Below, RightSlope
      <4> QED
        BY <3>1, <3>3, <4>1, <2>1, <2>3 DEF BeamShape
    <3>4. CASE beam[2] # <<0, 1>>
      <4>1. PICK r \in 1 .. i - 1 : \E q \in 0 .. r : beam[2] = LeftSlope(q, r)
        BY <3>4 DEF BeamShape
      <4>2. r \in 1 .. i /\ i \in r + 1 .. i
        OBVIOUS
      <4>3. \E s \in 1 .. i : \E j \in s + 1 .. i : \E q \in 0 .. s : \E n \in 1 .. j :
              /\ y[1] = RightSlope(n, j) /\ y[2] = LeftSlope(q, s)
              /\ AtMost(y[2], LeftSlope(n - 1, j))
        BY <4>1, <4>2, <3>1, <3>2, <2>1
      <4> QED
        BY <4>3, <2>1, <2>3 DEF BeamShape
    <3> QED
      BY <3>3, <3>4
  <2> QED
    BY <2>4, <2>5
<1> QED
  BY <1>1, <1>2, <1>4, <1>5, BeamsLeft DEF b

(***************************************************************************)
(* In a beam that starts below its end, light could pass over a dark row:  *)
(* into a cell a of row i + 1 with nothing visited in row i next to it.    *)
(* That takes fractions close enough to each other, and up to row 11 there *)
(* are none.                                                               *)
(***************************************************************************)
LEMMA NoJump ==
  ASSUME NEW i \in 3 .. 10, NEW j \in 2 .. i - 1, NEW r \in 1 .. j - 1,
         NEW q \in 0 .. r, NEW p \in 1 .. j, NEW a \in 1 .. i - 1,
         AtMost(RightSlope(p, j), RightSlope(a, i)),
         AtMost(RightSlope(a, i + 1), RightSlope(p, j)),
         Below(LeftSlope(a - 1, i), LeftSlope(q, r)),
         AtMost(LeftSlope(q, r), LeftSlope(a, i + 1)),
         Below(RightSlope(p, j), LeftSlope(q, r)),
         AtMost(LeftSlope(q, r), LeftSlope(p - 1, j))
  PROVE  FALSE
<1>1. /\ (2 * p - 1) * (2 * i + 1) <= (2 * a - 1) * (2 * j + 1)
      /\ (2 * a - 1) * (2 * j + 1) <= (2 * p - 1) * (2 * i + 3)
      /\ (2 * a - 1) * (2 * r - 1) < (2 * q + 1) * (2 * i - 1)
      /\ (2 * q + 1) * (2 * i + 1) <= (2 * a + 1) * (2 * r - 1)
      /\ (2 * p - 1) * (2 * r - 1) < (2 * q + 1) * (2 * j + 1)
      /\ (2 * q + 1) * (2 * j - 1) <= (2 * p - 1) * (2 * r - 1)
  <2>1. 2 * (i + 1) + 1 = 2 * i + 3 /\ 2 * (i + 1) - 1 = 2 * i + 1
    OBVIOUS
  <2>2. 2 * (a - 1) + 1 = 2 * a - 1 /\ 2 * (p - 1) + 1 = 2 * p - 1
    OBVIOUS
  <2> QED
    BY <2>1, <2>2 DEF AtMost, Below, LeftSlope, RightSlope
<1> QED
  BY <1>1

LEMMA NearerOnMap ==
  ASSUME NEW eye \in Nat \X Nat, NEW o \in Octants, NEW i \in Nat, NEW j \in Nat, i <= j,
         NEW a \in Nat, NEW c \in Nat, c <= a, ~OffLowSide(Cell(eye, o, a, j))
  PROVE  ~OffLowSide(Cell(eye, o, c, i))
<1> DEFINE x == eye[1]
           y == eye[2]
<1>1. x \in Nat /\ y \in Nat
  OBVIOUS
<1>2. Cell(eye, o, a, j) = <<x - a * o[1] - j * o[2], y - a * o[3] - j * o[4]>>
  BY DEF Cell
<1>3. Cell(eye, o, c, i) = <<x - c * o[1] - i * o[2], y - c * o[3] - i * o[4]>>
  BY DEF Cell
<1>4. x - a * o[1] - j * o[2] >= 0 /\ y - a * o[3] - j * o[4] >= 0
  <2>1. o[1] \in Int /\ o[2] \in Int /\ o[3] \in Int /\ o[4] \in Int
    BY DEF Octants
  <2> HIDE DEF x, y
  <2>2. x - a * o[1] - j * o[2] \in Int /\ y - a * o[3] - j * o[4] \in Int
    BY <1>1, <2>1
  <2> QED
    BY <1>2, <2>2 DEF OffLowSide
<1> HIDE DEF x, y
<1> DEFINE u == x - c * o[1] - i * o[2]
           v == y - c * o[3] - i * o[4]
<1>5. u >= 0 /\ v >= 0 /\ u \in Int /\ v \in Int
  BY <1>1, <1>4 DEF Octants
<1> HIDE DEF u, v
<1>6. ~(u < 0) /\ ~(v < 0)
  BY <1>5
<1> QED
  BY <1>3, <1>6 DEF OffLowSide, u, v

LEMMA NearerInRange ==
  ASSUME NEW i \in Nat, NEW j \in Nat, i <= j, NEW a \in Nat, NEW c \in Nat, c <= a,
         NEW range \in Nat, InRange(a, j, range)
  PROVE  InRange(c, i, range)
<1>1. c * c <= a * a /\ i * i <= j * j
  <2>1. c * c <= a * c /\ c * a <= a * a /\ a * c = c * a
    BY Scaled
  <2>2. i * i <= j * i /\ i * j <= j * j /\ j * i = i * j
    BY Scaled
  <2> QED
    BY <2>1, <2>2
<1>2. a * a \in Int /\ c * c \in Int /\ i * i \in Int /\ j * j \in Int /\ range * range \in Int
  OBVIOUS
<1> QED
  BY <1>1, <1>2 DEF InRange

(***************************************************************************)
(* Light comes to a cell past a transparent cell of the row before, beside *)
(* it, that is seen: of the beams that went on from that row, into which   *)
(* the cell is visited, none has a wall in it.                             *)
(***************************************************************************)
LEMMA Predecessor ==
  ASSUME NEW walls, NEW eye \in Nat \X Nat, NEW o \in Octants, NEW i \in Nat \ {0},
         NEW range \in Nat, NEW beam, BeamShape(beam, i - 1),
         NEW y \in BeamsAfter(RowOf(walls, eye, o, beam, i, range), beam[2]),
         NEW a \in Visited(eye, o, y, i + 1), InRange(a, i + 1, range),
         a \in {0, i + 1} \/ i <= 10
  PROVE  \E c \in 0 .. i : /\ c \in {a - 1, a}
                           /\ ~IsOpaque(walls, Cell(eye, o, c, i))
                           /\ c \in Visited(eye, o, beam, i) /\ InRange(c, i, range)
<1> DEFINE b == RowOf(walls, eye, o, beam, i, range)
           vis == Visited(eye, o, beam, i)
           dark == Dark(walls, eye, o, beam, i)
           Clear(c) == /\ c \in {a - 1, a}
                       /\ AtMost(RightSlope(c, i), beam[1])
                       /\ AtMost(beam[2], LeftSlope(c, i))
                       /\ c \notin dark
<1>0. beam \in Slopes \X Slopes /\ beam[1] \in Slopes /\ beam[2] \in Slopes
  BY DEF BeamShape
<1>1. /\ b \in BeamStates /\ Narrowed(b, 0, vis, dark, beam, i)
      /\ SplitRight(b, 0, dark, beam, i)
  <2>1. eye \in Int \X Int
    OBVIOUS
  <2> QED
    BY <1>0, <2>1, RowResult DEF ScanInv
<1>2. /\ a \in 0 .. i + 1 /\ ~OffLowSide(Cell(eye, o, a, i + 1))
      /\ AtMost(RightSlope(a, i + 1), y[1]) /\ AtMost(y[2], LeftSlope(a, i + 1))
  BY DEF Visited
<1>3. BeamShape(y, i)
  <2>1. eye \in Int \X Int
    OBVIOUS
  <2> QED
    BY <2>1, ShapeKept
<1>4. y[1] \in Slopes /\ y[2] \in Slopes
  BY <1>3 DEF BeamShape
<1>5. /\ RightSlope(a, i + 1) \in Slopes /\ LeftSlope(a, i + 1) \in Slopes
      /\ RightSlope(a, i) \in Slopes /\ LeftSlope(a, i) \in Slopes
      /\ RightSlope(a - 1, i) \in Slopes /\ LeftSlope(a - 1, i) \in Slopes
  BY <1>2, SidesAreSlopes
<1>6. \A c \in dark : c \in 0 .. i /\ AtMost(beam[2], LeftSlope(c, i)) /\ RightSlope(c, i) \in Slopes
  <2>1. \A c \in dark : c \in 0 .. i /\ AtMost(beam[2], LeftSlope(c, i))
    BY DEF Dark, Visited
  <2> QED
    BY <2>1, SidesAreSlopes
<1>7. /\ Below(RightSlope(a - 1, i), RightSlope(a, i + 1))
      /\ AtMost(LeftSlope(a, i + 1), LeftSlope(a, i))
      /\ i <= a => AtMost(LeftSlope(a, i + 1), LeftSlope(a - 1, i))
  BY <1>2, SidesAcrossRows
<1>8. ASSUME NEW c \in 0 .. i, Clear(c)
      PROVE  /\ ~IsOpaque(walls, Cell(eye, o, c, i))
             /\ c \in vis /\ InRange(c, i, range)
  <2>1. c \in Nat /\ a \in Nat /\ c <= a /\ i <= i + 1 /\ i + 1 \in Nat /\ i \in Nat
    BY <1>2, <1>8
  <2>2. ~OffLowSide(Cell(eye, o, c, i)) /\ InRange(c, i, range)
    BY <2>1, <1>2, NearerOnMap, NearerInRange
  <2>3. c \in vis
    BY <1>8, <2>2 DEF Visited
  <2>4. ~IsOpaque(walls, Cell(eye, o, c, i))
    BY <1>8, <2>3 DEF Dark
  <2> QED
    BY <2>2, <2>3, <2>4
<1> HIDE DEF b, vis, dark, Slopes
<1>9. SUFFICES \E c \in 0 .. i : Clear(c)
  <2> HIDE DEF Clear
  <2>1. ASSUME NEW c \in 0 .. i, Clear(c) PROVE c \in {a - 1, a}
    BY <2>1 DEF Clear
  <2> QED
    BY <1>8, <2>1 DEF vis
<1>10. CASE y \in b.split /\ AtMost(y[2], y[1])
  <2>1. PICK q \in dark : /\ y[2] = LeftSlope(q, i) /\ AtMost(y[1], beam[1])
                          /\ \A c \in dark : q < c => AtMost(y[1], RightSlope(c, i))
    BY <1>1, <1>10 DEF SplitRight
  <2>2. q \in 0 .. i /\ q + 1 <= a /\ (a = q + 1 => a <= i)
    <3>1. AtMost(LeftSlope(q, i), LeftSlope(a, i + 1))
      BY <1>2, <2>1
    <3> QED
      BY <1>2, <1>6, <2>1, <3>1, LeftOfSplit
  <2>3. ASSUME NEW c \in 0 .. i, c \in {a - 1, a}, q < c, Below(RightSlope(c, i), y[1])
        PROVE  Clear(c)
    <3>1. RightSlope(c, i) \in Slopes /\ LeftSlope(c, i) \in Slopes /\ LeftSlope(q, i) \in Slopes
      BY <2>2, SidesAreSlopes
    <3>2. AtMost(RightSlope(c, i), beam[1])
      BY <3>1, <2>1, <2>3, <1>0, <1>4, AtMostTransitive, SlopesOrdered
    <3>3. AtMost(LeftSlope(q, i), LeftSlope(c, i))
      <4>1. q \in Int /\ c \in Int /\ q <= c
        BY <2>2, <2>3
      <4> QED
        BY <4>1, SidesAlongRow
    <3>4. AtMost(beam[2], LeftSlope(c, i))
      BY <3>1, <3>3, <1>0, <1>6, <2>1, AtMostTransitive
    <3>5. c \notin dark
      BY <2>1, <2>3 DEF AtMost
    <3> QED
      BY <2>3, <3>2, <3>4, <3>5
  <2> HIDE DEF Clear
  <2>4. CASE a = q + 1
    <3>1. a \in 0 .. i /\ q < a /\ q \in Nat
      BY <2>2, <2>4
    <3>2. Below(RightSlope(a, i), LeftSlope(q, i))
      <4>1. Below(RightSlope(q + 1, i), LeftSlope(q, i))
        BY <3>1, NextSides
      <4> QED
        BY <4>1, <2>4
    <3>3. Below(RightSlope(a, i), y[1])
      BY <3>2, <1>4, <1>5, <1>10, <2>1, BelowTransitive
    <3> QED
      BY <2>3, <3>1, <3>3
  <2>5. CASE a # q + 1
    <3>1. a - 1 \in 0 .. i /\ q < a - 1
      BY <1>2, <2>2, <2>5
    <3>2. Below(RightSlope(a - 1, i), y[1])
      BY <1>2, <1>4, <1>5, <1>7, BelowTransitive
    <3> QED
      BY <2>3, <3>1, <3>2
  <2> QED
    BY <2>4, <2>5
<1>11. CASE y = <<b.start, beam[2]>> /\ ~b.blocked
  <2>1. y[1] = b.start /\ y[2] = beam[2] /\ Edge(b) = b.start
    BY <1>11 DEF Edge
  <2>2. ASSUME NEW c \in 0 .. i, c \in {a - 1, a}, Below(RightSlope(c, i), y[1]),
               AtMost(y[2], LeftSlope(c, i))
        PROVE  Clear(c)
    <3>1. RightSlope(c, i) \in Slopes
      BY SidesAreSlopes
    <3>2. AtMost(RightSlope(c, i), beam[1])
      BY <3>1, <2>1, <2>2, <1>0, <1>1, <1>4, AtMostTransitive, SlopesOrdered DEF Narrowed
    <3>3. c \notin dark
      BY <1>1, <2>1, <2>2 DEF Narrowed, AtMost
    <3> QED
      BY <2>1, <2>2, <3>2, <3>3
  <2> HIDE DEF Clear
  <2>3. CASE a >= 1 /\ AtMost(y[2], LeftSlope(a - 1, i))
    <3>1. a - 1 \in 0 .. i
      BY <1>2, <2>3
    <3>2. Below(RightSlope(a - 1, i), y[1])
      BY <1>2, <1>4, <1>5, <1>7, BelowTransitive
    <3> QED
      BY <2>2, <2>3, <3>1, <3>2
  <2>4. CASE ~(a >= 1 /\ AtMost(y[2], LeftSlope(a - 1, i)))
    <3>1. a = 0 \/ a \in 1 .. i - 1
      <4>1. ASSUME i <= a
            PROVE  FALSE
        <5>1. AtMost(y[2], LeftSlope(a - 1, i))
          BY <4>1, <1>2, <1>4, <1>5, <1>7, AtMostTransitive
        <5>2. a >= 1
          BY <4>1, <1>2
        <5> QED
          BY <5>1, <5>2, <2>4
      <4> QED
        BY <4>1, <1>2
    <3>2. a \in 0 .. i
      BY <3>1
    <3>3. AtMost(y[2], LeftSlope(a, i))
      BY <1>2, <1>4, <1>5, <1>7, AtMostTransitive
    <3>4. a >= 1 => Below(LeftSlope(a - 1, i), y[2])
      BY <2>4 DEF AtMost
    <3>5. Below(RightSlope(a, i), y[1])
      <4>1. CASE AtMost(y[2], y[1])
        <5>1. CASE a = 0
          <6>1. Below(RightSlope(0, i), <<0, 1>>)
            BY DEF Below, RightSlope
          <6>2. ASSUME NEW r \in 1 .. i, NEW q \in 0 .. r, y[2] = LeftSlope(q, r)
                PROVE  Below(RightSlope(0, i), y[2])
            <7>1. (-1) * (2 * r - 1) < (2 * q + 1) * (2 * i + 1)
              OBVIOUS
            <7> QED
              BY <6>2, <7>1 DEF Below, RightSlope, LeftSlope
          <6>3. Below(RightSlope(0, i), y[2])
            BY <6>1, <6>2, <1>3 DEF BeamShape
          <6> QED
            BY <5>1, <6>3, <4>1, <1>4, <1>5, BelowTransitive
        <5>2. CASE a \in 1 .. i - 1
          <6>1. Below(RightSlope(a, i), LeftSlope(a - 1, i))
            <7>1. a - 1 \in Nat /\ (a - 1) + 1 = a
              BY <5>2
            <7>2. Below(RightSlope((a - 1) + 1, i), LeftSlope(a - 1, i))
              BY <7>1, NextSides
            <7> QED
              BY <7>1, <7>2
          <6>2. Below(LeftSlope(a - 1, i), y[1])
            BY <3>4, <4>1, <5>2, <1>4, <1>5, BelowTransitive
          <6> QED
            BY <6>1, <6>2, <1>4, <1>5, BelowTransitive, SlopesOrdered
        <5> QED
          BY <3>1, <5>1, <5>2
      <4>2. CASE ~AtMost(y[2], y[1])
        <5>1. PICK r \in 1 .. i : \E j \in r + 1 .. i : \E q \in 0 .. r : \E p \in 1 .. j :
                /\ y[1] = RightSlope(p, j) /\ y[2] = LeftSlope(q, r)
                /\ AtMost(y[2], LeftSlope(p - 1, j))
          BY <1>3, <4>2 DEF BeamShape
        <5>2. PICK j \in r + 1 .. i : \E q \in 0 .. r : \E p \in 1 .. j :
                /\ y[1] = RightSlope(p, j) /\ y[2] = LeftSlope(q, r)
                /\ AtMost(y[2], LeftSlope(p - 1, j))
          BY <5>1
        <5>3. PICK q \in 0 .. r, p \in 1 .. j :
                /\ y[1] = RightSlope(p, j) /\ y[2] = LeftSlope(q, r)
                /\ AtMost(y[2], LeftSlope(p - 1, j))
          BY <5>2
        <5>4. CASE a = 0
          <6>1. (-1) * (2 * j + 1) < (2 * p - 1) * (2 * i + 1)
            OBVIOUS
          <6> QED
            BY <5>3, <5>4, <6>1 DEF Below, RightSlope
        <5>5. CASE a \in 1 .. i - 1 /\ j = i
          <6>1. a < p
            <7>1. LeftSlope(p - 1, i) \in Slopes
              BY SidesAreSlopes
            <7>2. Below(LeftSlope(a - 1, i), LeftSlope(p - 1, i))
              BY <3>4, <5>3, <5>5, <7>1, <1>4, <1>5, BelowTransitive
            <7>3. ASSUME p <= a PROVE FALSE
              <8>1. p - 1 \in Int /\ a - 1 \in Int /\ p - 1 <= a - 1
                BY <5>5, <7>3
              <8>2. AtMost(LeftSlope(p - 1, i), LeftSlope(a - 1, i))
                BY <8>1, SidesAlongRow
              <8> QED
                BY <7>2, <8>2 DEF AtMost
            <7> QED
              BY <7>3, <5>5
          <6>2. a \in Int /\ p \in Int /\ a <= p
            BY <5>5, <6>1
          <6> QED
            BY <5>3, <5>5, <6>1, <6>2, SidesAlongRow
        <5>6. CASE a \in 1 .. i - 1 /\ j # i
          <6>1. i \in 3 .. 10 /\ j \in 2 .. i - 1 /\ r \in 1 .. j - 1
            BY <5>6
          <6>2. SUFFICES ASSUME AtMost(RightSlope(p, j), RightSlope(a, i))
                         PROVE  FALSE
            BY <5>3 DEF AtMost
          <6>3. Below(RightSlope(p, j), LeftSlope(q, r))
            BY <4>2, <5>3 DEF AtMost
          <6>4. Below(LeftSlope(a - 1, i), LeftSlope(q, r))
            BY <3>4, <5>3, <5>6
          <6> QED
            BY <6>1, <6>2, <6>3, <6>4, <5>3, <5>6, <1>2, NoJump
        <5> QED
          BY <3>1, <5>4, <5>5, <5>6
      <4> QED
        BY <4>1, <4>2
    <3> QED
      BY <2>2, <3>2, <3>3, <3>5
  <2> QED
    BY <2>3, <2>4
<1> QED
  BY <1>0, <1>1, <1>10, <1>11, BeamsLeft DEF b

-----------------------------------------------------------------------------
(* All rows of an octant *)

CastStates == [seen : SUBSET (Int \X Int), beams : SUBSET (Slopes \X Slopes)]

(* The recursion of CastLight. *)
Casting(cast, walls, eye, o, range) ==
  /\ cast \in [0 .. range -> CastStates]
  /\ cast[0] = [seen |-> {}, beams |-> {<<<<1, 1>>, <<0, 1>>>>}]
  /\ \A i \in 1 .. range :
       /\ cast[i].seen = cast[i - 1].seen
            \cup UNION {RowOf(walls, eye, o, x, i, range).seen : x \in cast[i - 1].beams}
       /\ cast[i].beams =
            UNION {BeamsAfter(RowOf(walls, eye, o, x, i, range), x[2]) : x \in cast[i - 1].beams}

LEMMA BeamsAfterTyped ==
  ASSUME NEW b \in BeamStates, NEW end \in Slopes
  PROVE  BeamsAfter(b, end) \subseteq Slopes \X Slopes
<1> HIDE DEF Slopes
<1> SUFFICES ASSUME NEW y \in BeamsAfter(b, end) PROVE y \in Slopes \X Slopes
  OBVIOUS
<1> QED
  BY BeamsLeft DEF BeamStates

LEMMA CastUnfolds ==
  ASSUME NEW walls, NEW eye \in Int \X Int, NEW o \in Octants, NEW range \in Nat
  PROVE  \E cast : /\ Casting(cast, walls, eye, o, range)
                   /\ CastLight(walls, eye, o, range) = cast[range].seen
<1> DEFINE Row(x, i) == RowOf(walls, eye, o, x, i, range)
           Rows(before, i) == {<<Row(x, i), x[2]>> : x \in before.beams}
           One(before, i) ==
             [seen  |-> before.seen \cup UNION {r[1].seen : r \in Rows(before, i)},
              beams |-> UNION {BeamsAfter(r[1], r[2]) : r \in Rows(before, i)}]
           first == [seen |-> {}, beams |-> {<<<<1, 1>>, <<0, 1>>>>}]
           step == [x \in (1 .. range) \X CastStates |-> One(x[2], x[1])]
           cast == CHOOSE f : f = [i \in 0 .. range |-> IF i = 0 THEN first
                                                        ELSE One(f[i - 1], i)]
<1>1. ASSUME NEW before \in CastStates, NEW i \in 1 .. range
      PROVE  /\ One(before, i) \in CastStates
             /\ One(before, i).seen
                  = before.seen \cup UNION {Row(x, i).seen : x \in before.beams}
             /\ One(before, i).beams = UNION {BeamsAfter(Row(x, i), x[2]) : x \in before.beams}
  <2>1. ASSUME NEW x \in before.beams
        PROVE  /\ Row(x, i).seen \subseteq Int \X Int
               /\ BeamsAfter(Row(x, i), x[2]) \subseteq Slopes \X Slopes
    <3>1. x \in Slopes \X Slopes
      <4> HIDE DEF Slopes
      <4> QED
        BY DEF CastStates
    <3>2. Row(x, i) \in BeamStates
      BY <3>1, RowResult
    <3>3. x[2] \in Slopes
      BY <3>1
    <3> HIDE DEF Row, Slopes
    <3> QED
      BY <3>2, <3>3, BeamsAfterTyped DEF BeamStates
  <2> HIDE DEF Row
  <2> DEFINE rows == Rows(before, i)
  <2>2. ASSUME NEW x \in before.beams
        PROVE  \E r \in rows : r[1] = Row(x, i) /\ r[2] = x[2]
    <3> DEFINE r == <<Row(x, i), x[2]>>
    <3>1. r \in rows
      OBVIOUS
    <3>2. r[1] = Row(x, i) /\ r[2] = x[2]
      OBVIOUS
    <3> QED
      BY <3>1, <3>2
  <2>3. \A r \in rows : \E x \in before.beams : r[1] = Row(x, i) /\ r[2] = x[2]
    OBVIOUS
  <2> HIDE DEF rows
  <2>4. {r[1].seen : r \in rows} = {Row(x, i).seen : x \in before.beams}
    BY <2>2, <2>3
  <2>5. {BeamsAfter(r[1], r[2]) : r \in rows} = {BeamsAfter(Row(x, i), x[2]) : x \in before.beams}
    BY <2>2, <2>3
  <2>6. UNION {r[1].seen : r \in Rows(before, i)} = UNION {Row(x, i).seen : x \in before.beams}
    BY <2>4, Zenon DEF rows
  <2>7. UNION {BeamsAfter(r[1], r[2]) : r \in Rows(before, i)}
          = UNION {BeamsAfter(Row(x, i), x[2]) : x \in before.beams}
    BY <2>5, Zenon DEF rows
  <2>8. /\ UNION {Row(x, i).seen : x \in before.beams} \subseteq Int \X Int
        /\ UNION {BeamsAfter(Row(x, i), x[2]) : x \in before.beams} \subseteq Slopes \X Slopes
    <3> HIDE DEF Slopes
    <3> QED
      BY <2>1
  <2> HIDE DEF Rows, Slopes
  <2> QED
    BY <2>6, <2>7, <2>8 DEF CastStates
<1>2. CastLight(walls, eye, o, range) = cast[range].seen
  BY DEF CastLight
<1>3. first \in CastStates
  <2>1. <<<<1, 1>>, <<0, 1>>>> \in Slopes \X Slopes
    BY DEF Slopes
  <2> HIDE DEF Slopes
  <2> QED
    BY <2>1 DEF CastStates
<1> HIDE DEF One, first, Slopes
<1>4. step \in [(1 .. range) \X CastStates -> CastStates]
  BY <1>1
<1>5. \A c \in CastStates, i \in 1 .. range : step[<<i, c>>] = One(c, i)
  OBVIOUS
<1> HIDE DEF step
<1>6. PICK f : Chain(f, CastStates, first, step, range)
  BY <1>3, <1>4, ChainExists
<1>7. f = [i \in 0 .. range |-> IF i = 0 THEN first ELSE One(f[i - 1], i)]
  <2>1. f = [i \in 0 .. range |-> f[i]]
    BY <1>6 DEF Chain
  <2>2. \A i \in 0 .. range : f[i] = IF i = 0 THEN first ELSE One(f[i - 1], i)
    <3> TAKE i \in 0 .. range
    <3>1. CASE i = 0
      BY <3>1, <1>6 DEF Chain
    <3>2. CASE i # 0
      <4>1. i \in 1 .. range /\ i - 1 \in 0 .. range
        BY <3>2
      <4>2. f[i - 1] \in CastStates
        BY <4>1, <1>6 DEF Chain
      <4>3. f[i] = step[<<i, f[i - 1]>>]
        BY <4>1, <1>6 DEF Chain
      <4> QED
        BY <3>2, <4>1, <4>2, <4>3, <1>5
    <3> QED
      BY <3>1, <3>2
  <2> QED
    BY <2>1, <2>2
<1>8. cast = [i \in 0 .. range |-> IF i = 0 THEN first ELSE One(cast[i - 1], i)]
  BY <1>7, Zenon
<1> HIDE DEF cast
<1>9. cast[0] = first /\ \A i \in 1 .. range : cast[i] = One(cast[i - 1], i)
  BY <1>8
<1>10. \A i \in 0 .. range : cast[i] \in CastStates
  <2> DEFINE T == {i \in 0 .. range : cast[i] \in CastStates}
  <2>1. 0 \in T
    BY <1>3, <1>9
  <2>2. \A i \in 1 .. range : i - 1 \in T => i \in T
    BY <1>1, <1>9
  <2> HIDE DEF T
  <2>3. \A i \in 0 .. range : i \in T
    BY <2>1, <2>2, UpTo
  <2> QED
    BY <2>3 DEF T
<1>11. cast \in [0 .. range -> CastStates]
  BY <1>8, <1>10
<1>12. ASSUME NEW i \in 1 .. range
       PROVE  /\ cast[i].seen = cast[i - 1].seen
                   \cup UNION {RowOf(walls, eye, o, x, i, range).seen : x \in cast[i - 1].beams}
              /\ cast[i].beams =
                   UNION {BeamsAfter(RowOf(walls, eye, o, x, i, range), x[2]) :
                          x \in cast[i - 1].beams}
  <2>1. i - 1 \in 0 .. range
    OBVIOUS
  <2> HIDE DEF Row
  <2>2. /\ cast[i].seen = cast[i - 1].seen
             \cup UNION {Row(x, i).seen : x \in cast[i - 1].beams}
        /\ cast[i].beams = UNION {BeamsAfter(Row(x, i), x[2]) : x \in cast[i - 1].beams}
    BY <1>1, <1>9, <1>10, <2>1
  <2> QED
    BY <2>2 DEF Row
<1>13. Casting(cast, walls, eye, o, range)
  BY <1>9, <1>11, <1>12 DEF Casting, first
<1> QED
  BY <1>2, <1>13

(* Cell a of row i is visited by some beam, and in range. *)
LitCell(cast, eye, o, a, i, range) ==
  /\ InRange(a, i, range)
  /\ \E x \in cast[i - 1].beams : a \in Visited(eye, o, x, i)

LEMMA CastShapes ==
  ASSUME NEW walls, NEW eye \in Int \X Int, NEW o \in Octants, NEW range \in Nat, NEW cast,
         Casting(cast, walls, eye, o, range), NEW i \in 0 .. range, NEW x \in cast[i].beams
  PROVE  BeamShape(x, i)
<1> DEFINE T == {k \in 0 .. range : \A y \in cast[k].beams : BeamShape(y, k)}
<1>1. 0 \in T
  <2>1. cast[0].beams = {<<<<1, 1>>, <<0, 1>>>>}
    BY DEF Casting
  <2>2. \A y \in cast[0].beams : BeamShape(y, 0)
    BY <2>1, FirstShape, Zenon
  <2> QED
    BY <2>2
<1>2. ASSUME NEW k \in 1 .. range, k - 1 \in T
      PROVE  k \in T
  <2> SUFFICES ASSUME NEW y \in cast[k].beams PROVE BeamShape(y, k)
    OBVIOUS
  <2>1. PICK z \in cast[k - 1].beams : y \in BeamsAfter(RowOf(walls, eye, o, z, k, range), z[2])
    BY DEF Casting
  <2>2. BeamShape(z, k - 1)
    BY <1>2
  <2>3. k \in Nat \ {0}
    OBVIOUS
  <2> QED
    BY <2>1, <2>2, <2>3, ShapeKept
<1> HIDE DEF T
<1>3. i \in T
  BY <1>1, <1>2, UpTo
<1> QED
  BY <1>3 DEF T

LEMMA CastBeams ==
  ASSUME NEW walls, NEW eye \in Int \X Int, NEW o \in Octants, NEW range \in Nat, NEW cast,
         Casting(cast, walls, eye, o, range), NEW i \in 0 .. range, NEW x \in cast[i].beams
  PROVE  x \in Slopes \X Slopes /\ x[1] \in Slopes /\ x[2] \in Slopes
<1>1. BeamShape(x, i)
  BY CastShapes
<1>2. x \in Slopes \X Slopes
  BY <1>1 DEF BeamShape
<1> HIDE DEF Slopes
<1> QED
  BY <1>2

(* What an octant shows are its lit cells. *)
LEMMA CastSees ==
  ASSUME NEW walls, NEW eye \in Int \X Int, NEW o \in Octants, NEW range \in Nat, NEW cast,
         Casting(cast, walls, eye, o, range), NEW t
  PROVE  t \in cast[range].seen
           <=> \E i \in 1 .. range : \E a \in 0 .. i :
                 LitCell(cast, eye, o, a, i, range) /\ t = Cell(eye, o, a, i)
<1> DEFINE InRow(i) == \E a \in 0 .. i :
                         LitCell(cast, eye, o, a, i, range) /\ t = Cell(eye, o, a, i)
           T == {k \in 0 .. range : t \in cast[k].seen <=> \E i \in 1 .. k : InRow(i)}
<1>1. ASSUME NEW k \in 1 .. range
      PROVE  t \in cast[k].seen <=> t \in cast[k - 1].seen \/ InRow(k)
  <2>1. k \in Nat \ {0} /\ k - 1 \in 0 .. range
    OBVIOUS
  <2>2. ASSUME NEW x \in cast[k - 1].beams
        PROVE  t \in RowOf(walls, eye, o, x, k, range).seen
                 <=> \E a \in 0 .. k : /\ a \in Visited(eye, o, x, k) /\ InRange(a, k, range)
                                       /\ t = Cell(eye, o, a, k)
    <3>1. x \in Slopes \X Slopes
      BY <2>1, CastShapes DEF BeamShape
    <3>2. RowOf(walls, eye, o, x, k, range).seen
            = Lit(eye, o, {c \in Visited(eye, o, x, k) : 0 <= c}, k, range)
      BY <2>1, <3>1, RowResult DEF ScanInv
    <3>3. \A c \in Visited(eye, o, x, k) : c \in 0 .. k /\ 0 <= c
      BY DEF Visited
    <3> QED
      BY <3>2, <3>3 DEF Lit
  <2>3. t \in cast[k].seen <=> \/ t \in cast[k - 1].seen
                               \/ \E x \in cast[k - 1].beams :
                                    t \in RowOf(walls, eye, o, x, k, range).seen
    <3>1. cast[k].seen = cast[k - 1].seen
            \cup UNION {RowOf(walls, eye, o, x, k, range).seen : x \in cast[k - 1].beams}
      BY DEF Casting
    <3> QED
      BY <3>1, Zenon
  <2> QED
    BY <2>2, <2>3, Zenon DEF LitCell
<1> HIDE DEF InRow
<1>2. 0 \in T
  BY DEF Casting
<1>3. ASSUME NEW k \in 1 .. range, k - 1 \in T
      PROVE  k \in T
  <2>1. \A i \in 1 .. k : i \in 1 .. k - 1 \/ i = k
    OBVIOUS
  <2>2. k \in 1 .. k /\ \A i \in 1 .. k - 1 : i \in 1 .. k
    OBVIOUS
  <2> QED
    BY <1>1, <1>3, <2>1, <2>2
<1> HIDE DEF T
<1>4. range \in T
  <2>1. range \in 0 .. range
    OBVIOUS
  <2> QED
    BY <1>2, <1>3, <2>1, UpTo
<1> QED
  BY <1>4 DEF T, InRow

(* Predecessor, for the cells of an octant. *)
LEMMA LightReaches ==
  ASSUME NEW walls, NEW eye \in Nat \X Nat, NEW o \in Octants, NEW range \in Nat, NEW cast,
         Casting(cast, walls, eye, o, range),
         NEW i \in 1 .. range - 1, NEW a \in 0 .. i + 1,
         LitCell(cast, eye, o, a, i + 1, range),
         a \in {0, i + 1} \/ i <= 10
  PROVE  \E c \in 0 .. i : /\ c \in {a - 1, a}
                           /\ ~IsOpaque(walls, Cell(eye, o, c, i))
                           /\ LitCell(cast, eye, o, c, i, range)
<1>1. eye \in Int \X Int /\ i \in Nat \ {0} /\ i \in 1 .. range /\ i - 1 \in 0 .. range
      /\ (i + 1) - 1 = i
  OBVIOUS
<1>2. PICK y \in cast[i].beams : a \in Visited(eye, o, y, i + 1)
  BY <1>1 DEF LitCell
<1>3. PICK x \in cast[i - 1].beams : y \in BeamsAfter(RowOf(walls, eye, o, x, i, range), x[2])
  <2>1. cast[i].beams =
          UNION {BeamsAfter(RowOf(walls, eye, o, x, i, range), x[2]) : x \in cast[i - 1].beams}
    BY <1>1 DEF Casting
  <2> QED
    BY <1>2, <2>1, Zenon
<1>4. BeamShape(x, i - 1)
  BY <1>1, <1>3, CastShapes
<1>5. InRange(a, i + 1, range)
  BY DEF LitCell
<1>6. PICK c \in 0 .. i : /\ c \in {a - 1, a}
                          /\ ~IsOpaque(walls, Cell(eye, o, c, i))
                          /\ c \in Visited(eye, o, x, i) /\ InRange(c, i, range)
  BY <1>1, <1>2, <1>3, <1>4, <1>5, Predecessor
<1> QED
  BY <1>3, <1>6 DEF LitCell

(* The beams after row i are those the beams before it leave. *)
LEMMA BeamGoesOn ==
  ASSUME NEW walls, NEW eye, NEW o, NEW range \in Nat, NEW cast,
         Casting(cast, walls, eye, o, range), NEW i \in 1 .. range,
         NEW x \in cast[i - 1].beams,
         NEW y \in BeamsAfter(RowOf(walls, eye, o, x, i, range), x[2])
  PROVE  y \in cast[i].beams
<1>1. cast[i].beams =
        UNION {BeamsAfter(RowOf(walls, eye, o, z, i, range), z[2]) : z \in cast[i - 1].beams}
  BY DEF Casting
<1> QED
  BY <1>1, Zenon

LEMMA OpenOnMap ==
  ASSUME NEW walls, NEW t, ~IsOpaque(walls, t)
  PROVE  ~OffLowSide(t)
<1>1. t \in Tiles
  BY DEF IsOpaque
<1>2. t[1] \in 0 .. MAP_WIDTH - 1 /\ t[2] \in 0 .. MAP_HEIGHT - 1
  BY <1>1 DEF Tiles
<1> QED
  BY <1>2, GridAssumption DEF OffLowSide

-----------------------------------------------------------------------------
(* What is sure to be lit *)

(* Past transparent cells up to A from the middle, the light comes as far as
   those, and one further to the side. *)
LEMMA LitRectangle ==
  ASSUME NEW walls, NEW eye \in Nat \X Nat, NEW o \in Octants, NEW range \in Nat, NEW cast,
         Casting(cast, walls, eye, o, range),
         NEW A \in Nat, NEW i \in 1 .. range,
         \A j \in 1 .. i - 1 : \A c \in 0 .. j : c <= A => ~IsOpaque(walls, Cell(eye, o, c, j)),
         NEW a \in 0 .. i, a <= A + 1, InRange(a, i, range), ~OffLowSide(Cell(eye, o, a, i))
  PROVE  LitCell(cast, eye, o, a, i, range)
<1> DEFINE Wide(x, k) == /\ x[2] = <<0, 1>>
                         /\ \/ x[1] = <<1, 1>>
                            \/ k >= 1 /\ AtMost(RightSlope(A + 1, k), x[1])
           T == {k \in 0 .. i - 1 : \E x \in cast[k].beams : Wide(x, k)}
<1>0. eye \in Int \X Int /\ A + 1 \in Int
  OBVIOUS
<1>1. 0 \in T
  <2>1. cast[0].beams = {<<<<1, 1>>, <<0, 1>>>>}
    BY DEF Casting
  <2>2. Wide(<<<<1, 1>>, <<0, 1>>>>, 0)
    OBVIOUS
  <2> HIDE DEF Wide
  <2> QED
    BY <2>1, <2>2
<1>2. ASSUME NEW k \in 1 .. i - 1, k - 1 \in T
      PROVE  k \in T
  <2>1. PICK x \in cast[k - 1].beams : Wide(x, k - 1)
    BY <1>2
  <2>2. k \in Nat \ {0} /\ k - 1 \in 0 .. range /\ k \in 1 .. range
    OBVIOUS
  <2>3. x \in Slopes \X Slopes /\ x[1] \in Slopes
    BY <1>0, <2>2, CastBeams
  <2> DEFINE b == RowOf(walls, eye, o, x, k, range)
             vis == Visited(eye, o, x, k)
             dark == Dark(walls, eye, o, x, k)
             y == <<b.start, x[2]>>
  <2>4. b \in BeamStates /\ Narrowed(b, 0, vis, dark, x, k)
    BY <1>0, <2>2, <2>3, RowResult DEF ScanInv
  <2>5. \A p \in dark : p \in 0 .. k /\ A < p
    <3>1. \A p \in dark : p \in 0 .. k /\ IsOpaque(walls, Cell(eye, o, p, k))
      BY DEF Dark, Visited
    <3> QED
      BY <3>1
  <2>6. \/ x[1] = <<1, 1>>
        \/ AtMost(RightSlope(A + 1, k), x[1])
    <3>1. CASE k - 1 >= 1 /\ AtMost(RightSlope(A + 1, k - 1), x[1])
      <4>1. k - 1 \in Nat \ {0}
        BY <3>1
      <4>2. AtMost(RightSlope(A + 1, k), RightSlope(A + 1, k - 1))
        <5>1. (2 * (A + 1) - 1) * (2 * (k - 1) + 1) <= (2 * (A + 1) - 1) * (2 * k + 1)
          BY <4>1
        <5> QED
          BY <5>1 DEF AtMost, Below, RightSlope
      <4>3. RightSlope(A + 1, k) \in Slopes /\ RightSlope(A + 1, k - 1) \in Slopes
        BY <1>0, <2>2, <4>1, SidesAreSlopes
      <4> QED
        BY <2>3, <3>1, <4>2, <4>3, AtMostTransitive
    <3> QED
      BY <2>1, <3>1
  <2>7. 0 \in vis
    <3>1. ~OffLowSide(Cell(eye, o, 0, k))
      BY OpenOnMap
    <3>2. AtMost(RightSlope(0, k), x[1])
      <4>1. AtMost(RightSlope(0, k), <<1, 1>>)
        BY DEF AtMost, Below, RightSlope
      <4>2. AtMost(RightSlope(0, k), RightSlope(A + 1, k))
        <5>1. 0 \in Int /\ 0 <= A + 1
          OBVIOUS
        <5> QED
          BY <1>0, <2>2, <5>1, SidesAlongRow
      <4>3. RightSlope(0, k) \in Slopes /\ RightSlope(A + 1, k) \in Slopes
        BY <1>0, <2>2, SidesAreSlopes
      <4> QED
        BY <2>3, <2>6, <4>1, <4>2, <4>3, AtMostTransitive
    <3>3. AtMost(x[2], LeftSlope(0, k))
      <4>1. AtMost(<<0, 1>>, LeftSlope(0, k))
        BY DEF AtMost, Below, LeftSlope
      <4> QED
        BY <2>1, <4>1
    <3> QED
      BY <3>1, <3>2, <3>3 DEF Visited
  <2>8. ~b.blocked
    <3> SUFFICES ASSUME b.blocked PROVE FALSE
      OBVIOUS
    <3> HIDE DEF b, vis, dark
    <3>1. PICK p \in dark : \A c \in vis : c < 0 \/ p <= c
      BY <2>4 DEF Narrowed
    <3>2. p <= 0
      BY <2>7, <3>1
    <3> QED
      BY <2>5, <3>2
  <2>9. \/ b.start = <<1, 1>>
        \/ AtMost(RightSlope(A + 1, k), b.start)
    <3>1. CASE b.start = x[1]
      BY <2>6, <3>1
    <3>2. CASE b.start # x[1]
      <4> HIDE DEF b, vis, dark
      <4>1. PICK p \in dark : b.start = RightSlope(p, k)
        BY <2>4, <3>2 DEF Narrowed
      <4>2. p \in Int /\ A + 1 <= p
        BY <2>5
      <4> QED
        BY <1>0, <2>2, <4>1, <4>2, SidesAlongRow
    <3> QED
      BY <3>1, <3>2
  <2>10. y \in BeamsAfter(b, x[2])
    <3> HIDE DEF b
    <3> QED
      BY <2>8 DEF BeamsAfter
  <2>11. y \in cast[k].beams
    BY <2>2, <2>10, BeamGoesOn
  <2>12. Wide(y, k)
    <3> HIDE DEF b
    <3> QED
      BY <2>1, <2>9
  <2> QED
    BY <2>11, <2>12
<1>3. i - 1 \in T
  <2>1. i - 1 \in Nat /\ i - 1 \in 0 .. i - 1
    OBVIOUS
  <2> HIDE DEF T
  <2> QED
    BY <1>1, <1>2, <2>1, UpTo
<1>4. PICK x \in cast[i - 1].beams : Wide(x, i - 1)
  BY <1>3
<1>5. i \in Nat \ {0} /\ i - 1 \in 0 .. range /\ a \in Int /\ i - 1 \in Nat
  OBVIOUS
<1>6. x[1] \in Slopes
  BY <1>0, <1>5, CastBeams
<1>7. AtMost(RightSlope(a, i), x[1])
  <2>1. CASE x[1] = <<1, 1>>
    <3>1. 2 * a - 1 <= 2 * i + 1
      OBVIOUS
    <3> QED
      BY <2>1, <3>1 DEF AtMost, Below, RightSlope
  <2>2. CASE i - 1 >= 1 /\ AtMost(RightSlope(A + 1, i - 1), x[1])
    <3>1. i - 1 \in Nat \ {0}
      BY <2>2
    <3>2. AtMost(RightSlope(a, i), RightSlope(A + 1, i))
      BY <1>0, <1>5, SidesAlongRow
    <3>3. AtMost(RightSlope(A + 1, i), RightSlope(A + 1, i - 1))
      <4>1. (2 * (A + 1) - 1) * (2 * (i - 1) + 1) <= (2 * (A + 1) - 1) * (2 * i + 1)
        BY <3>1
      <4> QED
        BY <4>1 DEF AtMost, Below, RightSlope
    <3>4. /\ RightSlope(A + 1, i) \in Slopes /\ RightSlope(A + 1, i - 1) \in Slopes
          /\ RightSlope(a, i) \in Slopes
      BY <1>0, <1>5, <3>1, SidesAreSlopes
    <3> QED
      BY <1>6, <2>2, <3>2, <3>3, <3>4, AtMostTransitive
  <2> QED
    BY <1>4, <2>1, <2>2
<1>8. AtMost(x[2], LeftSlope(a, i))
  <2>1. AtMost(<<0, 1>>, LeftSlope(a, i))
    BY DEF AtMost, Below, LeftSlope
  <2> QED
    BY <1>4, <2>1
<1> QED
  BY <1>7, <1>8 DEF LitCell, Visited

(* Past transparent cells on the diagonal, the light comes to the next one:
   some beam still starts there. *)
LEMMA LitDiagonal ==
  ASSUME NEW walls, NEW eye \in Nat \X Nat, NEW o \in Octants, NEW range \in Nat, NEW cast,
         Casting(cast, walls, eye, o, range), NEW i \in 1 .. range,
         \A j \in 1 .. i - 1 : ~IsOpaque(walls, Cell(eye, o, j, j)),
         InRange(i, i, range), ~OffLowSide(Cell(eye, o, i, i))
  PROVE  LitCell(cast, eye, o, i, i, range)
<1> DEFINE Full(x) == x[1] = <<1, 1>> /\ AtMost(x[2], <<1, 1>>)
           T == {k \in 0 .. i - 1 : \E x \in cast[k].beams : Full(x)}
<1>0. eye \in Int \X Int /\ <<1, 1>> \in Slopes
  BY DEF Slopes
<1>1. 0 \in T
  <2>1. cast[0].beams = {<<<<1, 1>>, <<0, 1>>>>}
    BY DEF Casting
  <2>2. Full(<<<<1, 1>>, <<0, 1>>>>)
    BY DEF AtMost, Below
  <2> HIDE DEF Full
  <2> QED
    BY <2>1, <2>2
<1>2. ASSUME NEW k \in 1 .. range, NEW x \in cast[k - 1].beams, Full(x),
             ~OffLowSide(Cell(eye, o, k, k))
      PROVE  k \in Visited(eye, o, x, k)
  <2>1. k - 1 \in 0 .. range /\ k \in Nat \ {0}
    OBVIOUS
  <2>2. x[2] \in Slopes /\ LeftSlope(k, k) \in Slopes
    <3>1. LeftSlope(k, k) \in Slopes
      <4>1. k \in Int
        OBVIOUS
      <4> QED
        BY <2>1, <4>1, SidesAreSlopes
    <3> HIDE DEF Slopes
    <3> QED
      BY <1>0, <2>1, <3>1, CastBeams
  <2>3. AtMost(RightSlope(k, k), <<1, 1>>) /\ AtMost(<<1, 1>>, LeftSlope(k, k))
    BY DEF AtMost, Below, LeftSlope, RightSlope
  <2>4. AtMost(x[2], LeftSlope(k, k))
    BY <1>0, <1>2, <2>2, <2>3, AtMostTransitive
  <2> QED
    BY <1>2, <2>3, <2>4 DEF Visited
<1>3. ASSUME NEW k \in 1 .. i - 1, k - 1 \in T
      PROVE  k \in T
  <2>1. PICK x \in cast[k - 1].beams : Full(x)
    BY <1>3
  <2>2. k \in Nat \ {0} /\ k - 1 \in 0 .. range /\ k \in 1 .. range
    OBVIOUS
  <2>3. x \in Slopes \X Slopes
    BY <1>0, <2>2, CastBeams
  <2> DEFINE b == RowOf(walls, eye, o, x, k, range)
             vis == Visited(eye, o, x, k)
             dark == Dark(walls, eye, o, x, k)
  <2>4. b \in BeamStates /\ SplitRight(b, 0, dark, x, k)
    BY <1>0, <2>2, <2>3, RowResult DEF ScanInv
  <2>5. \A p \in dark : p \in 0 .. k - 1
    <3>1. \A p \in dark : p \in 0 .. k /\ IsOpaque(walls, Cell(eye, o, p, k))
      BY DEF Dark, Visited
    <3>2. k \notin dark
      BY DEF Dark
    <3> QED
      BY <3>1, <3>2
  <2> HIDE DEF b, dark, vis, Full, Slopes
  <2>6. \E y \in BeamsAfter(b, x[2]) : Full(y)
    <3>1. CASE b.start = x[1] /\ ~b.blocked
      <4>1. <<b.start, x[2]>> \in BeamsAfter(b, x[2])
        BY <3>1 DEF BeamsAfter
      <4>2. Full(<<b.start, x[2]>>)
        BY <2>1, <3>1 DEF Full
      <4> QED
        BY <4>1, <4>2
    <3>2. CASE \E y \in b.split : y[1] = x[1]
      <4>1. PICK y \in b.split : y[1] = x[1]
        BY <3>2
      <4>2. PICK q \in dark : y[2] = LeftSlope(q, k)
        BY <2>4, <4>1 DEF SplitRight
      <4>3. AtMost(LeftSlope(q, k), <<1, 1>>)
        <5>1. q \in 0 .. k - 1
          BY <2>5, <4>2
        <5>2. 2 * q + 1 <= 2 * k - 1 /\ 2 * q + 1 \in Int /\ 2 * k - 1 \in Int
          BY <5>1
        <5> QED
          BY <5>2 DEF AtMost, Below, LeftSlope
      <4>4. Full(y)
        BY <2>1, <4>1, <4>2, <4>3 DEF Full
      <4>5. ~Below(y[1], y[2])
        BY <4>4 DEF Full, AtMost
      <4>6. y \in BeamsAfter(b, x[2])
        BY <4>1, <4>5 DEF BeamsAfter
      <4> QED
        BY <4>4, <4>6
    <3> QED
      BY <2>4, <3>1, <3>2 DEF SplitRight
  <2>7. PICK y \in BeamsAfter(b, x[2]) : Full(y)
    BY <2>6
  <2>8. y \in cast[k].beams
    BY <2>2, <2>7, BeamGoesOn DEF b
  <2> QED
    BY <2>7, <2>8
<1>4. i - 1 \in T
  <2>1. i - 1 \in Nat /\ i - 1 \in 0 .. i - 1
    OBVIOUS
  <2> HIDE DEF T
  <2> QED
    BY <1>1, <1>3, <2>1, UpTo
<1>5. PICK x \in cast[i - 1].beams : Full(x)
  BY <1>4
<1>6. i \in Visited(eye, o, x, i)
  BY <1>2, <1>5
<1> QED
  BY <1>6 DEF LitCell

-----------------------------------------------------------------------------
(* All octants *)

LEMMA OctantIs ==
  ASSUME NEW o \in Octants
  PROVE  /\ o[1] \in {-1, 0, 1} /\ o[2] \in {-1, 0, 1}
         /\ o[3] \in {-1, 0, 1} /\ o[4] \in {-1, 0, 1}
         /\ \/ o[1] # 0 /\ o[2] = 0 /\ o[3] = 0 /\ o[4] # 0
            \/ o[1] = 0 /\ o[2] # 0 /\ o[3] # 0 /\ o[4] = 0
<1>1. CASE o \in {<<1, 0, 0, 1>>, <<-1, 0, 0, 1>>, <<-1, 0, 0, -1>>, <<1, 0, 0, -1>>}
  BY <1>1
<1>2. CASE o \in {<<0, 1, 1, 0>>, <<0, -1, 1, 0>>, <<0, -1, -1, 0>>, <<0, 1, -1, 0>>}
  BY <1>2
<1> QED
  BY <1>1, <1>2, Zenon DEF Octants

(* What is seen, besides the eye's own tile, are lit cells of some octant. *)
LitBy(t, walls, eye, range, o, cast, i, a) ==
  /\ Casting(cast, walls, eye, o, range)
  /\ CastLight(walls, eye, o, range) = cast[range].seen
  /\ LitCell(cast, eye, o, a, i, range)
  /\ t = Cell(eye, o, a, i)

LEMMA Sees ==
  ASSUME NEW walls, NEW eye \in Int \X Int, NEW range \in Nat,
         NEW t \in fov_2d(walls, eye, range), t # eye
  PROVE  \E o \in Octants : \E cast : \E i \in 1 .. range : \E a \in 0 .. i :
           LitBy(t, walls, eye, range, o, cast, i, a)
<1>1. PICK o \in Octants : t \in CastLight(walls, eye, o, range)
  BY DEF fov_2d
<1>2. PICK cast : /\ Casting(cast, walls, eye, o, range)
                  /\ CastLight(walls, eye, o, range) = cast[range].seen
  BY CastUnfolds
<1>3. \E i \in 1 .. range : \E a \in 0 .. i :
        LitCell(cast, eye, o, a, i, range) /\ t = Cell(eye, o, a, i)
  BY <1>1, <1>2, CastSees
<1> QED
  BY <1>2, <1>3 DEF LitBy

LEMMA CellSeen ==
  ASSUME NEW walls, NEW eye \in Int \X Int, NEW range \in Nat, NEW o \in Octants,
         NEW i \in 1 .. range, NEW a \in 0 .. i,
         \A cast : Casting(cast, walls, eye, o, range) => LitCell(cast, eye, o, a, i, range)
  PROVE  Cell(eye, o, a, i) \in fov_2d(walls, eye, range)
<1>1. PICK cast : /\ Casting(cast, walls, eye, o, range)
                  /\ CastLight(walls, eye, o, range) = cast[range].seen
  BY CastUnfolds
<1>2. LitCell(cast, eye, o, a, i, range)
  BY <1>1
<1>3. Cell(eye, o, a, i) \in cast[range].seen
  BY <1>1, <1>2, CastSees
<1> QED
  BY <1>1, <1>3 DEF fov_2d

(* No cell in range lies in the last row: a * a + i * i < range * range. *)
LEMMA RowInRange ==
  ASSUME NEW range \in Nat, NEW i \in Nat, NEW a \in Nat, InRange(a, i, range)
  PROVE  i < range
<1> SUFFICES ASSUME range <= i PROVE FALSE
  OBVIOUS
<1>1. range * range <= i * range /\ range * i <= i * i /\ range * i = i * range
  BY Scaled
<1>2. a * a >= 0 /\ a * a \in Int /\ i * i \in Int /\ range * range \in Int /\ i * range \in Int
  BY Scaled
<1> QED
  BY <1>1, <1>2 DEF InRange

(***************************************************************************)
(* How light comes to a tile, with the ranges there are: past an open tile *)
(* of the row before, seen as well, or from the eye.                       *)
(***************************************************************************)
LEMMA LightComes ==
  ASSUME NEW walls, NEW eye \in Tiles \ walls, NEW range \in Nat, range <= 12,
         NEW t \in fov_2d(walls, eye, range), t # eye
  PROVE  \E o \in Octants : \E i \in 1 .. range : \E a \in 0 .. i : \E c \in 0 .. i - 1 :
           /\ t = Cell(eye, o, a, i) /\ c \in {a - 1, a}
           /\ Cell(eye, o, c, i - 1) \in fov_2d(walls, eye, range)
           /\ ~IsOpaque(walls, Cell(eye, o, c, i - 1))
<1>1. eye \in Nat \X Nat /\ eye \in Int \X Int
  BY GridAssumption DEF Tiles
<1>2. PICK o \in Octants : \E cast : \E i \in 1 .. range : \E a \in 0 .. i :
        LitBy(t, walls, eye, range, o, cast, i, a)
  BY <1>1, Sees
<1>3. PICK cast : \E i \in 1 .. range : \E a \in 0 .. i :
        LitBy(t, walls, eye, range, o, cast, i, a)
  BY <1>2
<1>4. PICK i \in 1 .. range : \E a \in 0 .. i : LitBy(t, walls, eye, range, o, cast, i, a)
  BY <1>3
<1>5. PICK a \in 0 .. i : LitBy(t, walls, eye, range, o, cast, i, a)
  BY <1>4
<1>6. /\ Casting(cast, walls, eye, o, range)
      /\ CastLight(walls, eye, o, range) = cast[range].seen
      /\ LitCell(cast, eye, o, a, i, range)
      /\ t = Cell(eye, o, a, i)
  BY <1>5 DEF LitBy
<1>7. i < range
  BY <1>6, RowInRange DEF LitCell
<1>8. CASE i = 1
  <2>1. 0 \in 0 .. i - 1 /\ 0 \in {a - 1, a} /\ i - 1 = 0
    BY <1>8
  <2>2. Cell(eye, o, 0, 0) = eye
    <3>1. eye = <<eye[1], eye[2]>> /\ eye[1] \in Int /\ eye[2] \in Int
      BY <1>1
    <3>2. /\ eye[1] - 0 * o[1] - 0 * o[2] = eye[1]
          /\ eye[2] - 0 * o[3] - 0 * o[4] = eye[2]
      BY <3>1 DEF Octants
    <3> QED
      BY <3>1, <3>2, Zenon DEF Cell
  <2>3. ~IsOpaque(walls, eye) /\ eye \in fov_2d(walls, eye, range)
    BY DEF IsOpaque, fov_2d
  <2> QED
    BY <1>6, <2>1, <2>2, <2>3
<1>9. CASE i # 1
  <2> DEFINE j == i - 1
  <2>1. j \in 1 .. range - 1 /\ j + 1 = i /\ j <= 10 /\ a \in 0 .. j + 1 /\ j \in 1 .. range
    BY <1>7, <1>9
  <2> HIDE DEF j
  <2>2. PICK c \in 0 .. j : /\ c \in {a - 1, a}
                            /\ ~IsOpaque(walls, Cell(eye, o, c, j))
                            /\ LitCell(cast, eye, o, c, j, range)
    BY <1>1, <1>6, <2>1, LightReaches
  <2>3. Cell(eye, o, c, j) \in CastLight(walls, eye, o, range)
    <3>1. \E k \in 1 .. range : \E b \in 0 .. k :
            LitCell(cast, eye, o, b, k, range) /\ Cell(eye, o, c, j) = Cell(eye, o, b, k)
      BY <2>1, <2>2
    <3>2. Cell(eye, o, c, j) \in cast[range].seen
      BY <1>1, <1>6, <3>1, CastSees
    <3> QED
      BY <1>6, <3>2
  <2>4. Cell(eye, o, c, j) \in fov_2d(walls, eye, range)
    BY <2>3 DEF fov_2d
  <2> QED
    BY <1>6, <2>2, <2>4 DEF j
<1> QED
  BY <1>8, <1>9

(***************************************************************************)
(* Along the middle (e = 0) and the diagonal (e = 1) of an octant, for     *)
(* every range: what is lit has transparent cells before it only, and the  *)
(* first cell after such is lit.                                           *)
(***************************************************************************)
LEMMA LineLit ==
  ASSUME NEW walls, NEW eye \in Nat \X Nat, NEW range \in Nat, NEW o \in Octants,
         NEW cast, Casting(cast, walls, eye, o, range),
         NEW e \in {0, 1}, NEW n \in 1 .. range, LitCell(cast, eye, o, e * n, n, range),
         NEW k \in 1 .. n - 1
  PROVE  ~IsOpaque(walls, Cell(eye, o, e * k, k))
<1> DEFINE LitAt(j) == LitCell(cast, eye, o, e * j, j, range)
           OpenAt(j) == ~IsOpaque(walls, Cell(eye, o, e * j, j))
           T == {j \in 0 .. n - 1 : LitAt(n - j) /\ (j # 0 => OpenAt(n - j))}
<1>1. n < range
  <2>1. e * n \in Nat /\ n \in Nat
    OBVIOUS
  <2> QED
    BY <2>1, RowInRange DEF LitCell
<1>2. 0 \in T
  <2>1. n - 0 = n
    OBVIOUS
  <2> QED
    BY <2>1
<1>3. ASSUME NEW j \in 1 .. n - 1, j - 1 \in T
      PROVE  j \in T
  <2> DEFINE i == n - j
  <2>1. /\ i \in 1 .. range - 1 /\ n - (j - 1) = i + 1
        /\ e * (i + 1) \in 0 .. i + 1 /\ e * (i + 1) \in {0, i + 1}
        /\ \A c \in 0 .. i : c \in {e * (i + 1) - 1, e * (i + 1)} => c = e * i
    BY <1>1
  <2> HIDE DEF i
  <2>2. LitCell(cast, eye, o, e * (i + 1), i + 1, range)
    BY <1>3, <2>1
  <2>3. PICK c \in 0 .. i : /\ c \in {e * (i + 1) - 1, e * (i + 1)}
                            /\ ~IsOpaque(walls, Cell(eye, o, c, i))
                            /\ LitCell(cast, eye, o, c, i, range)
    BY <2>1, <2>2, LightReaches
  <2>4. c = e * i
    BY <2>1, <2>3
  <2>5. LitAt(i) /\ OpenAt(i)
    BY <2>3, <2>4
  <2> QED
    BY <2>5 DEF i
<1> HIDE DEF T
<1>4. n - k \in T
  <2>1. n - 1 \in Nat /\ n - k \in 0 .. n - 1
    OBVIOUS
  <2> QED
    BY <1>2, <1>3, <2>1, UpTo
<1>5. n - k # 0 /\ n - (n - k) = k
  OBVIOUS
<1> QED
  BY <1>4, <1>5 DEF T

LEMMA LineSeen ==
  ASSUME NEW walls, NEW eye \in Nat \X Nat, NEW range \in Nat, NEW o \in Octants,
         NEW e \in {0, 1}, NEW n \in Nat \ {0}, InRange(e * n, n, range),
         ~OffLowSide(Cell(eye, o, e * n, n)),
         \A k \in 1 .. n - 1 : ~IsOpaque(walls, Cell(eye, o, e * k, k))
  PROVE  Cell(eye, o, e * n, n) \in fov_2d(walls, eye, range)
<1>1. n \in 1 .. range /\ e * n \in 0 .. n /\ eye \in Int \X Int
  <2>1. e * n \in Nat /\ n \in Nat /\ e * n \in 0 .. n
    OBVIOUS
  <2> QED
    BY <2>1, RowInRange
<1>2. SUFFICES ASSUME NEW cast, Casting(cast, walls, eye, o, range)
               PROVE  LitCell(cast, eye, o, e * n, n, range)
  BY <1>1, CellSeen
<1>3. CASE e = 0
  <2>1. \A j \in 1 .. n - 1 : \A c \in 0 .. j : c <= 0 => ~IsOpaque(walls, Cell(eye, o, c, j))
    <3>1. \A j \in 1 .. n - 1 : 0 * j = 0
      OBVIOUS
    <3>2. \A j \in 1 .. n - 1 : ~IsOpaque(walls, Cell(eye, o, 0, j))
      BY <1>3, <3>1
    <3> QED
      BY <3>2
  <2>2. e * n = 0 /\ 0 \in Nat /\ 0 \in 0 .. n /\ 0 <= 0 + 1
    BY <1>3
  <2> QED
    BY <1>1, <1>2, <2>1, <2>2, LitRectangle
<1>4. CASE e = 1
  <2>1. \A j \in 1 .. n : e * j = j
    BY <1>4
  <2>2. \A j \in 1 .. n - 1 : ~IsOpaque(walls, Cell(eye, o, j, j))
    <3>1. \A j \in 1 .. n - 1 : j \in 1 .. n
      OBVIOUS
    <3> QED
      BY <2>1, <3>1
  <2>3. e * n = n
    BY <2>1
  <2> QED
    BY <1>1, <1>2, <2>2, <2>3, LitDiagonal
<1> QED
  BY <1>3, <1>4
=============================================================================
