---------------------------- MODULE BasicProofs -----------------------------
(***************************************************************************)
(* What the proofs of several components use.  Contact plans: bisection    *)
(* finds its place, active_at and next_after answer with the window they   *)
(* promise, and a walk from window to window goes on to the next one.      *)
(* Sums over finite sets: the community modules take the summands in an    *)
(* order that CHOOSE makes; the recursive function they define exists, and *)
(* the order does not matter.                                              *)
(***************************************************************************)
EXTENDS ContactPlan, FiniteSetsExt, FiniteSetTheorems, WellFoundedInduction, TLAPS

LEMMA LeastNatural ==
  ASSUME NEW T \in SUBSET Nat, T # {}
  PROVE  \E m \in T : \A n \in T : m <= n
<1>1. IsWellFoundedOn(OpToRel(<, Nat), Nat)
  BY NatLessThanWellFounded
<1>2. PICK m \in T : \A n \in T : ~ (<<n, m>> \in OpToRel(<, Nat))
  BY <1>1, WFMin, Zenon
<1>3. \A n \in T : ~ (n < m)
  BY <1>2 DEF OpToRel
<1> QED
  BY <1>3

-----------------------------------------------------------------------------
(* What the proofs use of a plan: its windows are indexed from one, each   *)
(* has its start before its end, starts ascend and neighbours are apart.   *)
LEMMA PlanParts ==
  ASSUME NEW p \in Plan
  PROVE  /\ Len(p) \in Nat /\ DOMAIN p = 1..Len(p)
         /\ \A i \in 1..Len(p) :
              /\ p[i] \in Window
              /\ p[i].start \in Int /\ p[i].end \in Int
              /\ p[i].start < p[i].end
         /\ \A i, j \in 1..Len(p) : i < j => p[i].start <= p[j].start
         /\ \A i \in 1..(Len(p) - 1) : p[i].end <= p[i + 1].start
<1>1. p \in Seq(Window) /\ Ordered(p) /\ Apart(p)
  BY DEF Plan
<1>2. /\ Len(p) \in Nat /\ DOMAIN p = 1..Len(p)
      /\ \A i \in 1..Len(p) : p[i] \in Window
  BY <1>1
<1>3. \A w \in Window : w.start \in Int /\ w.end \in Int /\ w.start < w.end
  BY DEF Window, ValidWindow
<1> QED
  BY <1>1, <1>2, <1>3 DEF Ordered, Apart

(* Neighbours apart in a list sorted by start: a window ends before any    *)
(* later one starts.                                                       *)
LEMMA PlanDisjoint ==
  ASSUME NEW p \in Plan, NEW i \in 1..Len(p), NEW j \in 1..Len(p), i < j
  PROVE  p[i].end <= p[j].start
<1>1. i \in 1..(Len(p) - 1) /\ i + 1 \in 1..Len(p)
  BY PlanParts
<1>2. p[i].end <= p[i + 1].start
  BY <1>1, PlanParts
<1>3. i + 1 = j \/ p[i + 1].start <= p[j].start
  BY <1>1, PlanParts
<1> QED
  BY <1>1, <1>2, <1>3, PlanParts

(* bisect_right finds its place in every plan.                             *)
LEMMA BisectRightFinds ==
  ASSUME NEW p \in Plan, NEW t \in Int
  PROVE  /\ BisectRight(p, t) \in 0..Len(p)
         /\ \A i \in 1..BisectRight(p, t) : p[i].start <= t
         /\ \A i \in (BisectRight(p, t) + 1)..Len(p) : p[i].start > t
<1> DEFINE T == {k \in 0..Len(p) : k = Len(p) \/ p[k + 1].start > t}
<1>1. T \in SUBSET Nat /\ T # {}
  <2>1. Len(p) \in T
    BY PlanParts
  <2> QED
    BY <2>1, PlanParts
<1>2. PICK m \in T : \A n \in T : m <= n
  BY <1>1, LeastNatural, Zenon
<1>3. m \in 0..Len(p) /\ Len(p) \in Nat
  BY <1>2, PlanParts
<1>4. \A i \in 1..m : p[i].start <= t
  <2>1. TAKE i \in 1..m
  <2>2. i - 1 \in 0..Len(p) /\ i - 1 # Len(p) /\ i \in 1..Len(p) /\ (i - 1) + 1 = i
    BY <2>1, <1>3
  <2>3. ~ (m <= i - 1)
    BY <2>1, <1>3
  <2>4. i - 1 \notin T
    BY <2>3, <1>2, Zenon
  <2>5. ~ (p[i].start > t)
    BY <2>2, <2>4
  <2> QED
    BY <2>2, <2>5, PlanParts
<1>5. \A i \in (m + 1)..Len(p) : p[i].start > t
  <2>1. TAKE i \in (m + 1)..Len(p)
  <2>2. m + 1 \in 1..Len(p) /\ i \in 1..Len(p) /\ m # Len(p)
    BY <2>1, <1>3
  <2>3. p[m + 1].start > t
    BY <1>2, <2>2
  <2>4. i = m + 1 \/ p[m + 1].start <= p[i].start
    BY <2>1, <2>2, <1>3, PlanParts
  <2> QED
    BY <2>2, <2>3, <2>4, PlanParts
<1>6. \E k \in 0..Len(p) :
        /\ \A i \in 1..k : p[i].start <= t
        /\ \A i \in (k + 1)..Len(p) : p[i].start > t
  BY <1>3, <1>4, <1>5
<1> QED
  BY <1>6 DEF BisectRight

-----------------------------------------------------------------------------
(* active_at answers with a window that covers the time, or there is none. *)
LEMMA ActiveAtRight ==
  ASSUME NEW p \in Plan, NEW t \in Int
  PROVE  \/ ActiveAt(p, t) = NoWindow /\ \A i \in 1..Len(p) : ~Covers(p[i], t)
         \/ ActiveAt(p, t) \in 1..Len(p) /\ Covers(p[ActiveAt(p, t)], t)
<1> DEFINE k == BisectRight(p, t)
<1>1. /\ k \in 0..Len(p) /\ Len(p) \in Nat
      /\ \A i \in 1..k : p[i].start <= t
      /\ \A i \in (k + 1)..Len(p) : p[i].start > t
  BY BisectRightFinds, PlanParts
<1>2. ActiveAt(p, t) = IF k > 0 /\ Covers(p[k], t) THEN k ELSE NoWindow
  BY DEF ActiveAt
<1> HIDE DEF k
<1>3. CASE k > 0 /\ Covers(p[k], t)
  BY <1>1, <1>2, <1>3
<1>4. CASE ~ (k > 0 /\ Covers(p[k], t))
  <2>1. ASSUME NEW i \in 1..Len(p)
        PROVE  ~Covers(p[i], t)
    <3>1. CASE i < k
      <4>1. k \in 1..Len(p)
        BY <1>1, <3>1
      <4>2. p[i].end <= p[k].start /\ p[k].start <= t
        BY <4>1, <3>1, <1>1, PlanDisjoint
      <4> QED
        BY <4>1, <4>2, PlanParts DEF Covers
    <3>2. CASE i = k
      BY <3>2, <1>1, <1>4
    <3>3. CASE i > k
      <4>1. i \in (k + 1)..Len(p)
        BY <3>3, <1>1
      <4> QED
        BY <4>1, <1>1, PlanParts DEF Covers
    <3> QED
      BY <3>1, <3>2, <3>3, <1>1
  <2> QED
    BY <2>1, <1>2, <1>4
<1> QED
  BY <1>3, <1>4

(* next_after answers with the earliest window not ended, or none is left. *)
LEMMA NextAfterRight ==
  ASSUME NEW p \in Plan, NEW t \in Int
  PROVE  \/ NextAfter(p, t) = NoWindow /\ \A i \in 1..Len(p) : p[i].end <= t
         \/ /\ NextAfter(p, t) \in 1..Len(p)
            /\ p[NextAfter(p, t)].end > t
            /\ \A i \in 1..Len(p) : p[i].end > t => NextAfter(p, t) <= i
<1> DEFINE k == BisectRight(p, t)
           a == ActiveAt(p, t)
<1>1. /\ k \in 0..Len(p) /\ Len(p) \in Nat
      /\ \A i \in 1..k : p[i].start <= t
      /\ \A i \in (k + 1)..Len(p) : p[i].start > t
  BY BisectRightFinds, PlanParts
<1>2. \/ a = NoWindow /\ \A i \in 1..Len(p) : ~Covers(p[i], t)
      \/ a \in 1..Len(p) /\ Covers(p[a], t)
  BY ActiveAtRight
<1>3. NextAfter(p, t) = IF a # NoWindow THEN a ELSE IF k < Len(p) THEN k + 1 ELSE NoWindow
  BY DEF NextAfter
<1> HIDE DEF k, a
<1>4. CASE a # NoWindow
  <2>1. a \in 1..Len(p) /\ Covers(p[a], t) /\ NextAfter(p, t) = a
    BY <1>2, <1>3, <1>4
  <2>2. ASSUME NEW i \in 1..Len(p), p[i].end > t
        PROVE  a <= i
    <3>1. ~ (i < a)
      <4>1. SUFFICES ASSUME i < a PROVE FALSE
        OBVIOUS
      <4>2. p[i].end <= p[a].start
        BY <4>1, <2>1, PlanDisjoint
      <4> QED
        BY <4>2, <2>1, <2>2, PlanParts DEF Covers
    <3> QED
      BY <3>1, <2>1, <1>1
  <2>3. p[a].end > t
    BY <2>1, PlanParts DEF Covers
  <2> QED
    BY <2>1, <2>2, <2>3
<1>5. CASE a = NoWindow
  <2>1. \A i \in 1..k : p[i].end <= t
    <3>1. TAKE i \in 1..k
    <3>2. i \in 1..Len(p) /\ p[i].start <= t /\ ~Covers(p[i], t)
      BY <1>1, <1>2, <1>5, <3>1 DEF NoWindow
    <3> QED
      BY <3>2, PlanParts DEF Covers
  <2>2. CASE k < Len(p)
    <3>1. k + 1 \in 1..Len(p) /\ k + 1 \in (k + 1)..Len(p) /\ NextAfter(p, t) = k + 1
      BY <1>1, <1>3, <1>5, <2>2
    <3>2. p[k + 1].end > t
      BY <3>1, <1>1, PlanParts
    <3>3. \A i \in 1..Len(p) : p[i].end > t => k + 1 <= i
      BY <2>1, <1>1, PlanParts
    <3> QED
      BY <3>1, <3>2, <3>3
  <2>3. CASE ~ (k < Len(p))
    <3>1. k = Len(p) /\ NextAfter(p, t) = NoWindow
      BY <1>1, <1>3, <1>5, <2>3
    <3> QED
      BY <3>1, <2>1
  <2> QED
    BY <2>2, <2>3
<1> QED
  BY <1>4, <1>5


-----------------------------------------------------------------------------
(* A walk begins with a window if there is one, and goes on from a window  *)
(* to a later one, or ends when no window ends later.                      *)
LEMMA WalkBegins ==
  ASSUME NEW p \in Plan
  PROVE  (FirstWindow(p) = NoWindow /\ p = <<>>) \/ FirstWindow(p) \in DOMAIN p
<1>1. CASE p = <<>>
  BY <1>1 DEF FirstWindow
<1>2. CASE p # <<>>
  <2>1. 1 \in 1..Len(p) /\ p[1].start - 1 \in Int /\ p[1].end > p[1].start - 1
    <3>1. 1 \in 1..Len(p)
      BY <1>2 DEF Plan
    <3> QED
      BY <3>1, PlanParts
  <2>2. NextAfter(p, p[1].start - 1) \in 1..Len(p)
    <3> DEFINE n == NextAfter(p, p[1].start - 1)
    <3>1. \/ n = NoWindow /\ \A i \in 1..Len(p) : p[i].end <= p[1].start - 1
          \/ n \in 1..Len(p)
      BY <2>1, NextAfterRight
    <3>2. p[1].start \in Int /\ p[1].end \in Int
      BY <2>1, PlanParts
    <3>3. ~ (p[1].end <= p[1].start - 1)
      BY <2>1, <3>2
    <3> QED
      BY <2>1, <3>1, <3>3
  <2> QED
    BY <1>2, <2>2, PlanParts DEF FirstWindow
<1> QED
  BY <1>1, <1>2

LEMMA WalkGoesOn ==
  ASSUME NEW p \in Plan, NEW c \in DOMAIN p
  PROVE  \/ /\ NextAfter(p, p[c].end) = NoWindow
            /\ \A w \in DOMAIN p : p[w].end <= p[c].end
         \/ NextAfter(p, p[c].end) \in DOMAIN p /\ NextAfter(p, p[c].end) > c
<1> DEFINE n == NextAfter(p, p[c].end)
<1>1. c \in 1..Len(p) /\ Len(p) \in Nat /\ p[c].end \in Int /\ p[c].start < p[c].end
      /\ p[c].start \in Int
  BY PlanParts
<1>2. \/ n = NoWindow /\ \A i \in 1..Len(p) : p[i].end <= p[c].end
      \/ n \in 1..Len(p) /\ p[n].end > p[c].end
  BY <1>1, NextAfterRight
<1>3. ASSUME n \in 1..Len(p), p[n].end > p[c].end PROVE n > c
  <2> HIDE DEF n
  <2>1. n # c
    BY <1>1, <1>3
  <2>2. ~ (n < c)
    <3>1. SUFFICES ASSUME n < c PROVE FALSE
      OBVIOUS
    <3>2. p[n].end <= p[c].start /\ p[n].end \in Int
      BY <1>1, <1>3, <3>1, PlanDisjoint, PlanParts
    <3> QED
      BY <1>1, <1>3, <3>2
  <2> QED
    BY <1>1, <1>3, <2>1, <2>2
<1> QED
  BY <1>2, <1>3, PlanParts

(* A window's budget is a number of bits.                                  *)
LEMMA BudgetIsNat ==
  ASSUME NEW p \in Plan, NEW w \in DOMAIN p
  PROVE  Budget(p[w]) \in Nat
<1>1. p[w] \in Window
  BY PlanParts
<1>2. /\ p[w].start \in Int /\ p[w].end \in Int /\ p[w].rate \in Nat
      /\ p[w].start < p[w].end
  BY <1>1 DEF Window, ValidWindow
<1>3. ASSUME NEW a \in Nat, NEW b \in Nat PROVE a * b \in Nat
  OBVIOUS
<1>4. p[w].end - p[w].start \in Nat
  BY <1>2
<1> QED
  BY <1>2, <1>3, <1>4 DEF Budget

(* The walk visits every window, one after the other.                      *)
LEMMA GoesToNext ==
  ASSUME NEW p \in Plan, NEW c \in DOMAIN p
  PROVE  NextAfter(p, p[c].end) = IF c < Len(p) THEN c + 1 ELSE NoWindow
<1> DEFINE n == NextAfter(p, p[c].end)
<1>1. /\ Len(p) \in Nat /\ DOMAIN p = 1..Len(p) /\ c \in 1..Len(p) /\ c \in Int
      /\ \A i \in 1..Len(p) : p[i].start \in Int /\ p[i].end \in Int /\ p[i].start < p[i].end
  BY PlanParts
<1>2. \A i \in 1..Len(p) : i < c => p[i].end <= p[c].start
  BY <1>1, PlanDisjoint
<1>3. \A i \in 1..Len(p) : p[i].end > p[c].end => i > c
  <2> TAKE i \in 1..Len(p)
  <2>1. i < c => p[i].end < p[c].end
    BY <1>1, <1>2
  <2> QED
    BY <1>1, <2>1
<1>4. \A i \in 1..Len(p) : i > c => p[i].end > p[c].end
  <2> TAKE i \in 1..Len(p)
  <2>1. i > c => p[c].end <= p[i].start
    BY <1>1, PlanDisjoint
  <2> QED
    BY <1>1, <2>1
<1>5. \/ n = NoWindow /\ \A i \in 1..Len(p) : p[i].end <= p[c].end
      \/ /\ n \in 1..Len(p) /\ p[n].end > p[c].end
         /\ \A i \in 1..Len(p) : p[i].end > p[c].end => n <= i
  BY <1>1, NextAfterRight
<1> HIDE DEF n
<1>6. CASE c < Len(p)
  <2>1. c + 1 \in 1..Len(p) /\ p[c + 1].end > p[c].end /\ p[c + 1].end \in Int /\ p[c].end \in Int
    BY <1>1, <1>4, <1>6
  <2>2. n \in 1..Len(p) /\ n > c /\ n <= c + 1
    BY <1>3, <1>5, <2>1
  <2> QED
    BY <1>1, <1>6, <2>2 DEF n
<1>7. CASE ~(c < Len(p))
  <2>1. \A i \in 1..Len(p) : ~(i > c)
    BY <1>1, <1>7
  <2> QED
    BY <1>3, <1>5, <1>7, <2>1 DEF n
<1> QED
  BY <1>6, <1>7

LEMMA WalkFirst ==
  ASSUME NEW p \in Plan
  PROVE  FirstWindow(p) = IF p = <<>> THEN NoWindow ELSE 1
<1>1. CASE p = <<>>
  BY <1>1 DEF FirstWindow
<1>2. CASE p # <<>>
  <2>1. /\ Len(p) \in Nat /\ 1 \in 1..Len(p)
        /\ p[1].start \in Int /\ p[1].end \in Int /\ p[1].start < p[1].end
    BY <1>2, PlanParts
  <2>2. PICK t \in Int : t = p[1].start - 1
    BY <2>1
  <2>3. p[1].end > t
    BY <2>1, <2>2
  <2>4. NextAfter(p, t) \in 1..Len(p) /\ NextAfter(p, t) <= 1
    <3>1. \/ NextAfter(p, t) = NoWindow /\ \A i \in 1..Len(p) : p[i].end <= t
          \/ /\ NextAfter(p, t) \in 1..Len(p)
             /\ \A i \in 1..Len(p) : p[i].end > t => NextAfter(p, t) <= i
      BY NextAfterRight
    <3> QED
      BY <2>1, <2>2, <2>3, <3>1
  <2> QED
    BY <1>2, <2>1, <2>2, <2>4 DEF FirstWindow
<1> QED
  BY <1>1, <1>2

-----------------------------------------------------------------------------
(* Table g holds the sum of v over every subset of S.                      *)
Some(s) == CHOOSE x \in s : TRUE
SumTable(v, S, g) ==
  g = [s \in SUBSET S |-> IF s = {} THEN 0 ELSE v[Some(s)] + g[s \ {Some(s)}]]

LEMMA SomeOf ==
  ASSUME NEW s, s # {}
  PROVE  Some(s) \in s
BY DEF Some

(* A table that is right up to subsets of n elements.                      *)
RightUpTo(v, S, g, n) ==
  \A s \in SUBSET S :
    Cardinality(s) <= n => g[s] = IF s = {} THEN 0 ELSE v[Some(s)] + g[s \ {Some(s)}]

LEMMA OneLess ==
  ASSUME NEW S, IsFiniteSet(S), NEW s \in SUBSET S, NEW x \in s
  PROVE  /\ IsFiniteSet(s) /\ Cardinality(s) \in Nat \ {0} /\ s \ {x} \in SUBSET S
         /\ Cardinality(s \ {x}) = Cardinality(s) - 1 /\ Cardinality(s \ {x}) \in Nat
<1>1. IsFiniteSet(s)
  BY FS_Subset
<1>2. Cardinality(s) \in Nat /\ Cardinality(s) # 0
  BY <1>1, FS_CardinalityType, FS_EmptySet
<1>3. Cardinality(s \ {x}) = Cardinality(s) - 1
  BY <1>1, FS_RemoveElement
<1>4. QED
  BY <1>1, <1>2, <1>3

LEMMA TablesGrow ==
  ASSUME NEW v, NEW S, IsFiniteSet(S), NEW g, NEW n \in Nat, RightUpTo(v, S, g, n)
  PROVE  \E h : RightUpTo(v, S, h, n + 1)
<1> DEFINE next(s) == v[Some(s)] + g[s \ {Some(s)}]
           h == [s \in SUBSET S |-> IF Cardinality(s) = n + 1 THEN next(s) ELSE g[s]]
<1>1. ASSUME NEW s \in SUBSET S, Cardinality(s) <= n + 1, s # {}
      PROVE  h[s] = v[Some(s)] + h[s \ {Some(s)}]
  <2>1. /\ Cardinality(s) \in Nat \ {0} /\ s \ {Some(s)} \in SUBSET S
        /\ Cardinality(s \ {Some(s)}) = Cardinality(s) - 1
    BY <1>1, SomeOf, OneLess
  <2>2. h[s \ {Some(s)}] = g[s \ {Some(s)}]
    BY <1>1, <2>1
  <2>3. CASE Cardinality(s) = n + 1
    BY <2>2, <2>3
  <2>4. CASE Cardinality(s) <= n
    BY <1>1, <2>1, <2>2, <2>4 DEF RightUpTo
  <2>5. QED
    BY <1>1, <2>1, <2>3, <2>4
<1>2. h[{}] = 0
  BY FS_EmptySet DEF RightUpTo
<1> HIDE DEF h
<1>3. RightUpTo(v, S, h, n + 1)
  BY <1>1, <1>2 DEF RightUpTo
<1>4. QED
  BY <1>3

LEMMA TableExists ==
  ASSUME NEW v, NEW S, IsFiniteSet(S)
  PROVE  \E g : SumTable(v, S, g)
<1> DEFINE Bad == {n \in Nat : ~\E g : RightUpTo(v, S, g, n)}
<1>1. Bad = {}
  <2> SUFFICES ASSUME Bad # {} PROVE FALSE
    OBVIOUS
  <2>1. PICK n \in Bad : \A m \in Bad : n <= m
    BY LeastNatural
  <2>2. CASE n = 0
    <3> DEFINE g == [s \in SUBSET S |-> 0]
    <3>1. ASSUME NEW s \in SUBSET S, Cardinality(s) <= 0 PROVE s = {}
      <4>1. IsFiniteSet(s)
        BY FS_Subset
      <4>2. Cardinality(s) \in Nat
        BY <4>1, FS_CardinalityType
      <4>3. QED
        BY <3>1, <4>1, <4>2, FS_EmptySet
    <3>2. RightUpTo(v, S, g, 0)
      BY <3>1 DEF RightUpTo
    <3>3. QED
      BY <2>1, <2>2, <3>2
  <2>3. CASE n # 0
    <3>1. n - 1 \in Nat /\ n - 1 \notin Bad /\ n - 1 + 1 = n
      BY <2>1, <2>3
    <3>2. PICK g : RightUpTo(v, S, g, n - 1)
      BY <3>1
    <3>3. \E h : RightUpTo(v, S, h, n - 1 + 1)
      BY <3>1, <3>2, TablesGrow
    <3>4. QED
      BY <2>1, <3>1, <3>3
  <2>4. QED
    BY <2>2, <2>3
<1>2. Cardinality(S) \in Nat
  BY FS_CardinalityType
<1>3. PICK g : RightUpTo(v, S, g, Cardinality(S))
  BY <1>1, <1>2
<1> DEFINE h == [s \in SUBSET S |-> g[s]]
<1>4. ASSUME NEW s \in SUBSET S
      PROVE  h[s] = IF s = {} THEN 0 ELSE v[Some(s)] + h[s \ {Some(s)}]
  <2>1. Cardinality(s) <= Cardinality(S)
    BY FS_Subset
  <2>2. s # {} => s \ {Some(s)} \in SUBSET S
    OBVIOUS
  <2>3. QED
    BY <1>3, <2>1, <2>2 DEF RightUpTo
<1>5. h = [s \in SUBSET S |-> IF s = {} THEN 0 ELSE v[Some(s)] + h[s \ {Some(s)}]]
  BY <1>4
<1>6. QED
  BY <1>5 DEF SumTable

LEMMA TableEntry ==
  ASSUME NEW v, NEW S, NEW g, SumTable(v, S, g), NEW s \in SUBSET S
  PROVE  g[s] = IF s = {} THEN 0 ELSE v[Some(s)] + g[s \ {Some(s)}]
<1>1. g = [r \in SUBSET S |-> IF r = {} THEN 0 ELSE v[Some(r)] + g[r \ {Some(r)}]]
  BY DEF SumTable
<1>2. [r \in SUBSET S |-> IF r = {} THEN 0 ELSE v[Some(r)] + g[r \ {Some(r)}]][s]
      = IF s = {} THEN 0 ELSE v[Some(s)] + g[s \ {Some(s)}]
  BY Zenon
<1>3. QED
  BY <1>1, <1>2, Zenon

(* The sums are integers, and the order of the summands does not matter.   *)
LEMMA TableSums ==
  ASSUME NEW v, NEW S, IsFiniteSet(S), \A x \in S : v[x] \in Int, NEW g, SumTable(v, S, g)
  PROVE  \A s \in SUBSET S : g[s] \in Int /\ \A x \in s, r \in SUBSET S :
                                              r = s \ {x} => g[s] = v[x] + g[r]
<1> DEFINE Good(s) == g[s] \in Int /\ \A x \in s : g[s] = v[x] + g[s \ {x}]
           Bad == {n \in Nat : \E s \in SUBSET S : Cardinality(s) = n /\ ~Good(s)}
<1>1. Bad = {}
  <2> SUFFICES ASSUME Bad # {} PROVE FALSE
    OBVIOUS
  <2>1. PICK n \in Bad : \A m \in Bad : n <= m
    BY LeastNatural
  <2>2. PICK s \in SUBSET S : Cardinality(s) = n /\ ~Good(s)
    BY <2>1
  <2>3. \A r \in SUBSET S : Cardinality(r) \in Nat /\ Cardinality(r) < n => Good(r)
    <3> SUFFICES ASSUME NEW r \in SUBSET S, Cardinality(r) \in Nat, Cardinality(r) < n, ~Good(r)
                 PROVE  FALSE
      OBVIOUS
    <3>1. Cardinality(r) \in Bad
      OBVIOUS
    <3>2. QED
      BY <2>1, <3>1
  <2>4. CASE s = {}
    <3>1. g[{}] = 0
      BY <2>4, TableEntry
    <3>2. QED
      BY <2>2, <2>4, <3>1
  <2>5. CASE s # {}
    <3> DEFINE y == Some(s)
    <3>1. y \in s /\ y \in S
      BY <2>5, SomeOf
    <3> HIDE DEF Good
    <3>2. \A x \in s : Good(s \ {x}) /\ s \ {x} \in SUBSET S
      BY <2>2, <2>3, OneLess
    <3> USE DEF Good
    <3>3. g[s] = v[y] + g[s \ {y}]
      BY <2>5, TableEntry
    <3> HIDE DEF y
    <3>4. \A x \in s : g[s \ {x}] \in Int /\ v[x] \in Int
      BY <3>2
    <3>5. ASSUME NEW x \in s PROVE g[s] = v[x] + g[s \ {x}]
      <4>1. CASE x = y
        BY <3>3, <4>1
      <4>2. CASE x # y
        <5>1. x \in s \ {y} /\ y \in s \ {x} /\ (s \ {y}) \ {x} = (s \ {x}) \ {y}
          BY <3>1, <4>2
        <5>2. g[s \ {y}] = v[x] + g[(s \ {y}) \ {x}]
          BY <3>1, <3>2, <5>1
        <5>3. g[s \ {x}] = v[y] + g[(s \ {x}) \ {y}]
          BY <3>1, <3>2, <5>1
        <5>4. g[(s \ {x}) \ {y}] \in Int
          <6>1. Cardinality(s \ {x}) = n - 1 /\ Cardinality((s \ {x}) \ {y}) = n - 1 - 1
                /\ Cardinality((s \ {x}) \ {y}) \in Nat /\ (s \ {x}) \ {y} \in SUBSET S
            <7>1. Cardinality(s \ {x}) = n - 1 /\ s \ {x} \in SUBSET S
              BY <2>2, OneLess
            <7>2. PICK r : r = s \ {x}
              OBVIOUS
            <7>3. r \in SUBSET S /\ y \in r
              BY <5>1, <7>1, <7>2
            <7>4. /\ r \ {y} \in SUBSET S /\ Cardinality(r \ {y}) = Cardinality(r) - 1
                  /\ Cardinality(r \ {y}) \in Nat
              BY <7>3, OneLess
            <7>5. QED
              BY <7>1, <7>2, <7>4
          <6>2. QED
            BY <2>3, <6>1
        <5>5. g[s] = v[y] + (v[x] + g[(s \ {x}) \ {y}])
          BY <3>3, <5>1, <5>2
        <5>6. QED
          BY <3>1, <3>4, <5>3, <5>4, <5>5
      <4>3. QED
        BY <4>1, <4>2
    <3>6. g[s] \in Int
      <4>1. g[s \ {y}] \in Int /\ v[y] \in Int
        BY <3>1, <3>4
      <4>2. QED
        BY <3>3, <4>1
    <3>7. QED
      BY <2>2, <3>5, <3>6
  <2>6. QED
    BY <2>4, <2>5
<1>2. ASSUME NEW s \in SUBSET S PROVE Good(s)
  <2>1. Cardinality(s) \in Nat
    BY FS_Subset, FS_CardinalityType
  <2>2. QED
    BY <1>1, <2>1
<1>3. QED
  BY <1>2

-----------------------------------------------------------------------------
(* What MapThenSumSet computes.                                            *)
SumOf(v, S) == MapThenSumSet(LAMBDA i : v[i], S)

LEMMA SumByTable ==
  ASSUME NEW v, NEW S, IsFiniteSet(S)
  PROVE  \E g : SumTable(v, S, g) /\ SumOf(v, S) = g[S]
<1> DEFINE t == CHOOSE g : SumTable(v, S, g)
<1>1. SumOf(v, S) = t[S]
  BY Zenon DEF SumOf, MapThenSumSet, MapThenFoldSet, SumTable, Some
<1>2. SumTable(v, S, t)
  BY TableExists
<1>3. QED
  BY <1>1, <1>2

LEMMA TablesAgree ==
  ASSUME NEW v, NEW S, IsFiniteSet(S), NEW T \in SUBSET S, NEW g, SumTable(v, S, g),
         NEW w, \A x \in T : w[x] = v[x], NEW h, SumTable(w, T, h)
  PROVE  \A s \in SUBSET T : h[s] = g[s]
<1> DEFINE Bad == {n \in Nat : \E s \in SUBSET T : Cardinality(s) = n /\ h[s] # g[s]}
<1> SUFFICES ASSUME NEW s0 \in SUBSET T, h[s0] # g[s0] PROVE FALSE
  OBVIOUS
<1>1. IsFiniteSet(T)
  BY FS_Subset
<1>2. Cardinality(s0) \in Bad
  <2>1. IsFiniteSet(s0)
    BY <1>1, FS_Subset
  <2>2. Cardinality(s0) \in Nat
    BY <2>1, FS_CardinalityType
  <2>3. QED
    BY <2>2
<1>3. PICK n \in Bad : \A m \in Bad : n <= m
  BY <1>2, LeastNatural
<1>4. PICK s \in SUBSET T : Cardinality(s) = n /\ h[s] # g[s]
  BY <1>3
<1>5. s \in SUBSET S
  OBVIOUS
<1>6. CASE s = {}
  <2>1. {} \in SUBSET S /\ {} \in SUBSET T
    OBVIOUS
  <2>2. g[{}] = 0
    BY <2>1, TableEntry
  <2>3. h[{}] = 0
    BY <2>1, TableEntry
  <2>4. QED
    BY <1>4, <1>6, <2>2, <2>3
<1>7. CASE s # {}
  <2> DEFINE y == Some(s)
  <2>1. y \in s
    BY <1>7, SomeOf
  <2>2. h[s] = w[y] + h[s \ {y}] /\ g[s] = v[y] + g[s \ {y}]
    BY <1>5, <1>7, TableEntry
  <2> HIDE DEF y
  <2>3. s \ {y} \in SUBSET T /\ Cardinality(s \ {y}) = n - 1 /\ Cardinality(s \ {y}) \in Nat
    BY <1>1, <1>4, <2>1, OneLess
  <2>4. h[s \ {y}] = g[s \ {y}]
    <3> SUFFICES ASSUME h[s \ {y}] # g[s \ {y}] PROVE FALSE
      OBVIOUS
    <3>1. Cardinality(s \ {y}) \in Bad
      BY <2>3
    <3>2. QED
      BY <1>3, <2>3, <3>1
  <2>5. QED
    BY <1>4, <2>1, <2>2, <2>4
<1>8. QED
  BY <1>6, <1>7

LEMMA SumInTable ==
  ASSUME NEW v, NEW S, IsFiniteSet(S), NEW g, SumTable(v, S, g), NEW T \in SUBSET S
  PROVE  SumOf(v, T) = g[T]
<1>1. IsFiniteSet(T)
  BY FS_Subset
<1>2. PICK h : SumTable(v, T, h) /\ SumOf(v, T) = h[T]
  BY <1>1, SumByTable
<1>3. \A s \in SUBSET T : h[s] = g[s]
  BY <1>2, TablesAgree
<1>4. QED
  BY <1>2, <1>3

LEMMA SumEmpty ==
  ASSUME NEW v
  PROVE  SumOf(v, {}) = 0
<1>1. PICK g : SumTable(v, {}, g) /\ SumOf(v, {}) = g[{}]
  BY SumByTable, FS_EmptySet
<1>2. QED
  BY <1>1, TableEntry

LEMMA SumRemove ==
  ASSUME NEW v, NEW S, IsFiniteSet(S), \A x \in S : v[x] \in Int
  PROVE  /\ SumOf(v, S) \in Int
         /\ \A x \in S : SumOf(v, S) = v[x] + SumOf(v, S \ {x})
<1>1. PICK g : SumTable(v, S, g) /\ SumOf(v, S) = g[S]
  BY SumByTable
<1>2. \A s \in SUBSET S : g[s] \in Int /\ \A x \in s, r \in SUBSET S :
                                              r = s \ {x} => g[s] = v[x] + g[r]
  BY <1>1, TableSums
<1>3. ASSUME NEW x \in S PROVE SumOf(v, S) = v[x] + SumOf(v, S \ {x})
  <2>1. PICK r \in SUBSET S : r = S \ {x}
    OBVIOUS
  <2>2. SumOf(v, r) = g[r]
    BY <1>1, SumInTable
  <2>3. S \in SUBSET S
    OBVIOUS
  <2>4. g[S] = v[x] + g[r]
    BY <1>2, <2>1, <2>3
  <2>5. QED
    BY <1>1, <2>1, <2>2, <2>4
<1>4. QED
  BY <1>1, <1>2, <1>3

LEMMA SumSame ==
  ASSUME NEW v, NEW w, NEW S, IsFiniteSet(S), \A x \in S : w[x] = v[x]
  PROVE  SumOf(w, S) = SumOf(v, S)
<1>1. PICK g : SumTable(v, S, g) /\ SumOf(v, S) = g[S]
  BY SumByTable
<1>2. PICK h : SumTable(w, S, h) /\ SumOf(w, S) = h[S]
  BY SumByTable
<1>3. h[S] = g[S]
  BY <1>1, <1>2, TablesAgree
<1>4. QED
  BY <1>1, <1>2, <1>3

(* Adding up two disjoint sets.                                            *)
LEMMA SumUnion ==
  ASSUME NEW v, NEW S, IsFiniteSet(S), NEW T, IsFiniteSet(T), S \cap T = {},
         \A x \in S \cup T : v[x] \in Int
  PROVE  SumOf(v, S \cup T) = SumOf(v, S) + SumOf(v, T)
<1> DEFINE Bad == {n \in Nat : \E s \in SUBSET S :
                     Cardinality(s) = n /\ SumOf(v, s \cup T) # SumOf(v, s) + SumOf(v, T)}
<1> SUFFICES ASSUME SumOf(v, S \cup T) # SumOf(v, S) + SumOf(v, T) PROVE FALSE
  OBVIOUS
<1>1. Cardinality(S) \in Bad
  BY FS_CardinalityType
<1>2. PICK n \in Bad : \A m \in Bad : n <= m
  BY <1>1, LeastNatural
<1>0. n \in Nat
  OBVIOUS
<1>3. PICK s \in SUBSET S : /\ Cardinality(s) = n
                            /\ SumOf(v, s \cup T) # SumOf(v, s) + SumOf(v, T)
  BY <1>2
<1>4. SumOf(v, T) \in Int
  BY SumRemove
<1>5. CASE s = {}
  <2>1. {} \cup T = T
    OBVIOUS
  <2>2. QED
    BY <1>3, <1>4, <1>5, <2>1, SumEmpty
<1>6. CASE s # {}
  <2>1. PICK x \in s : TRUE
    BY <1>6
  <2>2. /\ s \ {x} \in SUBSET S /\ Cardinality(s \ {x}) = n - 1 /\ Cardinality(s \ {x}) \in Nat
        /\ IsFiniteSet(s)
    BY <1>3, OneLess
  <2>3. SumOf(v, (s \ {x}) \cup T) = SumOf(v, s \ {x}) + SumOf(v, T)
    <3>1. PICK r : r = s \ {x}
      OBVIOUS
    <3>2. r \in SUBSET S /\ Cardinality(r) = n - 1 /\ Cardinality(r) \in Nat
      BY <2>2, <3>1
    <3> HIDE DEF Bad
    <3>3. Cardinality(r) \notin Bad
      BY <1>0, <1>2, <3>2
    <3> USE DEF Bad
    <3>4. SumOf(v, r \cup T) = SumOf(v, r) + SumOf(v, T)
      BY <3>2, <3>3
    <3>5. QED
      BY <3>1, <3>4
  <2>4. (s \cup T) \ {x} = (s \ {x}) \cup T
    OBVIOUS
  <2>5. IsFiniteSet(s \cup T)
    BY <2>2, FS_Union
  <2>6. SumOf(v, s \cup T) = v[x] + SumOf(v, (s \ {x}) \cup T)
    <3>1. \A y \in s \cup T : v[y] \in Int
      OBVIOUS
    <3>2. x \in s \cup T
      OBVIOUS
    <3>3. QED
      BY <2>4, <2>5, <3>1, <3>2, SumRemove
  <2>7. SumOf(v, s) = v[x] + SumOf(v, s \ {x}) /\ SumOf(v, s) \in Int /\ v[x] \in Int
    BY <2>2, SumRemove
  <2>8. SumOf(v, s \ {x}) \in Int
    <3>1. IsFiniteSet(s \ {x}) /\ \A y \in s \ {x} : v[y] \in Int
      BY <2>2, FS_Subset
    <3>2. QED
      BY <3>1, SumRemove
  <2>9. QED
    BY <1>3, <1>4, <2>3, <2>6, <2>7, <2>8
<1>7. QED
  BY <1>5, <1>6

(* A sum of naturals is a natural.                                         *)
LEMMA SumNatural ==
  ASSUME NEW v, NEW S, IsFiniteSet(S), \A x \in S : v[x] \in Nat, NEW T \in SUBSET S
  PROVE  SumOf(v, T) \in Nat
<1> DEFINE Bad == {n \in Nat : \E s \in SUBSET S : Cardinality(s) = n /\ SumOf(v, s) \notin Nat}
<1>1. IsFiniteSet(T) /\ Cardinality(T) \in Nat
  BY FS_Subset, FS_CardinalityType
<1>2. SUFFICES ASSUME Bad # {} PROVE FALSE
  BY <1>1
<1>3. PICK n \in Bad : \A k \in Bad : n <= k
  BY <1>2, LeastNatural
<1>4. PICK s \in SUBSET S : Cardinality(s) = n /\ SumOf(v, s) \notin Nat
  OBVIOUS
<1>5. s # {}
  BY <1>4, SumEmpty
<1>6. PICK x \in s : TRUE
  BY <1>5
<1>7. PICK r \in SUBSET S : r = s \ {x}
  OBVIOUS
<1>8. Cardinality(r) = n - 1 /\ Cardinality(r) \in Nat /\ IsFiniteSet(s)
  BY <1>4, <1>7, OneLess
<1>9. SumOf(v, s) = v[x] + SumOf(v, r)
  BY <1>7, <1>8, SumRemove
<1>10. SumOf(v, r) \in Nat
  BY <1>3, <1>8
<1>11. QED
  BY <1>4, <1>9, <1>10
=============================================================================
