----------------------------- MODULE PlanProofs -----------------------------
(***************************************************************************)
(* The life of a contact plan, for every list of windows: it is refused    *)
(* exactly when two windows overlap, and answers right while it is walked. *)
(***************************************************************************)
EXTENDS PlanWalk, BasicProofs

-----------------------------------------------------------------------------
(* What sorting makes of the windows given: the same windows, in order.    *)
LEMMA SortedPlansParts ==
  ASSUME NEW ws \in Seq(Window), NEW p \in SortedPlans(ws)
  PROVE  /\ p \in Seq(Window) /\ Ordered(p) /\ Len(p) = Len(ws)
         /\ \E f \in [1..Len(ws) -> 1..Len(ws)] :
              /\ \A i \in 1..Len(ws) : p[i] = ws[f[i]]
              /\ \A i \in 1..Len(ws) : \E j \in 1..Len(ws) : f[j] = i
              /\ \A i, j \in 1..Len(ws) : f[i] = f[j] => i = j
<1>1. Len(ws) \in Nat /\ DOMAIN ws = 1..Len(ws) /\ \A i \in 1..Len(ws) : ws[i] \in Window
  OBVIOUS
<1>2. PICK f \in Bijection(1..Len(ws), 1..Len(ws)) : p = [i \in 1..Len(ws) |-> ws[f[i]]]
  BY <1>1 DEF SortedPlans
<1>3. /\ f \in [1..Len(ws) -> 1..Len(ws)]
      /\ \A i \in 1..Len(ws) : \E j \in 1..Len(ws) : f[j] = i
      /\ \A i, j \in 1..Len(ws) : f[i] = f[j] => i = j
  BY <1>2 DEF Bijection, Injection, Surjection, IsInjective
<1>4. p \in [1..Len(ws) -> Window]
  BY <1>1, <1>2, <1>3
<1>5. p \in Seq(Window) /\ Len(p) = Len(ws)
  BY <1>1, <1>4
<1>6. Ordered(p)
  BY DEF SortedPlans
<1> QED
  BY <1>2, <1>3, <1>5, <1>6

(* The constructor accepts the windows exactly when no two of them share   *)
(* an instant: comparing neighbours in the sorted list is enough.          *)
LEMMA ApartIffDisjoint ==
  ASSUME NEW ws \in Seq(Window), NEW p \in SortedPlans(ws)
  PROVE  Apart(p) <=> ~ \E i, j \in DOMAIN ws : i # j /\ Overlap(ws[i], ws[j])
<1>1. Len(ws) \in Nat /\ DOMAIN ws = 1..Len(ws) /\ Len(p) = Len(ws)
      /\ p \in Seq(Window) /\ Ordered(p)
  BY SortedPlansParts
<1>2. PICK f \in [1..Len(ws) -> 1..Len(ws)] :
        /\ \A i \in 1..Len(ws) : p[i] = ws[f[i]]
        /\ \A i \in 1..Len(ws) : \E j \in 1..Len(ws) : f[j] = i
        /\ \A i, j \in 1..Len(ws) : f[i] = f[j] => i = j
  BY SortedPlansParts, Zenon
<1>3. \A i \in 1..Len(ws) :
        /\ p[i].start \in Int /\ p[i].end \in Int /\ p[i].start < p[i].end
  <2>1. \A w \in Window : w.start \in Int /\ w.end \in Int /\ w.start < w.end
    BY DEF Window, ValidWindow
  <2>2. \A i \in 1..Len(ws) : p[i] \in Window
    BY <1>1
  <2> QED
    BY <2>1, <2>2
<1>4. ASSUME Apart(p), NEW i \in 1..Len(ws), NEW j \in 1..Len(ws), i # j
      PROVE  ~Overlap(ws[i], ws[j])
  <2>1. p \in Plan
    BY <1>1, <1>4 DEF Plan
  <2>2. PICK k \in 1..Len(ws) : f[k] = i
    BY <1>2
  <2>3. PICK l \in 1..Len(ws) : f[l] = j
    BY <1>2
  <2>4. k # l /\ p[k] = ws[i] /\ p[l] = ws[j]
    BY <2>2, <2>3, <1>2, <1>4
  <2>5. k < l => p[k].end <= p[l].start
    BY <2>1, <1>1, PlanDisjoint
  <2>6. l < k => p[l].end <= p[k].start
    BY <2>1, <1>1, PlanDisjoint
  <2>7. p[k].end <= p[l].start \/ p[l].end <= p[k].start
    BY <2>4, <2>5, <2>6, <1>1
  <2> QED
    BY <2>4, <2>7, <1>3 DEF Overlap
<1>5. ASSUME ~Apart(p)
      PROVE  \E i, j \in 1..Len(ws) : i # j /\ Overlap(ws[i], ws[j])
  <2>1. PICK k \in 1..(Len(p) - 1) : ~ (p[k].end <= p[k + 1].start)
    BY <1>5 DEF Apart
  <2>2. k \in 1..Len(ws) /\ k + 1 \in 1..Len(ws) /\ k < k + 1 /\ k # k + 1
    BY <1>1
  <2>3. p[k].start <= p[k + 1].start
    BY <1>1, <2>2 DEF Ordered
  <2>4. Overlap(p[k], p[k + 1])
    BY <2>1, <2>2, <2>3, <1>3 DEF Overlap
  <2>5. f[k] # f[k + 1] /\ f[k] \in 1..Len(ws) /\ f[k + 1] \in 1..Len(ws)
    BY <2>2, <1>2
  <2>6. p[k] = ws[f[k]] /\ p[k + 1] = ws[f[k + 1]]
    BY <2>2, <1>2
  <2>7. Overlap(ws[f[k]], ws[f[k + 1]])
    BY <2>4, <2>6, Zenon
  <2> QED
    BY <2>5, <2>7, Zenon
<1> QED
  BY <1>1, <1>4, <1>5

-----------------------------------------------------------------------------
(* A plan under walk is a plan, an answer was given about the plan at hand *)
(* and the stage tells what the constructor made of the windows given.     *)
WalkInv ==
  /\ given \in Seq(Window)
  /\ plan \in Plan
  /\ stage \in {"new", "raised", "walking", "over"}
  /\ stage = "new" => ~asked.asked
  /\ AnswersRight
  /\ RefusedIffOverlap

LEMMA WalkInitial == WalkInit => WalkInv
<1>1. SUFFICES ASSUME WalkInit PROVE WalkInv
  OBVIOUS
<1>2. given \in Seq(Window)
  BY <1>1, WalkAssumption DEF WalkInit
<1>3. <<>> \in Plan
  BY DEF Plan, Ordered, Apart
<1> QED
  BY <1>1, <1>2, <1>3 DEF WalkInit, WalkInv, Unasked, AnswersRight, RefusedIffOverlap

LEMMA WalkInductive == WalkInv /\ [WalkNext]_walkvars => WalkInv'
<1>1. SUFFICES ASSUME WalkInv, [WalkNext]_walkvars PROVE WalkInv'
  OBVIOUS
<1>2. CASE Construct
  <2>1. /\ stage = "new" /\ ~asked.asked /\ asked' = asked /\ given' = given
        /\ given \in Seq(Window) /\ plan \in Plan
    BY <1>1, <1>2 DEF Construct, WalkInv
  <2>2. PICK p \in SortedPlans(given) :
          IF Apart(p) THEN plan' = p /\ stage' = "walking"
                      ELSE stage' = "raised" /\ UNCHANGED plan
    BY <1>2 DEF Construct
  <2>3. p \in Seq(Window) /\ Ordered(p)
    BY <2>1, SortedPlansParts
  <2>4. Apart(p) <=> ~ \E i, j \in DOMAIN given : i # j /\ Overlap(given[i], given[j])
    BY <2>1, ApartIffDisjoint
  <2>5. plan' \in Plan
    BY <2>1, <2>2, <2>3 DEF Plan
  <2>6. RefusedIffOverlap'
    BY <2>1, <2>2, <2>4 DEF RefusedIffOverlap
  <2>7. AnswersRight'
    BY <2>1 DEF AnswersRight
  <2> QED
    BY <2>1, <2>2, <2>5, <2>6, <2>7 DEF WalkInv
<1>3. CASE Visit
  <2>1. UNCHANGED <<given, plan, asked>> /\ stage = "walking" /\ stage' \in {"walking", "over"}
    BY <1>3 DEF Visit
  <2> QED
    BY <1>1, <2>1 DEF WalkInv, AnswersRight, RefusedIffOverlap
<1>4. ASSUME NEW t \in Times, Ask(t)
      PROVE  WalkInv'
  <2>1. /\ UNCHANGED <<given, plan, stage>> /\ stage = "walking" /\ t \in Int
        /\ plan \in Plan
    BY <1>1, <1>4, WalkAssumption DEF Ask, WalkInv
  <2>2. /\ asked'.t = t /\ asked'.active = ActiveAt(plan, t)
        /\ asked'.next = NextAfter(plan, t)
    BY <1>4 DEF Ask
  <2>3. DOMAIN plan = 1..Len(plan) /\ Len(plan) \in Nat
    BY <2>1, PlanParts
  <2>4. NoWindow \notin 1..Len(plan)
    BY <2>3 DEF NoWindow
  <2>5. \/ ActiveAt(plan, t) = NoWindow /\ \A i \in 1..Len(plan) : ~Covers(plan[i], t)
        \/ ActiveAt(plan, t) \in 1..Len(plan) /\ Covers(plan[ActiveAt(plan, t)], t)
    BY <2>1, ActiveAtRight
  <2>6. \/ NextAfter(plan, t) = NoWindow /\ \A i \in 1..Len(plan) : plan[i].end <= t
        \/ /\ NextAfter(plan, t) \in 1..Len(plan)
           /\ plan[NextAfter(plan, t)].end > t
           /\ \A i \in 1..Len(plan) : plan[i].end > t => NextAfter(plan, t) <= i
    BY <2>1, NextAfterRight
  <2>7. \A i \in 1..Len(plan) : ~ (plan[i].end > t /\ plan[i].end <= t)
    BY <2>1, PlanParts
  <2>8. AnswersRight'
    BY <2>1, <2>2, <2>3, <2>4, <2>5, <2>6, <2>7 DEF AnswersRight
  <2> QED
    BY <1>1, <2>1, <2>8 DEF WalkInv, RefusedIffOverlap
<1>5. CASE Over
  BY <1>1, <1>5 DEF Over, walkvars, WalkInv, AnswersRight, RefusedIffOverlap
<1>6. CASE UNCHANGED walkvars
  BY <1>1, <1>6 DEF walkvars, WalkInv, AnswersRight, RefusedIffOverlap
<1> QED
  BY <1>1, <1>2, <1>3, <1>4, <1>5, <1>6 DEF WalkNext

(* For every list of windows and every time: active_at and next_after      *)
(* answer with the window they promise.                                    *)
THEOREM AnswersRightAlways == WalkSpec => []AnswersRight
<1>1. WalkInv => AnswersRight
  BY DEF WalkInv
<1> QED
  BY <1>1, WalkInitial, WalkInductive, PTL DEF WalkSpec

(* For every list of windows: the constructor refuses it exactly when two  *)
(* of its windows overlap.                                                 *)
THEOREM RefusedIffOverlapAlways == WalkSpec => []RefusedIffOverlap
<1>1. WalkInv => RefusedIffOverlap
  BY DEF WalkInv
<1> QED
  BY <1>1, WalkInitial, WalkInductive, PTL DEF WalkSpec

-----------------------------------------------------------------------------
(* The safety half of WalksAll: the windows come one after the other, from *)
(* the first one on, and the walk is over only when all have come.         *)
WalksInOrder ==
  /\ Len(visited) <= Len(plan) /\ visited = [i \in 1..Len(visited) |-> i]
  /\ stage = "over" => visited = [i \in DOMAIN plan |-> i]

WalkShape ==
  /\ plan \in Plan /\ given \in Seq(Window)
  /\ visited \in Seq(Int) /\ (stage = "new" => visited = <<>>)
  /\ WalksInOrder

LEMMA OneMore ==
  ASSUME NEW s \in Seq(Int), s = [i \in 1..Len(s) |-> i]
  PROVE  /\ Append(s, Len(s) + 1) \in Seq(Int) /\ Len(Append(s, Len(s) + 1)) = Len(s) + 1
         /\ Append(s, Len(s) + 1) = [i \in 1..(Len(s) + 1) |-> i]
<1> DEFINE r == Append(s, Len(s) + 1)
           n == Len(s) + 1
<1>1. Len(s) \in Nat /\ n \in Int
  OBVIOUS
<1>2. r \in Seq(Int) /\ Len(r) = n /\ DOMAIN r = 1..n /\ r = [i \in 1..n |-> r[i]]
  BY <1>1
<1>3. \A i \in 1..n : r[i] = i
  <2> TAKE i \in 1..n
  <2>1. CASE i = n
    BY <1>1, <2>1
  <2>2. CASE i # n
    <3>1. i \in 1..Len(s)
      BY <1>1, <2>2
    <3>2. r[i] = s[i]
      BY <3>1
    <3>3. s[i] = i
      BY <3>1
    <3> QED
      BY <3>2, <3>3
  <2> QED
    BY <2>1, <2>2
<1> HIDE DEF r
<1> QED
  BY <1>2, <1>3 DEF r

LEMMA WalkUpcoming ==
  ASSUME WalkShape
  PROVE  Upcoming = IF Len(visited) < Len(plan) THEN Len(visited) + 1 ELSE NoWindow
<1>1. /\ plan \in Seq(Window) /\ Len(plan) \in Nat /\ DOMAIN plan = 1..Len(plan)
      /\ Len(visited) \in Nat /\ Len(visited) <= Len(plan)
  <2>1. plan \in Plan /\ visited \in Seq(Int) /\ Len(visited) <= Len(plan)
    BY DEF WalkShape, WalksInOrder
  <2>2. plan \in Seq(Window)
    BY <2>1 DEF Plan
  <2>3. Len(visited) \in Nat
    BY <2>1
  <2>4. Len(plan) \in Nat /\ DOMAIN plan = 1..Len(plan)
    BY <2>2
  <2> QED
    BY <2>1, <2>2, <2>3, <2>4
<1>2. CASE visited = <<>>
  <2>1. Upcoming = FirstWindow(plan) /\ Len(visited) = 0
    BY <1>2 DEF Upcoming
  <2>2. FirstWindow(plan) = IF plan = <<>> THEN NoWindow ELSE 1
    BY WalkFirst DEF WalkShape
  <2>3. plan = <<>> <=> Len(plan) = 0
    BY <1>1
  <2> QED
    BY <1>1, <2>1, <2>2, <2>3
<1>3. CASE visited # <<>>
  <2>1. Len(visited) \in 1..Len(plan) /\ Len(visited) > 0
    BY <1>1, <1>3 DEF WalkShape
  <2>2. visited[Len(visited)] = Len(visited)
    BY <2>1 DEF WalkShape, WalksInOrder
  <2>3. Upcoming = NextAfter(plan, plan[Len(visited)].end)
    BY <1>3, <2>2 DEF Upcoming
  <2> QED
    BY <1>1, <2>1, <2>3, GoesToNext DEF WalkShape
<1> QED
  BY <1>2, <1>3

LEMMA WalkStep == WalkShape /\ [WalkNext]_walkvars => WalkShape'
<1> SUFFICES ASSUME WalkShape, [WalkNext]_walkvars PROVE WalkShape'
  OBVIOUS
<1>1. CASE Construct
  <2>1. /\ stage = "new" /\ visited = <<>> /\ visited' = visited /\ given' = given
        /\ stage' \in {"walking", "raised"}
    BY <1>1 DEF Construct, WalkShape
  <2>2. PICK p \in SortedPlans(given) :
          IF Apart(p) THEN plan' = p /\ stage' = "walking"
                      ELSE stage' = "raised" /\ UNCHANGED plan
    BY <1>1 DEF Construct
  <2>3. plan' \in Plan
    BY <2>2, SortedPlansParts DEF WalkShape, Plan
  <2>4. Len(plan') \in Nat /\ Len(visited') = 0 /\ visited' = [i \in 1..0 |-> i]
    BY <2>1, <2>3, PlanParts
  <2> QED
    BY <2>1, <2>3, <2>4 DEF WalkShape, WalksInOrder
<1>2. CASE Visit
  <2>1. stage = "walking" /\ plan' = plan /\ given' = given
    BY <1>2 DEF Visit
  <2>2. Len(visited) \in Nat /\ Len(plan) \in Nat /\ DOMAIN plan = 1..Len(plan)
    BY PlanParts DEF WalkShape
  <2>3. CASE Upcoming = NoWindow
    <3>1. stage' = "over" /\ visited' = visited
      BY <1>2, <2>3 DEF Visit
    <3>2. Len(visited) = Len(plan)
      <4>1. Len(visited) <= Len(plan)
        BY DEF WalkShape, WalksInOrder
      <4>2. Upcoming = IF Len(visited) < Len(plan) THEN Len(visited) + 1 ELSE NoWindow
        BY WalkUpcoming
      <4>3. Len(visited) + 1 # NoWindow
        BY <2>2 DEF NoWindow
      <4> QED
        BY <2>2, <2>3, <4>1, <4>2, <4>3
    <3> QED
      BY <2>1, <2>2, <3>1, <3>2 DEF WalkShape, WalksInOrder
  <2>4. CASE Upcoming # NoWindow
    <3>1. stage' = stage /\ visited' = Append(visited, Upcoming)
      BY <1>2, <2>4 DEF Visit
    <3>2. Len(visited) < Len(plan) /\ Upcoming = Len(visited) + 1
      BY <2>2, <2>4, WalkUpcoming
    <3>3. /\ visited' \in Seq(Int) /\ Len(visited') = Len(visited) + 1
          /\ visited' = [i \in 1..(Len(visited) + 1) |-> i]
      BY <3>1, <3>2, OneMore DEF WalkShape, WalksInOrder
    <3>4. Len(visited') <= Len(plan)
      BY <2>2, <3>2, <3>3
    <3> QED
      BY <2>1, <3>1, <3>3, <3>4 DEF WalkShape, WalksInOrder
  <2> QED
    BY <2>3, <2>4
<1>3. ASSUME NEW t \in Times, Ask(t) PROVE WalkShape'
  BY <1>3 DEF Ask, WalkShape, WalksInOrder
<1>4. CASE Over \/ UNCHANGED walkvars
  BY <1>4 DEF Over, walkvars, WalkShape, WalksInOrder
<1> QED
  BY <1>1, <1>2, <1>3, <1>4 DEF WalkNext

(* For every list of windows that is taken: the walk visits the windows    *)
(* once each and in order, back-to-back ones included, and has visited     *)
(* them all when it is over (scheduler.py:674-683).                        *)
THEOREM WalksInOrderAlways == WalkSpec => []WalksInOrder
<1>1. WalkInit => WalkShape
  <2> SUFFICES ASSUME WalkInit PROVE WalkShape
    OBVIOUS
  <2>1. /\ plan = <<>> /\ visited = <<>> /\ stage = "new" /\ given \in Seq(Window)
    BY WalkAssumption DEF WalkInit
  <2>2. <<>> \in Plan
    BY DEF Plan, Ordered, Apart
  <2>3. Len(visited) = 0 /\ Len(plan) = 0 /\ visited = [i \in 1..0 |-> i]
    BY <2>1
  <2> QED
    BY <2>1, <2>2, <2>3 DEF WalkShape, WalksInOrder
<1>2. WalkShape => WalksInOrder
  BY DEF WalkShape
<1> QED
  BY <1>1, <1>2, WalkStep, PTL DEF WalkSpec
=============================================================================
