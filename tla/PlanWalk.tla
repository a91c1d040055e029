------------------------------ MODULE PlanWalk ------------------------------
(***************************************************************************)
(* The life of a contact plan: it is built from windows in any order, or   *)
(* refused, and walked from its first window to its last by asking for     *)
(* next_after of the end of the window just used, as Scheduler.run does;   *)
(* meanwhile anybody may ask for the window at an arbitrary time.          *)
(***************************************************************************)
EXTENDS ContactPlan, FiniteSets, Functions

CONSTANTS
  Givens,   \* lists of valid windows the constructor may be called with
  Times     \* times asked about

ASSUME WalkAssumption == Givens \subseteq Seq(Window) /\ Times \subseteq Int

VARIABLES
  given,    \* the windows passed to the constructor
  plan,     \* _windows
  stage,    \* "new", "raised", "walking" or "over"
  visited,  \* the windows walked through, in order
  asked     \* a time asked about and the answers of active_at, next_after

walkvars == <<given, plan, stage, visited, asked>>

Unasked == [t |-> 0, active |-> NoWindow, next |-> NoWindow, asked |-> FALSE]

WalkInit ==
  /\ given \in Givens
  /\ plan = <<>> /\ stage = "new" /\ visited = <<>>
  /\ asked = Unasked

(* What sorted() can make of the windows: a permutation ordered by start.  *)
(* Windows of equal start overlap, so the order of ties does not matter.   *)
SortedPlans(ws) ==
  {p \in {[i \in DOMAIN ws |-> ws[f[i]]] : f \in Bijection(DOMAIN ws, DOMAIN ws)} : Ordered(p)}

Construct ==
  /\ stage = "new"
  /\ \E p \in SortedPlans(given) :
       IF Apart(p) THEN plan' = p /\ stage' = "walking"
                   ELSE stage' = "raised" /\ UNCHANGED plan
  /\ UNCHANGED <<given, visited, asked>>

Upcoming ==
  IF visited = <<>> THEN FirstWindow(plan)
                    ELSE NextAfter(plan, plan[visited[Len(visited)]].end)

Visit ==
  /\ stage = "walking"
  /\ IF Upcoming = NoWindow
       THEN stage' = "over" /\ UNCHANGED visited
       ELSE visited' = Append(visited, Upcoming) /\ UNCHANGED stage
  /\ UNCHANGED <<given, plan, asked>>

Ask(t) ==
  /\ stage = "walking" /\ ~asked.asked
  /\ asked' = [t |-> t, active |-> ActiveAt(plan, t), next |-> NextAfter(plan, t),
               asked |-> TRUE]
  /\ UNCHANGED <<given, plan, stage, visited>>

Over == stage \in {"raised", "over"} /\ UNCHANGED walkvars

WalkNext == Construct \/ Visit \/ (\E t \in Times : Ask(t)) \/ Over
WalkSpec == WalkInit /\ [][WalkNext]_walkvars /\ WF_walkvars(Construct \/ Visit)

-----------------------------------------------------------------------------
(* The plan is refused exactly when some two of the windows given share an *)
(* instant, however far apart they are in the list (contact_plan.py:96-    *)
(* 101): comparing neighbours is enough.                                   *)
Overlap(v, w) == v.start < w.end /\ w.start < v.end

RefusedIffOverlap ==
  stage # "new" =>
    (stage = "raised" <=>
       \E i, j \in DOMAIN given : i # j /\ Overlap(given[i], given[j]))

(* active_at answers with the one window that covers the time, and         *)
(* next_after with the earliest window that has not ended by it; a time    *)
(* where two windows meet belongs to the later (contact_plan.py:25-31,     *)
(* 120-141).                                                               *)
AnswersRight ==
  asked.asked =>
    /\ asked.active = NoWindow <=> \A i \in DOMAIN plan : ~Covers(plan[i], asked.t)
    /\ asked.active # NoWindow => Covers(plan[asked.active], asked.t)
    /\ asked.next = NoWindow <=> \A i \in DOMAIN plan : plan[i].end <= asked.t
    /\ asked.next # NoWindow =>
         /\ plan[asked.next].end > asked.t
         /\ \A i \in DOMAIN plan : plan[i].end > asked.t => asked.next <= i

(* The walk of Scheduler.run visits every window exactly once, in order,   *)
(* and ends, back-to-back windows included (scheduler.py:674-683).         *)
WalksAll ==
  <>(stage = "raised" \/ (stage = "over" /\ visited = [i \in DOMAIN plan |-> i]))
=============================================================================
