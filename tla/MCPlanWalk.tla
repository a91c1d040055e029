----------------------------- MODULE MCPlanWalk -----------------------------
(* Up to three windows between 0 and 4, in any order, overlapping or not,  *)
(* and the periodic plans.                                                 *)
EXTENDS PlanWalk

MCTimes == (-1)..5
SmallWindows == {w \in [start : 0..3, end : 1..4, rate : {1}] : ValidWindow(w)}
MCGivens ==
  UNION {[1..n -> SmallWindows] : n \in 0..3}
    \cup {Periodic(n, x[1], x[2], 1, s) :
             n \in 1..3, s \in 0..1,
             x \in {y \in (1..2) \X (1..3) : PeriodicAllowed(y[1], y[2])}}
=============================================================================
