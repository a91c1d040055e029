----------------------------- MODULE MCScheduler -----------------------------
(* Small instances of Scheduler.  At rate 8 a window carries a byte per    *)
(* unit of time.                                                           *)
EXTENDS SchedulerProperties

W(s, e, r) == [start |-> s, end |-> e, rate |-> r]
B(c, n, t, l) == [cls |-> c, size |-> n, ingress |-> t, ttl |-> l]
Lists(S, n) == UNION {[1..k -> S] : k \in 1..n}

(* No window; back-to-back windows; a blackout between two windows, the    *)
(* second wider than the first.                                            *)
OrderedPlans == {<<>>, <<W(1, 3, 8), W(3, 4, 8)>>, <<W(0, 2, 8), W(3, 4, 24)>>}
OrderedBundles ==
  {B("emergency", 1, 1, 2), B("emergency", 2, 3, 1), B("telemetry", 1, 0, 3),
   B("telemetry", 2, 2, 1), B("science_bulk", 2, 0, 4), B("media", 1, 1, 3),
   B("media", 3, 0, 9), B("media", 1, 4, 1)}
OrderedLists == Lists(OrderedBundles, 3)
=============================================================================
