------------------------------- MODULE MCSweep -------------------------------
(* Small instances of Sweep.  At rate 8 a window carries a byte per unit   *)
(* of time.                                                                *)
EXTENDS SweepProperties

W(s, e, r) == [start |-> s, end |-> e, rate |-> r]
B(c, n, t, l) == [cls |-> c, size |-> n, ingress |-> t, ttl |-> l]
Lists(S, n) == UNION {[1..k -> S] : k \in 1..n}

(* At its own rate the first window is too short for two bytes.            *)
SweepPlans == {<<W(1, 3, 4), W(4, 6, 24)>>}
SweepBundles ==
  {B("emergency", 1, 0, 3), B("emergency", 1, 0, 9), B("emergency", 2, 1, 3),
   B("telemetry", 1, 0, 9), B("science_bulk", 2, 0, 5), B("media", 1, 0, 9),
   B("media", 3, 1, 9)}
(* Where FIFO refuses an early emergency and strict priority a late one.   *)
FullBuffer ==
  <<B("media", 2, 0, 1), B("emergency", 2, 0, 3), B("emergency", 2, 4, 3)>>
SweepLists == Lists(SweepBundles, 3) \cup {FullBuffer}
SweepOrders == {ALL_POLICIES}
SweepOverrides == {[cls |-> "science_bulk", ttls |-> <<1, 9>>]}
SweepPolicies == Policy
=============================================================================
