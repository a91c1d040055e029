------------------------------ MODULE MCSizing -------------------------------
(* Mission profiles of three classes, scaled: an emergency now and then,   *)
(* telemetry, and science that makes up most of the volume.                *)
EXTENDS SizingProperties

L(c, n, i) == [cls |-> c, size |-> n, interval |-> i]
SizingProfiles ==
  {<<L("emergency", n, i), L("telemetry", m, j), L("science_bulk", k, l)>> :
     n \in 1..2, i \in 2..3, m \in 1..3, j \in 1..3, k \in 2..4, l \in 1..2}
  \cup {<<L("media", 3, 1), L("emergency", 1, 4)>>, <<L("media", 2, 2)>>}
SizingTtl == [emergency |-> 4, telemetry |-> 5, science_bulk |-> 9, media |-> 5]
=============================================================================
