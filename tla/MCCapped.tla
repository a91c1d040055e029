------------------------------ MODULE MCCapped -------------------------------
(* A blackout of three instants, with two video feeds and sizes that make  *)
(* the buffer of four bytes overflow; checkpoints at, between and after    *)
(* the events.                                                             *)
EXTENDS CappedProperties

CappedSizes ==
  [emergency |-> {1}, telemetry |-> {1}, science_bulk |-> {2, 3}, media |-> {2}]
CappedTtl == [emergency |-> 2, telemetry |-> 9, science_bulk |-> 1, media |-> 2]
CappedCheckpoints == <<0, 1, 3, 5>>
=============================================================================
