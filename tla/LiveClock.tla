------------------------------ MODULE LiveClock ------------------------------
(* The time the live components share, in whole seconds since the script   *)
(* and the broker began.  It is no calendar time and is never set back.    *)
EXTENDS Integers, Sequences

CONSTANTS
  Late,     \* how late the operating system may wake a waiting thread
  MaxClock  \* bound: the clock stops here

ASSUME ClockAssumption == Late \in Nat /\ MaxClock \in Nat

VARIABLE now
=============================================================================
