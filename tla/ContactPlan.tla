---------------------------- MODULE ContactPlan ----------------------------
(***************************************************************************)
(* gateway/contact_plan.py: contact windows [start, end) with a nominal    *)
(* link rate, the plan that keeps them sorted, and the two queries about   *)
(* it.  A plan is the list _windows of the object, a sequence of records;  *)
(* a query answers with an index into it, NoWindow standing for None.      *)
(* Timestamps are integers.                                                *)
(***************************************************************************)
EXTENDS Integers, Sequences

NoWindow == 0

(* ContactWindow raises unless the window is of this kind.                 *)
ValidWindow(w) == w.start < w.end /\ w.rate > 0

Covers(w, t) == w.start <= t /\ t < w.end

(* raw_bit_budget(): duration times nominal rate, in bits.                 *)
Budget(w) == (w.end - w.start) * w.rate

Window == {w \in [start : Int, end : Int, rate : Nat] : ValidWindow(w)}

-----------------------------------------------------------------------------
(* A mutant of Apart: only the starts are compared.                        *)
Apart_Starts(p) == \A i \in 1..(Len(p) - 1) : p[i].start < p[i + 1].start

(* The constructor sorts the windows and raises if neighbours overlap.     *)
Ordered(p) == \A i, j \in DOMAIN p : i < j => p[i].start <= p[j].start
Apart(p) == \A i \in 1..(Len(p) - 1) : p[i].end <= p[i + 1].start

Plan == {p \in Seq(Window) : Ordered(p) /\ Apart(p)}

-----------------------------------------------------------------------------
(* A mutant of BisectRight: bisect_left.                                   *)
BisectRight_Left(p, t) ==
  CHOOSE k \in 0..Len(p) :
    /\ \A i \in 1..k : p[i].start < t
    /\ \A i \in (k + 1)..Len(p) : p[i].start >= t

(* bisect_right(_starts, t): how many windows start at or before t.        *)
BisectRight(p, t) ==
  CHOOSE k \in 0..Len(p) :
    /\ \A i \in 1..k : p[i].start <= t
    /\ \A i \in (k + 1)..Len(p) : p[i].start > t

ActiveAt(p, t) ==
  LET k == BisectRight(p, t)
  IN  IF k > 0 /\ Covers(p[k], t) THEN k ELSE NoWindow

(* A mutant of NextAfter: the window under way is not considered.          *)
NextAfter_Upcoming(p, t) ==
  IF BisectRight(p, t) < Len(p) THEN BisectRight(p, t) + 1 ELSE NoWindow

NextAfter(p, t) ==
  IF ActiveAt(p, t) # NoWindow THEN ActiveAt(p, t)
  ELSE IF BisectRight(p, t) < Len(p) THEN BisectRight(p, t) + 1
  ELSE NoWindow

(* next_after(-inf), where the walks over a plan begin.                    *)
FirstWindow(p) == IF p = <<>> THEN NoWindow ELSE NextAfter(p, p[1].start - 1)

-----------------------------------------------------------------------------
(* periodic_contact_plan(): n windows, one every period; it raises unless  *)
(* they fit their period.                                                  *)
PeriodicAllowed(period, duration) == duration <= period

Periodic(n, period, duration, rate, start) ==
  [i \in 1..n |->
     [start |-> start + (i - 1) * period,
      end |-> start + (i - 1) * period + duration,
      rate |-> rate]]
=============================================================================
