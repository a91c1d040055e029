---------------------------- MODULE BufferSizing -----------------------------
(***************************************************************************)
(* analysis/buffer_sizing.py: the smallest buffer with which a scheduler   *)
(* delivers every protected bundle that arrives during a blackout, found   *)
(* by bisection; every trial is a run of Scheduler with another cap.       *)
(***************************************************************************)
EXTENDS SchedulerProperties, SequencesExt

CONSTANTS
  Profiles,    \* mission profiles: per class a bundle size and an interval
  Gaps,        \* blackouts
  Ttl,         \* default_ttl_s of each class
  Grid,        \* the bisection halves down to 1/Grid of a byte
  Iterations   \* 40 in the code

Load == [cls : Class, size : 1..MaxSize, interval : Nat \ {0}]
ASSUME SizingAssumption ==
  /\ Profiles \subseteq Seq(Load) \ {<<>>} /\ Gaps \subseteq Nat \ {0}
  /\ Ttl \in [Class -> Nat] /\ Grid \in Nat \ {0, 1} /\ Iterations \in Nat \ {0}

VARIABLES
  gap, aware,  \* gap_s, priority_aware
  lo, hi,      \* the bracket, in units of 1/Grid byte
  round        \* halvings done

search == <<gap, aware, lo, hi, round>>
sizingVars == <<vars, search>>

PROTECTED_MAX_RANK == 1

(* Arrivals at 0, interval, 2 * interval... within the gap, class by class.*)
make_trace(profile, g) ==
  LET train(c) == [k \in 1..((g + c.interval - 1) \div c.interval) |->
                     [cls |-> c.cls, size |-> c.size, ingress |-> (k - 1) * c.interval,
                      ttl |-> Ttl[c.cls]]]
  IN  FlattenSeq([i \in DOMAIN profile |-> train(profile[i])])

TotalBytes == Bytes(DOMAIN bundles)

(* One contact after the gap that carries all there can be.                *)
DrainPlan(total, g) == <<[start |-> g, end |-> g + 10, rate |-> total * 8 * 10]>>

Mid(l, h) == (l + h) \div 2

(* safe(): a new scheduler, with fresh copies of the trace.                *)
Trial(cap) ==
  [policy |-> "strict_priority", capacity |-> cap \div Grid,
   admission |-> IF aware THEN "on" ELSE "off", skip |-> TRUE]

Protected(b) == Rank(b) <= PROTECTED_MAX_RANK
all_protected_delivered ==
  \A b \in DOMAIN bundles : Protected(b) => state[b] = "delivered"

SizingInit ==
  /\ gap \in Gaps /\ aware \in BOOLEAN
  /\ \E profile \in Profiles : bundles = make_trace(profile, gap)
  /\ plan = DrainPlan(TotalBytes, gap)
  /\ lo = Grid /\ hi = Grid * TotalBytes /\ round = 0
  /\ config = Trial(Mid(lo, hi))
  /\ Fresh

(* A mutant of Halved: a trial that is not safe narrows from above.        *)
Halved_Inverted(safe) == lo' = (IF safe THEN Mid(lo, hi) ELSE lo) /\ hi' = (IF safe THEN hi ELSE Mid(lo, hi))

Halved(safe) == IF safe THEN lo' = lo /\ hi' = Mid(lo, hi)
                        ELSE lo' = Mid(lo, hi) /\ hi' = hi

NextTrial ==
  /\ config' = Trial(Mid(lo', hi'))
  /\ arrivals' = DOMAIN bundles /\ active' = {} /\ activeBytes' = 0
  /\ state' = [b \in DOMAIN bundles |-> "pending"]
  /\ contact' = [b \in DOMAIN bundles |-> NoWindow]
  /\ deficit' = [c \in WfqClass |-> 0] /\ rotation' = 0
  /\ pc' = "admit" /\ cur' = FirstWindow(plan) /\ last' = NoWindow
  /\ UNCHANGED <<incoming, remaining, todo, rounds, turn>>

(* A trial is over: halve the bracket, and start the next one.             *)
Halve ==
  /\ pc = "done" /\ round < Iterations
  /\ Halved(all_protected_delivered)
  /\ round' = round + 1
  /\ UNCHANGED <<gap, aware, plan, bundles>>
  /\ IF round' = Iterations
       THEN UNCHANGED <<config, queue, wfq, pc, control, remaining, todo>>
       ELSE NextTrial

SizingStep == (Run /\ UNCHANGED search) \/ Halve

SizingSpec == SizingInit /\ [][SizingStep]_sizingVars
=============================================================================
