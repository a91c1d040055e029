-------------------------------- MODULE Sweep --------------------------------
(***************************************************************************)
(* gateway/sweep_harness.py and analysis/run_trace_scheduler.py: one       *)
(* workload is run through several policies, one scheduler after the       *)
(* other, each over fresh copies of the records; a TTL sweep does so again *)
(* for every candidate lifetime of one class, on a workload generated      *)
(* anew.  The comparison tables are computed from the records each run     *)
(* leaves behind.                                                          *)
(***************************************************************************)
EXTENDS SchedulerProperties, FiniteSetsExt

CONSTANTS
  Rates,      \* what a plan's link rates are overridden with; 0 keeps them
  Overrides,  \* lifetime overrides: a class with its lifetimes, one by one
  Orders      \* the policies to compare, in the order they are run

ASSUME SweepAssumption ==
  /\ Rates \subseteq Nat
  /\ Overrides \subseteq [cls : Class, ttls : Seq(Nat)]
  /\ Orders \subseteq Seq(Policy) \ {<<>>}

VARIABLES
  generated,  \* the workload as generated (or read from a trace)
  override,   \* the sweep over lifetimes under way
  order,      \* the policies to run
  results     \* per finished run: its lifetime, policy and records

sweep == <<generated, override, order, results>>
sweepVars == <<vars, sweep>>

ALL_POLICIES == <<"fifo", "strict_priority", "wfq", "wfq_skip_over",
                  "deadline_aware", "utility_aware", "utility_pure">>
AsGenerated == [cls |-> "media", ttls |-> <<>>]

(* load_real_contact_plan(), load_stress_contact_plan().                   *)
Loaded(p, rate) ==
  [i \in DOMAIN p |-> IF rate = 0 THEN p[i] ELSE [p[i] EXCEPT !.rate = rate]]

-----------------------------------------------------------------------------
(* The runs come lifetime by lifetime, and policy by policy for each.      *)
Points == IF override.ttls = <<>> THEN 1 ELSE Len(override.ttls)
Total == Points * Len(order)
PointOf(k) == (k - 1) \div Len(order) + 1
PolicyOf(k) == order[1 + ((k - 1) % Len(order))]

(* Only the lifetime of the class under study is overridden.               *)
Regenerated(w, o, i) ==
  [b \in DOMAIN w |->
     IF o.ttls # <<>> /\ w[b].cls = o.cls
       THEN [w[b] EXCEPT !.ttl = o.ttls[i]] ELSE w[b]]

Configured(policy, cap) ==
  [policy |-> policy, capacity |-> cap, admission |-> "default", skip |-> TRUE]

SweepInit ==
  /\ \E p \in Plans, r \in Rates : plan = Loaded(p, r)
  /\ generated \in Workloads
  /\ override \in Overrides \cup {AsGenerated} /\ order \in Orders
  /\ results = <<>>
  /\ bundles = Regenerated(generated, override, 1)
  /\ \E cap \in Capacities : config = Configured(order[1], cap)
  /\ Fresh

-----------------------------------------------------------------------------
Record ==
  results' = Append(results, [point |-> PointOf(Len(results) + 1), policy |-> config.policy,
                              fate |-> state, sent |-> contact])

(* The next policy or lifetime, with the given records to start from.      *)
Restart(records) ==
  LET k == Len(results) + 2
  IN  /\ pc = "done" /\ k <= Total
      /\ Record
      /\ bundles' = Regenerated(generated, override, PointOf(k))
      /\ config' = Configured(PolicyOf(k), config.capacity)
      /\ arrivals' = DOMAIN bundles /\ state' = records
      /\ contact' = [b \in DOMAIN bundles |-> NoWindow]
      /\ pc' = "admit" /\ cur' = FirstWindow(plan) /\ last' = NoWindow
      /\ UNCHANGED <<plan, incoming, remaining, todo, rounds, turn,
                     generated, override, order>>

NewScheduler ==
  /\ active' = {} /\ activeBytes' = 0
  /\ deficit' = [c \in WfqClass |-> 0] /\ rotation' = 0

NewRecords == [b \in DOMAIN bundles |-> "pending"]

(* Mutants of NextRun: the records of the run before are run again; or the *)
(* scheduler of the run before is used again, on new records.              *)
NextRun_SameRecords == Restart(state) /\ NewScheduler
NextRun_SameScheduler ==
  Restart(NewRecords) /\ UNCHANGED <<active, activeBytes, deficit, rotation>>

(* A run is over: its records are kept, and the next one gets copies of    *)
(* the records and a scheduler of its own.                                 *)
NextRun == Restart(NewRecords) /\ NewScheduler

LastRun ==
  /\ pc = "done" /\ Len(results) + 1 = Total
  /\ Record
  /\ UNCHANGED <<vars, generated, override, order>>

InRun == Run /\ UNCHANGED sweep
Swept == Len(results) = Total /\ UNCHANGED sweepVars

SweepStep == InRun \/ NextRun \/ LastRun
SweepNext == SweepStep \/ Swept

(* The sweep is one sequential program.                                    *)
SweepSpec == SweepInit /\ [][SweepNext]_sweepVars /\ WF_sweepVars(SweepStep)

-----------------------------------------------------------------------------
(* The tables: outcome_table() and compute_triage_breakdown(), with the    *)
(* metrics of telemetry.py.                                                *)
OfClass(c) == {b \in DOMAIN generated : generated[b].cls = c}
Count(r, c, st) == Cardinality({b \in OfClass(c) : r.fate[b] = st})
Delivered(r, c) == Count(r, c, "delivered")

(* What the delivered bundles of each class are worth.                     *)
Worth(r) == [c \in Class |-> UtilityWeight[c] * Delivered(r, c)]

(* A mutant of MissionUtility: a lost emergency pays.                      *)
MissionUtility_Reward(r) ==
  MapThenSumSet(LAMBDA c : Worth(r)[c], Class) + 1000 * Count(r, "emergency", "ttl_expired")

MissionUtility(r) ==
  MapThenSumSet(LAMBDA c : Worth(r)[c], Class) - 1000 * Count(r, "emergency", "ttl_expired")

(* starvation_summary(): deadline losses, starvation and overflow apart.   *)
PerClass(r, st) == [c \in Class |-> Count(r, c, st)]
StarvationSummary(r) ==
  [st \in {"ttl_expired", "never_scheduled", "queue_overflow"} |->
     MapThenSumSet(LAMBDA c : PerClass(r, st)[c], Class)]
=============================================================================
