----------------------------- MODULE SweepProofs -----------------------------
(***************************************************************************)
(* The programs that run the scheduler many times.  Whatever is proved of  *)
(* a run holds of every run of a sweep, and no run leaks into the tables   *)
(* of another; the search for a buffer size ends at the right size.        *)
(***************************************************************************)
EXTENDS SweepProperties, SizingProperties, SchedulerProofs

RunRecord == [point : Int, policy : Policy, fate : [DOMAIN generated -> Terminal],
              sent : [DOMAIN generated -> Int]]

(* What a sweep keeps beside the run under way.                            *)
SweepShape ==
  /\ generated \in BundleLists /\ DOMAIN bundles = DOMAIN generated
  /\ override \in [cls : Class, ttls : Seq(Nat)]
  /\ order \in Seq(Policy) /\ order # <<>>
  /\ config.policy \in Policy
  /\ results \in Seq(RunRecord)

-----------------------------------------------------------------------------
LEMMA LoadedIsPlan ==
  ASSUME NEW p \in Plan, NEW r \in Nat
  PROVE  Loaded(p, r) \in Plan
<1>1. p \in Seq(Window) /\ Ordered(p) /\ Apart(p)
  BY DEF Plan
<1> DEFINE q == Loaded(p, r)
<1>2. DOMAIN p = 1..Len(p) /\ Len(p) \in Nat
  BY <1>1
<1>3. ASSUME NEW i \in DOMAIN p
      PROVE  q[i] \in Window /\ q[i].start = p[i].start /\ q[i].end = p[i].end
  <2>1. p[i] \in Window
    BY <1>1
  <2>2. CASE r = 0
    BY <2>1, <2>2 DEF Loaded
  <2>3. CASE r # 0
    BY <2>1, <2>3 DEF Loaded, Window, ValidWindow
  <2> QED
    BY <2>2, <2>3
<1>4. DOMAIN q = DOMAIN p /\ q = [i \in 1..Len(p) |-> q[i]]
  BY <1>2 DEF Loaded
<1>5. q \in Seq(Window) /\ Len(q) = Len(p)
  <2> HIDE DEF q
  <2> QED
    BY <1>2, <1>3, <1>4
<1>6. Ordered(q) /\ Apart(q)
  <2> HIDE DEF q
  <2>1. Ordered(q)
    BY <1>1, <1>3, <1>4 DEF Ordered
  <2>2. ASSUME NEW i \in 1..(Len(q) - 1) PROVE q[i].end <= q[i + 1].start
    <3>1. i \in 1..(Len(p) - 1) /\ i \in DOMAIN p /\ i + 1 \in DOMAIN p
      BY <1>2, <1>5, <2>2
    <3>2. p[i].end <= p[i + 1].start
      BY <1>1, <3>1 DEF Apart
    <3>3. q[i].end = p[i].end /\ q[i + 1].start = p[i + 1].start
      BY <1>3, <3>1
    <3> QED
      BY <3>2, <3>3
  <2> QED
    BY <2>1, <2>2 DEF Apart
<1> QED
  BY <1>5, <1>6 DEF Plan

LEMMA RegeneratedIsList ==
  ASSUME NEW w \in BundleLists, NEW o \in [cls : Class, ttls : Seq(Nat)], NEW i,
         o.ttls # <<>> => i \in DOMAIN o.ttls
  PROVE  Regenerated(w, o, i) \in BundleLists /\ DOMAIN Regenerated(w, o, i) = DOMAIN w
<1> DEFINE q == Regenerated(w, o, i)
<1>1. w \in Seq(BundleIn) /\ DOMAIN w = 1..Len(w) /\ Len(w) \in Nat
  BY DEF BundleLists
<1>2. DOMAIN q = DOMAIN w
  BY DEF Regenerated
<1>3. ASSUME NEW b \in DOMAIN w PROVE q[b] \in BundleIn
  <2>1. w[b] \in BundleIn
    BY <1>1
  <2>2. CASE o.ttls # <<>> /\ w[b].cls = o.cls
    <3>1. o.ttls[i] \in Nat
      BY <2>2
    <3> QED
      BY <2>1, <2>2, <3>1 DEF Regenerated, BundleIn
  <2>3. CASE ~(o.ttls # <<>> /\ w[b].cls = o.cls)
    BY <2>1, <2>3 DEF Regenerated
  <2> QED
    BY <2>2, <2>3
<1>4. q = [b \in 1..Len(w) |-> q[b]]
  BY <1>1 DEF Regenerated
<1> HIDE DEF q
<1>5. q \in Seq(BundleIn)
  BY <1>1, <1>2, <1>3, <1>4
<1> QED
  BY <1>2, <1>5 DEF BundleLists, q

LEMMA QuotientBound ==
  ASSUME NEW x \in Nat, NEW n \in Nat \ {0}, NEW m \in Nat, x < m * n
  PROVE  x \div n \in Nat /\ x \div n < m
<1>1. PICK q \in Int : q = x \div n /\ n * q <= x /\ x < n * q + n
  OBVIOUS
<1>2. ASSUME q < 0 PROVE FALSE
  <2>1. n * (q + 1) <= 0
    BY <1>2
  <2>2. n * (q + 1) = n * q + n
    BY <1>1
  <2> QED
    BY <1>1, <2>1, <2>2
<1>3. ASSUME q >= m PROVE FALSE
  <2>1. n * q >= n * m
    BY <1>3
  <2>2. n * q \in Int /\ n * m \in Int /\ n * m = m * n
    BY <1>1
  <2> QED
    BY <1>1, <2>1, <2>2
<1> QED
  BY <1>1, <1>2, <1>3

LEMMA RunsAreNumbered ==
  ASSUME SweepShape, NEW k \in Nat \ {0}, k <= Total
  PROVE  /\ PointOf(k) \in Nat \ {0} /\ PointOf(k) <= Points
         /\ override.ttls # <<>> => PointOf(k) \in DOMAIN override.ttls
         /\ PolicyOf(k) \in Policy
<1>1. /\ order \in Seq(Policy) /\ Len(order) \in Nat \ {0} /\ DOMAIN order = 1..Len(order)
      /\ override.ttls \in Seq(Nat)
  BY DEF SweepShape
<1>2. Points \in Nat \ {0}
  BY <1>1 DEF Points
<1>3. k - 1 \in Nat /\ k - 1 < Points * Len(order)
  <2>1. Points * Len(order) \in Nat
    BY <1>1, <1>2
  <2> QED
    BY <2>1 DEF Total
<1>4. (k - 1) \div Len(order) \in Nat /\ (k - 1) \div Len(order) < Points
  BY <1>1, <1>2, <1>3, QuotientBound
<1>5. PICK d \in Nat : d = (k - 1) \div Len(order) /\ d < Points
  BY <1>4
<1>6. PointOf(k) = d + 1
  BY <1>5, Zenon DEF PointOf
<1>7. (k - 1) % Len(order) \in 0..(Len(order) - 1)
  BY <1>1, <1>3
<1>8. PICK e \in 0..(Len(order) - 1) : e = (k - 1) % Len(order)
  BY <1>7
<1>9. PolicyOf(k) = order[1 + e]
  BY <1>8, Zenon DEF PolicyOf
<1>10. 1 + e \in DOMAIN order
  BY <1>1, <1>8
<1>11. override.ttls # <<>> => d + 1 \in DOMAIN override.ttls
  BY <1>1, <1>5 DEF Points
<1> QED
  BY <1>1, <1>2, <1>5, <1>6, <1>9, <1>10, <1>11

LEMMA FirstRunNumbered ==
  ASSUME SweepShape
  PROVE  Total \in Nat /\ Total >= 1
<1>1. Points \in Nat \ {0} /\ Len(order) \in Nat \ {0}
  BY DEF SweepShape, Points
<1>2. PICK p \in Nat \ {0}, n \in Nat \ {0} : p = Points /\ n = Len(order)
  BY <1>1
<1>3. p * n \in Nat /\ p * n >= 1
  OBVIOUS
<1> QED
  BY <1>2, <1>3 DEF Total

-----------------------------------------------------------------------------
(* Every run starts afresh.                                                *)
LEMMA SweepStarts == SweepInit => Starting /\ SweepShape
<1> SUFFICES ASSUME SweepInit PROVE Starting /\ SweepShape
  OBVIOUS
<1>1. plan \in Plan
  BY LoadedIsPlan, SchedulerAssumption, SweepAssumption DEF SweepInit
<1>2. generated \in BundleLists
  BY SchedulerAssumption DEF SweepInit, BundleLists
<1>3. override \in [cls : Class, ttls : Seq(Nat)]
  <2>1. AsGenerated \in [cls : Class, ttls : Seq(Nat)]
    BY DEF AsGenerated, Class, RANK
  <2>2. Overrides \subseteq [cls : Class, ttls : Seq(Nat)]
    BY SweepAssumption
  <2>3. override \in Overrides \cup {AsGenerated}
    BY DEF SweepInit
  <2> QED
    BY <2>1, <2>2, <2>3
<1>4. override.ttls # <<>> => 1 \in DOMAIN override.ttls
  BY <1>3
<1>5. bundles \in BundleLists /\ DOMAIN bundles = DOMAIN generated
  BY <1>2, <1>3, <1>4, RegeneratedIsList DEF SweepInit
<1>6. order \in Seq(Policy) /\ order # <<>> /\ results = <<>>
  BY SweepAssumption DEF SweepInit
<1>7. MaxQueueBytes \in Nat /\ config.policy \in Policy
  <2>1. PICK cap \in Capacities : config = Configured(order[1], cap)
    BY DEF SweepInit
  <2>2. cap \in Nat /\ order[1] \in Policy
    BY <1>6, SchedulerAssumption
  <2> QED
    BY <2>1, <2>2 DEF Configured, MaxQueueBytes
<1>8. Starting
  BY <1>1, <1>5, <1>7 DEF Starting, SweepInit, Fresh, NoTurn
<1> QED
  BY <1>2, <1>3, <1>5, <1>6, <1>7, <1>8 DEF SweepShape

LEMMA RecordKept ==
  ASSUME RunShape, SweepShape, pc = "done", Record
  PROVE  results' \in Seq(RunRecord)
<1> DEFINE r == [point |-> PointOf(Len(results) + 1), policy |-> config.policy,
                 fate |-> state, sent |-> contact]
<1>1. results' = Append(results, r) /\ results \in Seq(RunRecord)
  BY DEF Record, SweepShape
<1>2. state \in [DOMAIN generated -> Terminal]
  BY DEF RunShape, QueueShape, HomeShape, SweepShape, Bundles
<1>3. contact \in [DOMAIN generated -> Int]
  <2>1. plan \in Seq(Window)
    BY DEF RunShape, WindowShape, Plan
  <2>2. DOMAIN plan \cup {NoWindow} \subseteq Int
    BY <2>1 DEF NoWindow
  <2> QED
    BY <2>2 DEF RunShape, FateShape, SweepShape, Bundles
<1>4. PointOf(Len(results) + 1) \in Int
  <2>1. Len(results) \in Nat /\ Len(order) \in Nat \ {0}
    BY DEF SweepShape
  <2>2. PICK n \in Nat : n = Len(results) + 1
    BY <2>1
  <2>3. (n - 1) \div Len(order) \in Int
    BY <2>1
  <2>4. PICK d \in Int : d = (n - 1) \div Len(order)
    BY <2>3
  <2>5. PointOf(n) = d + 1
    BY <2>4, Zenon DEF PointOf
  <2> QED
    BY <2>2, <2>5
<1>5. r \in RunRecord
  BY <1>2, <1>3, <1>4 DEF RunRecord, SweepShape
<1> HIDE DEF r
<1> QED
  BY <1>1, <1>5

LEMMA RestartStarts ==
  ASSUME RunShape, SweepShape, NextRun
  PROVE  Starting' /\ SweepShape'
<1> DEFINE k == Len(results) + 2
<1>1. /\ pc = "done" /\ k <= Total /\ Record
      /\ bundles' = Regenerated(generated, override, PointOf(k))
      /\ config' = Configured(PolicyOf(k), config.capacity)
      /\ arrivals' = DOMAIN bundles /\ state' = [b \in DOMAIN bundles |-> "pending"]
      /\ contact' = [b \in DOMAIN bundles |-> NoWindow]
      /\ pc' = "admit" /\ cur' = FirstWindow(plan) /\ last' = NoWindow
      /\ plan' = plan /\ rounds' = rounds /\ turn' = turn /\ generated' = generated
      /\ override' = override /\ order' = order
      /\ active' = {} /\ activeBytes' = 0
      /\ deficit' = [c \in WfqClass |-> 0] /\ rotation' = 0
  BY DEF NextRun, Restart, NewScheduler, NewRecords
<1>2. k \in Nat \ {0}
  BY DEF SweepShape
<1> HIDE DEF k
<1>3. /\ override.ttls # <<>> => PointOf(k) \in DOMAIN override.ttls
      /\ PolicyOf(k) \in Policy
  BY <1>1, <1>2, RunsAreNumbered
<1>4. bundles' \in BundleLists /\ DOMAIN bundles' = DOMAIN generated
  BY <1>1, <1>3, RegeneratedIsList DEF SweepShape
<1>5. MaxQueueBytes' \in Nat /\ config'.policy \in Policy
  BY <1>1, <1>3 DEF Configured, MaxQueueBytes, RunShape, CapShape
<1>6. DOMAIN bundles' = DOMAIN bundles
  BY <1>4 DEF SweepShape
<1>7. Starting'
  BY <1>1, <1>4, <1>5, <1>6
     DEF Starting, RunShape, WindowShape, TurnShape, DeficitShape
<1>8. SweepShape'
  BY <1>1, <1>4, <1>5, RecordKept DEF SweepShape, RunRecord
<1> QED
  BY <1>7, <1>8

LEMMA SweepStepKeeps ==
  RunShape /\ SweepShape /\ [SweepNext]_sweepVars => RunShape' /\ SweepShape'
<1> SUFFICES ASSUME RunShape, SweepShape, [SweepNext]_sweepVars
             PROVE  RunShape' /\ SweepShape'
  OBVIOUS
<1>1. CASE InRun
  <2>1. [Next]_vars /\ UNCHANGED sweep
    BY <1>1 DEF InRun, Next
  <2>2. config' = config /\ bundles' = bundles
    BY <2>1, ConfigKept
  <2> QED
    BY <2>1, <2>2, RunStep DEF SweepShape, RunRecord, sweep
<1>2. CASE NextRun
  <2>1. Starting' /\ SweepShape'
    BY <1>2, RestartStarts
  <2>2. Starting' => RunShape'
    BY RunStarts, PTL
  <2> QED
    BY <2>1, <2>2
<1>3. CASE LastRun
  <2>1. UNCHANGED vars /\ UNCHANGED <<generated, override, order>> /\ pc = "done" /\ Record
    BY <1>3 DEF LastRun
  <2>2. config' = config /\ bundles' = bundles
    BY <2>1, ConfigKept
  <2> QED
    BY <2>1, <2>2, RunStep, RecordKept DEF SweepShape, RunRecord
<1>4. CASE UNCHANGED sweepVars
  <2>1. UNCHANGED vars /\ UNCHANGED sweep
    BY <1>4 DEF sweepVars
  <2>2. config' = config /\ bundles' = bundles
    BY <2>1, ConfigKept
  <2> QED
    BY <2>1, <2>2, RunStep DEF SweepShape, RunRecord, sweep
<1> QED
  BY <1>1, <1>2, <1>3, <1>4 DEF SweepNext, SweepStep, Swept

LEMMA SweepShapeInvariant == SweepSpec => [](RunShape /\ SweepShape)
<1>1. SweepInit => RunShape /\ SweepShape
  BY SweepStarts, RunStarts
<1> QED
  BY <1>1, SweepStepKeeps, PTL DEF SweepSpec

-----------------------------------------------------------------------------
(* For every plan, rate, workload, lifetime override, order of policies    *)
(* and cap: in every run of a sweep the byte counter is what the waiting   *)
(* bundles take up and stays within the cap (sweep_harness.py:43-68).      *)
THEOREM SweepQueueExact == SweepSpec => []QueueExact
<1>1. RunShape => QueueExact
  BY DEF RunShape
<1> QED
  BY <1>1, SweepShapeInvariant, PTL

(* For the same: in every run of a sweep round robin stops only when no    *)
(* head fits, while the bound on its rounds is out of reach                *)
(* (scheduler.py:575-651).                                                 *)
THEOREM SweepHeadsServed == SweepSpec => [](RoundsSuffice => HeadsServed)
<1>1. RunShape => (RoundsSuffice => HeadsServed)
  BY HeadsFollow DEF RunShape
<1> QED
  BY <1>1, SweepShapeInvariant, PTL

-----------------------------------------------------------------------------
(* The four columns of a table.                                            *)
LEMMA SumOfFour ==
  ASSUME NEW v, \A st \in Terminal : v[st] \in Int
  PROVE  SumOf(v, Terminal) =
           v["delivered"] + v["ttl_expired"] + v["queue_overflow"] + v["never_scheduled"]
<1> DEFINE three == Terminal \ {"delivered"}
           two == three \ {"ttl_expired"}
           one == two \ {"queue_overflow"}
<1>1. /\ three = {"ttl_expired", "queue_overflow", "never_scheduled"}
      /\ two = {"queue_overflow", "never_scheduled"} /\ one = {"never_scheduled"}
      /\ one \ {"never_scheduled"} = {}
  BY DEF Terminal
<1>2. IsFiniteSet(Terminal) /\ IsFiniteSet(three) /\ IsFiniteSet(two) /\ IsFiniteSet(one)
  <2>1. IsFiniteSet({"never_scheduled"})
    BY FS_Singleton
  <2>2. IsFiniteSet({"never_scheduled"} \cup {"queue_overflow"})
    BY <2>1, FS_AddElement
  <2>3. IsFiniteSet({"never_scheduled"} \cup {"queue_overflow"} \cup {"ttl_expired"})
    BY <2>2, FS_AddElement
  <2>4. IsFiniteSet({"never_scheduled"} \cup {"queue_overflow"} \cup {"ttl_expired"}
                      \cup {"delivered"})
    BY <2>3, FS_AddElement
  <2>5. Terminal = {"never_scheduled"} \cup {"queue_overflow"} \cup {"ttl_expired"}
                     \cup {"delivered"}
    BY DEF Terminal
  <2>6. IsFiniteSet(Terminal)
    BY <2>4, <2>5
  <2> QED
    BY <2>6, FS_Subset
<1>3. /\ "delivered" \in Terminal /\ "ttl_expired" \in three /\ "queue_overflow" \in two
      /\ "never_scheduled" \in one
      /\ three \subseteq Terminal /\ two \subseteq Terminal /\ one \subseteq Terminal
  BY <1>1 DEF Terminal
<1> HIDE DEF three, two, one
<1>4. SumOf(v, Terminal) = v["delivered"] + SumOf(v, three)
  BY <1>2, <1>3, SumRemove DEF three
<1>5. SumOf(v, three) = v["ttl_expired"] + SumOf(v, two) /\ SumOf(v, three) \in Int
  BY <1>2, <1>3, SumRemove DEF two
<1>6. SumOf(v, two) = v["queue_overflow"] + SumOf(v, one) /\ SumOf(v, two) \in Int
  BY <1>2, <1>3, SumRemove DEF one
<1>7. SumOf(v, one) = v["never_scheduled"] + SumOf(v, {}) /\ SumOf(v, one) \in Int
  BY <1>1, <1>2, <1>3, SumRemove
<1>8. SumOf(v, {}) = 0
  BY SumEmpty
<1>9. v["delivered"] \in Int /\ v["ttl_expired"] \in Int /\ v["queue_overflow"] \in Int
      /\ v["never_scheduled"] \in Int
  BY DEF Terminal
<1> QED
  BY <1>4, <1>5, <1>6, <1>7, <1>8, <1>9

LEMMA CountsAddUp ==
  ASSUME SweepShape, NEW r, r.fate \in [DOMAIN generated -> Terminal], NEW c
  PROVE  SumOf(Counts(r, c), Terminal) = Cardinality(OfClass(c))
<1> DEFINE of(st) == {b \in OfClass(c) : r.fate[b] = st}
           lost == of("ttl_expired") \cup of("queue_overflow") \cup of("never_scheduled")
<1>1. IsFiniteSet(OfClass(c))
  <2>1. generated \in Seq(BundleIn)
    BY DEF SweepShape, BundleLists
  <2>2. DOMAIN generated = 1..Len(generated) /\ Len(generated) \in Int
    BY <2>1
  <2>3. OfClass(c) \subseteq 1..Len(generated)
    BY <2>2 DEF OfClass
  <2> QED
    BY <2>2, <2>3, FS_Interval, FS_Subset
<1>2. \A st : IsFiniteSet(of(st)) /\ Cardinality(of(st)) \in Nat
  <2> TAKE st
  <2>1. of(st) \subseteq OfClass(c)
    OBVIOUS
  <2> QED
    BY <1>1, <2>1, FS_Subset, FS_CardinalityType
<1>3. \A st, su : st # su => of(st) \cap of(su) = {}
  OBVIOUS
<1>4. OfClass(c) = of("delivered") \cup of("ttl_expired") \cup of("queue_overflow")
                     \cup of("never_scheduled")
  BY DEF OfClass, Terminal
<1>5. \A st \in Terminal : Counts(r, c)[st] = Cardinality(of(st))
  BY DEF Counts, Count
<1> HIDE DEF of
<1>6. ASSUME NEW S, IsFiniteSet(S), NEW T, IsFiniteSet(T), S \cap T = {}
      PROVE  /\ IsFiniteSet(S \cup T)
             /\ Cardinality(S \cup T) = Cardinality(S) + Cardinality(T)
  <2>1. /\ IsFiniteSet(S \cup T)
        /\ Cardinality(S \cup T) = Cardinality(S) + Cardinality(T) - Cardinality(S \cap T)
    BY <1>6, FS_Union
  <2>2. Cardinality(S) \in Nat /\ Cardinality(T) \in Nat
    BY <1>6, FS_CardinalityType
  <2>3. Cardinality(S \cap T) = 0
    BY <1>6, FS_EmptySet, Zenon
  <2> QED
    BY <2>1, <2>2, <2>3
<1>7. /\ of("delivered") \cap of("ttl_expired") = {}
      /\ (of("delivered") \cup of("ttl_expired")) \cap of("queue_overflow") = {}
      /\ (of("delivered") \cup of("ttl_expired") \cup of("queue_overflow"))
           \cap of("never_scheduled") = {}
  BY <1>3
<1>8. /\ IsFiniteSet(of("delivered") \cup of("ttl_expired"))
      /\ Cardinality(of("delivered") \cup of("ttl_expired"))
           = Cardinality(of("delivered")) + Cardinality(of("ttl_expired"))
  BY <1>2, <1>6, <1>7
<1>9. /\ IsFiniteSet(of("delivered") \cup of("ttl_expired") \cup of("queue_overflow"))
      /\ Cardinality(of("delivered") \cup of("ttl_expired") \cup of("queue_overflow"))
           = Cardinality(of("delivered")) + Cardinality(of("ttl_expired"))
               + Cardinality(of("queue_overflow"))
  BY <1>2, <1>6, <1>7, <1>8
<1>10. Cardinality(OfClass(c))
         = Cardinality(of("delivered")) + Cardinality(of("ttl_expired"))
             + Cardinality(of("queue_overflow")) + Cardinality(of("never_scheduled"))
  BY <1>2, <1>4, <1>6, <1>7, <1>9
<1>11. SumOf(Counts(r, c), Terminal)
         = Counts(r, c)["delivered"] + Counts(r, c)["ttl_expired"]
             + Counts(r, c)["queue_overflow"] + Counts(r, c)["never_scheduled"]
  BY <1>2, <1>5, SumOfFour
<1> QED
  BY <1>5, <1>10, <1>11 DEF Terminal

(* For the same: every table of a sweep accounts for every generated       *)
(* bundle of every class once, in a terminal state: no run sees the        *)
(* records or the queue of the run before it (sweep_harness.py:50-61,      *)
(* 122-131).                                                               *)
THEOREM TablesCompleteInvariant == SweepSpec => []TablesComplete
<1>1. SweepShape => TablesComplete
  <2> SUFFICES ASSUME SweepShape, NEW k \in Runs, NEW c \in Class
               PROVE  MapThenSumSet(LAMBDA st : Counts(results[k], c)[st], Terminal)
                        = Cardinality(OfClass(c))
    BY DEF TablesComplete
  <2>1. results[k] \in RunRecord
    BY DEF SweepShape, Runs
  <2>2. results[k].fate \in [DOMAIN generated -> Terminal]
    BY <2>1 DEF RunRecord
  <2>3. SumOf(Counts(results[k], c), Terminal) = Cardinality(OfClass(c))
    BY <2>2, CountsAddUp
  <2> QED
    BY <2>3, Zenon DEF SumOf
<1> QED
  BY <1>1, SweepShapeInvariant, PTL

-----------------------------------------------------------------------------
(* The safety half of SweepEnds: the tables come lifetime by lifetime and  *)
(* policy by policy, and when the sweep is over there is one for each.     *)
TablesInPlace ==
  /\ Len(results) <= Total
  /\ \A k \in Runs : results[k].point = PointOf(k) /\ results[k].policy = PolicyOf(k)
  /\ Len(results) = Total =>
       \A i \in 1..Points, m \in DOMAIN order :
         \E k \in Runs : results[k].point = i /\ results[k].policy = order[m]

OrderKept ==
  /\ Len(results) <= Total
  /\ \A k \in Runs : results[k].point = PointOf(k) /\ results[k].policy = PolicyOf(k)
  /\ Len(results) < Total => config.policy = PolicyOf(Len(results) + 1)

LEMMA NumberOf ==
  ASSUME SweepShape, NEW i \in 1..Points, NEW m \in DOMAIN order
  PROVE  \E k \in 1..Total : PointOf(k) = i /\ PolicyOf(k) = order[m]
<1>1. PICK n \in Nat \ {0} : n = Len(order) /\ DOMAIN order = 1..n
  BY DEF SweepShape
<1>2. PICK p \in Nat \ {0} : p = Points
  BY DEF SweepShape, Points
<1>3. PICK d \in Nat, e \in Nat : d = i - 1 /\ e = m - 1
  <2>1. i - 1 \in Nat /\ m - 1 \in Nat
    BY <1>1, <1>2
  <2> QED
    BY <2>1
<1>4. d < p /\ e < n /\ i = d + 1 /\ m = 1 + e
  BY <1>1, <1>2, <1>3
<1>5. PICK x \in Nat : x = n * d
  BY <1>1
<1>6. x + n <= p * n /\ p * n \in Nat
  <2>1. PICK f \in Nat : p = d + 1 + f
    <3>1. p - (d + 1) \in Nat /\ p = d + 1 + (p - (d + 1))
      BY <1>2, <1>4
    <3> QED
      BY <3>1
  <2>2. p * n = x + n + f * n /\ f * n \in Nat
    BY <1>1, <1>5, <2>1
  <2> QED
    BY <1>1, <1>5, <2>2
<1>7. PICK k \in Nat : k = x + e + 1
  OBVIOUS
<1>8. k \in 1..(p * n) /\ k - 1 = x + e
  BY <1>1, <1>4, <1>5, <1>6, <1>7
<1>9. Total = p * n
  BY <1>1, <1>2 DEF Total
<1>10. PICK z \in Nat : z = k - 1 /\ z = n * d + e
  BY <1>5, <1>8
<1>11. z \div n = d /\ z % n = e
  BY <1>1, <1>4, <1>10
<1>12. PointOf(k) = d + 1
  BY <1>1, <1>10, <1>11, Zenon DEF PointOf
<1>13. PolicyOf(k) = order[1 + e]
  BY <1>1, <1>10, <1>11, Zenon DEF PolicyOf
<1> QED
  BY <1>4, <1>8, <1>9, <1>12, <1>13

LEMMA OrderRecorded ==
  ASSUME SweepShape, OrderKept, Len(results) < Total, Record,
         override' = override, order' = order
  PROVE  /\ Len(results') = Len(results) + 1 /\ Total' = Total
         /\ \A k \in Runs' : (results[k].point = PointOf(k) /\ results[k].policy = PolicyOf(k))'
<1> DEFINE n == Len(results)
           r == [point |-> PointOf(n + 1), policy |-> config.policy,
                 fate |-> state, sent |-> contact]
<1>1. results' = Append(results, r) /\ results \in Seq(RunRecord) /\ n \in Nat
  BY DEF Record, SweepShape
<1>2. r.point = PointOf(n + 1) /\ r.policy = PolicyOf(n + 1)
  BY DEF OrderKept
<1> HIDE DEF r
<1>3. /\ DOMAIN results' = DOMAIN results \cup {n + 1} /\ results'[n + 1] = r /\ Len(results') = n + 1
      /\ \A k \in DOMAIN results : results'[k] = results[k]
  BY <1>1
<1>4. ASSUME NEW k PROVE PointOf(k)' = PointOf(k) /\ PolicyOf(k)' = PolicyOf(k)
  BY DEF PointOf, PolicyOf
<1>5. ASSUME NEW k \in DOMAIN results'
      PROVE  results'[k].point = PointOf(k)' /\ results'[k].policy = PolicyOf(k)'
  <2>1. CASE k \in DOMAIN results
    BY <1>3, <1>4, <2>1 DEF OrderKept, Runs
  <2>2. CASE k = n + 1
    BY <1>2, <1>3, <1>4, <2>2
  <2> QED
    BY <1>3, <2>1, <2>2
<1>6. Total' = Total
  BY DEF Total, Points
<1> QED
  BY <1>3, <1>5, <1>6 DEF Runs

LEMMA OrderStep ==
  RunShape /\ SweepShape /\ OrderKept /\ [SweepNext]_sweepVars => OrderKept'
<1> SUFFICES ASSUME RunShape, SweepShape, OrderKept, [SweepNext]_sweepVars PROVE OrderKept'
  OBVIOUS
<1>0. Len(results) \in Nat /\ Total \in Nat
  BY FirstRunNumbered DEF SweepShape
<1>1. CASE InRun \/ UNCHANGED sweepVars
  <2>1. [Next]_vars /\ sweep' = sweep
    BY <1>1 DEF InRun, Next, sweepVars
  <2>2. config' = config
    BY <2>1, ConfigKept
  <2> QED
    BY <2>1, <2>2 DEF OrderKept, sweep, Runs, Total, Points, PointOf, PolicyOf
<1>2. CASE NextRun
  <2>1. /\ Len(results) + 2 <= Total /\ Record /\ override' = override /\ order' = order
        /\ config' = Configured(PolicyOf(Len(results) + 2), config.capacity)
    BY <1>2 DEF NextRun, Restart
  <2>2. Len(results) < Total
    BY <1>0, <2>1
  <2>3. /\ Len(results') = Len(results) + 1 /\ Total' = Total
        /\ \A k \in Runs' : (results[k].point = PointOf(k) /\ results[k].policy = PolicyOf(k))'
    BY <2>1, <2>2, OrderRecorded
  <2>4. Len(results') + 1 = Len(results) + 2 /\ Len(results') <= Total'
    BY <1>0, <2>1, <2>3
  <2>5. config'.policy = PolicyOf(Len(results) + 1)'
    <3>1. config'.policy = PolicyOf(Len(results) + 2)
      BY <2>1 DEF Configured
    <3>2. PolicyOf(Len(results) + 1)' = PolicyOf(Len(results) + 2)
      BY <2>1, <2>4 DEF PolicyOf
    <3> QED
      BY <3>1, <3>2
  <2> QED
    BY <2>3, <2>4, <2>5 DEF OrderKept
<1>3. CASE LastRun
  <2>1. /\ Len(results) + 1 = Total /\ Record /\ override' = override /\ order' = order
    BY <1>3 DEF LastRun
  <2>2. Len(results) < Total
    BY <1>0, <2>1
  <2>3. /\ Len(results') = Len(results) + 1 /\ Total' = Total
        /\ \A k \in Runs' : (results[k].point = PointOf(k) /\ results[k].policy = PolicyOf(k))'
    BY <2>1, <2>2, OrderRecorded
  <2>4. Len(results') <= Total' /\ ~(Len(results') < Total')
    BY <1>0, <2>1, <2>3
  <2> QED
    BY <2>3, <2>4 DEF OrderKept
<1> QED
  BY <1>1, <1>2, <1>3 DEF SweepNext, SweepStep, Swept

LEMMA OrderKeptInvariant == SweepSpec => []OrderKept
<1>1. SweepInit => OrderKept
  <2> SUFFICES ASSUME SweepInit PROVE OrderKept
    OBVIOUS
  <2>1. SweepShape /\ results = <<>> /\ config.policy = order[1]
    <3>1. PICK cap \in Capacities : config = Configured(order[1], cap)
      BY DEF SweepInit
    <3>2. config.policy = order[1]
      BY <3>1 DEF Configured
    <3> QED
      BY <3>2, SweepStarts DEF SweepInit
  <2>2. Total \in Nat /\ Total >= 1
    BY <2>1, FirstRunNumbered
  <2>3. PICK n \in Nat \ {0} : n = Len(order)
    BY <2>1 DEF SweepShape
  <2>4. PICK z \in Nat : z = 1 - 1 /\ z = 0 /\ z % n = z
    BY <2>3
  <2>5. PolicyOf(1) = order[1 + z]
    BY <2>3, <2>4, Zenon DEF PolicyOf
  <2>6. Len(results) = 0 /\ Len(results) + 1 = 1 /\ Runs = {}
    BY <2>1 DEF Runs
  <2> QED
    BY <2>1, <2>2, <2>4, <2>5, <2>6 DEF OrderKept
<1> QED
  BY <1>1, OrderStep, SweepShapeInvariant, PTL DEF SweepSpec

(* For every plan, rate, workload, lifetime override, order of policies    *)
(* and cap: the k-th table is for the k-th policy and lifetime, and when   *)
(* the sweep is over there is a table for every policy over every lifetime *)
(* (sweep_harness.py:49-68, 92-98).                                        *)
THEOREM TablesInPlaceInvariant == SweepSpec => []TablesInPlace
<1>1. SweepShape /\ OrderKept => TablesInPlace
  <2> SUFFICES ASSUME SweepShape, OrderKept PROVE TablesInPlace
    OBVIOUS
  <2>1. ASSUME Len(results) = Total, NEW i \in 1..Points, NEW m \in DOMAIN order
        PROVE  \E k \in Runs : results[k].point = i /\ results[k].policy = order[m]
    <3>1. PICK k \in 1..Total : PointOf(k) = i /\ PolicyOf(k) = order[m]
      BY NumberOf
    <3>2. k \in Runs
      BY <2>1, <3>1 DEF SweepShape, Runs
    <3> QED
      BY <3>1, <3>2 DEF OrderKept
  <2> QED
    BY <2>1 DEF OrderKept, TablesInPlace
<1> QED
  BY <1>1, OrderKeptInvariant, SweepShapeInvariant, PTL

-----------------------------------------------------------------------------
(* A sweep ends: with each run there is one fewer to make.                 *)
RunsLeft == Total - Len(results)
SweepCountsDown ==
  [][SweepStep =>
       \/ RunsLeft' < RunsLeft
       \/ RunsLeft' = RunsLeft /\ Lower(Measure', Measure)]_sweepVars

LEMMA SweepRounds ==
  RunShape /\ SweepShape /\ RoundsShape /\ [SweepNext]_sweepVars => RoundsShape'
<1> SUFFICES ASSUME RunShape, SweepShape, RoundsShape, [SweepNext]_sweepVars PROVE RoundsShape'
  OBVIOUS
<1>1. CASE InRun \/ LastRun \/ UNCHANGED sweepVars
  <2>1. [Next]_vars
    BY <1>1 DEF InRun, LastRun, Next, sweepVars
  <2> QED
    BY <2>1, RoundsStep DEF RunShape
<1>2. CASE NextRun
  <2>1. pc' = "admit"
    BY <1>2 DEF NextRun, Restart
  <2> QED
    BY <2>1 DEF RoundsShape
<1> QED
  BY <1>1, <1>2 DEF SweepNext, SweepStep, Swept

(* For every plan, rate, workload, lifetime override, order of policies    *)
(* and cap: each step of a sweep leaves less of its run, or is the end of  *)
(* one, of which there is a fixed number; so every sweep ends              *)
(* (sweep_harness.py:49-68, 92-98).                                        *)
THEOREM SweepCountsDownAlways ==
  SweepSpec => /\ [](RunsLeft \in Nat /\ Measure \in Nat \X Nat \X Nat \X Nat \X Nat)
               /\ SweepCountsDown
<1>1. SweepInit => RoundsShape
  BY SweepStarts DEF Starting, RoundsShape
<1>2. SweepSpec => [](RunMeasured /\ SweepShape /\ OrderKept)
  BY <1>1, SweepRounds, SweepShapeInvariant, OrderKeptInvariant, PTL DEF SweepSpec, RunMeasured
<1>3. RunMeasured /\ SweepShape /\ OrderKept =>
        RunsLeft \in Nat /\ Measure \in Nat \X Nat \X Nat \X Nat \X Nat
  <2> SUFFICES ASSUME RunMeasured, SweepShape, OrderKept
               PROVE  RunsLeft \in Nat /\ Measure \in Nat \X Nat \X Nat \X Nat \X Nat
    OBVIOUS
  <2>1. Len(results) \in Nat /\ Total \in Nat /\ Len(results) <= Total
    BY FirstRunNumbered DEF SweepShape, OrderKept
  <2>2. Measure \in Nat \X Nat \X Nat \X Nat \X Nat
    BY MeasureIsNat DEF RunMeasured, RunShape, Measure
  <2> QED
    BY <2>1, <2>2 DEF RunsLeft
<1>4. RunMeasured /\ SweepShape /\ OrderKept /\ [SweepNext]_sweepVars =>
        [SweepStep => \/ RunsLeft' < RunsLeft
                      \/ RunsLeft' = RunsLeft /\ Lower(Measure', Measure)]_sweepVars
  <2> SUFFICES ASSUME RunMeasured, SweepShape, OrderKept, SweepStep
               PROVE  \/ RunsLeft' < RunsLeft
                      \/ RunsLeft' = RunsLeft /\ Lower(Measure', Measure)
    OBVIOUS
  <2>1. CASE InRun
    <3>1. Run /\ [Next]_vars /\ sweep' = sweep
      BY <2>1 DEF InRun, Next
    <3>2. RunsLeft' = RunsLeft
      BY <3>1 DEF sweep, RunsLeft, Total, Points
    <3> QED
      BY <3>1, <3>2, MeasureFalls
  <2>2. CASE NextRun \/ LastRun
    <3>1. /\ Len(results) + 1 <= Total /\ Record /\ override' = override /\ order' = order
      <4>1. Len(results) \in Nat /\ Total \in Nat
        BY FirstRunNumbered DEF SweepShape
      <4> QED
        BY <2>2, <4>1 DEF NextRun, Restart, LastRun
    <3>2. Len(results) \in Nat /\ Total \in Nat /\ Len(results) < Total
      BY <3>1, FirstRunNumbered DEF SweepShape
    <3>3. Len(results') = Len(results) + 1 /\ Total' = Total
      BY <3>1, <3>2, OrderRecorded
    <3> QED
      BY <3>2, <3>3 DEF RunsLeft
  <2> QED
    BY <2>1, <2>2 DEF SweepStep
<1> QED
  BY <1>2, <1>3, <1>4, PTL DEF SweepSpec, SweepCountsDown

-----------------------------------------------------------------------------
(* May b go in window w, whatever else does?                               *)
Open(l, b, w) == l[b].ingress < plan[w].end /\ Dies(l, b) > plan[w].start

(* What every run does to emergencies, under any policy; and what is left  *)
(* of a run r over a list l once it is recorded.                           *)
Lawful(l, f, s) ==
  /\ \A b \in Urgent(l) :
       /\ f[b] \in Terminal /\ s[b] \in DOMAIN plan \cup {NoWindow}
       /\ f[b] = "delivered" <=> s[b] # NoWindow
       /\ s[b] # NoWindow => Open(l, b, s[b])
       /\ f[b] = "never_scheduled" => \A w \in DOMAIN plan : Dies(l, b) > plan[w].end
  /\ \A w \in DOMAIN plan : 8 * Weight(l, {b \in Urgent(l) : s[b] = w}) <= Budget(plan[w])
Accounted(l, r) ==
  /\ Lawful(l, r.fate, r.sent)
  /\ r.policy \in UrgentFirst => Settled(l, r.fate, r.sent)

LEMMA RunLawful ==
  ASSUME RunShape, pc = "done"
  PROVE  Lawful(bundles, state, contact)
<1>1. /\ QueueShape /\ WindowShape /\ FateShape /\ WithinBudget
      /\ bundles \in BundleLists /\ state \in [Bundles -> Terminal]
  BY DEF RunShape, BudgetShape, HomeShape, QueueShape
<1>2. ASSUME NEW b \in Urgent(bundles)
      PROVE  /\ state[b] \in Terminal /\ contact[b] \in DOMAIN plan \cup {NoWindow}
             /\ state[b] = "delivered" <=> contact[b] # NoWindow
             /\ contact[b] # NoWindow => Open(bundles, b, contact[b])
             /\ state[b] = "never_scheduled" =>
                  \A w \in DOMAIN plan : Dies(bundles, b) > plan[w].end
  <2>1. /\ b \in Bundles /\ bundles[b].ingress = Ingress(b) /\ Dies(bundles, b) = Expiration(b)
        /\ contact[b] \in DOMAIN plan \cup {NoWindow}
    BY <1>1, UrgentNumbers, ListTerms
  <2> QED
    BY <1>1, <2>1 DEF FateShape, FatesMatchDeadlines, Open
<1>3. ASSUME NEW w \in DOMAIN plan
      PROVE  8 * Weight(bundles, {b \in Urgent(bundles) : contact[b] = w}) <= Budget(plan[w])
  <2> DEFINE S == {b \in Urgent(bundles) : contact[b] = w}
  <2>1. S \subseteq SentIn(w) /\ S \subseteq Bundles /\ SentIn(w) \subseteq Bundles
    BY DEF SentIn, Urgent, Bundles
  <2> HIDE DEF S
  <2>2. Bytes(S) <= Bytes(SentIn(w)) /\ Bytes(S) \in Nat /\ Bytes(SentIn(w)) \in Nat
    BY <1>1, <2>1, BytesMonotone, BytesFinite
  <2>3. Weight(bundles, S) = Bytes(S)
    BY ListTerms
  <2>4. 8 * Bytes(SentIn(w)) <= Budget(plan[w]) /\ Budget(plan[w]) \in Nat
    BY <1>1, BudgetIsNat DEF WithinBudget, WindowShape
  <2>5. 8 * Weight(bundles, S) <= Budget(plan[w])
    BY <2>2, <2>3, <2>4
  <2> QED
    BY <2>5 DEF S
<1> QED
  BY <1>2, <1>3 DEF Lawful

LEMMA RunAccounted ==
  ASSUME RunShape, pc = "done", config = Configured(config.policy, config.capacity), NEW r,
         r.policy = config.policy, r.fate = state, r.sent = contact
  PROVE  Accounted(bundles, r)
<1>1. ASSUME config.policy \in UrgentFirst PROVE Settled(bundles, state, contact)
  <2>1. PriorityAware
    BY <1>1 DEF Configured, PriorityAware, UrgentFirst, Wfq
  <2>2. UrgentRun
    BY <1>1, <2>1 DEF UrgentRun, UrgentFirst
  <2> QED
    BY <2>2, RunSettles DEF RunShape, UrgentKnown
<1> QED
  BY <1>1, RunLawful DEF Accounted

LEMMA AccountedStays ==
  ASSUME plan' = plan, MaxQueueBytes' = MaxQueueBytes, NEW l, NEW r
  PROVE  Accounted(l, r)' <=> Accounted(l, r)
<1>1. ASSUME NEW f, NEW s PROVE Settled(l, f, s)' <=> Settled(l, f, s)
  <2>1. Places' = Places
    BY DEF Places
  <2>2. \A b, w : /\ ComesAt(l, b, w)' <=> ComesAt(l, b, w)
                  /\ MayGo(l, s, b, w)' <=> MayGo(l, s, b, w)
                  /\ NoRoom(l, f, s, b, w)' <=> NoRoom(l, f, s, b, w)
    BY DEF ComesAt, MayGo, NoRoom, Holding, Gone, SentBefore, Dies, Weight
  <2> QED
    BY <2>1, <2>2 DEF Settled
<1>2. ASSUME NEW f, NEW s PROVE Lawful(l, f, s)' <=> Lawful(l, f, s)
  BY DEF Lawful, Open, Dies, Weight
<1> QED
  BY <1>1, <1>2 DEF Accounted

(* The run under way is over the lifetimes and with the policy it is       *)
(* recorded under, and every run that is recorded is accounted for.        *)
RunOver(k) == Regenerated(generated, override, PointOf(k))
IsolationShape ==
  /\ Len(results) < Total =>
       bundles = RunOver(Len(results) + 1) /\ config = Configured(config.policy, config.capacity)
  /\ \A k \in Runs :
       /\ override.ttls # <<>> => results[k].point \in DOMAIN override.ttls
       /\ Accounted(Regenerated(generated, override, results[k].point), results[k])

LEMMA PointOfOne == ASSUME SweepShape PROVE PointOf(1) = 1
<1>1. PICK n \in Nat \ {0} : n = Len(order)
  BY DEF SweepShape
<1>2. PICK z \in Int : z = 1 - 1 /\ z = 0
  OBVIOUS
<1>3. z \div n = 0
  BY <1>1, <1>2
<1>4. PointOf(1) = (z \div n) + 1
  BY <1>1, <1>2, Zenon DEF PointOf
<1> QED
  BY <1>3, <1>4

LEMMA IsolationStarts == SweepInit => IsolationShape
<1> SUFFICES ASSUME SweepInit PROVE IsolationShape
  OBVIOUS
<1>1. SweepShape /\ results = <<>>
  BY SweepStarts DEF SweepInit
<1>2. PICK cap \in Capacities : config = Configured(order[1], cap)
  BY DEF SweepInit
<1>3. config = Configured(config.policy, config.capacity)
  BY <1>2 DEF Configured
<1>4. Len(results) + 1 = 1 /\ Runs = {}
  BY <1>1 DEF Runs
<1>5. bundles = RunOver(1)
  BY <1>1, PointOfOne DEF SweepInit, RunOver
<1> QED
  BY <1>3, <1>4, <1>5 DEF IsolationShape

(* A record is of the run just over.                                       *)
LEMMA RecordSettled ==
  ASSUME RunShape, SweepShape, IsolationShape, pc = "done", Len(results) < Total, Record,
         plan' = plan, MaxQueueBytes' = MaxQueueBytes,
         generated' = generated, override' = override
  PROVE  \A k \in DOMAIN results' :
           /\ override.ttls # <<>> => results'[k].point \in DOMAIN override.ttls
           /\ Accounted(Regenerated(generated, override, results[k].point), results[k])'
<1> DEFINE n == Len(results)
           r == [point |-> PointOf(n + 1), policy |-> config.policy,
                 fate |-> state, sent |-> contact]
<1>1. results' = Append(results, r) /\ results \in Seq(RunRecord) /\ n \in Nat
  BY DEF Record, SweepShape
<1>2. bundles = Regenerated(generated, override, PointOf(n + 1))
      /\ config = Configured(config.policy, config.capacity)
  BY DEF IsolationShape, RunOver
<1>3. override.ttls # <<>> => PointOf(n + 1) \in DOMAIN override.ttls
  BY <1>1, RunsAreNumbered, FirstRunNumbered
<1>4. Accounted(bundles, r)
  BY <1>2, RunAccounted
<1> HIDE DEF n, r
<1>6. DOMAIN results' = DOMAIN results \cup {n + 1} /\ results'[n + 1] = r
      /\ \A k \in DOMAIN results : results'[k] = results[k]
  BY <1>1 DEF n
<1> SUFFICES ASSUME NEW k \in DOMAIN results'
             PROVE  /\ override.ttls # <<>> => results'[k].point \in DOMAIN override.ttls
                    /\ Accounted(Regenerated(generated, override, results[k].point), results[k])'
  OBVIOUS
<1>8. PICK q : q = results'[k]
  OBVIOUS
<1>9. /\ override.ttls # <<>> => q.point \in DOMAIN override.ttls
      /\ Accounted(Regenerated(generated, override, q.point), q)
  <2>1. CASE k \in DOMAIN results
    BY <1>6, <1>8, <2>1 DEF IsolationShape, Runs
  <2>2. CASE k = n + 1
    BY <1>2, <1>3, <1>4, <1>6, <1>8, <2>2 DEF r
  <2> QED
    BY <1>6, <2>1, <2>2
<1>10. PICK l : l = Regenerated(generated, override, q.point)
  OBVIOUS
<1>11. Accounted(l, q)' <=> Accounted(l, q)
  BY AccountedStays
<1>12. Accounted(Regenerated(generated, override, results[k].point), results[k])'
         <=> Accounted(l, q)'
  BY <1>8, <1>10 DEF Regenerated
<1> QED
  BY <1>8, <1>9, <1>10, <1>11, <1>12

(* While nothing is recorded, the plan, the cap and the lists stay.        *)
LEMMA IsolationStays ==
  ASSUME IsolationShape, plan' = plan, config' = config, bundles' = bundles, sweep' = sweep
  PROVE  IsolationShape'
<1>1. generated' = generated /\ override' = override /\ order' = order /\ results' = results
  BY DEF sweep
<1>2. Total' = Total /\ Runs' = Runs /\ \A k : PointOf(k)' = PointOf(k) /\ RunOver(k)' = RunOver(k)
  BY <1>1 DEF Total, Points, Runs, PointOf, RunOver, Regenerated
<1>3. MaxQueueBytes' = MaxQueueBytes
  BY DEF MaxQueueBytes
<1>4. Len(results') < Total' =>
        bundles' = RunOver(Len(results) + 1)'
        /\ config' = Configured(config'.policy, config'.capacity)
  BY <1>1, <1>2 DEF IsolationShape
<1>5. ASSUME NEW k \in Runs
      PROVE  /\ override.ttls # <<>> => results[k].point \in DOMAIN override.ttls
             /\ Accounted(Regenerated(generated, override, results[k].point), results[k])'
  <2>1. PICK q, l : q = results[k] /\ l = Regenerated(generated, override, q.point)
    OBVIOUS
  <2>2. /\ override.ttls # <<>> => q.point \in DOMAIN override.ttls
        /\ Accounted(l, q)
    BY <2>1 DEF IsolationShape
  <2>3. Accounted(l, q)' <=> Accounted(l, q)
    BY <1>3, AccountedStays
  <2>4. Accounted(Regenerated(generated, override, results[k].point), results[k])'
          <=> Accounted(l, q)'
    BY <1>1, <2>1 DEF Regenerated
  <2> QED
    BY <2>1, <2>2, <2>3, <2>4
<1> QED
  BY <1>1, <1>2, <1>4, <1>5 DEF IsolationShape

LEMMA IsolationStep ==
  RunShape /\ SweepShape /\ IsolationShape /\ [SweepNext]_sweepVars => IsolationShape'
<1> SUFFICES ASSUME RunShape, SweepShape, IsolationShape, [SweepNext]_sweepVars
             PROVE  IsolationShape'
  OBVIOUS
<1>1. CASE InRun \/ UNCHANGED sweepVars
  <2>1. [Next]_vars /\ sweep' = sweep
    BY <1>1 DEF InRun, Next, sweepVars
  <2> QED
    BY <2>1, ConfigKept, WalkKept, IsolationStays
<1>2. CASE NextRun
  <2> DEFINE n == Len(results)
  <2>1. /\ pc = "done" /\ n + 2 <= Total /\ Record
        /\ bundles' = Regenerated(generated, override, PointOf(n + 2))
        /\ config' = Configured(PolicyOf(n + 2), config.capacity)
        /\ plan' = plan /\ generated' = generated /\ override' = override /\ order' = order
    BY <1>2 DEF NextRun, Restart
  <2>2. n \in Nat /\ Total \in Nat /\ Len(results') = n + 1
    BY <2>1, FirstRunNumbered DEF Record, SweepShape
  <2>3. MaxQueueBytes' = MaxQueueBytes
    BY <2>1 DEF MaxQueueBytes, Configured
  <2>4. n < Total
    BY <2>1, <2>2
  <2>5. \A k \in DOMAIN results' :
          /\ override.ttls # <<>> => results'[k].point \in DOMAIN override.ttls
          /\ Accounted(Regenerated(generated, override, results[k].point), results[k])'
    BY <2>1, <2>3, <2>4, RecordSettled
  <2>6. config' = Configured(config'.policy, config'.capacity)
    BY <2>1 DEF Configured
  <2>7. Len(results') + 1 = n + 2
    BY <2>2
  <2> HIDE DEF n
  <2>8. bundles' = RunOver(Len(results) + 1)'
    <3>1. \A k : RunOver(k)' = Regenerated(generated, override, PointOf(k))
      BY <2>1 DEF RunOver, Regenerated, PointOf
    <3>2. PICK k : k = Len(results') + 1
      OBVIOUS
    <3>3. RunOver(Len(results) + 1)' = RunOver(k)'
      BY <3>2 DEF RunOver, PointOf, Regenerated
    <3> QED
      BY <2>1, <2>7, <3>1, <3>2, <3>3
  <2> QED
    BY <2>1, <2>5, <2>6, <2>8 DEF IsolationShape, Runs
<1>3. CASE LastRun
  <2>1. /\ pc = "done" /\ Len(results) + 1 = Total /\ Record /\ UNCHANGED vars
        /\ generated' = generated /\ override' = override /\ order' = order
    BY <1>3 DEF LastRun
  <2>2. Len(results) \in Nat /\ Total \in Nat /\ Len(results') = Len(results) + 1
    BY <2>1, FirstRunNumbered DEF Record, SweepShape
  <2>3. plan' = plan /\ MaxQueueBytes' = MaxQueueBytes
    BY <2>1 DEF vars, inputs, MaxQueueBytes
  <2>4. Total' = Total
    BY <2>1 DEF Total, Points
  <2>5. \A k \in DOMAIN results' :
          /\ override.ttls # <<>> => results'[k].point \in DOMAIN override.ttls
          /\ Accounted(Regenerated(generated, override, results[k].point), results[k])'
    BY <2>1, <2>2, <2>3, RecordSettled
  <2> QED
    BY <2>1, <2>2, <2>4, <2>5 DEF IsolationShape, Runs
<1> QED
  BY <1>1, <1>2, <1>3 DEF SweepNext, SweepStep, Swept

(* An override of another class leaves the emergencies as they were.       *)
LEMMA SameEmergencies ==
  ASSUME SweepShape, NEW i, NEW j,
         override.ttls # <<>> => i \in DOMAIN override.ttls /\ j \in DOMAIN override.ttls,
         i = j \/ override.cls # "emergency"
  PROVE  /\ Alike(Regenerated(generated, override, i), Regenerated(generated, override, j))
         /\ Urgent(Regenerated(generated, override, i)) = Emergencies
<1> DEFINE l == Regenerated(generated, override, i)
           m == Regenerated(generated, override, j)
<1>1. generated \in BundleLists /\ override \in [cls : Class, ttls : Seq(Nat)]
  BY DEF SweepShape
<1>2. /\ l \in BundleLists /\ m \in BundleLists
      /\ DOMAIN l = DOMAIN generated /\ DOMAIN m = DOMAIN generated
  BY <1>1, RegeneratedIsList
<1>3. \A b \in DOMAIN generated : l[b].cls = generated[b].cls /\ m[b].cls = generated[b].cls
  <2> TAKE b \in DOMAIN generated
  <2>1. generated[b] \in BundleIn
    BY <1>1 DEF BundleLists
  <2> QED
    BY <2>1 DEF Regenerated, BundleIn
<1>4. \A b \in DOMAIN generated : generated[b].cls = "emergency" => l[b] = m[b]
  BY DEF Regenerated
<1> HIDE DEF l, m
<1>5. Urgent(l) = Emergencies /\ Urgent(m) = Emergencies
  BY <1>2, <1>3 DEF Urgent, Emergencies, OfClass
<1>6. \A b \in Urgent(l) : l[b] = m[b]
  BY <1>4, <1>5 DEF Emergencies, OfClass
<1>7. Alike(l, m)
  BY <1>2, <1>5, <1>6 DEF Alike
<1> QED
  BY <1>5, <1>7 DEF l, m

(* For the same: emergencies are isolated from all other traffic wherever  *)
(* they are sent first.  Any two runs of a sweep under strict priority or  *)
(* a WFQ drain refuse, send and lose the same emergencies in the same      *)
(* windows, whatever lifetime another class is given (scheduler.py:        *)
(* 323-357, 458-461, 565-568; sweep_harness.py:94-96).                     *)
THEOREM EmergencyIsolatedInvariant == SweepSpec => []EmergencyIsolated
<1>1. RunShape /\ SweepShape /\ IsolationShape => EmergencyIsolated
  <2> SUFFICES ASSUME RunShape, SweepShape, IsolationShape, NEW j \in Runs, NEW k \in Runs,
                      SamePoint(j, k) \/ override.cls # "emergency",
                      {results[j].policy, results[k].policy} \subseteq UrgentFirst,
                      NEW b \in Emergencies
               PROVE  /\ results[j].fate[b] = results[k].fate[b]
                      /\ results[j].sent[b] = results[k].sent[b]
    BY DEF EmergencyIsolated
  <2> DEFINE l == Regenerated(generated, override, results[j].point)
             m == Regenerated(generated, override, results[k].point)
  <2>1. Settled(l, results[j].fate, results[j].sent) /\ Settled(m, results[k].fate, results[k].sent)
    BY DEF IsolationShape, Accounted
  <2>2. Alike(l, m) /\ Urgent(l) = Emergencies
    BY SameEmergencies DEF IsolationShape, SamePoint
  <2>3. plan \in Plan
    BY DEF RunShape, WindowShape
  <2> HIDE DEF l, m
  <2>4. Agrees(results[j].fate, results[j].sent, results[k].fate, results[k].sent, b)
    BY <2>1, <2>2, <2>3, EmergenciesAgree
  <2> QED
    BY <2>4 DEF Agrees
<1>2. SweepInit => IsolationShape
  BY IsolationStarts
<1>3. SweepSpec => []IsolationShape
  BY <1>2, IsolationStep, SweepShapeInvariant, PTL DEF SweepSpec
<1> QED
  BY <1>1, <1>3, SweepShapeInvariant, PTL

-----------------------------------------------------------------------------
(* Emergencies of one size and one lifetime are sent in their order, and   *)
(* no order of sending them is better.  Windows are compared one by one.   *)
SentAmong(E, s, T) == {b \in E : s[b] \in T}

LEMMA CountByWindow ==
  ASSUME NEW E, IsFiniteSet(E), NEW n \in Nat, NEW T \in SUBSET (1..n), NEW s, NEW t,
         \A w \in T : Cardinality(SentAmong(E, t, {w})) <= Cardinality(SentAmong(E, s, {w}))
  PROVE  Cardinality(SentAmong(E, t, T)) <= Cardinality(SentAmong(E, s, T))
<1> DEFINE upTo(f, k) == {b \in E : f[b] \in T /\ f[b] <= k}
           at(f, k) == {b \in E : f[b] = k}
           Bad == {k \in 0..n : ~(Cardinality(upTo(t, k)) <= Cardinality(upTo(s, k)))}
<1>1. \A f, k : /\ IsFiniteSet(upTo(f, k)) /\ Cardinality(upTo(f, k)) \in Nat
                /\ IsFiniteSet(at(f, k)) /\ Cardinality(at(f, k)) \in Nat
  <2> TAKE f, k
  <2>1. upTo(f, k) \subseteq E /\ at(f, k) \subseteq E
    OBVIOUS
  <2> HIDE DEF upTo, at
  <2> QED
    BY <2>1, FS_Subset, FS_CardinalityType
<1>2. ASSUME NEW f, NEW k \in 1..n
      PROVE  Cardinality(upTo(f, k))
               = Cardinality(upTo(f, k - 1)) + (IF k \in T THEN Cardinality(at(f, k)) ELSE 0)
  <2>0. \A w \in T : (w <= k <=> w <= k - 1 \/ w = k) /\ ~(k <= k - 1)
    OBVIOUS
  <2>1. CASE k \in T
    <3>1. upTo(f, k) = upTo(f, k - 1) \cup at(f, k) /\ upTo(f, k - 1) \cap at(f, k) = {}
      BY <2>0, <2>1
    <3> HIDE DEF upTo, at
    <3>2. Cardinality(upTo(f, k)) = Cardinality(upTo(f, k - 1)) + Cardinality(at(f, k))
                                      - Cardinality({})
      BY <1>1, <3>1, FS_Union
    <3> QED
      BY <1>1, <2>1, <3>2, FS_EmptySet
  <2>2. CASE k \notin T
    <3>1. upTo(f, k) = upTo(f, k - 1)
      BY <2>0, <2>2
    <3> HIDE DEF upTo, at
    <3> QED
      BY <1>1, <2>2, <3>1
  <2> QED
    BY <2>1, <2>2
<1>3. Bad = {}
  <2> SUFFICES ASSUME Bad # {} PROVE FALSE
    OBVIOUS
  <2>1. PICK k \in Bad : \A m \in Bad : k <= m
    <3>1. Bad \in SUBSET Nat
      OBVIOUS
    <3> HIDE DEF Bad
    <3> QED
      BY <3>1, LeastNatural
  <2>2. CASE k = 0
    <3>0. \A w \in T : ~(w <= 0)
      OBVIOUS
    <3>1. upTo(t, 0) = {} /\ upTo(s, 0) = {}
      BY <3>0
    <3> QED
      BY <2>1, <2>2, <3>1, FS_EmptySet
  <2>3. CASE k \in 1..n
    <3>1. k - 1 \in 0..n /\ ~(k <= k - 1)
      BY <2>3
    <3>2. k - 1 \notin Bad
      BY <2>1, <3>1
    <3>3. Cardinality(upTo(t, k - 1)) <= Cardinality(upTo(s, k - 1))
      BY <3>1, <3>2
    <3>4. k \in T => Cardinality(at(t, k)) <= Cardinality(at(s, k))
      <4>1. \A f : at(f, k) = SentAmong(E, f, {k})
        BY DEF SentAmong
      <4> HIDE DEF at
      <4> QED
        BY <4>1
    <3>5. ~(Cardinality(upTo(t, k)) <= Cardinality(upTo(s, k)))
      BY <2>1
    <3> HIDE DEF upTo, at, Bad
    <3> QED
      BY <1>1, <1>2, <2>3, <3>3, <3>4, <3>5
  <2> QED
    BY <2>1, <2>2, <2>3
<1>4. Cardinality(upTo(t, n)) <= Cardinality(upTo(s, n))
  BY <1>3
<1>5. \A f : upTo(f, n) = SentAmong(E, f, T)
  <2>1. \A w \in T : w <= n
    OBVIOUS
  <2> QED
    BY <2>1 DEF SentAmong
<1> HIDE DEF upTo
<1> QED
  BY <1>4, <1>5

(* Bundles of one size weigh that much each.                               *)
LEMMA EqualWeights ==
  ASSUME NEW l \in BundleLists, NEW S, S \subseteq DOMAIN l,
         NEW n \in 1..MaxSize, \A b \in S : l[b].size = n
  PROVE  /\ IsFiniteSet(S) /\ Cardinality(S) \in Nat
         /\ Weight(l, S) = Cardinality(S) * n
<1>1. l \in Seq(BundleIn) /\ MaxSize \in Nat
  BY SchedulerAssumption DEF BundleLists
<1>2. DOMAIN l = 1..Len(l) /\ Len(l) \in Int
  BY <1>1
<1>3. IsFiniteSet(S) /\ Cardinality(S) \in Nat
  <2>1. IsFiniteSet(1..Len(l)) /\ S \in SUBSET (1..Len(l))
    BY <1>2, FS_Interval
  <2> QED
    BY <2>1, FS_Subset, FS_CardinalityType
<1>5. {x \in S \X (1..MaxSize) : x[2] <= l[x[1]].size} = S \X (1..n)
  BY <1>1
<1>6. IsFiniteSet(1..n) /\ Cardinality(1..n) = n
  BY <1>1, FS_Interval
<1>7. Cardinality(S \X (1..n)) = Cardinality(S) * n
  BY <1>3, <1>6, FS_Product
<1> QED
  BY <1>3, <1>5, <1>7 DEF Weight

-----------------------------------------------------------------------------
Uniform(l) == \A a, b \in Urgent(l) : l[a].size = l[b].size /\ l[a].ttl = l[b].ttl

(* Strict priority refuses nothing, and loses the emergencies of L.  A     *)
(* window leaves someone behind if an emergency that may go in it does not *)
(* go by then; it is pressed if someone of L lives to see it, and all      *)
(* windows from it to that one's arrival leave someone behind.             *)
Contest(l, f, s, L) ==
  /\ plan \in Plan /\ l \in BundleLists /\ Uniform(l) /\ Settled(l, f, s)
  /\ \A b \in Urgent(l) : f[b] # "queue_overflow"
  /\ L \subseteq {b \in Urgent(l) : s[b] = NoWindow}

LeavesBehind(l, s, w) == \E b \in Urgent(l) : Open(l, b, w) /\ s[b] \notin 1..w
Pressed(l, s, L) ==
  {w \in DOMAIN plan : \E b \in L :
     /\ Dies(l, b) > plan[w].start
     /\ \A v \in DOMAIN plan :
          w <= v /\ plan[v].end <= l[b].ingress => LeavesBehind(l, s, v)}

LEMMA ContestParts ==
  ASSUME NEW l, NEW f, NEW s, NEW L, Contest(l, f, s, L)
  PROVE  /\ DOMAIN plan = 1..Len(plan) /\ Len(plan) \in Nat
         /\ \A w \in DOMAIN plan :
              /\ w \in Int /\ plan[w].start \in Int /\ plan[w].end \in Int
              /\ plan[w].start < plan[w].end /\ NoWindow # w /\ Budget(plan[w]) \in Nat
         /\ \A v, w \in DOMAIN plan : v < w => plan[v].end <= plan[w].start
         /\ \A b \in Urgent(l) :
              /\ b \in Int /\ l[b].ingress \in Int /\ l[b].ttl \in Nat
              /\ l[b].size \in 1..MaxSize /\ Dies(l, b) = l[b].ingress + l[b].ttl
              /\ s[b] \in DOMAIN plan \cup {NoWindow}
              /\ s[b] # NoWindow => MayGo(l, s, b, s[b])
              /\ \A w \in DOMAIN plan : s[b] \notin 1..w => ~MayGo(l, s, b, w)
<1>1. plan \in Plan /\ l \in Seq(BundleIn)
  BY DEF Contest, BundleLists
<1>2. /\ DOMAIN plan = 1..Len(plan) /\ Len(plan) \in Nat
      /\ \A w \in DOMAIN plan : /\ w \in Int /\ plan[w].start \in Int /\ plan[w].end \in Int
                                 /\ plan[w].start < plan[w].end /\ NoWindow # w
  BY <1>1, PlanParts DEF NoWindow
<1>3. \A w \in DOMAIN plan : Budget(plan[w]) \in Nat
  BY <1>1, BudgetIsNat
<1>4. \A v, w \in DOMAIN plan : v < w => plan[v].end <= plan[w].start
  BY <1>1, <1>2, PlanDisjoint
<1>5. ASSUME NEW b \in Urgent(l)
      PROVE  /\ b \in Int /\ l[b].ingress \in Int /\ l[b].ttl \in Nat
             /\ l[b].size \in 1..MaxSize
  <2>1. b \in DOMAIN l
    BY DEF Urgent
  <2>2. l[b] \in BundleIn /\ b \in Int
    BY <1>1, <2>1
  <2> QED
    BY <2>2 DEF BundleIn
<1>6. \A b \in Urgent(l) :
        /\ s[b] \in DOMAIN plan \cup {NoWindow}
        /\ s[b] # NoWindow => MayGo(l, s, b, s[b])
        /\ \A w \in DOMAIN plan : s[b] \notin 1..w => ~MayGo(l, s, b, w)
  BY DEF Contest, Settled
<1> QED
  BY <1>2, <1>3, <1>4, <1>5, <1>6 DEF Dies

(* Of two emergencies for one window the earlier one goes first.           *)
LEMMA EarlierGoes ==
  ASSUME NEW l, NEW f, NEW s, NEW L, Contest(l, f, s, L),
         NEW a \in Urgent(l), NEW b \in Urgent(l), NEW w \in DOMAIN plan,
         s[a] = w, Open(l, b, w), s[b] \notin 1..w
  PROVE  l[a].ingress <= l[b].ingress
<1> SUFFICES ASSUME l[b].ingress < l[a].ingress PROVE FALSE
  BY ContestParts
<1> DEFINE A == SentBefore(l, s, a, w)
           B == SentBefore(l, s, b, w)
<1>1. B \subseteq A /\ A \subseteq DOMAIN l
  <2>1. \A c \in Urgent(l) : c \in Int /\ l[c].ingress \in Int
    BY ContestParts
  <2> QED
    BY <2>1 DEF SentBefore, Sooner, Urgent
<1>2. PICK n \in 1..MaxSize : \A c \in Urgent(l) : l[c].size = n
  <2>1. l[a].size \in 1..MaxSize
    BY ContestParts
  <2> QED
    BY <2>1 DEF Contest, Uniform
<1>3. MayGo(l, s, a, w) /\ ~MayGo(l, s, b, w)
  BY ContestParts
<1>4. /\ 8 * (Weight(l, A) + n) <= Budget(plan[w])
      /\ ~(8 * (Weight(l, B) + n) <= Budget(plan[w]))
  BY <1>2, <1>3 DEF MayGo, Open
<1>5. A \subseteq Urgent(l) /\ l \in BundleLists /\ n \in Nat
  BY DEF SentBefore, Contest
<1> HIDE DEF A, B
<1>6. /\ IsFiniteSet(A) /\ Cardinality(A) \in Nat /\ Weight(l, A) = Cardinality(A) * n
      /\ Cardinality(B) \in Nat /\ Weight(l, B) = Cardinality(B) * n
  BY <1>1, <1>2, <1>5, EqualWeights
<1>7. Cardinality(B) <= Cardinality(A)
  BY <1>1, <1>6, FS_Subset
<1>8. Cardinality(B) * n <= Cardinality(A) * n
  <2>1. PICK x \in Nat : Cardinality(A) = Cardinality(B) + x
    <3>1. /\ Cardinality(A) - Cardinality(B) \in Nat
          /\ Cardinality(A) = Cardinality(B) + (Cardinality(A) - Cardinality(B))
      BY <1>6, <1>7
    <3> QED
      BY <3>1
  <2>2. Cardinality(A) * n = Cardinality(B) * n + x * n /\ x * n \in Nat
            /\ Cardinality(B) * n \in Nat
    BY <1>5, <1>6, <2>1
  <2> QED
    BY <2>2
<1>9. Weight(l, A) \in Int /\ Weight(l, B) \in Int /\ Budget(plan[w]) \in Int
  BY <1>5, <1>6, ContestParts
<1> QED
  BY <1>4, <1>5, <1>6, <1>8, <1>9

(* Strict priority sends at least as many as anyone in a pressed window,   *)
(* for it fills it.                                                        *)
LEMMA PressedFull ==
  ASSUME NEW l, NEW f, NEW s, NEW L, Contest(l, f, s, L), NEW g, NEW t, Lawful(l, g, t),
         NEW w \in Pressed(l, s, L)
  PROVE  Cardinality({b \in Urgent(l) : t[b] = w}) <= Cardinality({b \in Urgent(l) : s[b] = w})
<1> DEFINE T == {b \in Urgent(l) : t[b] = w}
           S == {b \in Urgent(l) : s[b] = w}
<1>1. w \in DOMAIN plan
  BY DEF Pressed
<1>2. PICK b \in Urgent(l) : Open(l, b, w) /\ s[b] \notin 1..w
  <2>1. PICK c \in L : /\ Dies(l, c) > plan[w].start
                      /\ \A v \in DOMAIN plan :
                           w <= v /\ plan[v].end <= l[c].ingress => LeavesBehind(l, s, v)
    BY DEF Pressed
  <2>2. c \in Urgent(l) /\ s[c] = NoWindow
    BY DEF Contest
  <2>3. CASE plan[w].end <= l[c].ingress
    <3>1. LeavesBehind(l, s, w)
      BY <1>1, <2>1, <2>3, ContestParts
    <3> QED
      BY <3>1 DEF LeavesBehind
  <2>4. CASE ~(plan[w].end <= l[c].ingress)
    <3>1. Open(l, c, w)
      BY <1>1, <2>1, <2>2, <2>4, ContestParts DEF Open
    <3>2. NoWindow \notin 1..w
      BY DEF NoWindow
    <3> QED
      BY <2>2, <3>1, <3>2
  <2> QED
    BY <2>3, <2>4
<1> DEFINE B == SentBefore(l, s, b, w)
<1>3. PICK n \in 1..MaxSize : \A c \in Urgent(l) : l[c].size = n
  <2>1. l[b].size \in 1..MaxSize
    BY <1>2, ContestParts
  <2> QED
    BY <1>2, <2>1 DEF Contest, Uniform
<1>4. ~(8 * (Weight(l, B) + n) <= Budget(plan[w]))
  <2>1. ~MayGo(l, s, b, w)
    BY <1>1, <1>2, ContestParts
  <2> QED
    BY <1>2, <1>3, <2>1 DEF MayGo, Open
<1>5. 8 * Weight(l, T) <= Budget(plan[w])
  BY <1>1 DEF Lawful
<1>6. /\ B \subseteq S /\ B \subseteq Urgent(l) /\ S \subseteq Urgent(l) /\ T \subseteq Urgent(l)
      /\ l \in BundleLists /\ n \in Nat
  BY DEF SentBefore, Contest
<1>7. Urgent(l) \subseteq DOMAIN l
  BY DEF Urgent
<1> HIDE DEF B, S, T
<1>8. /\ Cardinality(B) \in Nat /\ Weight(l, B) = Cardinality(B) * n
      /\ Cardinality(T) \in Nat /\ Weight(l, T) = Cardinality(T) * n
      /\ IsFiniteSet(S) /\ Cardinality(S) \in Nat
  <2>1. B \subseteq DOMAIN l /\ S \subseteq DOMAIN l /\ T \subseteq DOMAIN l
    BY <1>6, <1>7
  <2>2. /\ \A c \in B : l[c].size = n
        /\ \A c \in S : l[c].size = n
        /\ \A c \in T : l[c].size = n
    BY <1>3, <1>6
  <2> QED
    BY <1>6, <2>1, <2>2, EqualWeights
<1>9. Cardinality(B) <= Cardinality(S)
  BY <1>6, <1>8, FS_Subset
<1>10. Cardinality(T) <= Cardinality(B)
  <2> SUFFICES ASSUME Cardinality(B) < Cardinality(T) PROVE FALSE
    BY <1>8
  <2>1. PICK x \in Nat : Cardinality(T) = Cardinality(B) + 1 + x
    <3>1. /\ Cardinality(T) - (Cardinality(B) + 1) \in Nat
          /\ Cardinality(T) = Cardinality(B) + 1 + (Cardinality(T) - (Cardinality(B) + 1))
      BY <1>8
    <3> QED
      BY <3>1
  <2>2. /\ Cardinality(T) * n = Cardinality(B) * n + n + x * n /\ x * n \in Nat
        /\ Cardinality(B) * n \in Nat
    BY <1>6, <1>8, <2>1
  <2>3. Budget(plan[w]) \in Int
    BY <1>1, ContestParts
  <2> QED
    BY <1>4, <1>5, <1>6, <1>8, <2>2, <2>3
<1> QED
  BY <1>8, <1>9, <1>10 DEF S, T

(* Who is lost, or sent in a pressed window, could go in pressed windows   *)
(* only, and does not outlive all who are lost.                            *)
LEMMA PressedClosed ==
  ASSUME NEW l, NEW f, NEW s, NEW L, Contest(l, f, s, L), NEW a \in Urgent(l),
         a \in L \/ s[a] \in Pressed(l, s, L)
  PROVE  /\ \A v \in DOMAIN plan : Open(l, a, v) => v \in Pressed(l, s, L)
         /\ \E c \in L : Dies(l, a) <= Dies(l, c)
<1>1. CASE a \in L
  <2>1. Dies(l, a) \in Int
    BY ContestParts
  <2>2. ASSUME NEW v \in DOMAIN plan, Open(l, a, v) PROVE v \in Pressed(l, s, L)
    <3>1. \A u \in DOMAIN plan : v <= u => plan[v].end <= plan[u].end
      <4> TAKE u \in DOMAIN plan
      <4>1. v < u => plan[v].end <= plan[u].start
        BY ContestParts
      <4> QED
        BY <4>1, ContestParts
    <3>2. \A u \in DOMAIN plan : v <= u => ~(plan[u].end <= l[a].ingress)
      BY <2>2, <3>1, ContestParts DEF Open
    <3> QED
      BY <1>1, <2>2, <3>2 DEF Open, Pressed
  <2> QED
    BY <1>1, <2>1, <2>2
<1>2. CASE s[a] \in Pressed(l, s, L)
  <2>1. PICK w \in DOMAIN plan : w = s[a] /\ w \in Pressed(l, s, L)
    BY <1>2 DEF Pressed
  <2>2. PICK b \in L : /\ Dies(l, b) > plan[w].start
                      /\ \A v \in DOMAIN plan :
                           w <= v /\ plan[v].end <= l[b].ingress => LeavesBehind(l, s, v)
    BY <2>1 DEF Pressed
  <2>3. b \in Urgent(l) /\ s[b] = NoWindow
    BY DEF Contest
  <2>4. MayGo(l, s, a, w) /\ w # NoWindow
    BY <2>1, ContestParts
  <2>5. Open(l, a, w)
    BY <2>4 DEF MayGo, Open
  <2>6. l[a].ingress <= l[b].ingress
    <3>1. CASE plan[w].end <= l[b].ingress
      BY <2>3, <2>5, <3>1, ContestParts DEF Open
    <3>2. CASE ~(plan[w].end <= l[b].ingress)
      <4>1. Open(l, b, w)
        BY <2>2, <2>3, <3>2, ContestParts DEF Open
      <4>2. s[b] \notin 1..w
        BY <2>3 DEF NoWindow
      <4> QED
        BY <2>1, <2>3, <4>1, <4>2, EarlierGoes
    <3> QED
      BY <3>1, <3>2
  <2>7. Dies(l, a) <= Dies(l, b)
    <3>1. l[a].ttl = l[b].ttl
      BY <2>3 DEF Contest, Uniform
    <3> QED
      BY <2>3, <2>6, <3>1, ContestParts
  <2>9. /\ Dies(l, a) \in Int /\ Dies(l, b) \in Int
        /\ \A v \in DOMAIN plan : plan[v].start \in Int
    BY <2>3, ContestParts
  <2>8. ASSUME NEW v \in DOMAIN plan, Open(l, a, v) PROVE v \in Pressed(l, s, L)
    <3>1. Dies(l, b) > plan[v].start
      <4>1. Dies(l, a) > plan[v].start
        BY <2>8 DEF Open
      <4> QED
        BY <2>7, <2>9, <4>1
    <3>2. ASSUME NEW u \in DOMAIN plan, v <= u, plan[u].end <= l[b].ingress
          PROVE  LeavesBehind(l, s, u)
      <4>1. CASE w <= u
        BY <2>2, <3>2, <4>1
      <4>2. CASE u < w
        <5>1. /\ l[a].ingress < plan[v].end /\ plan[v].end <= plan[u].end
          <6>1. v < u => plan[v].end <= plan[u].start
            BY ContestParts
          <6> QED
            BY <2>8, <3>2, <6>1, ContestParts DEF Open
        <5>2. Dies(l, a) > plan[u].start
          <6>1. plan[u].end <= plan[w].start
            BY <4>2, ContestParts
          <6>2. Dies(l, a) > plan[w].start
            BY <2>5 DEF Open
          <6>3. plan[u].start < plan[w].start
            BY <6>1, ContestParts
          <6> QED
            BY <2>9, <6>2, <6>3
        <5>3. Open(l, a, u)
          BY <5>1, <5>2, ContestParts DEF Open
        <5>4. s[a] \notin 1..u
          BY <2>1, <4>2, ContestParts
        <5> QED
          BY <5>3, <5>4 DEF LeavesBehind
      <4> QED
        BY <4>1, <4>2, ContestParts
    <3> QED
      BY <3>1, <3>2 DEF Pressed
  <2> QED
    BY <2>7, <2>8
<1> QED
  BY <1>1, <1>2

LEMMA DisjointUnion ==
  ASSUME NEW S, NEW T, IsFiniteSet(S), IsFiniteSet(T), S \cap T = {}
  PROVE  /\ Cardinality(S) \in Nat /\ Cardinality(T) \in Nat
         /\ Cardinality(S \cup T) = Cardinality(S) + Cardinality(T)
<1>1. Cardinality(S \cup T) = Cardinality(S) + Cardinality(T) - Cardinality({})
  BY FS_Union
<1> QED
  BY <1>1, FS_EmptySet, FS_CardinalityType

LEMMA UrgentFinite ==
  ASSUME NEW l \in BundleLists
  PROVE  IsFiniteSet(Urgent(l))
<1>1. l \in Seq(BundleIn)
  BY DEF BundleLists
<1>2. IsFiniteSet(1..Len(l)) /\ Urgent(l) \in SUBSET (1..Len(l))
  BY <1>1, FS_Interval DEF Urgent
<1> QED
  BY <1>2, FS_Subset

(* Those who are lost or sent in a pressed window: no order sends more of  *)
(* them than strict priority does.                                         *)
Stake(l, s, L) == {a \in Urgent(l) : a \in L \/ s[a] \in Pressed(l, s, L)}

LEMMA Exchange ==
  ASSUME NEW l, NEW f, NEW s, NEW L, Contest(l, f, s, L), NEW g, NEW t, Lawful(l, g, t)
  PROVE  Cardinality({a \in Stake(l, s, L) : t[a] # NoWindow})
           <= Cardinality({b \in Urgent(l) : s[b] \in Pressed(l, s, L)})
<1> DEFINE E == Urgent(l)
           T == Pressed(l, s, L)
<1>1. IsFiniteSet(E)
  BY UrgentFinite DEF Contest
<1>2. {a \in Stake(l, s, L) : t[a] # NoWindow} \subseteq {b \in E : t[b] \in T}
  <2> SUFFICES ASSUME NEW a \in Stake(l, s, L), t[a] # NoWindow PROVE a \in E /\ t[a] \in T
    OBVIOUS
  <2>1. a \in E /\ (a \in L \/ s[a] \in T)
    BY DEF Stake
  <2>2. t[a] \in DOMAIN plan /\ Open(l, a, t[a])
    BY <2>1 DEF Lawful
  <2> QED
    BY <2>1, <2>2, PressedClosed
<1>3. T \in SUBSET (1..Len(plan)) /\ Len(plan) \in Nat
  BY ContestParts DEF Pressed
<1>4. \A w \in T : Cardinality({b \in E : t[b] = w}) <= Cardinality({b \in E : s[b] = w})
  BY PressedFull
<1> HIDE DEF E, T
<1>5. Cardinality({b \in E : t[b] \in T}) <= Cardinality({b \in E : s[b] \in T})
  <2>1. PICK n \in Nat : T \in SUBSET (1..n)
    BY <1>3
  <2>2. ASSUME NEW w \in T
        PROVE  Cardinality(SentAmong(E, t, {w})) <= Cardinality(SentAmong(E, s, {w}))
    <3>1. /\ SentAmong(E, t, {w}) = {b \in E : t[b] = w}
          /\ SentAmong(E, s, {w}) = {b \in E : s[b] = w}
      BY DEF SentAmong
    <3> QED
      BY <1>4, <3>1
  <2>3. Cardinality(SentAmong(E, t, T)) <= Cardinality(SentAmong(E, s, T))
    BY <1>1, <2>1, <2>2, CountByWindow
  <2>4. SentAmong(E, t, T) = {b \in E : t[b] \in T} /\ SentAmong(E, s, T) = {b \in E : s[b] \in T}
    BY DEF SentAmong
  <2> QED
    BY <2>3, <2>4
<1> DEFINE A == {a \in Stake(l, s, L) : t[a] # NoWindow}
           B == {b \in E : t[b] \in T}
           C == {b \in E : s[b] \in T}
<1>6. A \subseteq B /\ B \subseteq E /\ C \subseteq E
  BY <1>2
<1> HIDE DEF A, B, C
<1>7. /\ IsFiniteSet(B) /\ Cardinality(A) <= Cardinality(B)
      /\ Cardinality(A) \in Nat /\ Cardinality(B) \in Nat /\ Cardinality(C) \in Nat
  BY <1>1, <1>6, FS_Subset, FS_CardinalityType
<1>8. Cardinality(A) <= Cardinality(C)
  BY <1>5, <1>7 DEF B, C
<1> QED
  BY <1>8 DEF A, C, E, T

(* Strict priority delivers as many as any run.                            *)
LEMMA DeliversMost ==
  ASSUME NEW l, NEW f, NEW s, Contest(l, f, s, {b \in Urgent(l) : s[b] = NoWindow}),
         NEW g, NEW t, Lawful(l, g, t)
  PROVE  Cardinality({b \in Urgent(l) : t[b] # NoWindow})
           <= Cardinality({b \in Urgent(l) : s[b] # NoWindow})
<1> DEFINE E == Urgent(l)
           L == {b \in E : s[b] = NoWindow}
           T == Pressed(l, s, L)
           Z == Stake(l, s, L)
           there == {a \in Z : t[a] # NoWindow}
           here == {b \in E : s[b] \in T}
           rest == E \ Z
           D == {b \in E : s[b] # NoWindow}
           K == {b \in E : t[b] # NoWindow}
<1>1. IsFiniteSet(E)
  BY UrgentFinite DEF Contest
<1>2. Cardinality(there) <= Cardinality(here)
  BY Exchange
<1>3. NoWindow \notin T
  BY ContestParts DEF Pressed
<1>4. Z = {a \in E : a \in L \/ s[a] \in T}
  BY DEF Stake
<1> HIDE DEF T, Z
<1>5. /\ here \cap rest = {} /\ D = here \cup rest /\ K \subseteq there \cup rest
      /\ there \cap rest = {}
      /\ here \subseteq E /\ rest \subseteq E /\ there \subseteq E
  BY <1>3, <1>4
<1> HIDE DEF E, L, there, here, rest, D, K
<1>6. /\ IsFiniteSet(here) /\ IsFiniteSet(rest) /\ IsFiniteSet(there)
      /\ IsFiniteSet(there \cup rest)
  BY <1>1, <1>5, FS_Subset, FS_Union
<1>7. /\ Cardinality(here) \in Nat /\ Cardinality(rest) \in Nat /\ Cardinality(there) \in Nat
      /\ Cardinality(there \cup rest) = Cardinality(there) + Cardinality(rest)
      /\ Cardinality(D) = Cardinality(here) + Cardinality(rest)
  BY <1>5, <1>6, DisjointUnion
<1>8. Cardinality(K) <= Cardinality(there \cup rest) /\ Cardinality(K) \in Nat
  BY <1>5, <1>6, FS_Subset, FS_CardinalityType
<1>9. Cardinality(K) <= Cardinality(D)
  BY <1>2, <1>7, <1>8
<1> QED
  BY <1>9 DEF K, D, E

(* It loses as few to their deadlines as any run that refuses none.        *)
LEMMA ExpiresLeast ==
  ASSUME NEW l, NEW f, NEW s, Contest(l, f, s, {b \in Urgent(l) : f[b] = "ttl_expired"}),
         NEW g, NEW t, Lawful(l, g, t), \A b \in Urgent(l) : g[b] # "queue_overflow"
  PROVE  Cardinality({b \in Urgent(l) : f[b] = "ttl_expired"})
           <= Cardinality({b \in Urgent(l) : g[b] = "ttl_expired"})
<1> DEFINE E == Urgent(l)
           L == {b \in E : f[b] = "ttl_expired"}
           T == Pressed(l, s, L)
           Z == Stake(l, s, L)
           there == {a \in Z : t[a] # NoWindow}
           here == {b \in E : s[b] \in T}
           lost == {a \in Z : t[a] = NoWindow}
           X == {b \in E : g[b] = "ttl_expired"}
<1>1. IsFiniteSet(E)
  BY UrgentFinite DEF Contest
<1>2. Cardinality(there) <= Cardinality(here)
  BY Exchange
<1>3. NoWindow \notin T
  BY ContestParts DEF Pressed
<1>4. Z = {a \in E : a \in L \/ s[a] \in T}
  BY DEF Stake
<1>5. \A b \in L : s[b] = NoWindow
  BY DEF Contest
<1>12. /\ \A b \in Urgent(l) : Dies(l, b) \in Int
       /\ \A w \in DOMAIN plan : plan[w].end \in Int
  BY ContestParts
<1>6. ASSUME NEW a \in Z, t[a] = NoWindow PROVE a \in X
  <2>1. a \in E /\ g[a] # "queue_overflow"
    BY <1>4
  <2>2. g[a] \in {"ttl_expired", "never_scheduled"}
    BY <1>6, <2>1 DEF Lawful, Terminal
  <2>3. PICK c \in L : Dies(l, a) <= Dies(l, c)
    BY <1>4, <1>6, PressedClosed
  <2>4. PICK w \in DOMAIN plan : Dies(l, c) <= plan[w].end
    BY <2>3 DEF Contest, Settled
  <2>5. Dies(l, a) \in Int /\ Dies(l, c) \in Int /\ plan[w].end \in Int
    BY <1>12, <2>1, <2>3, <2>4
  <2>6. ~(Dies(l, a) > plan[w].end)
    BY <2>3, <2>4, <2>5
  <2>7. g[a] # "never_scheduled"
    BY <2>1, <2>4, <2>6 DEF Lawful
  <2> QED
    BY <2>1, <2>2, <2>7
<1> HIDE DEF T, Z
<1>7. /\ Z = L \cup here /\ L \cap here = {} /\ Z = there \cup lost /\ there \cap lost = {}
      /\ lost \subseteq X /\ X \subseteq E /\ L \subseteq E /\ here \subseteq E /\ Z \subseteq E
      /\ there \subseteq Z /\ lost \subseteq Z
  BY <1>3, <1>4, <1>5, <1>6
<1> HIDE DEF E, L, there, here, lost, X
<1>8. /\ IsFiniteSet(Z) /\ IsFiniteSet(X) /\ IsFiniteSet(L) /\ IsFiniteSet(here)
  BY <1>1, <1>7, FS_Subset
<1>9. IsFiniteSet(there) /\ IsFiniteSet(lost) /\ Cardinality(lost) <= Cardinality(X)
  BY <1>7, <1>8, FS_Subset
<1>10. /\ Cardinality(L) \in Nat /\ Cardinality(here) \in Nat /\ Cardinality(there) \in Nat
       /\ Cardinality(lost) \in Nat /\ Cardinality(X) \in Nat
       /\ Cardinality(Z) = Cardinality(L) + Cardinality(here)
       /\ Cardinality(Z) = Cardinality(there) + Cardinality(lost)
  BY <1>7, <1>8, <1>9, DisjointUnion, FS_CardinalityType
<1>11. Cardinality(L) <= Cardinality(X)
  BY <1>2, <1>9, <1>10
<1> QED
  BY <1>11 DEF L, X, E

(* Where only emergencies count, the sum over the classes is their term.   *)
LEMMA EmergencyTerm ==
  ASSUME NEW v, \A c \in Class : v[c] \in Int
  PROVE  /\ (\A c \in Class \ {"emergency"} : v[c] = 0) => SumOf(v, Class) = v["emergency"]
         /\ (\A c \in Class : v[c] \in Nat) /\ SumOf(v, Class) = 0 => v["emergency"] = 0
<1> DEFINE three == Class \ {"emergency"}
           two == three \ {"telemetry"}
           one == two \ {"science_bulk"}
<1>1. /\ Class = {"media"} \cup {"science_bulk"} \cup {"telemetry"} \cup {"emergency"}
      /\ three = {"telemetry", "science_bulk", "media"}
      /\ two = {"science_bulk", "media"} /\ one = {"media"} /\ one \ {"media"} = {}
  BY DEF Class, RANK
<1>2. IsFiniteSet(Class)
  <2>1. IsFiniteSet({"media"})
    BY FS_Singleton
  <2>2. IsFiniteSet({"media"} \cup {"science_bulk"})
    BY <2>1, FS_AddElement
  <2>3. IsFiniteSet({"media"} \cup {"science_bulk"} \cup {"telemetry"})
    BY <2>2, FS_AddElement
  <2>4. IsFiniteSet({"media"} \cup {"science_bulk"} \cup {"telemetry"} \cup {"emergency"})
    BY <2>3, FS_AddElement
  <2> QED
    BY <1>1, <2>4
<1>3. /\ "emergency" \in Class /\ "telemetry" \in three /\ "science_bulk" \in two /\ "media" \in one
      /\ three \subseteq Class /\ two \subseteq Class /\ one \subseteq Class
  BY <1>1
<1> HIDE DEF three, two, one
<1>4. IsFiniteSet(three) /\ IsFiniteSet(two) /\ IsFiniteSet(one)
  BY <1>2, <1>3, FS_Subset
<1>5. SumOf(v, Class) = v["emergency"] + SumOf(v, three) /\ SumOf(v, three) \in Int
  BY <1>2, <1>3, <1>4, SumRemove DEF three
<1>6. SumOf(v, three) = v["telemetry"] + SumOf(v, two) /\ SumOf(v, two) \in Int
  BY <1>3, <1>4, SumRemove DEF two
<1>7. SumOf(v, two) = v["science_bulk"] + SumOf(v, one) /\ SumOf(v, one) \in Int
  BY <1>3, <1>4, SumRemove DEF one
<1>8. SumOf(v, one) = v["media"] + SumOf(v, {})
  BY <1>1, <1>3, <1>4, SumRemove
<1>9. SumOf(v, {}) = 0
  BY SumEmpty
<1>10. /\ v["emergency"] \in Int /\ v["telemetry"] \in Int /\ v["science_bulk"] \in Int
       /\ v["media"] \in Int
  BY <1>1
<1>11. ASSUME \A c \in Class \ {"emergency"} : v[c] = 0
       PROVE  SumOf(v, Class) = v["emergency"]
  <2>1. v["telemetry"] = 0 /\ v["science_bulk"] = 0 /\ v["media"] = 0
    BY <1>1, <1>11
  <2> QED
    BY <1>5, <1>6, <1>7, <1>8, <1>9, <1>10, <2>1
<1>12. ASSUME \A c \in Class : v[c] \in Nat, SumOf(v, Class) = 0
       PROVE  v["emergency"] = 0
  <2>1. /\ v["emergency"] >= 0 /\ v["telemetry"] >= 0 /\ v["science_bulk"] >= 0 /\ v["media"] >= 0
    BY <1>1, <1>12
  <2>2. SumOf(v, Class) = v["emergency"] + v["telemetry"] + v["science_bulk"] + v["media"]
    BY <1>5, <1>6, <1>7, <1>8, <1>9, <1>10
  <2> QED
    BY <1>10, <1>12, <2>1, <2>2
<1> QED
  BY <1>11, <1>12

LEMMA CountIsNat ==
  ASSUME SweepShape, NEW r, NEW c, NEW st
  PROVE  /\ Count(r, c, st) \in Nat
         /\ Count(r, c, st) = 0 => \A b \in OfClass(c) : r.fate[b] # st
         /\ OfClass(c) = {} => Count(r, c, st) = 0
<1> DEFINE S == {b \in OfClass(c) : r.fate[b] = st}
<1>1. generated \in Seq(BundleIn)
  BY DEF SweepShape, BundleLists
<1>2. IsFiniteSet(1..Len(generated)) /\ S \in SUBSET (1..Len(generated))
  BY <1>1, FS_Interval DEF OfClass
<1>3. Count(r, c, st) = Cardinality(S) /\ (OfClass(c) = {} => S = {})
  BY DEF Count
<1>4. S = {} => \A b \in OfClass(c) : r.fate[b] # st
  OBVIOUS
<1> HIDE DEF S
<1>5. Cardinality(S) \in Nat /\ (Cardinality(S) = 0 <=> S = {})
  BY <1>2, FS_Subset, FS_CardinalityType, FS_EmptySet
<1> QED
  BY <1>3, <1>4, <1>5

(* The utility of a run, where no other class has a weight.                *)
LEMMA UtilityOfEmergencies ==
  ASSUME SweepShape, NEW r,
         \A c \in Class \ {"emergency"} : OfClass(c) # {} => UtilityWeight[c] = 0
  PROVE  MissionUtility(r) = 100 * Count(r, "emergency", "delivered")
                               - 1000 * Count(r, "emergency", "ttl_expired")
<1>1. \A c \in Class : UtilityWeight[c] \in Int
  BY DEF UtilityWeight, Class, RANK
<1>2. \A c \in Class : Worth(r)[c] = UtilityWeight[c] * Count(r, c, "delivered")
  BY DEF Worth, Delivered
<1>3. \A c \in Class : Worth(r)[c] \in Int
  <2> TAKE c \in Class
  <2>1. PICK u \in Int, n \in Nat : u = UtilityWeight[c] /\ n = Count(r, c, "delivered")
    BY <1>1, CountIsNat
  <2>2. u * n \in Int
    OBVIOUS
  <2> QED
    BY <1>2, <2>1, <2>2
<1>4. ASSUME NEW c \in Class \ {"emergency"} PROVE Worth(r)[c] = 0
  <2>1. PICK u \in Int, n \in Nat : u = UtilityWeight[c] /\ n = Count(r, c, "delivered")
    BY <1>1, CountIsNat
  <2>2. u = 0 \/ n = 0
    BY <2>1, CountIsNat
  <2>3. u * n = 0
    BY <2>2
  <2> QED
    BY <1>2, <2>1, <2>3
<1>5. SumOf(Worth(r), Class) = Worth(r)["emergency"]
  BY <1>3, <1>4, EmergencyTerm
<1>6. Worth(r)["emergency"] = 100 * Count(r, "emergency", "delivered")
  BY <1>2 DEF UtilityWeight, Class, RANK
<1>7. MissionUtility(r) = SumOf(Worth(r), Class) - 1000 * Count(r, "emergency", "ttl_expired")
  BY Zenon DEF MissionUtility, SumOf
<1> QED
  BY <1>5, <1>6, <1>7

LEMMA NoneRefused ==
  ASSUME SweepShape, NEW r, StarvationSummary(r)["queue_overflow"] = 0
  PROVE  \A b \in Emergencies : r.fate[b] # "queue_overflow"
<1> DEFINE v == PerClass(r, "queue_overflow")
<1>1. \A c \in Class : v[c] = Count(r, c, "queue_overflow")
  BY DEF PerClass
<1>2. \A c \in Class : v[c] \in Nat
  BY <1>1, CountIsNat
<1>3. StarvationSummary(r)["queue_overflow"] = SumOf(v, Class)
  <2>1. StarvationSummary(r)["queue_overflow"]
          = MapThenSumSet(LAMBDA c : PerClass(r, "queue_overflow")[c], Class)
    BY DEF StarvationSummary
  <2> QED
    BY <2>1, Zenon DEF SumOf
<1> HIDE DEF v
<1>4. v["emergency"] = 0
  <2>1. \A c \in Class : v[c] \in Int
    BY <1>2
  <2> QED
    BY <1>2, <1>3, <2>1, EmergencyTerm
<1>5. Count(r, "emergency", "queue_overflow") = 0
  BY <1>1, <1>4 DEF Class, RANK
<1> QED
  BY <1>5, CountIsNat DEF Emergencies

(* For the same: where emergencies are of one size and one lifetime, and   *)
(* strict priority refuses none of them, no policy delivers more of them   *)
(* over the same workload; and where nothing overflows and no other class  *)
(* has a weight, none reaches a higher mission utility (run_trace_         *)
(* scheduler.py:140; telemetry.py:339-350).                                *)
THEOREM EmergencyNoWorseInvariant == SweepSpec => []EmergencyNoWorse
<1>1. RunShape /\ SweepShape /\ IsolationShape => EmergencyNoWorse
  <2> SUFFICES ASSUME RunShape, SweepShape, IsolationShape, NEW j \in Runs, NEW k \in Runs,
                      \A a, b \in Emergencies : /\ generated[a].size = generated[b].size
                                                /\ generated[a].ttl = generated[b].ttl,
                      SamePoint(j, k), results[j].policy = "strict_priority",
                      Count(results[j], "emergency", "queue_overflow") = 0
               PROVE  /\ Delivered(results[j], "emergency") >= Delivered(results[k], "emergency")
                      /\ (/\ \A c \in Class \ {"emergency"} : OfClass(c) # {} => UtilityWeight[c] = 0
                          /\ \A i \in {j, k} : StarvationSummary(results[i])["queue_overflow"] = 0) =>
                            MissionUtility(results[j]) >= MissionUtility(results[k])
    BY DEF EmergencyNoWorse
  <2> DEFINE l == Regenerated(generated, override, results[j].point)
             f == results[j].fate
             s == results[j].sent
             g == results[k].fate
             t == results[k].sent
             E == Urgent(l)
  <2>1. Settled(l, f, s) /\ Lawful(l, f, s)
    BY DEF IsolationShape, Accounted, UrgentFirst
  <2>2. Lawful(l, g, t)
    BY DEF IsolationShape, Accounted, SamePoint
  <2>3. l \in BundleLists /\ plan \in Plan /\ E = Emergencies
    <3>1. override.ttls # <<>> => results[j].point \in DOMAIN override.ttls
      BY DEF IsolationShape
    <3>2. l \in BundleLists
      BY <3>1, RegeneratedIsList DEF SweepShape
    <3>3. E = Emergencies
      BY <3>1, SameEmergencies
    <3> QED
      BY <3>2, <3>3 DEF RunShape, WindowShape
  <2>4. Uniform(l)
    <3> SUFFICES ASSUME NEW a \in E, NEW b \in E
                 PROVE  l[a].size = l[b].size /\ l[a].ttl = l[b].ttl
      BY DEF Uniform
    <3>1. /\ a \in DOMAIN generated /\ b \in DOMAIN generated
          /\ generated[a].cls = "emergency" /\ generated[b].cls = "emergency"
          /\ generated[a].size = generated[b].size /\ generated[a].ttl = generated[b].ttl
      BY <2>3 DEF Emergencies, OfClass
    <3>2. generated[a] \in BundleIn /\ generated[b] \in BundleIn
      BY <3>1 DEF SweepShape, BundleLists
    <3> QED
      BY <3>1, <3>2 DEF Regenerated, BundleIn
  <2>5. \A b \in E : f[b] # "queue_overflow"
    BY <2>3, CountIsNat DEF Emergencies
  <2>6. /\ Contest(l, f, s, {b \in E : s[b] = NoWindow})
        /\ Contest(l, f, s, {b \in E : f[b] = "ttl_expired"})
    <3>1. \A b \in E : f[b] = "ttl_expired" => s[b] = NoWindow
      BY <2>1 DEF Lawful
    <3> QED
      BY <2>1, <2>3, <2>4, <2>5, <3>1 DEF Contest
  <2>7. /\ {b \in E : s[b] # NoWindow} = {b \in Emergencies : f[b] = "delivered"}
        /\ {b \in E : t[b] # NoWindow} = {b \in Emergencies : g[b] = "delivered"}
        /\ {b \in E : f[b] = "ttl_expired"} = {b \in Emergencies : f[b] = "ttl_expired"}
        /\ {b \in E : g[b] = "ttl_expired"} = {b \in Emergencies : g[b] = "ttl_expired"}
    BY <2>1, <2>2, <2>3 DEF Lawful
  <2> DEFINE D(i) == Count(results[i], "emergency", "delivered")
             X(i) == Count(results[i], "emergency", "ttl_expired")
  <2>8. /\ D(j) = Cardinality({b \in E : s[b] # NoWindow})
        /\ D(k) = Cardinality({b \in E : t[b] # NoWindow})
        /\ X(j) = Cardinality({b \in E : f[b] = "ttl_expired"})
        /\ X(k) = Cardinality({b \in E : g[b] = "ttl_expired"})
    BY <2>7 DEF Count, Emergencies
  <2>9. /\ D(j) \in Nat /\ D(k) \in Nat /\ X(j) \in Nat /\ X(k) \in Nat
    BY CountIsNat
  <2> HIDE DEF l, f, s, g, t, E
  <2>10. D(k) <= D(j)
    <3>1. Contest(l, f, s, {b \in Urgent(l) : s[b] = NoWindow})
      BY <2>6 DEF E
    <3>2. Cardinality({b \in Urgent(l) : t[b] # NoWindow})
            <= Cardinality({b \in Urgent(l) : s[b] # NoWindow})
      BY <2>2, <3>1, DeliversMost
    <3> QED
      BY <2>8, <3>2 DEF E
  <2>11. ASSUME \A c \in Class \ {"emergency"} : OfClass(c) # {} => UtilityWeight[c] = 0,
                \A i \in {j, k} : StarvationSummary(results[i])["queue_overflow"] = 0
         PROVE  MissionUtility(results[j]) >= MissionUtility(results[k])
    <3>1. \A b \in E : g[b] # "queue_overflow"
      BY <2>3, <2>11, NoneRefused DEF g
    <3>2. X(j) <= X(k)
      BY <2>2, <2>6, <2>8, <3>1, ExpiresLeast DEF E
    <3>3. /\ MissionUtility(results[j]) = 100 * D(j) - 1000 * X(j)
          /\ MissionUtility(results[k]) = 100 * D(k) - 1000 * X(k)
      BY <2>11, UtilityOfEmergencies
    <3> HIDE DEF D, X
    <3> QED
      BY <2>9, <2>10, <3>2, <3>3
  <2>12. Delivered(results[j], "emergency") >= Delivered(results[k], "emergency")
    BY <2>9, <2>10 DEF Delivered
  <2> QED
    BY <2>11, <2>12
<1>2. SweepInit => IsolationShape
  BY IsolationStarts
<1>3. SweepSpec => []IsolationShape
  BY <1>2, IsolationStep, SweepShapeInvariant, PTL DEF SweepSpec
<1> QED
  BY <1>1, <1>3, SweepShapeInvariant, PTL

-----------------------------------------------------------------------------
(* The trace of a mission profile: all of it arrives within the gap.       *)
FlatUpTo(g, s, n) ==
  \A i \in 1..n : g[i] = IF i = 1 THEN s[i] ELSE g[i - 1] \o s[i]

LEMMA FlatGrows ==
  ASSUME NEW s, NEW n \in Nat, NEW g, FlatUpTo(g, s, n)
  PROVE  \E h : FlatUpTo(h, s, n + 1)
<1> DEFINE h == [i \in 1..(n + 1) |->
                   IF i = n + 1 THEN (IF i = 1 THEN s[i] ELSE g[n] \o s[i]) ELSE g[i]]
<1>1. \A i \in 1..n : h[i] = g[i] /\ i \in 1..(n + 1)
  OBVIOUS
<1>2. h[n + 1] = IF n + 1 = 1 THEN s[n + 1] ELSE g[n] \o s[n + 1]
  OBVIOUS
<1> HIDE DEF h
<1>3. ASSUME NEW i \in 1..(n + 1) PROVE h[i] = IF i = 1 THEN s[i] ELSE h[i - 1] \o s[i]
  <2>1. CASE i = n + 1
    <3>1. i # 1 => n \in 1..n /\ i - 1 = n
      BY <2>1
    <3>2. i # 1 => h[i - 1] = g[n]
      BY <1>1, <3>1
    <3> QED
      BY <1>2, <2>1, <3>2
  <2>2. CASE i # n + 1
    <3>1. i \in 1..n /\ (i # 1 => i - 1 \in 1..n)
      BY <2>2
    <3>2. g[i] = IF i = 1 THEN s[i] ELSE g[i - 1] \o s[i]
      BY <3>1 DEF FlatUpTo
    <3>3. h[i] = g[i] /\ (i # 1 => h[i - 1] = g[i - 1])
      BY <1>1, <3>1
    <3> QED
      BY <3>2, <3>3
  <2> QED
    BY <2>1, <2>2
<1> QED
  BY <1>3 DEF FlatUpTo

LEMMA FlatExists ==
  ASSUME NEW s, Len(s) \in Nat
  PROVE  \E g : g = [i \in 1..Len(s) |-> IF i = 1 THEN s[i] ELSE g[i - 1] \o s[i]]
<1> DEFINE Bad == {n \in Nat : ~\E g : FlatUpTo(g, s, n)}
<1>1. SUFFICES ASSUME Len(s) \in Bad PROVE FALSE
  <2>1. PICK g : FlatUpTo(g, s, Len(s))
    BY <1>1
  <2> DEFINE h == [i \in 1..Len(s) |-> g[i]]
  <2>2. \A i \in 1..Len(s) : h[i] = g[i] /\ (i # 1 => i - 1 \in 1..Len(s) /\ h[i - 1] = g[i - 1])
    OBVIOUS
  <2>3. \A i \in 1..Len(s) : g[i] = IF i = 1 THEN s[i] ELSE g[i - 1] \o s[i]
    BY <2>1 DEF FlatUpTo
  <2>4. \A i \in 1..Len(s) : g[i] = IF i = 1 THEN s[i] ELSE h[i - 1] \o s[i]
    BY <2>2, <2>3
  <2>5. h = [i \in 1..Len(s) |-> IF i = 1 THEN s[i] ELSE h[i - 1] \o s[i]]
    BY <2>4
  <2> QED
    BY <2>5
<1>2. PICK m \in Bad : \A n \in Bad : m <= n
  <2>1. Bad \in SUBSET Nat
    OBVIOUS
  <2> QED
    BY <1>1, <2>1, LeastNatural
<1>3. m # 0
  <2>1. FlatUpTo(<<>>, s, 0)
    BY DEF FlatUpTo
  <2> QED
    BY <1>2, <2>1
<1>4. PICK k \in Nat : m = k + 1 /\ ~(m <= k)
  <2>1. m - 1 \in Nat /\ m = (m - 1) + 1 /\ ~(m <= m - 1)
    BY <1>2, <1>3
  <2> QED
    BY <2>1
<1>5. \E g : FlatUpTo(g, s, k)
  BY <1>2, <1>4
<1>6. \E g : FlatUpTo(g, s, k + 1)
  BY <1>5, FlatGrows
<1> QED
  BY <1>2, <1>4, <1>6

LEMMA FlattenKeeps ==
  ASSUME NEW X, NEW s \in Seq(Seq(X) \ {<<>>}), s # <<>>
  PROVE  FlattenSeq(s) \in Seq(X) \ {<<>>}
<1>1. Len(s) \in Nat \ {0} /\ \A i \in 1..Len(s) : s[i] \in Seq(X) /\ s[i] # <<>>
  OBVIOUS
<1> DEFINE Flat(g) == g = [i \in 1..Len(s) |-> IF i = 1 THEN s[i] ELSE g[i - 1] \o s[i]]
           f == CHOOSE g : Flat(g)
<1>2. FlattenSeq(s) = f[Len(s)]
  <2>1. Len(s) # 0
    BY <1>1
  <2> QED
    BY <2>1, Zenon DEF FlattenSeq
<1>3. Flat(f)
  <2>1. \E g : Flat(g)
    BY <1>1, FlatExists
  <2> QED
    BY <2>1
<1> HIDE DEF f
<1>4. \A i \in 1..Len(s) : f[i] = IF i = 1 THEN s[i] ELSE f[i - 1] \o s[i]
  BY <1>3
<1> DEFINE Bad == {n \in 1..Len(s) : ~(f[n] \in Seq(X) /\ f[n] # <<>>)}
<1>5. SUFFICES ASSUME Bad # {} PROVE FALSE
  <2>1. Len(s) \in 1..Len(s)
    BY <1>1
  <2> QED
    BY <1>2, <1>5, <2>1
<1>6. PICK m \in Bad : \A n \in Bad : m <= n
  <2>1. Bad \in SUBSET Nat
    BY <1>1
  <2> QED
    BY <1>5, <2>1, LeastNatural
<1>7. m \in 1..Len(s) /\ ~(f[m] \in Seq(X) /\ f[m] # <<>>)
  BY <1>6
<1>8. m # 1
  BY <1>1, <1>4, <1>7
<1>9. m - 1 \in 1..Len(s) /\ ~(m <= m - 1)
  BY <1>1, <1>7, <1>8
<1>10. f[m - 1] \in Seq(X) /\ f[m - 1] # <<>>
  BY <1>6, <1>9
<1>11. f[m] = f[m - 1] \o s[m]
  BY <1>4, <1>7, <1>8
<1>12. \A p, q \in Seq(X) : p # <<>> => p \o q \in Seq(X) /\ p \o q # <<>>
  OBVIOUS
<1> QED
  BY <1>1, <1>7, <1>10, <1>11, <1>12

LEMMA TrainInGap ==
  ASSUME NEW g \in Nat \ {0}, NEW n \in Nat \ {0}
  PROVE  /\ (g + n - 1) \div n \in Nat \ {0}
         /\ \A k \in 1..((g + n - 1) \div n) : (k - 1) * n \in 0..(g - 1)
<1>1. PICK q \in Int : q = (g + n - 1) \div n /\ n * q <= g + n - 1 /\ g + n - 1 < n * q + n
  OBVIOUS
<1>2. ASSUME q <= 0 PROVE FALSE
  <2>1. n * q <= 0
    BY <1>2
  <2> QED
    BY <1>1, <2>1
<1>3. ASSUME NEW k \in 1..q PROVE (k - 1) * n \in 0..(g - 1)
  <2>1. (k - 1) * n >= 0 /\ (k - 1) * n \in Int
    <3>1. PICK j \in Nat : j = k - 1
      BY <1>1, <1>3
    <3>2. j * n >= 0 /\ j * n \in Int
      OBVIOUS
    <3> QED
      BY <3>1, <3>2
  <2>2. PICK d \in Nat : d = q - k
    <3>1. q \in Int
      BY <1>1
    <3>2. q - k \in Nat
      BY <1>3, <3>1
    <3> QED
      BY <3>2
  <2>3. n * d >= 0 /\ n * d \in Int
    BY <2>2
  <2>4. n * q = n * k + n * d /\ (k - 1) * n = n * k - n
    BY <1>1, <1>3, <2>2
  <2>5. n * k \in Int /\ n * q \in Int
    BY <1>1, <1>3
  <2>6. PICK x \in Int, y \in Int, z \in Int : x = n * k /\ y = n * q /\ z = n * d
    BY <2>3, <2>5
  <2>7. (k - 1) * n = x - n /\ y = x + z /\ y <= g + n - 1 /\ z >= 0 /\ x - n >= 0
    BY <1>1, <2>1, <2>3, <2>4, <2>6
  <2>8. x - n \in 0..(g - 1)
    BY <2>6, <2>7
  <2> QED
    BY <2>7, <2>8
<1> QED
  BY <1>1, <1>2, <1>3

LEMMA TraceInGap ==
  ASSUME NEW profile \in Seq(Load) \ {<<>>}, NEW g \in Nat \ {0}
  PROVE  /\ make_trace(profile, g) \in Seq(BundleIn) \ {<<>>}
         /\ \A b \in DOMAIN make_trace(profile, g) :
              make_trace(profile, g)[b].ingress \in 0..(g - 1)
<1> DEFINE X == {r \in BundleIn : r.ingress \in 0..(g - 1)}
           arrival(c, k) == [cls |-> c.cls, size |-> c.size, ingress |-> (k - 1) * c.interval,
                             ttl |-> Ttl[c.cls]]
           number(c) == (g + c.interval - 1) \div c.interval
           train(c) == [k \in 1..number(c) |-> arrival(c, k)]
           s == [i \in DOMAIN profile |-> train(profile[i])]
<1>1. ASSUME NEW c \in Load PROVE train(c) \in Seq(X) \ {<<>>}
  <2>1. /\ c.cls \in Class /\ c.size \in 1..MaxSize /\ c.interval \in Nat \ {0}
        /\ Ttl[c.cls] \in Nat
    BY SizingAssumption DEF Load
  <2>2. number(c) \in Nat \ {0} /\ \A k \in 1..number(c) : (k - 1) * c.interval \in 0..(g - 1)
    BY <2>1, TrainInGap
  <2>3. ASSUME NEW k \in 1..number(c) PROVE arrival(c, k) \in X
    <3>1. PICK t \in 0..(g - 1) : t = (k - 1) * c.interval
      BY <2>2
    <3>2. arrival(c, k) = [cls |-> c.cls, size |-> c.size, ingress |-> t, ttl |-> Ttl[c.cls]]
      BY <3>1
    <3>3. t \in Int
      BY <3>1
    <3> HIDE DEF arrival
    <3> QED
      BY <2>1, <3>1, <3>2, <3>3 DEF BundleIn
  <2> HIDE DEF arrival, number, X
  <2>4. train(c) \in Seq(X) /\ Len(train(c)) = number(c)
    BY <2>2, <2>3
  <2> QED
    BY <2>2, <2>4
<1>2. DOMAIN profile = 1..Len(profile) /\ Len(profile) \in Nat \ {0}
      /\ \A i \in DOMAIN profile : profile[i] \in Load
  OBVIOUS
<1>3. make_trace(profile, g) = FlattenSeq(s)
  BY DEF make_trace
<1> HIDE DEF train, X
<1>4. s \in Seq(Seq(X) \ {<<>>}) /\ s # <<>>
  <2>1. s \in Seq(Seq(X) \ {<<>>}) /\ Len(s) = Len(profile)
    BY <1>1, <1>2
  <2> QED
    BY <1>2, <2>1
<1> HIDE DEF s
<1>5. FlattenSeq(s) \in Seq(X) \ {<<>>}
  BY <1>4, FlattenKeeps
<1>6. PICK t \in Seq(X) \ {<<>>} : t = make_trace(profile, g)
  BY <1>3, <1>5
<1>7. \A b \in DOMAIN t : t[b] \in X
  BY <1>6
<1>8. \A b \in DOMAIN t : t[b] \in BundleIn /\ t[b].ingress \in 0..(g - 1)
  BY <1>7 DEF X
<1>9. t \in Seq(BundleIn)
  BY <1>6, <1>8
<1> QED
  BY <1>6, <1>8, <1>9

-----------------------------------------------------------------------------
(* What the search works on: a trace within the gap, and one contact after *)
(* it with ten times the bits of all of it in every second.                *)
OneGap ==
  /\ gap \in Nat \ {0} /\ aware \in BOOLEAN
  /\ bundles \in BundleLists /\ bundles # <<>>
  /\ \A b \in Bundles : Ingress(b) \in 0..(gap - 1)
  /\ plan = DrainPlan(TotalBytes, gap)

(* The trial under way is the one for the middle of the bracket.           *)
TrialShape ==
  /\ lo \in Nat /\ hi \in Nat /\ Grid <= lo /\ lo <= hi /\ round \in 0..Iterations
  /\ config.policy = "strict_priority" /\ config.skip /\ (PriorityAware <=> aware)
  /\ round < Iterations => MaxQueueBytes = Mid(lo, hi) \div Grid
  /\ round = Iterations => pc = "done"

LEMMA TotalPositive ==
  ASSUME bundles \in BundleLists, bundles # <<>>
  PROVE  TotalBytes \in Nat \ {0}
<1>1. PICK b \in Bundles : TRUE
  <2>1. bundles \in Seq(BundleIn)
    BY DEF BundleLists
  <2>2. 1 \in DOMAIN bundles
    BY <2>1
  <2> QED
    BY <2>2 DEF Bundles
<1>2. Size(b) \in Nat /\ Size(b) > 0
  BY BundleFields
<1>3. {b} \subseteq Bundles /\ Bundles \subseteq Bundles
  OBVIOUS
<1>4. Bytes({b}) <= Bytes(Bundles) /\ Bytes({b}) = Size(b) /\ Bytes(Bundles) \in Nat
  BY <1>3, BytesMonotone, BytesFinite, BytesOfOne DEF Bytes
<1> QED
  BY <1>2, <1>4 DEF TotalBytes, Bundles

LEMMA DrainIsPlan ==
  ASSUME NEW total \in Nat \ {0}, NEW g \in Nat
  PROVE  /\ DrainPlan(total, g) \in Plan /\ DOMAIN DrainPlan(total, g) = {1}
         /\ DrainPlan(total, g)[1].start = g /\ DrainPlan(total, g)[1].end = g + 10
         /\ Budget(DrainPlan(total, g)[1]) = 800 * total
<1> DEFINE w == [start |-> g, end |-> g + 10, rate |-> total * 8 * 10]
<1>1. w.start = g /\ w.end = g + 10 /\ w.rate = 80 * total
  OBVIOUS
<1>2. w \in Window
  <2>1. g \in Int /\ g + 10 \in Int /\ total * 8 * 10 \in Nat /\ total * 8 * 10 > 0
    OBVIOUS
  <2> QED
    BY <2>1 DEF Window, ValidWindow
<1>3. DrainPlan(total, g) = <<w>>
  BY DEF DrainPlan
<1>4. Budget(w) = 800 * total
  <2>1. (g + 10 - g) * (80 * total) = 800 * total
    OBVIOUS
  <2> QED
    BY <1>1, <2>1 DEF Budget
<1> HIDE DEF w
<1>5. <<w>> \in Seq(Window) /\ DOMAIN <<w>> = {1} /\ Len(<<w>>) = 1 /\ <<w>>[1] = w
  BY <1>2
<1>6. Ordered(<<w>>) /\ Apart(<<w>>)
  BY <1>1, <1>5 DEF Ordered, Apart
<1> QED
  BY <1>1, <1>3, <1>4, <1>5, <1>6 DEF Plan

LEMMA MidBetween ==
  ASSUME NEW l \in Nat, NEW h \in Nat, l <= h
  PROVE  Mid(l, h) \in Nat /\ l <= Mid(l, h) /\ Mid(l, h) <= h
         /\ 2 * Mid(l, h) <= l + h /\ l + h <= 2 * Mid(l, h) + 1
BY DEF Mid

LEMMA QuotientOf ==
  ASSUME NEW x \in Nat, NEW n \in Nat \ {0}
  PROVE  x \div n \in Nat /\ \A m \in Nat : m <= x \div n <=> m * n <= x
<1>1. PICK q \in Int : q = x \div n /\ n * q <= x /\ x < n * q + n
  OBVIOUS
<1>2. ASSUME q < 0 PROVE FALSE
  <2>1. n * (q + 1) <= 0
    BY <1>2
  <2>2. n * (q + 1) = n * q + n
    BY <1>1
  <2> QED
    BY <1>1, <2>1, <2>2
<1>3. ASSUME NEW m \in Nat, m <= q PROVE m * n <= x
  <2>1. n * m <= n * q
    BY <1>1, <1>3
  <2>2. n * m \in Int /\ n * q \in Int /\ n * m = m * n
    BY <1>1
  <2> QED
    BY <1>1, <2>1, <2>2
<1>4. ASSUME NEW m \in Nat, q < m PROVE x < m * n
  <2>1. n * (q + 1) <= n * m
    BY <1>1, <1>4
  <2>2. n * (q + 1) = n * q + n /\ n * m \in Int /\ n * q \in Int /\ n * m = m * n
    BY <1>1
  <2> QED
    BY <1>1, <2>1, <2>2
<1> QED
  BY <1>1, <1>2, <1>3, <1>4

LEMMA SizingStarts ==
  ASSUME SizingInit
  PROVE  Starting /\ OneGap /\ TrialShape /\ lo = Grid /\ hi = Grid * TotalBytes /\ round = 0
<1>1. gap \in Nat \ {0} /\ aware \in BOOLEAN
  BY SizingAssumption DEF SizingInit
<1>2. PICK profile \in Seq(Load) \ {<<>>} : bundles = make_trace(profile, gap)
  BY SizingAssumption DEF SizingInit
<1>3. /\ bundles \in BundleLists /\ bundles # <<>>
      /\ \A b \in Bundles : Ingress(b) \in 0..(gap - 1)
  BY <1>1, <1>2, TraceInGap DEF BundleLists, Bundles, Ingress
<1>4. plan = DrainPlan(TotalBytes, gap) /\ TotalBytes \in Nat \ {0}
  BY <1>3, TotalPositive DEF SizingInit
<1>5. plan \in Plan
  BY <1>1, <1>4, DrainIsPlan
<1>6. lo = Grid /\ hi = Grid * TotalBytes /\ round = 0 /\ config = Trial(Mid(lo, hi)) /\ Fresh
  BY DEF SizingInit
<1>7. lo \in Nat /\ hi \in Nat /\ lo <= hi /\ Iterations \in Nat \ {0} /\ Grid \in Nat \ {0, 1}
  <2>1. PICK t \in Nat \ {0}, d \in Nat \ {0, 1} : t = TotalBytes /\ d = Grid
    BY <1>4, SizingAssumption
  <2>2. d * t \in Nat /\ d <= d * t
    OBVIOUS
  <2> QED
    BY <1>6, <2>1, <2>2, SizingAssumption
<1>8. Mid(lo, hi) \in Nat
  BY <1>7, MidBetween
<1>9. /\ config.policy = "strict_priority" /\ config.skip /\ (PriorityAware <=> aware)
      /\ MaxQueueBytes = Mid(lo, hi) \div Grid
  BY <1>1, <1>6 DEF Trial, PriorityAware, MaxQueueBytes
<1>10. MaxQueueBytes \in Nat
  BY <1>7, <1>8, <1>9, QuotientOf
<1>11. Starting
  BY <1>3, <1>5, <1>6, <1>10 DEF Starting, Fresh, NoTurn
<1>12. TrialShape
  BY <1>6, <1>7, <1>9 DEF TrialShape
<1> QED
  BY <1>1, <1>3, <1>4, <1>6, <1>11, <1>12 DEF OneGap

-----------------------------------------------------------------------------
(* What a trial keeps.  What is in the buffer (or was sent from it) was    *)
(* queued all at once; nothing is left behind but what died in the gap;    *)
(* and with class-blind admission, a bundle was taken if it fits beside    *)
(* those taken before it.                                                  *)
Held == {b \in Bundles \ arrivals : state[b] \notin {"queue_overflow", "ttl_expired"}}
Kept == {b \in Bundles : state[b] # "queue_overflow"}
KeptBefore(b) == {d \in Kept : Earlier(d, b)}
GapShape ==
  /\ cur = NoWindow => active = {}
  /\ \A b \in Bundles : /\ state[b] # "never_scheduled"
                        /\ state[b] = "ttl_expired" => Expiration(b) <= gap
                        /\ arrivals # {} => state[b] \in {"pending", "queue_overflow"}
  /\ Bytes(Held) <= MaxQueueBytes
  /\ ~aware =>
       /\ pc # "evict"
       /\ \A b \in Bundles \ arrivals :
            b \in Kept <=> Bytes(KeptBefore(b)) + Size(b) <= MaxQueueBytes

LEMMA GapStarts ==
  ASSUME Starting
  PROVE  GapShape
<1>1. Bundles \ arrivals = {} /\ active = {} /\ pc = "admit" /\ MaxQueueBytes \in Nat
      /\ \A b \in Bundles : state[b] = "pending"
  BY DEF Starting, Bundles
<1>2. Held = {}
  BY <1>1 DEF Held
<1>3. Bytes({}) = 0
  BY FS_EmptySet DEF Bytes, Cells
<1>4. Bytes(Held) <= MaxQueueBytes
  BY <1>1, <1>2, <1>3
<1> QED
  BY <1>1, <1>4 DEF GapShape

LEMMA OneContact ==
  ASSUME RunShape, OneGap
  PROVE  /\ DOMAIN plan = {1} /\ plan[1].start = gap /\ plan[1].end = gap + 10
         /\ Budget(plan[1]) = 800 * TotalBytes /\ TotalBytes \in Nat
         /\ cur \in {1, NoWindow}
         /\ arrivals # {} => cur = 1 /\ pc \in {"admit", "evict"} /\ Ready = arrivals
<1>1. /\ plan = DrainPlan(TotalBytes, gap) /\ gap \in Nat \ {0} /\ TotalBytes \in Nat \ {0}
      /\ \A b \in Bundles : Ingress(b) \in 0..(gap - 1)
  BY TotalPositive DEF OneGap
<1>2. DOMAIN plan = {1} /\ plan[1].start = gap /\ plan[1].end = gap + 10
      /\ Budget(plan[1]) = 800 * TotalBytes
  <2>1. PICK t \in Nat \ {0}, g \in Nat : t = TotalBytes /\ g = gap /\ plan = DrainPlan(t, g)
    BY <1>1
  <2>2. /\ DOMAIN DrainPlan(t, g) = {1} /\ DrainPlan(t, g)[1].start = g
        /\ DrainPlan(t, g)[1].end = g + 10 /\ Budget(DrainPlan(t, g)[1]) = 800 * t
    <3>1. t \in Nat \ {0} /\ g \in Nat
      BY <2>1
    <3> QED
      BY <3>1, DrainIsPlan
  <2> QED
    BY <2>1, <2>2
<1>3. cur \in {1, NoWindow}
  BY <1>2 DEF RunShape, WindowShape
<1>4. ASSUME NEW r \in arrivals
      PROVE  cur = 1 /\ pc \in {"admit", "evict"} /\ Ready = arrivals
  <2>1. arrivals \subseteq Bundles
    BY DEF RunShape, QueueShape
  <2>2. \A a \in arrivals : Ingress(a) \in Int /\ Ingress(a) <= gap + 10 /\ ~(Ingress(a) > gap + 10)
    BY <1>1, <2>1
  <2>3. \A w \in DOMAIN plan : w < Pos \/ (w = cur /\ pc \notin {"admit", "evict"}) =>
          Ingress(r) > plan[w].end
    BY DEF RunShape, ArrivalShape
  <2>4. ~(1 < Pos \/ (1 = cur /\ pc \notin {"admit", "evict"}))
    BY <1>2, <2>2, <2>3
  <2>5. Len(plan) \in Nat /\ DOMAIN plan = 1..Len(plan)
    BY PosParts DEF RunShape
  <2>6. Len(plan) >= 1
    BY <1>2, <2>5
  <2>7. cur # NoWindow
    BY <2>4, <2>5, <2>6 DEF Pos
  <2>8. cur = 1
    BY <1>3, <2>7
  <2>9. Ready = arrivals
    BY <1>2, <2>2, <2>8 DEF Ready
  <2> QED
    BY <2>4, <2>8, <2>9
<1> QED
  BY <1>1, <1>2, <1>3, <1>4

(* The contact carries everything.                                         *)
LEMMA AllSent ==
  ASSUME RunShape, OneGap, TrialShape, pc = "close"
  PROVE  Waiting = {}
<1>1. cur = 1 /\ plan[1].end = gap + 10 /\ Budget(plan[1]) = 800 * TotalBytes /\ TotalBytes \in Nat
  <2>1. cur # NoWindow
    BY DEF RunShape, WindowShape, InWindow, Draining
  <2> QED
    BY <2>1, OneContact
<1>2. bundles \in BundleLists /\ Waiting \subseteq Bundles /\ contact \in [Bundles -> Int]
  <2>1. DOMAIN plan \cup {NoWindow} \subseteq Int
    BY OneContact DEF NoWindow
  <2> QED
    BY <2>1 DEF RunShape, QueueShape, FateShape, Waiting
<1>3. SUFFICES ASSUME NEW u \in Waiting PROVE FALSE
  OBVIOUS
<1>4. gap \in Nat /\ Ingress(u) \in 0..(gap - 1)
  BY <1>2 DEF OneGap
<1>5. u \in Left
  <2>1. config.policy \notin Wfq
    BY DEF TrialShape, Wfq
  <2>2. Ingress(u) < plan[cur].end
    BY <1>1, <1>4
  <2> QED
    BY <2>1, <2>2 DEF Left, Listed, Eligible
<1>6. Crowded(u)
  <2>1. ~StopsOnNonFit
    BY DEF TrialShape, StopsOnNonFit
  <2> QED
    BY <1>5, <2>1 DEF RunShape, DrainShape, Draining
<1>7. AheadOf(u) \subseteq Bundles /\ u \in Bundles /\ {u} \subseteq Bundles /\ Bundles \subseteq Bundles
  BY <1>2 DEF AheadOf, SentFirst, SentIn
<1>8. /\ Bytes(AheadOf(u)) \in Nat /\ Bytes(AheadOf(u)) <= TotalBytes
      /\ Size(u) \in Nat /\ Size(u) <= TotalBytes /\ Size(u) > 0
  <2>1. Bytes(AheadOf(u)) \in Nat /\ Bytes(AheadOf(u)) <= Bytes(Bundles)
    BY <1>2, <1>7, BytesFinite, BytesMonotone
  <2>2. Bytes({u}) <= Bytes(Bundles) /\ Bytes({u}) = Size(u) /\ Size(u) \in Nat /\ Size(u) > 0
    BY <1>2, <1>7, BytesMonotone, BytesOfOne, BundleFields DEF Bytes
  <2> QED
    BY <2>1, <2>2 DEF TotalBytes, Bundles
<1>9. 8 * (Bytes(AheadOf(u)) + Size(u)) > 800 * TotalBytes
  BY <1>1, <1>6 DEF Crowded
<1> QED
  BY <1>1, <1>8, <1>9

-----------------------------------------------------------------------------
(* How a step changes what becomes of a bundle.                            *)
LEMMA FateChanges ==
  ASSUME RunShape, [Next]_vars, NEW b \in Bundles, state'[b] # state[b]
  PROVE  /\ state[b] = "pending"
         /\ \/ state'[b] = "queue_overflow" /\ pc \in {"admit", "evict"}
            \/ state'[b] = "ttl_expired" /\ Expire /\ b \in Dead
            \/ state'[b] = "delivered" /\ pc \in {"drain", "serve"}
            \/ state'[b] = "never_scheduled" /\ WriteOff /\ b \in Waiting
<1>0. DOMAIN state = Bundles /\ QueueShape
  BY DEF RunShape, QueueShape
<1>1. CASE OverflowOne
  <2>1. PICK x \in Offered : state' = Marked({x}, "queue_overflow")
    BY <1>1 DEF OverflowOne
  <2>2. pc \in {"admit", "evict"} /\ state[x] = "pending"
    BY <1>0, OfferedArrives DEF Offered
  <2> QED
    BY <1>0, <2>1, <2>2 DEF Marked
<1>2. CASE EvictOne
  <2>1. PICK x \in Victim(incoming) : state' = Marked({x}, "queue_overflow") /\ pc = "evict"
    BY <1>2 DEF EvictOne
  <2>2. state[x] = "pending"
    BY <1>0, <2>1 DEF Victim, Candidates, QueueShape, Lasting
  <2> QED
    BY <1>0, <2>1, <2>2 DEF Marked
<1>3. CASE Expire
  <2>1. state' = Marked(Dead, "ttl_expired") /\ \A x \in Dead : state[x] = "pending"
    BY <1>3 DEF Expire, Dead, Waiting
  <2> QED
    BY <1>0, <1>3, <2>1 DEF Marked
<1>4. CASE WriteOff
  <2>1. state' = Marked(Waiting, "never_scheduled") /\ \A x \in Waiting : state[x] = "pending"
    BY <1>4 DEF WriteOff, Waiting
  <2> QED
    BY <1>0, <1>4, <2>1 DEF Marked
<1>5. CASE Sends
  <2>1. PICK x \in todo : state[x] = "pending" /\ state' = Marked({x}, "delivered")
                          /\ pc \in {"drain", "serve"}
    <3>1. PICK x \in todo : Transmit(x) /\ pc \in {"drain", "serve"}
      BY <1>5 DEF Sends, Serving
    <3>2. x \in Waiting
      BY <1>0, <3>1 DEF QueueShape
    <3> QED
      BY <3>1, <3>2 DEF Transmit, Waiting
  <2> QED
    BY <1>0, <2>1 DEF Marked
<1> QED
  BY <1>1, <1>2, <1>3, <1>4, <1>5, FatesElsewhere

(* Only an arrival that is offered leaves the arrivals.                    *)
LEMMA ArrivalsChange ==
  [Next]_vars =>
    /\ AdmitOne \/ OverflowOne \/ arrivals' = arrivals
    /\ AdmitOne \/ active' \subseteq active
    /\ pc' = "evict" => pc = "evict" \/ BeginEviction
BY DEF Next, Run, Admission, Drain, RoundRobin, AdmitOne, BeginEviction, EvictOne,
   OverflowOne, AdmissionOver, Expire, BeginDrain, SendForemost, DeferForemost,
   DrainOver, BeginRound, BeginTurn, SendNext, PassNext, EndTurn, RoundsOver,
   CloseWindow, WriteOff, Done, vars, queue, Waiting

LEMMA BufferEmpties ==
  ASSUME RunShape, OneGap, TrialShape, GapShape, [Next]_vars
  PROVE  cur' = NoWindow => active' = {}
<1>1. CASE CloseWindow
  <2>1. pc = "close" /\ active' = Waiting
    BY <1>1 DEF CloseWindow
  <2> QED
    BY <2>1, AllSent
<1>2. CASE ~CloseWindow
  <2>1. SUFFICES ASSUME cur' = NoWindow PROVE active' = {}
    OBVIOUS
  <2>2. cur = NoWindow /\ active = {}
    BY <1>2, <2>1, WalkKept DEF GapShape
  <2>3. arrivals = {}
    BY <2>2, OneContact DEF NoWindow
  <2>4. ~AdmitOne
    BY <2>3, OfferedArrives DEF AdmitOne, RunShape
  <2> QED
    BY <2>2, <2>4, ArrivalsChange
<1> QED
  BY <1>1, <1>2

LEMMA FatesInGap ==
  ASSUME RunShape, OneGap, TrialShape, GapShape, [Next]_vars, NEW b \in Bundles
  PROVE  /\ state'[b] # "never_scheduled"
         /\ state'[b] = "ttl_expired" => Expiration(b) <= gap
         /\ arrivals # {} => state'[b] \in {"pending", "queue_overflow"}
<1>1. CASE state'[b] = state[b]
  BY <1>1 DEF GapShape
<1>2. CASE state'[b] # state[b]
  <2>1. state[b] = "pending"
    BY <1>2, FateChanges
  <2>2. CASE state'[b] = "queue_overflow" /\ pc \in {"admit", "evict"}
    BY <2>2
  <2>3. CASE state'[b] = "ttl_expired" /\ Expire /\ b \in Dead
    <3>1. b \in Waiting /\ Expiration(b) <= ExpiryTime /\ pc = "expire"
      BY <2>3 DEF Dead, Expire
    <3>2. cur = 1
      BY <3>1, OneContact DEF GapShape, Waiting
    <3>3. ExpiryTime = gap
      BY <3>2, OneContact DEF ExpiryTime, NoWindow
    <3> QED
      BY <2>3, <3>1, <3>3, OneContact
  <2>4. CASE state'[b] = "delivered" /\ pc \in {"drain", "serve"}
    BY <2>4, OneContact
  <2>5. CASE state'[b] = "never_scheduled" /\ WriteOff /\ b \in Waiting
    <3>1. cur = NoWindow /\ b \in active
      BY <2>5 DEF WriteOff, RunShape, HomeShape, Waiting
    <3> QED
      BY <3>1 DEF GapShape
  <2> QED
    BY <1>2, <2>2, <2>3, <2>4, <2>5, FateChanges
<1> QED
  BY <1>1, <1>2

LEMMA BytesCarry ==
  ASSUME bundles' = bundles, NEW S, Held' = S
  PROVE  Bytes(Held)' = Bytes(S)
<1>1. Cells(Held)' = {x \in S \X (1..MaxSize) : x[2] <= Size(x[1])'}
  BY DEF Cells
<1>2. \A b : Size(b)' = Size(b)
  BY DEF Size
<1>3. Cells(Held)' = Cells(S)
  BY <1>1, <1>2 DEF Cells
<1> QED
  BY <1>3 DEF Bytes

LEMMA HeldFits ==
  ASSUME RunShape, RunShape', OneGap, TrialShape, GapShape, [Next]_vars
  PROVE  Bytes(Held)' <= MaxQueueBytes'
<1>1. /\ bundles' = bundles /\ Bundles' = Bundles /\ bundles \in BundleLists
      /\ MaxQueueBytes' = MaxQueueBytes /\ MaxQueueBytes \in Nat /\ DOMAIN state' = Bundles
  BY ConfigKept DEF Bundles, MaxQueueBytes, RunShape, QueueShape, CapShape
<1>2. Held \subseteq Bundles /\ Bytes(Held) \in Nat /\ Bytes(Held) <= MaxQueueBytes
  BY <1>1, BytesFinite DEF Held, GapShape
<1>3. CASE arrivals' = arrivals
  <2>1. Held' \subseteq Held
    <3>1. SUFFICES ASSUME NEW b \in Bundles \ arrivals,
                          state'[b] \notin {"queue_overflow", "ttl_expired"}
                   PROVE  b \in Held
      BY <1>1, <1>3 DEF Held
    <3>2. state'[b] # state[b] => state[b] = "pending"
      BY FateChanges
    <3> QED
      BY <3>1, <3>2 DEF Held
  <2>2. PICK S : S = Held' /\ S \subseteq Held
    BY <2>1
  <2>3. Bytes(S) \in Nat /\ Bytes(S) <= Bytes(Held)
    BY <1>1, <1>2, <2>2, BytesMonotone, BytesFinite
  <2>4. Bytes(Held)' = Bytes(S)
    BY <1>1, <2>2, BytesCarry
  <2> QED
    BY <1>1, <1>2, <2>3, <2>4
<1>4. CASE arrivals' # arrivals
  <2>1. AdmitOne \/ OverflowOne
    BY <1>4, ArrivalsChange
  <2>2. pc' = "admit" /\ arrivals # {}
    BY <2>1, OfferedArrives DEF AdmitOne, OverflowOne, RunShape
  <2>3. Held' \subseteq Waiting' /\ Waiting' \subseteq Bundles
    <3>1. ASSUME NEW b \in Held' PROVE b \in Waiting'
      <4>1. b \in Bundles /\ b \notin arrivals' /\ state'[b] # "queue_overflow"
        BY <1>1 DEF Held
      <4>2. state'[b] = "pending"
        BY <2>2, <4>1, FatesInGap
      <4>3. b \in active'
        BY <1>1, <4>1, <4>2 DEF RunShape, HomeShape
      <4> QED
        BY <4>2, <4>3 DEF Waiting
    <3>2. active' \subseteq Bundles
      BY <1>1 DEF RunShape, QueueShape
    <3> QED
      BY <3>1, <3>2 DEF Waiting
  <2>4. PICK S, W : S = Held' /\ W = Waiting' /\ S \subseteq W /\ W \subseteq Bundles
    BY <2>3
  <2>5. Bytes(S) \in Nat /\ Bytes(S) <= Bytes(W) /\ Bytes(W) \in Nat
    BY <1>1, <2>4, BytesMonotone, BytesFinite
  <2>6. Bytes(Held)' = Bytes(S) /\ Bytes(Waiting)' = Bytes(W)
    BY <1>1, <2>4, BytesCarry, BytesKept
  <2>7. activeBytes' = Bytes(Waiting)' /\ activeBytes' <= MaxQueueBytes'
    BY <2>2 DEF RunShape, QueueExact
  <2> QED
    BY <1>1, <2>5, <2>6, <2>7
<1> QED
  BY <1>3, <1>4

-----------------------------------------------------------------------------
(* The order of arrival.                                                   *)
LEMMA EarlierOnlyOnce ==
  ASSUME bundles \in BundleLists, NEW a \in Bundles, NEW b \in Bundles, Earlier(a, b)
  PROVE  ~Earlier(b, a) /\ a # b
<1>1. Ingress(a) \in Int /\ Ingress(b) \in Int
  BY BundleTimes
<1>2. a \in Int /\ b \in Int
  <2>1. bundles \in Seq(BundleIn)
    BY DEF BundleLists
  <2> QED
    BY <2>1 DEF Bundles
<1> QED
  BY <1>1, <1>2 DEF Earlier

LEMMA EarlierSteady == bundles' = bundles => \A a, b : Earlier(a, b)' <=> Earlier(a, b)
BY DEF Earlier, Ingress

(* Class-blind admission sees the bundles taken so far, in the buffer.     *)
LEMMA TakenSoFar ==
  ASSUME RunShape, OneGap, GapShape, NEW x \in Offered
  PROVE  KeptBefore(x) = Waiting /\ (Fits(x) <=> Bytes(KeptBefore(x)) + Size(x) <= MaxQueueBytes)
<1>1. /\ bundles \in BundleLists /\ x \in arrivals /\ x \in Bundles /\ arrivals \subseteq Bundles
      /\ active \subseteq Bundles /\ active \cap arrivals = {} /\ pc # "done"
  BY OfferedArrives DEF RunShape, QueueShape, Lasting
<1>2. /\ \A a \in Bundles \ arrivals : Earlier(a, x)
      /\ \A r \in arrivals \ {x} : Earlier(x, r)
  BY <1>1, OneContact, OfferedFirst DEF RunShape, ArrivalShape, Earliest
<1>3. ASSUME NEW d \in Bundles PROVE d \in KeptBefore(x) <=> d \in Waiting
  <2>1. CASE d \in arrivals
    <3>1. ~Earlier(d, x)
      BY <1>1, <1>2, <2>1, EarlierOnlyOnce
    <3> QED
      BY <1>1, <2>1, <3>1 DEF KeptBefore, Waiting
  <2>2. CASE d \notin arrivals
    <3>1. Earlier(d, x) /\ state[d] \in {"pending", "queue_overflow"}
      BY <1>1, <1>2, <2>2 DEF GapShape
    <3>2. state[d] = "pending" => d \in active
      BY <2>2 DEF RunShape, HomeShape
    <3> QED
      BY <3>1, <3>2 DEF KeptBefore, Kept, Waiting
  <2> QED
    BY <2>1, <2>2
<1>4. KeptBefore(x) = Waiting
  BY <1>1, <1>3 DEF KeptBefore, Kept, Waiting
<1>5. activeBytes = Bytes(Waiting)
  BY <1>1 DEF RunShape, QueueExact
<1> QED
  BY <1>4, <1>5 DEF Fits

LEMMA BlindCarry ==
  ASSUME bundles' = bundles, NEW b, NEW S, KeptBefore(b)' = S
  PROVE  Bytes(KeptBefore(b))' = Bytes(S) /\ Size(b)' = Size(b)
<1>1. Cells(KeptBefore(b))' = {x \in S \X (1..MaxSize) : x[2] <= Size(x[1])'}
  BY DEF Cells
<1>2. \A d : Size(d)' = Size(d)
  BY DEF Size
<1>3. Cells(KeptBefore(b))' = Cells(S)
  BY <1>1, <1>2 DEF Cells
<1> QED
  BY <1>2, <1>3 DEF Bytes

LEMMA BlindStep ==
  ASSUME RunShape, RunShape', OneGap, TrialShape, GapShape, [Next]_vars, ~aware
  PROVE  /\ pc' # "evict"
         /\ \A b \in Bundles \ arrivals' :
              b \in Kept' <=> Bytes(KeptBefore(b))' + Size(b)' <= MaxQueueBytes
<1>1. /\ bundles' = bundles /\ Bundles' = Bundles /\ bundles \in BundleLists
      /\ DOMAIN state' = Bundles /\ arrivals \subseteq Bundles
      /\ \A a, b : Earlier(a, b)' <=> Earlier(a, b)
  BY ConfigKept, EarlierSteady DEF Bundles, RunShape, QueueShape
<1>2. pc # "evict" /\ ~PriorityAware
  BY DEF GapShape, TrialShape
<1>3. pc' # "evict"
  BY <1>2, ArrivalsChange DEF BeginEviction
<1>4. ASSUME NEW b \in Bundles, KeptBefore(b)' = KeptBefore(b), b \in Kept' <=> b \in Kept,
             b \in Kept <=> Bytes(KeptBefore(b)) + Size(b) <= MaxQueueBytes
      PROVE  b \in Kept' <=> Bytes(KeptBefore(b))' + Size(b)' <= MaxQueueBytes
  <2>1. PICK S : S = KeptBefore(b)
    OBVIOUS
  <2>2. Bytes(KeptBefore(b))' = Bytes(S) /\ Size(b)' = Size(b)
    BY <1>1, <1>4, <2>1, BlindCarry
  <2> QED
    BY <1>4, <2>1, <2>2
<1>5. CASE ~AdmitOne /\ ~OverflowOne
  <2>1. arrivals' = arrivals
    BY <1>5, ArrivalsChange
  <2>2. ~EvictOne
    BY <1>2 DEF EvictOne
  <2>3. \A b \in Bundles : state'[b] = "queue_overflow" <=> state[b] = "queue_overflow"
    <3>1. OverflowKept
      BY <1>5, <2>2, OverflowByAdmission DEF RunShape
    <3> QED
      BY <3>1, FateChanges DEF OverflowKept
  <2>4. Kept' = Kept
    BY <1>1, <2>3 DEF Kept
  <2>5. \A b : KeptBefore(b)' = KeptBefore(b)
    BY <1>1, <2>4 DEF KeptBefore
  <2>6. \A b \in Bundles \ arrivals :
          b \in Kept <=> Bytes(KeptBefore(b)) + Size(b) <= MaxQueueBytes
    BY DEF GapShape
  <2> QED
    BY <1>3, <1>4, <2>1, <2>4, <2>5, <2>6
<1>6. CASE AdmitOne \/ OverflowOne
  <2>1. PICK x \in Offered :
          /\ arrivals' = arrivals \ {x}
          /\ \/ Fits(x) /\ state' = state
             \/ ~Fits(x) /\ state' = Marked({x}, "queue_overflow")
    BY <1>6 DEF AdmitOne, Admit, OverflowOne
  <2>2. /\ x \in arrivals /\ x \in Bundles /\ state[x] = "pending"
        /\ \A a \in Bundles \ arrivals : Earlier(a, x)
    BY <2>1, OfferedArrives DEF RunShape, ArrivalShape
  <2>3. \A d \in Bundles : d # x => state'[d] = state[d]
    BY <1>1, <2>1 DEF Marked
  <2>4. x \in Kept' <=> Fits(x)
    <3>1. QueueShape
      BY DEF RunShape
    <3>2. ~Fits(x) => state'[x] = "queue_overflow"
      BY <2>1, <2>2, <3>1 DEF Marked, QueueShape
    <3> QED
      BY <1>1, <2>1, <2>2, <3>2 DEF Kept
  <2>5. \A d \in Bundles : d # x => (d \in Kept' <=> d \in Kept)
    BY <1>1, <2>3 DEF Kept
  <2>6. x \in Kept
    BY <2>2 DEF Kept
  <2>7. Kept \subseteq Bundles /\ Kept' \subseteq Bundles
    BY <1>1 DEF Kept
  <2>8. ASSUME NEW b \in Bundles, ~Earlier(x, b) PROVE KeptBefore(b)' = KeptBefore(b)
    BY <1>1, <2>5, <2>7, <2>8 DEF KeptBefore
  <2>9. ASSUME NEW b \in Bundles \ arrivals
        PROVE  b \in Kept' <=> Bytes(KeptBefore(b))' + Size(b)' <= MaxQueueBytes
    <3>1. ~Earlier(x, b) /\ b # x /\ b \in Bundles
      BY <1>1, <2>2, EarlierOnlyOnce
    <3>2. b \in Kept <=> Bytes(KeptBefore(b)) + Size(b) <= MaxQueueBytes
      BY <2>9 DEF GapShape
    <3> QED
      BY <1>4, <2>5, <2>8, <3>1, <3>2
  <2>10. x \in Kept' <=> Bytes(KeptBefore(x))' + Size(x)' <= MaxQueueBytes
    <3>1. ~Earlier(x, x)
      BY <1>1, <2>2, EarlierOnlyOnce
    <3>2. KeptBefore(x)' = KeptBefore(x)
      BY <2>2, <2>8, <3>1
    <3>3. PICK S : S = KeptBefore(x)
      OBVIOUS
    <3>4. Bytes(KeptBefore(x))' = Bytes(S) /\ Size(x)' = Size(x)
      BY <1>1, <3>2, <3>3, BlindCarry
    <3>5. Fits(x) <=> Bytes(KeptBefore(x)) + Size(x) <= MaxQueueBytes
      BY <2>1, TakenSoFar
    <3> QED
      BY <2>4, <3>3, <3>4, <3>5
  <2>11. \A b \in Bundles \ arrivals' : b = x \/ b \in Bundles \ arrivals
    BY <2>1
  <2> QED
    BY <1>3, <2>9, <2>10, <2>11
<1> QED
  BY <1>5, <1>6

LEMMA GapStep ==
  RunShape /\ RunShape' /\ OneGap /\ TrialShape /\ GapShape /\ [Next]_vars
    /\ gap' = gap /\ aware' = aware => GapShape'
<1> SUFFICES ASSUME RunShape, RunShape', OneGap, TrialShape, GapShape, [Next]_vars,
                    gap' = gap, aware' = aware
             PROVE  GapShape'
  OBVIOUS
<1>1. Bundles' = Bundles /\ bundles' = bundles /\ MaxQueueBytes' = MaxQueueBytes
      /\ \A b : Expiration(b)' = Expiration(b)
  BY ConfigKept DEF Bundles, MaxQueueBytes, Expiration, Ingress
<1>2. cur' = NoWindow => active' = {}
  BY BufferEmpties
<1>3. arrivals' # {} => arrivals # {}
  BY ArrivalsChange DEF AdmitOne, Admit, OverflowOne
<1>4. \A b \in Bundles : /\ state'[b] # "never_scheduled"
                         /\ state'[b] = "ttl_expired" => Expiration(b) <= gap
                         /\ arrivals' # {} => state'[b] \in {"pending", "queue_overflow"}
  BY <1>3, FatesInGap
<1>5. Bytes(Held)' <= MaxQueueBytes'
  BY HeldFits
<1>6. ~aware => /\ pc' # "evict"
                /\ \A b \in Bundles \ arrivals' :
                     b \in Kept' <=> Bytes(KeptBefore(b))' + Size(b)' <= MaxQueueBytes'
  BY <1>1, BlindStep
<1>7. (cur = NoWindow => active = {})'
  BY <1>2
<1>8. (\A b \in Bundles : /\ state[b] # "never_scheduled"
                          /\ state[b] = "ttl_expired" => Expiration(b) <= gap
                          /\ arrivals # {} => state[b] \in {"pending", "queue_overflow"})'
  BY <1>1, <1>4
<1>9. (Bytes(Held) <= MaxQueueBytes)'
  BY <1>5
<1>10. (~aware =>
          /\ pc # "evict"
          /\ \A b \in Bundles \ arrivals :
               b \in Kept <=> Bytes(KeptBefore(b)) + Size(b) <= MaxQueueBytes)'
  BY <1>1, <1>6
<1> QED
  BY <1>7, <1>8, <1>9, <1>10 DEF GapShape

-----------------------------------------------------------------------------
(* With class-blind admission there is one set of bundles that each take   *)
(* what room those before leave them.                                      *)
IsKept(K, cap) ==
  \A b \in Bundles : b \in K <=> Bytes({d \in K : Earlier(d, b)}) + Size(b) <= cap

LEMMA EarlierChains ==
  ASSUME bundles \in BundleLists, NEW a \in Bundles, NEW b \in Bundles, NEW c \in Bundles,
         Earlier(a, b), Earlier(b, c)
  PROVE  Earlier(a, c)
<1>1. Ingress(a) \in Int /\ Ingress(b) \in Int /\ Ingress(c) \in Int
  BY BundleTimes
<1>2. a \in Int /\ b \in Int /\ c \in Int
  <2>1. bundles \in Seq(BundleIn)
    BY DEF BundleLists
  <2> QED
    BY <2>1 DEF Bundles
<1> QED
  BY <1>1, <1>2 DEF Earlier

LEMMA SomeFirst ==
  ASSUME bundles \in BundleLists, NEW D, D \subseteq Bundles, D # {}
  PROVE  \E b \in D : \A d \in D : ~Earlier(d, b)
<1> DEFINE before(b) == {d \in Bundles : Earlier(d, b)}
           T == {n \in Nat : \E b \in D : n = Bytes(before(b))}
<1>1. \A b \in D : before(b) \subseteq Bundles /\ Bytes(before(b)) \in Nat
  BY BytesFinite
<1>2. T \in SUBSET Nat /\ T # {}
  BY <1>1
<1>3. PICK m \in T : \A n \in T : m <= n
  BY <1>2, LeastNatural
<1>4. PICK b \in D : m = Bytes(before(b))
  BY <1>3
<1>5. ASSUME NEW d \in D, Earlier(d, b) PROVE FALSE
  <2>1. d \in Bundles /\ b \in Bundles
    OBVIOUS
  <2>2. d \notin before(d) /\ before(d) \cup {d} \subseteq before(b)
    <3>1. \A e \in before(d) : Earlier(e, b)
      BY <1>5, <2>1, EarlierChains
    <3>2. ~Earlier(d, d)
      BY <2>1, EarlierOnlyOnce
    <3> QED
      BY <1>5, <2>1, <3>1, <3>2
  <2> HIDE DEF before
  <2>3. before(d) \subseteq Bundles /\ before(b) \subseteq Bundles
    BY <1>1
  <2>4. Bytes(before(d) \cup {d}) = Bytes(before(d)) + Size(d)
    BY <2>1, <2>2, <2>3, BytesWith
  <2>5. Bytes(before(d) \cup {d}) <= Bytes(before(b))
    BY <2>2, <2>3, BytesMonotone
  <2>6. Size(d) \in Nat /\ Size(d) > 0 /\ Bytes(before(d)) \in Nat /\ Bytes(before(b)) \in Nat
    BY <1>1, <2>1, BundleFields
  <2>7. Bytes(before(d)) < m
    BY <1>4, <2>4, <2>5, <2>6
  <2>8. Bytes(before(d)) \in T
    BY <2>6 DEF T
  <2> QED
    BY <1>3, <1>4, <2>6, <2>7, <2>8
<1> QED
  BY <1>5

LEMMA KeptOnce ==
  ASSUME bundles \in BundleLists, NEW K \in SUBSET Bundles, NEW L \in SUBSET Bundles,
         NEW cap, IsKept(K, cap), IsKept(L, cap)
  PROVE  K = L
<1> DEFINE D == (K \ L) \cup (L \ K)
<1>1. SUFFICES ASSUME D # {} PROVE FALSE
  OBVIOUS
<1>2. D \subseteq Bundles
  OBVIOUS
<1>3. PICK b \in D : \A d \in D : ~Earlier(d, b)
  <2> HIDE DEF D
  <2> QED
    BY <1>1, <1>2, SomeFirst
<1>4. {d \in K : Earlier(d, b)} = {d \in L : Earlier(d, b)}
  BY <1>3
<1> QED
  BY <1>3, <1>4 DEF IsKept

LEMMA KeptIs ==
  ASSUME bundles \in BundleLists, NEW K \in SUBSET Bundles, NEW cap, IsKept(K, cap)
  PROVE  KeptBlindly(cap) = K
<1>1. KeptBlindly(cap) = CHOOSE L \in SUBSET Bundles : IsKept(L, cap)
  BY Zenon DEF KeptBlindly, IsKept
<1>2. \A L \in SUBSET Bundles : IsKept(L, cap) => L = K
  BY KeptOnce
<1> QED
  BY <1>1, <1>2

LEMMA KeptAll ==
  ASSUME bundles \in BundleLists
  PROVE  KeptBlindly(TotalBytes) = Bundles
<1>1. ASSUME NEW b \in Bundles
      PROVE  Bytes({d \in Bundles : Earlier(d, b)}) + Size(b) <= TotalBytes
  <2> DEFINE S == {d \in Bundles : Earlier(d, b)}
  <2>1. b \notin S /\ S \subseteq Bundles /\ S \cup {b} \subseteq Bundles /\ Bundles \subseteq Bundles
    BY EarlierOnlyOnce
  <2> HIDE DEF S
  <2>2. Bytes(S \cup {b}) = Bytes(S) + Size(b) /\ Bytes(S \cup {b}) <= Bytes(Bundles)
    BY <2>1, BytesWith, BytesMonotone
  <2> QED
    BY <2>2 DEF S, TotalBytes, Bundles
<1>2. IsKept(Bundles, TotalBytes)
  BY <1>1 DEF IsKept
<1> QED
  BY <1>2, KeptIs

LEMMA KeptNone ==
  ASSUME bundles \in BundleLists
  PROVE  KeptBlindly(0) = {}
<1>1. ASSUME NEW b \in Bundles
      PROVE  ~(Bytes({d \in {} : Earlier(d, b)}) + Size(b) <= 0)
  <2>1. Bytes({}) = 0 /\ {d \in {} : Earlier(d, b)} = {}
    BY FS_EmptySet DEF Bytes, Cells
  <2>2. Size(b) \in Nat /\ Size(b) > 0
    BY BundleFields
  <2> QED
    BY <2>1, <2>2
<1>2. IsKept({}, 0) /\ {} \in SUBSET Bundles
  BY <1>1 DEF IsKept
<1> QED
  BY <1>2, KeptIs

-----------------------------------------------------------------------------
(* What the end of a trial tells.                                          *)
LEMMA ProtectedFates ==
  ASSUME RunShape, OneGap, GapShape, pc = "done", NEW b \in Bundles
  PROVE  /\ state[b] \in {"delivered", "queue_overflow", "ttl_expired"}
         /\ state[b] = "ttl_expired" => Expiration(b) <= gap
         /\ state[b] = "delivered" => Expiration(b) > gap
         /\ arrivals = {}
<1>1. state[b] \in Terminal /\ arrivals = {}
  BY OneContact DEF RunShape, HomeShape
<1>2. state[b] = "delivered" => Expiration(b) > gap
  <2>1. contact[b] \in DOMAIN plan \cup {NoWindow}
    BY DEF RunShape, FateShape
  <2> QED
    BY <2>1, OneContact DEF RunShape, FateShape, FatesMatchDeadlines
<1> QED
  BY <1>1, <1>2 DEF Terminal, GapShape

LEMMA DeadIsUnsafe ==
  ASSUME RunShape, OneGap, GapShape, pc = "done", ~AllLive
  PROVE  ~all_protected_delivered
<1>1. PICK b \in ProtectedSet : ~(Expiration(b) > gap)
  BY DEF AllLive
<1>2. b \in Bundles /\ Protected(b)
  BY DEF ProtectedSet
<1> QED
  BY <1>1, <1>2, ProtectedFates DEF all_protected_delivered, Bundles

LEMMA SafeIsEnough ==
  ASSUME RunShape, OneGap, GapShape, pc = "done", all_protected_delivered
  PROVE  Bytes(ProtectedSet) <= MaxQueueBytes
<1>1. bundles \in BundleLists /\ MaxQueueBytes \in Nat /\ Held \subseteq Bundles
  BY DEF RunShape, QueueShape, CapShape, Held
<1>2. ProtectedSet \subseteq Held
  <2>1. ASSUME NEW b \in ProtectedSet PROVE b \in Held
    <3>1. b \in Bundles /\ state[b] = "delivered"
      BY DEF ProtectedSet, all_protected_delivered, Bundles
    <3>2. arrivals = {}
      BY <3>1, ProtectedFates
    <3> QED
      BY <3>1, <3>2 DEF Held
  <2> QED
    BY <2>1
<1>3. Bytes(ProtectedSet) <= Bytes(Held) /\ Bytes(Held) \in Nat /\ Bytes(ProtectedSet) \in Nat
  BY <1>1, <1>2, BytesMonotone, BytesFinite
<1> QED
  BY <1>1, <1>3 DEF GapShape

LEMMA EnoughIsSafe ==
  ASSUME RunShape, OneGap, TrialShape, GapShape, pc = "done", AllLive, aware,
         Bytes(ProtectedSet) <= MaxQueueBytes
  PROVE  all_protected_delivered
<1>1. SUFFICES ASSUME NEW b \in Bundles, Protected(b), state[b] # "delivered" PROVE FALSE
  BY DEF all_protected_delivered, Bundles
<1>2. b \in ProtectedSet /\ Expiration(b) > gap
  BY <1>1 DEF ProtectedSet, AllLive
<1>3. bundles \in BundleLists /\ gap \in Nat /\ MaxQueueBytes \in Nat /\ PriorityAware
  BY DEF RunShape, QueueShape, CapShape, OneGap, TrialShape
<1>4. Expiration(b) \in Int
  BY <1>3, BundleTimes
<1>5. state[b] = "queue_overflow"
  BY <1>1, <1>2, <1>3, <1>4, ProtectedFates
<1>6. Bytes(AtLeastAsUrgent(b)) > MaxQueueBytes
  BY <1>3, <1>5 DEF RunShape, UrgentKeepRoom
<1>7. AtLeastAsUrgent(b) \subseteq ProtectedSet /\ ProtectedSet \subseteq Bundles
  <2>1. Rank(b) \in Nat /\ Rank(b) <= 1
    BY <1>1, <1>3, RanksAreNumbers DEF Protected, PROTECTED_MAX_RANK
  <2>2. ASSUME NEW u \in Bundles, Rank(u) <= Rank(b) PROVE Rank(u) <= 1
    BY <1>3, <2>1, <2>2, RanksAreNumbers
  <2> QED
    BY <2>2 DEF AtLeastAsUrgent, ProtectedSet, Protected, PROTECTED_MAX_RANK
<1>8. /\ Bytes(AtLeastAsUrgent(b)) <= Bytes(ProtectedSet)
      /\ Bytes(AtLeastAsUrgent(b)) \in Nat /\ Bytes(ProtectedSet) \in Nat
  BY <1>3, <1>7, BytesMonotone, BytesFinite
<1> QED
  BY <1>3, <1>6, <1>8

LEMMA BlindTells ==
  ASSUME RunShape, OneGap, TrialShape, GapShape, pc = "done", AllLive, ~aware
  PROVE  all_protected_delivered <=> ProtectedSet \subseteq KeptBlindly(MaxQueueBytes)
<1>1. bundles \in BundleLists /\ Kept \in SUBSET Bundles /\ gap \in Int
  BY DEF RunShape, QueueShape, Kept, OneGap
<1>2. IsKept(Kept, MaxQueueBytes)
  <2>1. SUFFICES ASSUME NEW b \in Bundles
                 PROVE  b \in Kept <=> Bytes(KeptBefore(b)) + Size(b) <= MaxQueueBytes
    BY DEF IsKept, KeptBefore
  <2>2. arrivals = {}
    BY ProtectedFates
  <2> QED
    BY <2>2 DEF GapShape
<1>3. KeptBlindly(MaxQueueBytes) = Kept
  BY <1>1, <1>2, KeptIs
<1>4. ASSUME NEW b \in ProtectedSet PROVE state[b] = "delivered" <=> b \in Kept
  <2>1. b \in Bundles /\ Expiration(b) > gap /\ Expiration(b) \in Int
    BY <1>1, BundleTimes DEF ProtectedSet, AllLive
  <2>2. state[b] \in {"delivered", "queue_overflow"}
    BY <1>1, <2>1, ProtectedFates
  <2> QED
    BY <2>1, <2>2 DEF Kept
<1>5. all_protected_delivered <=> \A b \in ProtectedSet : state[b] = "delivered"
  BY DEF all_protected_delivered, ProtectedSet, Bundles
<1> QED
  BY <1>3, <1>4, <1>5

-----------------------------------------------------------------------------
(* The bracket.  p[k] is 2 to the power of k: so wide the bracket may be,  *)
(* k halvings before the last.                                             *)
Powers == {p \in [0..Iterations -> Nat] : p[0] = 1 /\ \A k \in 1..Iterations : p[k] = 2 * p[k - 1]}

Narrow ==
  \A p \in Powers : Grid * TotalBytes <= p[Iterations] => hi - lo <= p[Iterations - round]
Above ==
  /\ ~AllLive => hi = Grid * TotalBytes
  /\ AllLive => Grid * Bytes(ProtectedSet) <= hi
Around ==
  AllLive =>
    IF aware THEN lo = Grid \/ lo < Grid * Bytes(ProtectedSet)
    ELSE /\ ProtectedSet \subseteq KeptBlindly(hi \div Grid)
         /\ lo = Grid \/ ~(ProtectedSet \subseteq KeptBlindly(lo \div Grid))
Bracket == Narrow /\ Above /\ Around

LEMMA BracketNumbers ==
  ASSUME OneGap, TrialShape
  PROVE  /\ lo \in Nat /\ hi \in Nat /\ lo <= hi /\ Grid <= lo /\ Grid \in Nat \ {0, 1}
         /\ Mid(lo, hi) \in Nat /\ lo <= Mid(lo, hi) /\ Mid(lo, hi) <= hi
         /\ TotalBytes \in Nat \ {0} /\ Grid * TotalBytes \in Nat
         /\ Bytes(ProtectedSet) \in Nat /\ Bytes(ProtectedSet) <= TotalBytes
         /\ ProtectedSet \subseteq Bundles
<1>1. /\ lo \in Nat /\ hi \in Nat /\ lo <= hi /\ Grid <= lo /\ Grid \in Nat \ {0, 1}
  BY SizingAssumption DEF TrialShape
<1>2. Mid(lo, hi) \in Nat /\ lo <= Mid(lo, hi) /\ Mid(lo, hi) <= hi
  BY <1>1, MidBetween
<1>3. bundles \in BundleLists /\ TotalBytes \in Nat \ {0}
  BY TotalPositive DEF OneGap
<1>4. ProtectedSet \subseteq Bundles /\ Bundles \subseteq Bundles
  BY DEF ProtectedSet
<1>5. Bytes(ProtectedSet) \in Nat /\ Bytes(ProtectedSet) <= Bytes(Bundles)
  BY <1>3, <1>4, BytesMonotone, BytesFinite
<1>6. Grid * TotalBytes \in Nat
  <2>1. PICK d \in Nat, t \in Nat : d = Grid /\ t = TotalBytes
    BY <1>1, <1>3
  <2>2. d * t \in Nat
    OBVIOUS
  <2> QED
    BY <2>1, <2>2
<1> QED
  BY <1>1, <1>2, <1>3, <1>4, <1>5, <1>6 DEF TotalBytes, Bundles

LEMMA BracketStarts ==
  ASSUME OneGap, TrialShape, lo = Grid, hi = Grid * TotalBytes, round = 0
  PROVE  Bracket
<1>1. /\ Grid \in Nat \ {0, 1} /\ TotalBytes \in Nat \ {0} /\ hi \in Nat
      /\ Bytes(ProtectedSet) \in Nat /\ Bytes(ProtectedSet) <= TotalBytes
      /\ ProtectedSet \subseteq Bundles /\ bundles \in BundleLists /\ Iterations \in Nat
  BY BracketNumbers, SizingAssumption DEF OneGap
<1>2. PICK d \in Nat \ {0}, t \in Nat, b \in Nat, h \in Nat :
        d = Grid /\ t = TotalBytes /\ b = Bytes(ProtectedSet) /\ b <= t /\ h = hi /\ h = d * t
  BY <1>1
<1>3. Above
  <2>1. d * b <= d * t
    BY <1>2
  <2> QED
    BY <1>2, <2>1 DEF Above
<1>4. Narrow
  <2>1. ASSUME NEW p \in Powers, h <= p[Iterations] PROVE h - d <= p[Iterations - 0]
    <3>1. p[Iterations] \in Nat /\ Iterations - 0 = Iterations
      BY <1>1 DEF Powers
    <3>2. PICK q \in Nat : q = p[Iterations] /\ h <= q
      BY <2>1, <3>1
    <3>3. h \in Nat /\ d \in Nat /\ d > 0
      BY <1>2
    <3>4. h - d <= q
      BY <3>2, <3>3
    <3> QED
      BY <3>1, <3>2, <3>4
  <2> QED
    BY <1>2, <2>1 DEF Narrow
<1>5. Around
  <2>1. hi \div Grid = TotalBytes
    <3>1. d \in Nat \ {0} /\ t \in Nat
      BY <1>2
    <3>2. (d * t) \div d = t
      BY <3>1
    <3> QED
      BY <1>2, <3>2
  <2>2. KeptBlindly(hi \div Grid) = Bundles
    BY <1>1, <2>1, KeptAll
  <2> QED
    BY <1>1, <2>2 DEF Around
<1> QED
  BY <1>3, <1>4, <1>5 DEF Bracket

LEMMA SearchSteady ==
  bundles' = bundles /\ gap' = gap =>
    /\ TotalBytes' = TotalBytes /\ ProtectedSet' = ProtectedSet /\ (AllLive' <=> AllLive)
    /\ Bytes(ProtectedSet)' = Bytes(ProtectedSet) /\ Bundles' = Bundles
<1> SUFFICES ASSUME bundles' = bundles, gap' = gap
             PROVE  /\ TotalBytes' = TotalBytes /\ ProtectedSet' = ProtectedSet
                    /\ (AllLive' <=> AllLive) /\ Bundles' = Bundles
                    /\ Bytes(ProtectedSet)' = Bytes(ProtectedSet)
  OBVIOUS
<1>1. Bundles' = Bundles /\ (\A b : Size(b)' = Size(b) /\ Rank(b)' = Rank(b)
                                    /\ Expiration(b)' = Expiration(b))
  BY DEF Bundles, Size, Rank, Cls, Expiration, Ingress
<1>2. ProtectedSet' = ProtectedSet
  BY <1>1 DEF ProtectedSet, Protected
<1>3. Cells(ProtectedSet)' = Cells(ProtectedSet)
  BY <1>1, <1>2 DEF Cells
<1>4. TotalBytes' = TotalBytes
  BY DEF TotalBytes, Bytes, Cells, Size
<1>5. AllLive' <=> AllLive
  BY <1>1, <1>2 DEF AllLive
<1> QED
  BY <1>1, <1>2, <1>3, <1>4, <1>5 DEF Bytes

LEMMA KeptSteady ==
  ASSUME bundles' = bundles, NEW cap
  PROVE  KeptBlindly(cap)' = KeptBlindly(cap)
BY DEF KeptBlindly, Bundles, Bytes, Cells, Size, Earlier, Ingress

LEMMA BracketKept ==
  ASSUME Bracket, bundles' = bundles, UNCHANGED search
  PROVE  Bracket'
<1>1. gap' = gap /\ aware' = aware /\ lo' = lo /\ hi' = hi /\ round' = round
  BY DEF search
<1>2. /\ TotalBytes' = TotalBytes /\ ProtectedSet' = ProtectedSet /\ (AllLive' <=> AllLive)
      /\ Bytes(ProtectedSet)' = Bytes(ProtectedSet)
  BY <1>1, SearchSteady
<1>3. Narrow' /\ Above'
  BY <1>1, <1>2 DEF Bracket, Narrow, Above
<1>4. Around'
  <2>1. PICK l, h : l = lo \div Grid /\ h = hi \div Grid
    OBVIOUS
  <2>2. KeptBlindly(l)' = KeptBlindly(l) /\ KeptBlindly(h)' = KeptBlindly(h)
    BY KeptSteady
  <2>3. (lo \div Grid)' = l /\ (hi \div Grid)' = h
    BY <1>1, <2>1
  <2>4. KeptBlindly(lo \div Grid)' = KeptBlindly(l)' /\ KeptBlindly(hi \div Grid)' = KeptBlindly(h)'
    BY <1>1, <2>1 DEF KeptBlindly
  <2> QED
    BY <1>1, <1>2, <2>1, <2>2, <2>4 DEF Bracket, Around
<1> QED
  BY <1>3, <1>4 DEF Bracket

-----------------------------------------------------------------------------
LEMMA NarrowHalves ==
  ASSUME OneGap, TrialShape, Narrow, round < Iterations, round' = round + 1,
         bundles' = bundles, gap' = gap,
         \/ lo' = lo /\ hi' = Mid(lo, hi)
         \/ lo' = Mid(lo, hi) /\ hi' = hi
  PROVE  Narrow'
<1>1. TotalBytes' = TotalBytes
  BY SearchSteady
<1>2. PICK l \in Nat, h \in Nat, m \in Nat : l = lo /\ h = hi /\ m = Mid(lo, hi) /\ l <= h
  BY BracketNumbers
<1>3. 2 * m <= l + h /\ l + h <= 2 * m + 1
  BY <1>2, MidBetween
<1>4. PICK r \in Nat, n \in Nat \ {0} : r = round /\ n = Iterations /\ r < n
  BY SizingAssumption DEF TrialShape
<1>5. ASSUME NEW p \in Powers, Grid * TotalBytes <= p[n]
      PROVE  m - l <= p[n - (r + 1)] /\ h - m <= p[n - (r + 1)]
  <2>1. n - r \in 1..Iterations /\ (n - r) - 1 = n - (r + 1) /\ n - (r + 1) \in 0..Iterations
    BY <1>4
  <2>2. p[n - r] = 2 * p[n - (r + 1)] /\ p[n - (r + 1)] \in Nat
    BY <2>1 DEF Powers
  <2>3. h - l <= p[n - r]
    BY <1>2, <1>4, <1>5 DEF Narrow
  <2>4. PICK q \in Nat : q = p[n - (r + 1)] /\ h - l <= 2 * q
    BY <2>2, <2>3
  <2>5. m - l <= q /\ h - m <= q
    BY <1>2, <1>3, <2>4
  <2> QED
    BY <2>4, <2>5
<1>6. ASSUME NEW p \in Powers, Grid * TotalBytes <= p[Iterations]
      PROVE  hi' - lo' <= p[Iterations - round']
  <2>1. Iterations - round' = n - (r + 1)
    BY <1>4
  <2>2. (hi' = m /\ lo' = l) \/ (hi' = h /\ lo' = m)
    BY <1>2
  <2>3. m - l <= p[n - (r + 1)] /\ h - m <= p[n - (r + 1)]
    BY <1>4, <1>5, <1>6
  <2> QED
    BY <2>1, <2>2, <2>3
<1> QED
  BY <1>1, <1>6 DEF Narrow

LEMMA AboveHalves ==
  ASSUME RunShape, OneGap, TrialShape, GapShape, Above, Halve
  PROVE  Above'
<1>1. /\ pc = "done" /\ round < Iterations /\ bundles' = bundles /\ gap' = gap
      /\ Halved(all_protected_delivered)
  BY DEF Halve
<1>2. /\ TotalBytes' = TotalBytes /\ Bytes(ProtectedSet)' = Bytes(ProtectedSet)
      /\ (AllLive' <=> AllLive)
  BY <1>1, SearchSteady
<1>3. /\ all_protected_delivered => hi' = Mid(lo, hi)
      /\ ~all_protected_delivered => hi' = hi
  BY <1>1 DEF Halved
<1>4. ~AllLive => ~all_protected_delivered
  BY <1>1, DeadIsUnsafe
<1>5. ASSUME all_protected_delivered PROVE Grid * Bytes(ProtectedSet) <= Mid(lo, hi)
  <2>1. Bytes(ProtectedSet) <= Mid(lo, hi) \div Grid
    BY <1>1, <1>5, SafeIsEnough DEF TrialShape
  <2>2. PICK m \in Nat, d \in Nat \ {0}, b \in Nat :
          m = Mid(lo, hi) /\ d = Grid /\ b = Bytes(ProtectedSet)
    BY BracketNumbers
  <2>3. b * d <= m
    <3>1. b <= m \div d
      BY <2>1, <2>2
    <3> QED
      BY <2>2, <3>1, QuotientOf
  <2>4. b * d = d * b
    BY <2>2
  <2> QED
    BY <2>2, <2>3, <2>4
<1> QED
  BY <1>2, <1>3, <1>4, <1>5 DEF Above

LEMMA AroundHalves ==
  ASSUME RunShape, OneGap, TrialShape, GapShape, Around, Halve
  PROVE  Around'
<1>1. /\ pc = "done" /\ round < Iterations /\ bundles' = bundles /\ gap' = gap /\ aware' = aware
      /\ Halved(all_protected_delivered)
  BY DEF Halve
<1>2. /\ Bytes(ProtectedSet)' = Bytes(ProtectedSet) /\ ProtectedSet' = ProtectedSet
      /\ (AllLive' <=> AllLive)
  BY <1>1, SearchSteady
<1>3. /\ all_protected_delivered => hi' = Mid(lo, hi) /\ lo' = lo
      /\ ~all_protected_delivered => hi' = hi /\ lo' = Mid(lo, hi)
  BY <1>1 DEF Halved
<1>4. SUFFICES ASSUME AllLive PROVE Around'
  BY <1>2 DEF Around
<1>5. MaxQueueBytes = Mid(lo, hi) \div Grid
  BY <1>1 DEF TrialShape
<1>6. CASE aware
  <2>1. ASSUME ~all_protected_delivered PROVE Mid(lo, hi) < Grid * Bytes(ProtectedSet)
    <3>1. ~(Bytes(ProtectedSet) <= Mid(lo, hi) \div Grid)
      BY <1>1, <1>4, <1>5, <1>6, <2>1, EnoughIsSafe
    <3>2. PICK m \in Nat, d \in Nat \ {0}, b \in Nat :
            m = Mid(lo, hi) /\ d = Grid /\ b = Bytes(ProtectedSet)
      BY BracketNumbers
    <3>3. ~(b * d <= m)
      <4>1. ~(b <= m \div d)
        BY <3>1, <3>2
      <4> QED
        BY <3>2, <4>1, QuotientOf
    <3>4. PICK x \in Nat : x = b * d /\ x = d * b
      BY <3>2
    <3>5. m < d * b
      BY <3>2, <3>3, <3>4
    <3> QED
      BY <3>2, <3>5
  <2> QED
    BY <1>1, <1>2, <1>3, <1>4, <1>6, <2>1 DEF Around
<1>7. CASE ~aware
  <2>1. PICK l, h, m : l = lo \div Grid /\ h = hi \div Grid /\ m = Mid(lo, hi) \div Grid
    OBVIOUS
  <2>2. all_protected_delivered <=> ProtectedSet \subseteq KeptBlindly(m)
    BY <1>1, <1>4, <1>5, <1>7, <2>1, BlindTells
  <2>3. /\ KeptBlindly(l)' = KeptBlindly(l) /\ KeptBlindly(h)' = KeptBlindly(h)
        /\ KeptBlindly(m)' = KeptBlindly(m)
    BY <1>1, KeptSteady
  <2>4. /\ ProtectedSet \subseteq KeptBlindly(h)
        /\ lo = Grid \/ ~(ProtectedSet \subseteq KeptBlindly(l))
    BY <1>4, <1>7, <2>1 DEF Around
  <2>5. CASE all_protected_delivered
    <3>1. (lo \div Grid)' = l /\ (hi \div Grid)' = m /\ lo' = lo
      BY <1>3, <2>1, <2>5
    <3>2. /\ KeptBlindly(lo \div Grid)' = KeptBlindly(l)'
          /\ KeptBlindly(hi \div Grid)' = KeptBlindly(m)'
      BY <3>1 DEF KeptBlindly
    <3> QED
      BY <1>1, <1>2, <1>7, <2>2, <2>3, <2>4, <2>5, <3>1, <3>2 DEF Around
  <2>6. CASE ~all_protected_delivered
    <3>1. (lo \div Grid)' = m /\ (hi \div Grid)' = h
      BY <1>3, <2>1, <2>6
    <3>2. /\ KeptBlindly(lo \div Grid)' = KeptBlindly(m)'
          /\ KeptBlindly(hi \div Grid)' = KeptBlindly(h)'
      BY <3>1 DEF KeptBlindly
    <3> QED
      BY <1>1, <1>2, <1>7, <2>2, <2>3, <2>4, <2>6, <3>1, <3>2 DEF Around
  <2> QED
    BY <2>5, <2>6
<1> QED
  BY <1>6, <1>7

-----------------------------------------------------------------------------
(* The whole of what a search keeps.                                       *)
SizingShape == OneGap /\ TrialShape /\ GapShape /\ Bracket

LEMMA RunIsUnderway == Run => pc # "done"
BY DEF Run, Admission, Drain, RoundRobin, AdmitOne, BeginEviction, EvictOne, OverflowOne,
     AdmissionOver, Expire, BeginDrain, SendForemost, DeferForemost, DrainOver, BeginRound,
     BeginTurn, SendNext, PassNext, EndTurn, RoundsOver, CloseWindow, WriteOff, Offered

LEMMA OneGapKept ==
  ASSUME OneGap, bundles' = bundles, plan' = plan, gap' = gap, aware' = aware
  PROVE  OneGap'
<1>1. TotalBytes' = TotalBytes /\ Bundles' = Bundles
  BY SearchSteady
<1>2. \A b : Ingress(b)' = Ingress(b)
  BY DEF Ingress
<1>3. PICK t : t = TotalBytes
  OBVIOUS
<1>4. DrainPlan(TotalBytes, gap)' = DrainPlan(t, gap)
  BY <1>1, <1>3 DEF DrainPlan
<1> QED
  BY <1>1, <1>2, <1>3, <1>4 DEF OneGap

LEMMA HalvedStays ==
  ASSUME OneGap, TrialShape, Halve
  PROVE  /\ lo' \in Nat /\ hi' \in Nat /\ Grid <= lo' /\ lo' <= hi'
         /\ round' \in 0..Iterations /\ Mid(lo', hi') \in Nat
<1>1. \/ lo' = lo /\ hi' = Mid(lo, hi)
      \/ lo' = Mid(lo, hi) /\ hi' = hi
  BY DEF Halve, Halved
<1>2. PICK l \in Nat, h \in Nat, m \in Nat, d \in Nat :
        l = lo /\ h = hi /\ m = Mid(lo, hi) /\ d = Grid /\ d <= l /\ l <= m /\ m <= h
  BY BracketNumbers
<1>3. lo' \in Nat /\ hi' \in Nat /\ Grid <= lo' /\ lo' <= hi'
  BY <1>1, <1>2
<1>4. round' \in 0..Iterations
  BY SizingAssumption DEF TrialShape, Halve
<1>5. PICK x \in Nat, y \in Nat : x = lo' /\ y = hi' /\ x <= y
  BY <1>3
<1>6. Mid(x, y) \in Nat
  BY <1>5, MidBetween
<1> QED
  BY <1>3, <1>4, <1>5, <1>6

(* The next trial starts as any other run does.                            *)
LEMMA NextTrialStarts ==
  ASSUME RunShape, OneGap, TrialShape, Halve, round' # Iterations
  PROVE  Starting' /\ OneGap' /\ TrialShape'
<1>1. NextTrial /\ bundles' = bundles /\ plan' = plan /\ gap' = gap /\ aware' = aware
  BY DEF Halve
<1>2. /\ config' = Trial(Mid(lo', hi'))
      /\ arrivals' = DOMAIN bundles /\ active' = {} /\ activeBytes' = 0
      /\ state' = [b \in DOMAIN bundles |-> "pending"]
      /\ contact' = [b \in DOMAIN bundles |-> NoWindow]
      /\ deficit' = [c \in WfqClass |-> 0] /\ rotation' = 0
      /\ pc' = "admit" /\ cur' = FirstWindow(plan) /\ last' = NoWindow
      /\ rounds' = rounds /\ turn' = turn
  BY <1>1 DEF NextTrial
<1>3. PICK m \in Nat : m = Mid(lo', hi')
  BY HalvedStays
<1>4. config' = [policy |-> "strict_priority", capacity |-> m \div Grid,
                 admission |-> IF aware THEN "on" ELSE "off", skip |-> TRUE]
  BY <1>2, <1>3 DEF Trial
<1>5. /\ config'.policy = "strict_priority" /\ config'.skip /\ MaxQueueBytes' = m \div Grid
      /\ config'.admission = IF aware THEN "on" ELSE "off"
  BY <1>4 DEF MaxQueueBytes
<1>6. MaxQueueBytes' \in Nat
  <2>1. Grid \in Nat \ {0}
    BY SizingAssumption
  <2>2. m \div Grid \in Nat
    BY <2>1, QuotientOf
  <2> QED
    BY <1>5, <2>2
<1>7. PriorityAware' <=> aware'
  BY <1>1, <1>5 DEF PriorityAware, OneGap
<1>8. Starting'
  <2>1. bundles' \in BundleLists /\ plan' \in Plan /\ rounds' \in Nat
        /\ turn' \in [classes : SUBSET WfqClass, budget : Int, weight : Int]
    BY <1>1, <1>2 DEF RunShape, QueueShape, WindowShape, TurnShape, DeficitShape
  <2>2. /\ arrivals' = DOMAIN bundles'
        /\ state' = [b \in DOMAIN bundles' |-> "pending"]
        /\ contact' = [b \in DOMAIN bundles' |-> NoWindow]
        /\ cur' = FirstWindow(plan')
    BY <1>1, <1>2
  <2> QED
    BY <1>2, <1>6, <2>1, <2>2 DEF Starting
<1>9. OneGap'
  BY <1>1, OneGapKept
<1>10. TrialShape'
  BY <1>3, <1>5, <1>7, HalvedStays DEF TrialShape
<1> QED
  BY <1>8, <1>9, <1>10

LEMMA TrialStarts == Starting => RunShape /\ GapShape
BY RunStarts, GapStarts

LEMMA SearchStep ==
  RunShape /\ SizingShape /\ [SizingStep]_sizingVars => RunShape' /\ SizingShape'
<1> SUFFICES ASSUME RunShape, SizingShape, [SizingStep]_sizingVars
             PROVE  RunShape' /\ SizingShape'
  OBVIOUS
<1>1. OneGap /\ TrialShape /\ GapShape /\ Bracket
  BY DEF SizingShape
<1>2. ASSUME [Next]_vars, UNCHANGED search, round = Iterations => pc' = "done"
      PROVE  RunShape' /\ SizingShape'
  <2>1. config' = config /\ bundles' = bundles /\ plan' = plan
    BY <1>2, ConfigKept, WalkKept
  <2>2. gap' = gap /\ aware' = aware /\ lo' = lo /\ hi' = hi /\ round' = round
    BY <1>2 DEF search
  <2>3. RunShape'
    BY <1>2, RunStep
  <2>4. OneGap'
    BY <1>1, <2>1, <2>2, OneGapKept
  <2>5. TrialShape'
    BY <1>1, <1>2, <2>1, <2>2 DEF TrialShape, PriorityAware, MaxQueueBytes, Mid
  <2>6. GapShape'
    BY <1>1, <1>2, <2>2, <2>3, GapStep
  <2>7. Bracket'
    BY <1>1, <1>2, <2>1, BracketKept
  <2> QED
    BY <2>3, <2>4, <2>5, <2>6, <2>7 DEF SizingShape
<1>3. CASE Run /\ UNCHANGED search
  <2>1. pc # "done"
    BY <1>3, RunIsUnderway
  <2>2. round # Iterations
    BY <1>1, <2>1 DEF TrialShape
  <2> QED
    BY <1>2, <1>3, <2>2 DEF Next
<1>4. CASE UNCHANGED sizingVars
  <2>1. UNCHANGED vars /\ UNCHANGED search /\ pc' = pc
    BY <1>4 DEF sizingVars, vars
  <2> QED
    BY <1>1, <1>2, <2>1 DEF TrialShape
<1>5. CASE Halve
  <2>1. /\ pc = "done" /\ round < Iterations /\ round' = round + 1 /\ bundles' = bundles
        /\ plan' = plan /\ gap' = gap /\ aware' = aware
        /\ \/ lo' = lo /\ hi' = Mid(lo, hi)
           \/ lo' = Mid(lo, hi) /\ hi' = hi
    BY <1>5 DEF Halve, Halved
  <2>2. Bracket'
    BY <1>1, <1>5, <2>1, NarrowHalves, AboveHalves, AroundHalves DEF Bracket
  <2>3. CASE round' # Iterations
    <3>1. Starting' /\ OneGap' /\ TrialShape'
      BY <1>1, <1>5, <2>3, NextTrialStarts
    <3>2. Starting' => RunShape' /\ GapShape'
      BY TrialStarts, PTL
    <3> QED
      BY <2>2, <3>1, <3>2 DEF SizingShape
  <2>4. CASE round' = Iterations
    <3>1. UNCHANGED vars
      BY <1>5, <2>1, <2>4 DEF Halve, vars, inputs
    <3>2. RunShape'
      BY <3>1, RunStep
    <3>3. GapShape'
      BY <1>1, <2>1, <3>1, <3>2, GapStep
    <3>4. OneGap'
      BY <1>1, <2>1, OneGapKept
    <3>5. TrialShape'
      <4>1. config' = config /\ pc' = pc
        BY <3>1 DEF vars, inputs
      <4>2. config'.policy = "strict_priority" /\ config'.skip /\ (PriorityAware' <=> aware')
        BY <1>1, <2>1, <4>1 DEF TrialShape, PriorityAware
      <4>3. Iterations \in Nat
        BY SizingAssumption
      <4> QED
        BY <1>1, <1>5, <2>1, <2>4, <4>1, <4>2, <4>3, HalvedStays DEF TrialShape
    <3> QED
      BY <2>2, <3>2, <3>3, <3>4, <3>5 DEF SizingShape
  <2> QED
    BY <2>3, <2>4
<1> QED
  BY <1>3, <1>4, <1>5 DEF SizingStep

LEMMA SizingShapeInvariant == SizingSpec => [](RunShape /\ SizingShape)
<1>1. SizingInit => RunShape /\ SizingShape
  <2> SUFFICES ASSUME SizingInit PROVE RunShape /\ SizingShape
    OBVIOUS
  <2>1. Starting /\ OneGap /\ TrialShape /\ lo = Grid /\ hi = Grid * TotalBytes /\ round = 0
    BY SizingStarts
  <2> QED
    BY <2>1, RunStarts, GapStarts, BracketStarts DEF SizingShape
<1> QED
  BY <1>1, SearchStep, PTL DEF SizingSpec

-----------------------------------------------------------------------------
(* For every profile, gap, lifetime, grid and number of halvings: at the   *)
(* end of a trial every protected bundle was delivered, overflowed, or     *)
(* died within the gap; and if one of them dies there, the search gives    *)
(* the whole backlog (buffer_sizing.py:123-136).                           *)
THEOREM LossesExplainedInvariant == SizingSpec => []LossesExplained
<1>1. RunShape /\ SizingShape => LossesExplained
  <2> SUFFICES ASSUME RunShape, OneGap, TrialShape, GapShape, Above PROVE LossesExplained
    BY DEF SizingShape, Bracket
  <2>1. ASSUME pc = "done", NEW b \in ProtectedSet
        PROVE  \/ state[b] \in {"delivered", "queue_overflow"}
               \/ state[b] = "ttl_expired" /\ Expiration(b) <= gap
    <3>1. b \in Bundles
      BY DEF ProtectedSet
    <3> QED
      BY <2>1, <3>1, ProtectedFates
  <2>2. ASSUME ~AllLive PROVE Found = TotalBytes
    <3>1. PICK d \in Nat \ {0}, t \in Nat : d = Grid /\ t = TotalBytes
      BY BracketNumbers
    <3>2. (d * t) \div d = t
      OBVIOUS
    <3>3. hi = d * t
      BY <2>2, <3>1 DEF Above
    <3> QED
      BY <3>1, <3>2, <3>3 DEF Found
  <2> QED
    BY <2>1, <2>2 DEF LossesExplained
<1> QED
  BY <1>1, SizingShapeInvariant, PTL

(* The halvings are enough for the bracket to come down to one unit.       *)
IterationsSuffice == \E p \in Powers : Grid * TotalBytes <= p[Iterations]

LEMMA BracketClosed ==
  ASSUME OneGap, TrialShape, Narrow, Over, IterationsSuffice
  PROVE  hi <= lo + 1
<1>1. PICK p \in Powers : Grid * TotalBytes <= p[Iterations]
  BY DEF IterationsSuffice
<1>2. Iterations - round = 0 /\ p[0] = 1
  BY SizingAssumption DEF Over, Powers
<1>3. hi - lo <= p[Iterations - round]
  BY <1>1 DEF Narrow
<1> QED
  BY <1>2, <1>3, BracketNumbers

LEMMA SomeProtected ==
  ASSUME bundles \in BundleLists, ProtectedSet # {}
  PROVE  Bytes(ProtectedSet) \in Nat /\ 1 <= Bytes(ProtectedSet)
<1>1. PICK b \in ProtectedSet : b \in Bundles
  BY DEF ProtectedSet
<1>2. Size(b) \in Nat /\ Size(b) > 0
  BY <1>1, BundleFields
<1>3. {b} \subseteq ProtectedSet /\ ProtectedSet \subseteq Bundles
  BY <1>1 DEF ProtectedSet
<1>4. Bytes({b}) <= Bytes(ProtectedSet)
  BY <1>3, BytesMonotone
<1>5. Bytes({b}) = Size(b) /\ Bytes(ProtectedSet) \in Nat
  BY <1>1, <1>3, BytesFinite, BytesOfOne DEF Bytes
<1> QED
  BY <1>2, <1>4, <1>5

(* Between two quotients of neighbours there is no room for a third.       *)
LEMMA NextQuotient ==
  ASSUME NEW d \in Nat \ {0, 1}, NEW l \in Nat, NEW h \in Nat, d <= l, l <= h, h <= l + 1
  PROVE  /\ h \div d \in Nat /\ l \div d \in Nat
         /\ l \div d # h \div d => l \div d = h \div d - 1
         /\ \A n \in Nat : d * n <= h /\ l < d * n => h \div d = n
         /\ l = d => h \div d = 1
<1>1. PICK q \in Nat : q = h \div d /\ \A m \in Nat : m <= q <=> m * d <= h
  BY QuotientOf
<1>2. PICK r \in Nat : r = l \div d /\ \A m \in Nat : m <= r <=> m * d <= l
  BY QuotientOf
<1>3. r <= q
  <2>1. r * d <= l
    BY <1>2
  <2>2. PICK x \in Nat : x = r * d
    OBVIOUS
  <2>3. r * d <= h
    BY <2>1, <2>2
  <2> QED
    BY <1>1, <2>3
<1>4. ASSUME r + 1 < q PROVE FALSE
  <2>1. r + 2 <= q /\ r + 2 \in Nat /\ r + 1 \in Nat
    BY <1>4
  <2>2. (r + 2) * d <= h /\ ~((r + 1) * d <= l)
    BY <1>1, <1>2, <2>1
  <2>3. PICK x \in Nat : x = (r + 1) * d /\ (r + 2) * d = x + d
    OBVIOUS
  <2> QED
    BY <2>2, <2>3
<1>5. ASSUME NEW n \in Nat, d * n <= h, l < d * n PROVE q = n
  <2>1. PICK x \in Nat : x = n * d /\ x = d * n /\ (n + 1) * d = x + d
    OBVIOUS
  <2>2. n * d <= h /\ ~((n + 1) * d <= h)
    BY <1>5, <2>1
  <2>3. n <= q /\ ~(n + 1 <= q)
    BY <1>1, <2>2
  <2> QED
    BY <2>3
<1>6. ASSUME l = d PROVE q = 1
  <2>1. 1 * d <= h /\ ~(2 * d <= h)
    BY <1>6
  <2>2. 1 <= q /\ ~(2 <= q)
    BY <1>1, <2>1
  <2> QED
    BY <2>2
<1> QED
  BY <1>1, <1>2, <1>3, <1>4, <1>5, <1>6

LEMMA AwareRight ==
  ASSUME OneGap, TrialShape, Bracket, hi <= lo + 1, AllLive, ProtectedSet # {}, aware
  PROVE  Found = Bytes(ProtectedSet)
<1>1. PICK b \in Nat : b = Bytes(ProtectedSet) /\ 1 <= b
  BY SomeProtected DEF OneGap
<1>2. PICK l \in Nat, h \in Nat, d \in Nat \ {0, 1} :
        l = lo /\ h = hi /\ d = Grid /\ d <= l /\ l <= h /\ h <= l + 1
  BY BracketNumbers
<1>3. d * b <= h /\ (l = d \/ l < d * b)
  BY <1>1, <1>2 DEF Bracket, Above, Around
<1>4. CASE l < d * b
  <2>1. h \div d = b
    BY <1>2, <1>3, <1>4, NextQuotient
  <2> QED
    BY <1>1, <1>2, <2>1 DEF Found
<1>5. CASE l = d
  <2>1. h \div d = 1
    BY <1>2, <1>5, NextQuotient
  <2>2. b < 2
    <3>1. ASSUME 2 <= b PROVE FALSE
      <4>1. d * 2 <= d * b
        BY <3>1
      <4>2. PICK x \in Nat : x = d * b
        OBVIOUS
      <4>3. h <= d + 1 /\ x <= h /\ 2 * d <= x /\ d >= 2
        BY <1>2, <1>3, <1>5, <4>1, <4>2
      <4> QED
        BY <1>2, <4>3
    <3> QED
      BY <3>1
  <2> QED
    BY <1>1, <1>2, <2>1, <2>2 DEF Found
<1> QED
  BY <1>3, <1>4, <1>5

LEMMA BlindRight ==
  ASSUME OneGap, TrialShape, Bracket, hi <= lo + 1, AllLive, ProtectedSet # {}, ~aware
  PROVE  /\ Found >= Bytes(ProtectedSet)
         /\ ProtectedSet \subseteq KeptBlindly(Found)
         /\ ~(ProtectedSet \subseteq KeptBlindly(Found - 1))
<1>1. PICK b \in Nat : b = Bytes(ProtectedSet) /\ 1 <= b
  BY SomeProtected DEF OneGap
<1>2. PICK l \in Nat, h \in Nat, d \in Nat \ {0, 1} :
        l = lo /\ h = hi /\ d = Grid /\ d <= l /\ l <= h /\ h <= l + 1
  BY BracketNumbers
<1>3. PICK r \in Nat, q \in Nat : r = l \div d /\ q = h \div d
  BY <1>2, NextQuotient
<1>4. /\ ProtectedSet \subseteq KeptBlindly(q)
      /\ l = d \/ ~(ProtectedSet \subseteq KeptBlindly(r))
      /\ d * b <= h /\ Found = q
  BY <1>1, <1>2, <1>3 DEF Bracket, Above, Around, Found
<1>5. b <= q
  <2>1. b * d = d * b
    OBVIOUS
  <2>2. b * d <= h
    BY <1>4, <2>1
  <2>3. d \in Nat \ {0}
    BY <1>2
  <2> QED
    BY <1>3, <2>2, <2>3, QuotientOf
<1>6. ~(ProtectedSet \subseteq KeptBlindly(q - 1))
  <2>1. CASE l = d
    <3>1. q = 1
      BY <1>2, <1>3, <2>1, NextQuotient
    <3>2. q - 1 = 0
      BY <3>1
    <3>3. KeptBlindly(0) = {}
      BY KeptNone DEF OneGap
    <3> QED
      BY <3>2, <3>3
  <2>2. CASE ~(ProtectedSet \subseteq KeptBlindly(r))
    <3>1. r # q
      BY <1>4, <2>2
    <3>2. r = q - 1
      BY <1>2, <1>3, <3>1, NextQuotient
    <3> QED
      BY <2>2, <3>2
  <2> QED
    BY <1>4, <2>1, <2>2
<1> QED
  BY <1>1, <1>3, <1>4, <1>5, <1>6

(* For every profile, gap, lifetime, grid and number of halvings that is   *)
(* enough for the backlog (the 40 of the code are for 2^40 units of the    *)
(* grid): with priority-aware admission the search gives the protected     *)
(* backlog to the byte; with class-blind admission what it gives saves all *)
(* of it and one byte less does not (buffer_sizing.py:111-136).            *)
THEOREM SizedRightInvariant == SizingSpec => [](IterationsSuffice => SizedRight)
<1>1. RunShape /\ SizingShape => (IterationsSuffice => SizedRight)
  <2> SUFFICES ASSUME OneGap, TrialShape, Bracket, IterationsSuffice, Over, AllLive,
                      ProtectedSet # {}
               PROVE  IF aware THEN Found = Bytes(ProtectedSet)
                      ELSE /\ Found >= Bytes(ProtectedSet)
                           /\ ProtectedSet \subseteq KeptBlindly(Found)
                           /\ ~(ProtectedSet \subseteq KeptBlindly(Found - 1))
    BY Zenon DEF SizingShape, SizedRight
  <2>1. hi <= lo + 1
    BY BracketClosed DEF Bracket
  <2> QED
    BY <2>1, AwareRight, BlindRight, Zenon
<1> QED
  BY <1>1, SizingShapeInvariant, PTL
=============================================================================
