------------------------------ MODULE Scheduler ------------------------------
(***************************************************************************)
(* gateway/scheduler.py: Scheduler.run() takes a list of bundles through   *)
(* every window of a contact plan.  Per window it admits the arrivals up   *)
(* to the window's end into a bounded queue, expires, and drains the queue *)
(* against the window's bit budget under one of seven policies; whatever   *)
(* is left after the last window is written off.                           *)
(*                                                                         *)
(* run() is sequential: a step of the model is an iteration of one of its  *)
(* loops, "pc" tells which.  A bundle is named by its index in the list    *)
(* given to run().  DRR shares are fractions with denominator dividing     *)
(* Scale, so deficits are kept as integers in units of 1/Scale bit; the    *)
(* rounding of the floating-point deficits is left out.                    *)
(***************************************************************************)
EXTENDS ContactPlan, FiniteSets

CONSTANTS
  Plans,          \* contact plans to run over
  Workloads,      \* lists of bundles given to run(): class, size, ingress, ttl
  Policies,       \* drain policies to try
  Admissions,     \* priority_aware_admission: "default", "on", "off"
  SkipOvers,      \* fifo_skip_over
  Capacities,     \* max_queue_bytes
  MaxSize,        \* largest bundle
  MaxRounds       \* the defensive bound on DRR rounds, 10000 in the code

RANK == [emergency |-> 0, telemetry |-> 1, science_bulk |-> 2, media |-> 3]
UtilityWeight ==
  [emergency |-> 100, telemetry |-> 10, science_bulk |-> 1, media |-> 0]
QueueBudget == [telemetry |-> 10, science_bulk |-> 1, media |-> 1]
Class == DOMAIN RANK
WfqIndex == [telemetry |-> 0, science_bulk |-> 1, media |-> 2]   \* _WFQ_CLASSES
WfqClass == DOMAIN QueueBudget
Wfq == {"wfq", "wfq_skip_over"}
Policy == Wfq \cup {"fifo", "strict_priority", "deadline_aware",
                    "utility_aware", "utility_pure"}
Scale == 132

BundleIn == [cls : Class, size : 1..MaxSize, ingress : Int, ttl : Nat]

ASSUME SchedulerAssumption ==
  /\ Plans \subseteq Plan
  /\ Workloads \subseteq Seq(BundleIn)
  /\ Policies \subseteq Policy
  /\ Admissions \subseteq {"default", "on", "off"}
  /\ SkipOvers \subseteq BOOLEAN
  /\ Capacities \subseteq Nat \ {0}
  /\ MaxSize \in Nat
  /\ MaxRounds \in Nat

VARIABLES
  plan, bundles,   \* the inputs
  config,          \* the constructor's arguments: policy, cap, admission, skip
  arrivals,        \* pending_arrivals: bundles not offered to the queue yet
  active,          \* _active, in order of ingress
  activeBytes,     \* _active_bytes
  state,           \* terminal_state of each bundle, "pending" at first
  contact,         \* contact_id: the window each bundle was sent in
  deficit,         \* _deficit, in units of 1/Scale bit
  rotation,        \* _rotation_index
  pc, cur, last,   \* control point, the window under way, the one before
  incoming,        \* arrival that bundles are being evicted for
  remaining,       \* remaining_bits of the window
  todo,            \* bundles the drain loop under way has still to try
  rounds,          \* DRR rounds completed in the window
  turn             \* the DRR round: classes still to come, its budget, weights

inputs == <<plan, bundles, config>>
queue == <<arrivals, active, activeBytes, state, contact>>
wfq == <<deficit, rotation, rounds, turn>>
control == <<cur, last, incoming>>
vars == <<inputs, queue, wfq, pc, control, remaining, todo>>

NoBundle == 0
NoTurn == [classes |-> {}, budget |-> 0, weight |-> 1]

MaxQueueBytes == config.capacity

Cls(b) == bundles[b].cls
Rank(b) == RANK[Cls(b)]
Size(b) == bundles[b].size
Bits(b) == 8 * Size(b)
Ingress(b) == bundles[b].ingress
Expiration(b) == Ingress(b) + bundles[b].ttl      \* set_ttl()
Utility(b) == UtilityWeight[Cls(b)]

(* The queued bundles that are still to be decided.                        *)
Waiting == {b \in active : state[b] = "pending"}

(* The bytes of the bundles of S, counted one by one.                      *)
Cells(S) == {x \in S \X (1..MaxSize) : x[2] <= Size(x[1])}
Bytes(S) == Cardinality(Cells(S))

(* The order of arrival; sorted() is stable, so ties keep the list order.  *)
Earlier(a, b) == Ingress(a) < Ingress(b) \/ (Ingress(a) = Ingress(b) /\ a < b)
Earliest(S) == {a \in S : \A b \in S \ {a} : Earlier(a, b)}

(* mark(): a second terminal state raises, which ends run().               *)
Marked(S, st) ==
  [b \in DOMAIN state |->
     IF b \notin S THEN state[b] ELSE IF state[b] = "pending" THEN st ELSE "raised"]

(* A scheduler just made, about to run over the plan and the bundles.      *)
Fresh ==
  /\ arrivals = DOMAIN bundles /\ active = {} /\ activeBytes = 0
  /\ state = [b \in DOMAIN bundles |-> "pending"]
  /\ contact = [b \in DOMAIN bundles |-> NoWindow]
  /\ deficit = [c \in WfqClass |-> 0] /\ rotation = 0
  /\ pc = "admit" /\ cur = FirstWindow(plan) /\ last = NoWindow
  /\ incoming = NoBundle
  /\ remaining = 0 /\ todo = {} /\ rounds = 0 /\ turn = NoTurn

Init ==
  /\ plan \in Plans /\ bundles \in Workloads
  /\ config \in [policy : Policies, capacity : Capacities, admission : Admissions,
                skip : SkipOvers]
  /\ Fresh

-----------------------------------------------------------------------------
(* Admission.                                                              *)
(* A mutant of PriorityAware: the WFQ policies are taken for FIFO's.       *)
PriorityAware_NotWfq ==
  IF config.admission = "default" THEN config.policy \notin Wfq \cup {"fifo"}
                                  ELSE config.admission = "on"

PriorityAware ==
  IF config.admission = "default" THEN config.policy # "fifo"
                                  ELSE config.admission = "on"

(* The bundles _admit_arrivals takes: all of them after the last window.   *)
Ready == {b \in arrivals : cur = NoWindow \/ Ingress(b) <= plan[cur].end}

(* A mutant of Fits: a full queue is never reached.                        *)
Fits_Strict(b) == activeBytes + Size(b) < MaxQueueBytes

Fits(b) == activeBytes + Size(b) <= MaxQueueBytes

(* The queued bundles that may make way for b.                             *)
Candidates(b) == {v \in active : Rank(v) > Rank(b)}

(* A mutant of Feasible: whatever there is to evict is evicted.            *)
Feasible_Greedy(b) == Candidates(b) # {}

(* Would evicting all of them be enough?                                   *)
Feasible(b) ==
  /\ Candidates(b) # {}
  /\ MaxQueueBytes - activeBytes + Bytes(Candidates(b)) >= Size(b)

(* A mutant of GoesBefore: the newest, of whatever rank.                   *)
GoesBefore_Newest(u, v) == Ingress(u) > Ingress(v) \/ (Ingress(u) = Ingress(v) /\ u < v)

(* The victim: of the lowest rank, and there of the latest ingress.        *)
GoesBefore(u, v) ==
  \/ Rank(u) > Rank(v)
  \/ Rank(u) = Rank(v) /\ Ingress(u) > Ingress(v)
  \/ Rank(u) = Rank(v) /\ Ingress(u) = Ingress(v) /\ u < v
Victim(b) == {v \in Candidates(b) : \A u \in Candidates(b) \ {v} : GoesBefore(v, u)}

Admit(b) ==
  /\ active' = active \cup {b}
  /\ activeBytes' = activeBytes + Size(b)
  /\ arrivals' = arrivals \ {b}
  /\ UNCHANGED <<state, contact>>

(* The bundle _try_admit is working on.                                    *)
Offered ==
  CASE pc = "admit" -> Earliest(Ready)
    [] pc = "evict" -> {incoming}
    [] OTHER -> {}

AdmitOne ==
  \E b \in Offered :
    /\ Fits(b)
    /\ Admit(b)
    /\ pc' = "admit" /\ incoming' = NoBundle
    /\ UNCHANGED <<inputs, wfq, cur, last, remaining, todo>>

BeginEviction ==
  /\ pc = "admit"
  /\ \E b \in Offered :
       /\ ~Fits(b) /\ PriorityAware /\ Feasible(b)
       /\ pc' = "evict" /\ incoming' = b
  /\ UNCHANGED <<inputs, queue, wfq, cur, last, remaining, todo>>

EvictOne ==
  /\ pc = "evict" /\ ~Fits(incoming)
  /\ \E v \in Victim(incoming) :
       /\ active' = active \ {v}
       /\ activeBytes' = activeBytes - Size(v)
       /\ state' = Marked({v}, "queue_overflow")
  /\ UNCHANGED <<inputs, arrivals, contact, wfq, pc, control, remaining, todo>>

(* No room, and no (more) bundles may be evicted.                          *)
OverflowOne ==
  \E b \in Offered :
    /\ ~Fits(b)
    /\ IF pc = "evict" THEN Candidates(b) = {} ELSE ~(PriorityAware /\ Feasible(b))
    /\ arrivals' = arrivals \ {b}
    /\ state' = Marked({b}, "queue_overflow")
    /\ pc' = "admit" /\ incoming' = NoBundle
    /\ UNCHANGED <<inputs, active, activeBytes, contact, wfq, cur, last, remaining, todo>>

AdmissionOver ==
  /\ pc = "admit" /\ Ready = {}
  /\ pc' = IF cur = NoWindow /\ last = NoWindow THEN "leftover" ELSE "expire"
  /\ UNCHANGED <<inputs, queue, wfq, control, remaining, todo>>

-----------------------------------------------------------------------------
(* Expiry, at the window's start or, in the end, at the last window's end. *)
(* A mutant of ExpiryTime: the last window's start, in the end.            *)
ExpiryTime_LastStart == IF cur = NoWindow THEN plan[last].start ELSE plan[cur].start

ExpiryTime == IF cur = NoWindow THEN plan[last].end ELSE plan[cur].start

Dead == {b \in Waiting : Expiration(b) <= ExpiryTime}

Expire ==
  /\ pc = "expire"
  /\ state' = Marked(Dead, "ttl_expired")
  /\ active' = active \ Dead
  /\ activeBytes' = activeBytes - Bytes(Dead)
  /\ pc' = IF cur = NoWindow THEN "leftover" ELSE "begin"
  /\ UNCHANGED <<inputs, arrivals, contact, wfq, control, remaining, todo>>

-----------------------------------------------------------------------------
(* The drain of one window.                                                *)
Eligible == {b \in Waiting : Ingress(b) < plan[cur].end}
ByClass(c) == {b \in Eligible : Cls(b) = c}

(* The bundles the first loop of the drain goes through.                   *)
Listed ==
  IF config.policy \in Wfq THEN ByClass("emergency") ELSE Eligible

BeginDrain ==
  /\ pc = "begin"
  /\ remaining' = Budget(plan[cur])
  /\ todo' = Listed
  /\ pc' = "drain"
  /\ UNCHANGED <<inputs, queue, wfq, control>>

(* utility_aware: will b be dead before the next window opens?             *)
AtRisk(b) ==
  LET n == NextAfter(plan, plan[cur].end)
  IN  n = NoWindow \/ Expiration(b) < plan[n].start

Denser(a, b) == Utility(a) * Size(b) > Utility(b) * Size(a)

(* Does a's sort key come before b's?                                      *)
Ahead(a, b) ==
  CASE config.policy = "strict_priority" -> Rank(a) < Rank(b)
    [] config.policy = "deadline_aware" -> Expiration(a) < Expiration(b)
    [] config.policy = "utility_pure" -> Denser(a, b)
    [] config.policy = "utility_aware" ->
         \/ AtRisk(a) /\ ~AtRisk(b)
         \/ AtRisk(a) /\ AtRisk(b) /\ Utility(a) > Utility(b)
         \/ ~AtRisk(a) /\ ~AtRisk(b) /\ Denser(a, b)
    [] OTHER -> FALSE      \* fifo, and emergency under the wfq policies

Before(a, b) == Ahead(a, b) \/ (~Ahead(b, a) /\ Earlier(a, b))
(* A mutant of Foremost: the order is reversed.                            *)
Foremost_Last(S) == {a \in S : \A b \in S \ {a} : Before(b, a)}

Foremost(S) == {a \in S : \A b \in S \ {a} : Before(a, b)}

Transmit(b) ==
  /\ state' = Marked({b}, "delivered")
  /\ contact' = [contact EXCEPT ![b] = cur]
  /\ remaining' = remaining - Bits(b)
  /\ activeBytes' = activeBytes - Size(b)

(* A mutant of CanSend: bytes are compared with bits.                      *)
CanSend_Bytes(b) == Size(b) <= remaining

CanSend(b) == Bits(b) <= remaining

SendForemost ==
  /\ pc = "drain"
  /\ \E b \in Foremost(todo) :
       /\ CanSend(b)
       /\ Transmit(b)
       /\ todo' = todo \ {b}
  /\ UNCHANGED <<inputs, arrivals, active, wfq, pc, control>>

StopsOnNonFit == config.policy = "fifo" /\ ~config.skip

DeferForemost ==
  /\ pc = "drain"
  /\ \E b \in Foremost(todo) :
       /\ ~CanSend(b)
       /\ todo' = IF StopsOnNonFit THEN {} ELSE todo \ {b}
  /\ UNCHANGED <<inputs, queue, wfq, pc, control, remaining>>

(* Classes with nothing to send do not keep their deficit.                 *)
IdleForget == [c \in WfqClass |-> IF ByClass(c) = {} THEN 0 ELSE deficit[c]]

DrainOver ==
  /\ pc = "drain" /\ todo = {}
  /\ IF config.policy \in Wfq
       THEN pc' = "round" /\ deficit' = IdleForget
       ELSE pc' = "close" /\ UNCHANGED deficit
  /\ rounds' = 0
  /\ UNCHANGED <<inputs, queue, rotation, turn, control, remaining, todo>>

-----------------------------------------------------------------------------
(* Deficit round robin over what the budget still allows.                  *)
Backlogged == {c \in WfqClass : ByClass(c) # {}}
WeightTotal ==
  LET weight(c) == IF c \in Backlogged THEN QueueBudget[c] ELSE 0
  IN  weight("telemetry") + weight("science_bulk") + weight("media")

SomeHeadFits == \E c \in WfqClass : \E b \in Earliest(ByClass(c)) : CanSend(b)

(* A mutant of RoundUseful: a single round per window.                     *)
RoundUseful_Once == remaining > 0 /\ rounds = 0 /\ SomeHeadFits

RoundUseful == remaining > 0 /\ rounds <= MaxRounds /\ SomeHeadFits

BeginRound ==
  /\ pc = "round" /\ RoundUseful
  /\ turn' = [classes |-> Backlogged, budget |-> remaining, weight |-> WeightTotal]
  /\ pc' = "turn"
  /\ UNCHANGED <<inputs, queue, deficit, rotation, rounds, control, remaining, todo>>

(* The classes take their turns in an order that rotates by window.        *)
Place(c) == (WfqIndex[c] - rotation) % 3
InTurn ==
  {c \in turn.classes : \A d \in turn.classes \ {c} : Place(c) < Place(d)}

Share(c) == (Scale * turn.budget * QueueBudget[c]) \div turn.weight

BeginTurn ==
  /\ pc = "turn"
  /\ \E c \in InTurn :
       /\ deficit' = [deficit EXCEPT ![c] = @ + Share(c)]
       /\ todo' = ByClass(c)
  /\ pc' = "serve"
  /\ UNCHANGED <<inputs, queue, rotation, rounds, turn, control, remaining>>

Affordable(b) == Scale * Bits(b) <= deficit[Cls(b)] /\ CanSend(b)

SendNext ==
  /\ pc = "serve"
  /\ \E b \in Earliest(todo) :
       /\ Affordable(b)
       /\ Transmit(b)
       /\ deficit' = [deficit EXCEPT ![Cls(b)] = @ - Scale * Bits(b)]
       /\ todo' = todo \ {b}
  /\ UNCHANGED <<inputs, arrivals, active, rotation, rounds, turn, pc, control>>

(* The head ends the turn; wfq_skip_over goes on behind it.                *)
PassNext ==
  /\ pc = "serve"
  /\ \E b \in Earliest(todo) :
       /\ ~Affordable(b)
       /\ todo' = IF config.policy = "wfq_skip_over" THEN todo \ {b} ELSE {}
  /\ UNCHANGED <<inputs, queue, wfq, pc, control, remaining>>

(* A class that has been emptied does not keep its deficit either.         *)
AfterTurn(c) == IF c \in Backlogged THEN deficit[c] ELSE 0

EndTurn ==
  /\ pc = "serve" /\ todo = {}
  /\ \E c \in InTurn :
       /\ deficit' = [deficit EXCEPT ![c] = AfterTurn(c)]
       /\ turn' = [turn EXCEPT !.classes = @ \ {c}]
       /\ IF turn.classes = {c}
            THEN pc' = "round" /\ rounds' = rounds + 1
            ELSE pc' = "turn" /\ UNCHANGED rounds
  /\ UNCHANGED <<inputs, queue, rotation, control, remaining, todo>>

RoundsOver ==
  /\ pc = "round" /\ ~RoundUseful
  /\ rotation' = (rotation + 1) % 3
  /\ pc' = "close"
  /\ UNCHANGED <<inputs, queue, deficit, rounds, turn, control, remaining, todo>>

-----------------------------------------------------------------------------
(* Mutants of CloseWindow: sent bundles stay in the queue; the walk asks   *)
(* for the window after the start of this one.                             *)
CloseWindow_Variant(kept, from) ==
  /\ pc = "close"
  /\ active' = kept
  /\ last' = cur /\ cur' = NextAfter(plan, from)
  /\ remaining' = 0 /\ rounds' = 0 /\ turn' = NoTurn
  /\ pc' = "admit"
  /\ UNCHANGED <<inputs, arrivals, activeBytes, state, contact, deficit, rotation,
                 incoming, todo>>
CloseWindow_KeepsSent == CloseWindow_Variant(active, plan[cur].end)
CloseWindow_FromStart == CloseWindow_Variant(Waiting, plan[cur].start)

(* The window is done; the walk goes on.                                   *)
CloseWindow ==
  /\ pc = "close"
  /\ active' = Waiting
  /\ last' = cur /\ cur' = NextAfter(plan, plan[cur].end)
  /\ remaining' = 0 /\ rounds' = 0 /\ turn' = NoTurn
  /\ pc' = "admit"
  /\ UNCHANGED <<inputs, arrivals, activeBytes, state, contact, deficit, rotation,
                 incoming, todo>>

(* What is still pending after the last window was never scheduled.        *)
WriteOff ==
  /\ pc = "leftover"
  /\ state' = Marked(Waiting, "never_scheduled")
  /\ active' = {}
  /\ pc' = "done"
  /\ UNCHANGED <<inputs, arrivals, activeBytes, contact, wfq, control, remaining, todo>>

Done == pc = "done" /\ UNCHANGED vars

-----------------------------------------------------------------------------
Admission == AdmitOne \/ BeginEviction \/ EvictOne \/ OverflowOne \/ AdmissionOver
Drain == BeginDrain \/ SendForemost \/ DeferForemost \/ DrainOver
RoundRobin == BeginRound \/ BeginTurn \/ SendNext \/ PassNext \/ EndTurn \/ RoundsOver

Run == Admission \/ Expire \/ Drain \/ RoundRobin \/ CloseWindow \/ WriteOff

Next == Run \/ Done

Spec == Init /\ [][Next]_vars

(* run() is a sequential program: it takes its next step.                  *)
FairSpec == Spec /\ WF_vars(Run)
=============================================================================
