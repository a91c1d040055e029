----------------------------- MODULE DtnSegment -----------------------------
(***************************************************************************)
(* The DTN segment on which the delivery law is measured                   *)
(* (link_controller/ceiling_pilot.py) and on which the bridge without a    *)
(* policy runs (link_controller/n6_bridge.py): run() compresses the        *)
(* contact plan, a toggler thread lights and darkens the link around the   *)
(* contacts, a worker injects bundles into one uD3TN node per lifetime,    *)
(* the nodes forward during contacts what has not expired, the receiver    *)
(* logs, and analyze() compares what arrived with what predict_one and     *)
(* closed_form say.                                                        *)
(*                                                                         *)
(* Time is counted in ticks, Second of them to a second, from the first    *)
(* contact on (t_start_unix is 0).  Every poll loop notices its deadline   *)
(* up to Late ticks after it; within the same tick the processes act in    *)
(* any order.  The uD3TN nodes and the netem link are not under src/: they *)
(* are modelled from how the two programs configure and use them.          *)
(***************************************************************************)
EXTENDS Integers, Sequences, FiniteSets, FiniteSetsExt

CONSTANTS
  Modes,          \* subset of {"pilot", "bridge"}: which program runs
  RawPlans,       \* plans: sequences of contacts with fields start and end
  K,              \* time compression
  Lifetimes,      \* seconds, one per moon node of the pilot
  PlanLifetimes,  \* seconds before compression, one per node of the bridge
  Second,         \* ticks in a second
  Guard,          \* NETEM_GUARD_S in ticks
  Late,           \* bound: how late a poll loop or a process may act
  Owlt,           \* the link's one-way light time, rounded up to ticks
  Drain,          \* the wait after the last injection
  Lead,           \* seconds from the start of the program to the contact
  Dt,             \* the pilot's injection interval
  MaxPackets,     \* bound: packets of the bridge's capture
  CaptureEnd      \* bound: the capture ends or passes t_end by this tick

(* round(n / k): halves go to the even neighbour.                          *)
Rounded(n) ==
  LET q == n \div K
      r == n % K
  IN  IF 2 * r < K \/ (2 * r = K /\ q % 2 = 0) THEN q ELSE q + 1

Compressed(raw) ==
  [i \in DOMAIN raw |-> [from |-> Rounded(raw[i].start - raw[1].start),
                         to |-> Rounded(raw[i].end - raw[1].start)]]

(* Rounding must leave a second between contacts: with a gap of zero the   *)
(* toggler would darken the link inside the second contact.                *)
ASSUME SegmentAssumption ==
  /\ Modes \subseteq {"pilot", "bridge"}
  /\ K \in Nat \ {0} /\ Second \in Nat \ {0} /\ Dt \in Nat \ {0}
  /\ Late \in Nat /\ Owlt \in Nat /\ Lead \in Nat /\ Drain \in Nat
  /\ MaxPackets \in Nat /\ CaptureEnd \in Nat /\ Guard \in Nat
  /\ RawPlans \subseteq Seq([start : Int, end : Int])
  /\ Lifetimes \in Seq(Nat \ {0}) /\ PlanLifetimes \in Seq(Nat)
  /\ DOMAIN Lifetimes = DOMAIN PlanLifetimes
  /\ Late <= Guard /\ Owlt <= Guard \* the guard band outlasts both
  /\ 2 * Guard <= Second
  /\ \A raw \in RawPlans :
       LET w == Compressed(raw)
       IN  /\ Len(w) > 1
           /\ \A i \in DOMAIN w : w[i].from < w[i].to
           /\ \A i \in 2..Len(w) : w[i - 1].to + 1 <= w[i].from

VARIABLES
  mode,       \* the program
  W,          \* windows_rel: the compressed windows, in seconds
  clock,
  tog,        \* netem switches the toggler has made
  mpc,        \* run(): waiting for the worker, draining, analysed
  killAt,     \* when the drain is over
  seq,        \* injection rounds (pilot) or packets (bridge) done
  now,        \* the clock read of the round under way, 0 between rounds
  sending,    \* nodes the round has still to send to
  held,       \* bundles stored on the nodes
  flight,     \* bundles on the link
  predicted   \* per node: bundles sent for which predict_one holds

worker == <<seq, now, sending>>
vars == <<mode, W, clock, tog, mpc, killAt, worker, held, flight, predicted>>

Nodes == DOMAIN Lifetimes
Windows == DOMAIN W
From(i) == Second * W[i].from
To(i) == Second * W[i].to
TEnd == To(Len(W))
Span == W[Len(W)].to - W[1].from

(* A node's lifetime in seconds: an argument of the pilot; of the bridge,  *)
(* the class's planned lifetime compressed, but no less than a second.     *)
Lifetime(i) ==
  IF mode = "pilot" THEN Lifetimes[i] ELSE Max({1, Rounded(PlanLifetimes[i])})
Ttl(i) == Second * Lifetime(i)

-----------------------------------------------------------------------------
(* The two forecasts analyze() compares the measurement with.              *)

(* A mutant of PredictOne: a contact does not contain its first instant.   *)
PredictOne_OpenStart(t, ttl) ==
  \E i \in Windows :
    /\ \A j \in 1..(i - 1) : t >= To(j)
    /\ t < To(i) /\ t # From(i)
    /\ t < From(i) => From(i) - t < ttl

(* Sent in a contact, or less than a lifetime before the next one.         *)
PredictOne(t, ttl) ==
  \E i \in Windows :
    /\ \A j \in 1..(i - 1) : t >= To(j)
    /\ t < To(i)
    /\ t < From(i) => From(i) - t < ttl

Gaps == 1..(Len(W) - 1)
Gap(i) == W[i + 1].from - W[i].to
Length == [i \in Windows |-> W[i].to - W[i].from]
Saved(l) == [i \in Gaps |-> Min({l, Gap(i)})]
ContactTime == MapThenSumSet(LAMBDA i : Length[i], Windows)

(* closed_form times the span, in seconds.                                 *)
ClosedForm_NoCap(l) == ContactTime + MapThenSumSet(LAMBDA i : l, Gaps)   \* a mutant
ClosedForm(l) == ContactTime + MapThenSumSet(LAMBDA i : Saved(l)[i], Gaps)

-----------------------------------------------------------------------------
(* The link.  Switch j + 1 of the toggler lights it a guard band before a  *)
(* contact if j is even, and darkens it a guard band after one if j is odd.*)
TogDue_NoGuard(j) == IF j % 2 = 0 THEN From(j \div 2 + 1) ELSE To(j \div 2 + 1)
TogDue(j) ==
  IF j % 2 = 0 THEN From(j \div 2 + 1) - Guard ELSE To(j \div 2 + 1) + Guard
Switches == 2 * Len(W)
Lit == tog % 2 = 1

Toggle ==
  /\ mpc # "analysed"
  /\ tog < Switches /\ clock >= TogDue(tog)
  /\ tog' = tog + 1
  /\ UNCHANGED <<mode, W, clock, mpc, killAt, worker, held, flight, predicted>>

-----------------------------------------------------------------------------
(* The worker that injects.  A round of the pilot sends one bundle to      *)
(* every node under a single clock read; a packet of the bridge goes to    *)
(* the node of its class.                                                  *)
Working == mpc = "run"

RoundDue == seq * Dt                   \* t_next - t_start
Clients == Nodes

BeginRound ==
  /\ Working /\ mode = "pilot" /\ sending = {}
  /\ RoundDue < TEnd /\ clock >= RoundDue
  /\ now' = clock
  /\ sending' = Clients
  /\ UNCHANGED <<mode, W, clock, tog, mpc, killAt, seq, held, flight, predicted>>

(* A packet before t_start is skipped, as is one of an unknown tunnel.     *)
TakePacket(i) ==
  /\ Working /\ mode = "bridge" /\ sending = {}
  /\ seq < MaxPackets
  /\ 0 <= clock /\ clock < TEnd
  /\ now' = clock
  /\ sending' = {i}
  /\ UNCHANGED <<mode, W, clock, tog, mpc, killAt, seq, held, flight, predicted>>

(* After its last send a round counts, and t_next moves on.                *)
AfterSend(rest) ==
  /\ sending' = rest
  /\ seq' = IF rest = {} THEN seq + 1 ELSE seq
  /\ now' = IF rest = {} THEN 0 ELSE now

(* send_bundle, and the line of sent.jsonl.  The node starts the lifetime  *)
(* when it gets the bundle; the line holds the round's clock read.         *)
SendNext ==
  /\ Working /\ sending # {}
  /\ LET i == Min(sending)
     IN  /\ held' = held \cup {[node |-> i, seq |-> seq, t |-> now, born |-> clock]}
         /\ predicted' = [predicted EXCEPT ![i] =
                            @ + IF PredictOne(now, Ttl(i)) THEN 1 ELSE 0]
         /\ AfterSend(sending \ {i})
  /\ UNCHANGED <<mode, W, clock, tog, mpc, killAt, flight>>

(* The pilot's worker ends after its last round; the bridge's at the end   *)
(* of the capture, or when a packet comes after t_end.  run() then sleeps. *)
DrainOver_AtOnce == clock              \* a mutant: no sleep
DrainOver == clock + Drain
WorkerExit_NeedsPackets ==             \* a mutant: the end of the capture is missed
  /\ Working /\ sending = {}
  /\ IF mode = "pilot" THEN RoundDue >= TEnd ELSE seq = MaxPackets
  /\ mpc' = "drain"
  /\ killAt' = DrainOver
  /\ UNCHANGED <<mode, W, clock, tog, worker, held, flight, predicted>>
WorkerExit ==
  /\ Working /\ sending = {}
  /\ mode = "pilot" => RoundDue >= TEnd
  /\ mpc' = "drain"
  /\ killAt' = DrainOver
  /\ UNCHANGED <<mode, W, clock, tog, worker, held, flight, predicted>>

(* The receiver and the nodes are killed and the logs are analysed.        *)
Analyse ==
  /\ mpc = "drain" /\ clock >= killAt
  /\ mpc' = "analysed"
  /\ UNCHANGED <<mode, W, clock, tog, killAt, worker, held, flight, predicted>>

-----------------------------------------------------------------------------
(* The uD3TN nodes, and the link as they use it.                           *)
InContact == {i \in Windows : From(i) <= clock /\ clock < To(i)}
Expired(b) == clock >= b.born + Ttl(b.node)
Forwardable(b) == InContact # {} /\ ~Expired(b)

Forward(b) ==
  /\ mpc # "analysed"
  /\ Forwardable(b)
  /\ held' = held \ {b}
  /\ flight' = flight \cup {[b |-> b, at |-> clock]}
  /\ UNCHANGED <<mode, W, clock, tog, mpc, killAt, worker, predicted>>

Expire(b) ==
  /\ mpc # "analysed"
  /\ Expired(b)
  /\ held' = held \ {b}
  /\ UNCHANGED <<mode, W, clock, tog, mpc, killAt, worker, flight, predicted>>

(* worker_rx logs the bundle.  What meets a dark link is retransmitted     *)
(* when the link is lit again.                                             *)
Arrive(f) ==
  /\ mpc # "analysed"
  /\ Lit
  /\ flight' = flight \ {f}
  /\ UNCHANGED <<mode, W, clock, tog, mpc, killAt, worker, held, predicted>>

-----------------------------------------------------------------------------
(* A tick passes only while nothing is more than Late ticks overdue.       *)
ContactStart == Max({From(i) : i \in InContact})

Overdue ==
  \/ tog < Switches /\ clock >= TogDue(tog) + Late
  \/ sending # {} /\ clock >= now + Late
  \/ /\ Working /\ mode = "pilot" /\ sending = {}
     /\ clock >= RoundDue + Late \/ RoundDue >= TEnd
  \/ Working /\ mode = "bridge" /\ clock >= CaptureEnd
  \/ mpc = "drain" /\ clock >= killAt + Late
  \/ \E b \in held : Expired(b)
  \/ \E b \in held : Forwardable(b) /\ clock >= Max({b.born, ContactStart}) + Late
  \/ \E f \in flight : Lit /\ clock >= f.at + Owlt

Tick ==
  /\ mpc # "analysed" /\ ~Overdue
  /\ clock' = clock + 1
  /\ UNCHANGED <<mode, W, tog, mpc, killAt, worker, held, flight, predicted>>

(* t0_dtn is the next whole second but Lead: the first contact is between  *)
(* Lead - 1 and Lead seconds away.                                         *)
Init ==
  /\ mode \in Modes
  /\ W \in {Compressed(raw) : raw \in RawPlans}
  /\ clock \in {j - Lead * Second : j \in 0..(Second - 1)}
  /\ tog = 0 /\ mpc = "run" /\ killAt = 0
  /\ seq = 0 /\ now = 0 /\ sending = {}
  /\ held = {} /\ flight = {}
  /\ predicted = [i \in Nodes |-> 0]

Work == BeginRound \/ (\E i \in Nodes : TakePacket(i)) \/ SendNext
Net == Toggle \/ (\E b \in held : Forward(b) \/ Expire(b)) \/ (\E f \in flight : Arrive(f))

Next == Tick \/ Work \/ WorkerExit \/ Analyse \/ Net

(* The operating system runs every process, and time passes.  Nothing      *)
(* makes the capture produce packets, but it ends.                         *)
Fairness ==
  /\ WF_vars(Tick)
  /\ WF_vars(BeginRound) /\ WF_vars(SendNext) /\ WF_vars(WorkerExit)
  /\ WF_vars(Analyse)
  /\ WF_vars(Net)

Spec == Init /\ [][Next]_vars /\ Fairness
=============================================================================
