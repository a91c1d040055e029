---------------------------- MODULE GatewayWorker ----------------------------
(***************************************************************************)
(* worker_gateway of link_controller/n6_bridge.py: the reader thread       *)
(* classifies packets, records them in sent.jsonl and admits them to the   *)
(* LiveGateway; the main thread drains it during contacts at the link      *)
(* rate, then lists what is left and ends the process.                     *)
(*                                                                         *)
(* Both threads read the clock first and use the value later: the "now" of *)
(* an admission or of a poll may be old when the lock is obtained, and the *)
(* loop condition and the loop body read the clock separately.             *)
(***************************************************************************)
EXTENDS LiveGateway

CONSTANTS
  T0, T1,      \* t_start_unix and t_end_unix of the schedule
  Contacts,    \* contacts_unix: records with fields from and to
  Slot,        \* clock ticks the link needs for a unit of size
  Offers,      \* classes and sizes of the packets the capture may hold
  MaxRounds,   \* iterations after which next() gives up the round robin
  MaxPackets,  \* bound: classified packets in the capture
  MaxClock     \* bound: the clock stops here, after T1

ASSUME WorkerAssumption ==
  /\ T0 \in Nat /\ T1 \in Nat /\ T0 <= T1
  /\ \A w \in Contacts : w.from \in Nat /\ w.to \in Nat
  /\ Slot \in Nat
  /\ Offers \subseteq [cls : Class, n : 1..MaxSize]
  /\ MaxRounds \in Nat
  /\ MaxPackets \in Nat
  /\ MaxClock \in Nat

None == 0      \* no bundle: sequence numbers start at 1

VARIABLES
  clock,     \* time.time()
  gwlock,    \* holder of the gateway's lock
  rpc,       \* control point of the reader
  mpc,       \* control point of the main thread
  mnow,      \* the main loop's "now", 0 while no poll uses it
  hand,      \* the bundle next() returned, not yet logged
  tfree,     \* t_free: when the paced link is free again
  rounds,    \* DRR iterations of the poll under way, else 0
  left       \* bundles of the snapshot still to be listed

main == <<mpc, mnow, hand, tfree, rounds, left>>
vars == <<gwvars, clock, gwlock, rpc, main>>

InContact(t) == \E w \in Contacts : w.from <= t /\ t < w.to
Running == mpc # "exit"      \* os._exit ends both threads at once

Init ==
  /\ GatewayInit
  /\ clock = 0
  /\ gwlock = "free"
  /\ rpc = "recv"
  /\ mpc = "check" /\ mnow = 0 /\ hand = None /\ tfree = 0 /\ rounds = 0
  /\ left = {}

Tick ==
  /\ Running /\ clock < MaxClock
  /\ clock' = clock + 1
  /\ UNCHANGED <<gwvars, gwlock, rpc, main>>

-----------------------------------------------------------------------------
(* The reader thread.  A packet before T0, or of a tunnel without a known  *)
(* class, is skipped and leaves nothing behind but a count.                *)
Arriving == Len(bundle)           \* the bundle being admitted
Arrival == bundle[Arriving].t     \* its "now"

Receive(o) ==
  /\ Running /\ rpc = "recv"
  /\ T0 <= clock /\ clock < T1
  /\ Len(bundle) < MaxPackets
  /\ bundle' = Append(bundle, [cls |-> o.cls, n |-> o.n, t |-> clock])
  /\ rpc' = "offer"
  /\ UNCHANGED <<q, fifo, gone, bytes, deficit, rr, evlog, clock, gwlock, main>>

(* The capture ends, or the first packet at or after T1 arrives.           *)
ReaderStop ==
  /\ Running /\ rpc = "recv"
  /\ rpc' = "done"
  /\ UNCHANGED <<gwvars, clock, gwlock, main>>

AdmitBegin ==
  /\ Running /\ rpc = "offer" /\ gwlock = "free"
  /\ gwlock' = "reader"
  /\ rpc' = IF OverCap(Arriving) THEN "purge" ELSE "decide"
  /\ UNCHANGED <<gwvars, clock, main>>

AdmitPurge ==
  /\ Running /\ rpc = "purge"
  /\ StaleClasses(Arrival) # {}
  /\ Discard(FirstIn(ByRank, StaleClasses(Arrival)), Arrival)
  /\ UNCHANGED <<clock, gwlock, rpc, main>>

(* A mutant of AdmitPurged: heads may stay although they have expired.     *)
AdmitPurged_Early ==
  /\ Running /\ rpc = "purge"
  /\ rpc' = "decide"
  /\ UNCHANGED <<gwvars, clock, gwlock, main>>

AdmitPurged ==
  /\ Running /\ rpc = "purge"
  /\ StaleClasses(Arrival) = {}
  /\ rpc' = "decide"
  /\ UNCHANGED <<gwvars, clock, gwlock, main>>

AdmitEvict ==
  /\ Running /\ rpc = "decide" /\ MayEvict(Arriving)
  /\ Evict(Arriving, Arrival)
  /\ UNCHANGED <<clock, gwlock, rpc, main>>

AdmitReturn ==
  /\ gwlock' = "free"
  /\ rpc' = "recv"
  /\ UNCHANGED <<clock, main>>

AdmitDrop ==
  /\ Running /\ rpc = "decide" /\ OverCap(Arriving) /\ ~MayEvict(Arriving)
  /\ Drop(Arriving, Arrival)
  /\ AdmitReturn

AdmitEnqueue ==
  /\ Running /\ rpc = "decide" /\ ~OverCap(Arriving)
  /\ Enqueue(Arriving)
  /\ AdmitReturn

-----------------------------------------------------------------------------
(* The main thread: the drain loop.                                        *)

(* A mutant of LoopTest: the loop goes on while bundles are queued.        *)
LoopTest_UntilEmpty ==
  /\ mpc = "check"
  /\ mpc' = IF clock < T1 \/ Queued # {} THEN "top" ELSE "snapshot"
  /\ UNCHANGED <<gwvars, clock, gwlock, rpc, mnow, hand, tfree, rounds, left>>

LoopTest ==
  /\ mpc = "check"
  /\ mpc' = IF clock < T1 THEN "top" ELSE "snapshot"
  /\ UNCHANGED <<gwvars, clock, gwlock, rpc, mnow, hand, tfree, rounds, left>>

(* A mutant of ReadClock: the paced link is not waited for.                *)
ReadClock_Unpaced ==
  /\ mpc = "top"
  /\ IF InContact(clock)
       THEN mpc' = "poll" /\ mnow' = clock
       ELSE mpc' = "check" /\ UNCHANGED mnow
  /\ UNCHANGED <<gwvars, clock, gwlock, rpc, hand, tfree, rounds, left>>

ReadClock ==
  /\ mpc = "top"
  /\ IF InContact(clock) /\ clock >= tfree
       THEN mpc' = "poll" /\ mnow' = clock
       ELSE mpc' = "check" /\ UNCHANGED mnow
  /\ UNCHANGED <<gwvars, clock, gwlock, rpc, hand, tfree, rounds, left>>

NextBegin ==
  /\ mpc = "poll" /\ gwlock = "free"
  /\ gwlock' = "main"
  /\ mpc' = "next"
  /\ UNCHANGED <<gwvars, clock, rpc, mnow, hand, tfree, rounds, left>>

NextReturn(b) ==
  /\ gwlock' = "free"
  /\ hand' = b
  /\ rounds' = 0
  /\ IF b = None
       THEN mpc' = "check" /\ mnow' = 0
       ELSE mpc' = "send" /\ UNCHANGED mnow
  /\ UNCHANGED <<clock, rpc, tfree, left>>

NextGoesOn ==
  UNCHANGED <<clock, gwlock, rpc, mpc, mnow, hand, tfree, left>>

Backlogged == {c \in Class : q[c] # <<>>}

(* The classes whose heads the poll looks at before it serves one.         *)
Examined ==
  CASE Policy = "fifo" -> IF fifo # <<>> /\ Head(fifo) \notin gone
                            THEN {Cls(Head(fifo))} ELSE {}
    [] Policy = "strict" -> IF Backlogged # {}
                              THEN {FirstIn(ByRank, Backlogged)} ELSE {}
    [] Policy = "wfq" -> IF "emergency" \in Backlogged
                           THEN {"emergency"} ELSE Backlogged
StaleHeads == Examined \cap StaleClasses(mnow)

NextDiscard ==
  /\ mpc = "next" /\ StaleHeads # {}
  /\ LET order == IF Policy = "wfq" THEN <<"emergency">> \o rr ELSE ByRank
     IN  Discard(FirstIn(order, StaleHeads), mnow)
  /\ NextGoesOn /\ UNCHANGED rounds

NextFifoSkip ==
  /\ mpc = "next" /\ Policy = "fifo" /\ StaleHeads = {}
  /\ fifo # <<>> /\ ~FifoServable
  /\ FifoSkip
  /\ NextGoesOn /\ UNCHANGED rounds

NextFifoTake ==
  /\ mpc = "next" /\ Policy = "fifo" /\ StaleHeads = {}
  /\ fifo # <<>> /\ FifoServable
  /\ FifoTake
  /\ NextReturn(Head(fifo))

NextPriorityTake ==
  /\ mpc = "next" /\ StaleHeads = {}
  /\ \/ Policy = "strict"
     \/ Policy = "wfq" /\ "emergency" \in Backlogged
  /\ \E c \in Examined : PriorityTake(c) /\ NextReturn(Head(q[c]))

DrrTurn ==
  /\ mpc = "next" /\ Policy = "wfq" /\ StaleHeads = {}
  /\ Backlogged # {} /\ "emergency" \notin Backlogged

NextDrrTake ==
  /\ DrrTurn /\ rounds < MaxRounds /\ DrrCanServe(Head(rr))
  /\ DrrTake(Head(rr))
  /\ NextReturn(Head(q[Head(rr)]))

NextDrrPass ==
  /\ DrrTurn /\ rounds < MaxRounds /\ ~DrrCanServe(Head(rr))
  /\ DrrPass(Head(rr))
  /\ rounds' = rounds + 1
  /\ NextGoesOn

(* A mutant of NothingServed: the round robin visits every class once.     *)
NothingServed_OneRound ==
  \/ Policy = "fifo" /\ fifo = <<>>
  \/ Policy # "fifo" /\ Backlogged = {}
  \/ DrrTurn /\ rounds >= Len(rr)

(* The poll returns None: nothing to serve, or the round robin gave up.    *)
NothingServed ==
  \/ Policy = "fifo" /\ fifo = <<>>
  \/ Policy # "fifo" /\ Backlogged = {}
  \/ DrrTurn /\ rounds >= MaxRounds

NextNone ==
  /\ mpc = "next" /\ StaleHeads = {} /\ NothingServed
  /\ IF Policy = "wfq" /\ Backlogged = {} THEN DrrReset ELSE UNCHANGED gwvars
  /\ NextReturn(None)

(* send_bundle, the "fwd" line and the pacing of the link.                 *)
Forward ==
  /\ mpc = "send"
  /\ Log("fwd", hand, mnow)
  /\ tfree' = (IF tfree > mnow THEN tfree ELSE mnow) + Slot * Size(hand)
  /\ hand' = None
  /\ mpc' = "check" /\ mnow' = 0
  /\ UNCHANGED <<bundle, q, fifo, gone, bytes, deficit, rr, clock, gwlock, rpc,
                 rounds, left>>

-----------------------------------------------------------------------------
(* The main thread: the end of the run.  The reader is not joined.         *)
Snapshot ==
  /\ mpc = "snapshot" /\ gwlock = "free"
  /\ left' = Queued \ gone
  /\ mpc' = "report"
  /\ UNCHANGED <<gwvars, clock, gwlock, rpc, mnow, hand, tfree, rounds>>

(* By class, and within a class in the order of its queue.                 *)
ListedBefore(b, a) == Rank(b) < Rank(a) \/ (Rank(b) = Rank(a) /\ b <= a)

ReportLeft ==
  /\ mpc = "report"
  /\ \E b \in left :
       /\ \A a \in left : ListedBefore(b, a)
       /\ Log("queued_at_end", b, clock)
       /\ left' = left \ {b}
  /\ UNCHANGED <<bundle, q, fifo, gone, bytes, deficit, rr, clock, gwlock, rpc,
                 mpc, mnow, hand, tfree, rounds>>

(* The files are closed and the process ends: a line the reader would      *)
(* still write between the two reaches no file.                            *)
Exit ==
  /\ mpc = "report" /\ left = {}
  /\ mpc' = "exit"
  /\ UNCHANGED <<gwvars, clock, gwlock, rpc, mnow, hand, tfree, rounds, left>>

Exited == mpc = "exit" /\ UNCHANGED vars

-----------------------------------------------------------------------------
ReaderNext ==
  \/ \E o \in Offers : Receive(o)
  \/ ReaderStop
  \/ AdmitBegin
  \/ AdmitPurge
  \/ AdmitPurged
  \/ AdmitEvict
  \/ AdmitDrop
  \/ AdmitEnqueue

NextPoll ==
  \/ NextDiscard
  \/ NextFifoSkip
  \/ NextFifoTake
  \/ NextPriorityTake
  \/ NextDrrTake
  \/ NextDrrPass
  \/ NextNone

MainNext ==
  \/ LoopTest
  \/ ReadClock
  \/ NextBegin
  \/ NextPoll
  \/ Forward
  \/ Snapshot
  \/ ReportLeft
  \/ Exit

Next == Tick \/ ReaderNext \/ MainNext \/ Exited

Spec == Init /\ [][Next]_vars

(* Time passes, the main thread is scheduled, and a thread in admit() gets *)
(* on with it.  The capture need not deliver anything.                     *)
Fairness ==
  /\ WF_vars(Tick)
  /\ WF_vars(MainNext)
  /\ WF_vars(AdmitPurge \/ AdmitPurged \/ AdmitEvict \/ AdmitDrop \/ AdmitEnqueue)

FairSpec == Spec /\ Fairness
=============================================================================
