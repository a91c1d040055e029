----------------------------- MODULE LiveGateway -----------------------------
(***************************************************************************)
(* The bounded buffer of link_controller/live_gateway.py: one FIFO per     *)
(* class, a second FIFO over all classes for the class-blind policy, the   *)
(* byte count, and the deficit round robin (DRR) of the wfq policy.        *)
(*                                                                         *)
(* admit() and next() run under the object's lock.  What happens inside is *)
(* broken into the iterations of their loops: each operator below is one   *)
(* iteration, to be taken by the thread that holds the lock (module        *)
(* GatewayWorker).  The log callback writes one line of gw.jsonl.  It is   *)
(* called with the gateway's lock held and takes a lock of its own only    *)
(* for the write, so a line is appended atomically.                        *)
(*                                                                         *)
(* A bundle is named by its sequence number, its index in "bundle".        *)
(***************************************************************************)
EXTENDS Integers, Sequences, FiniteSets

CONSTANTS
  Policy,      \* drain policy: "fifo", "strict" or "wfq"
  Admission,   \* "droptail" or "priority"
  Cap,         \* buffer_bytes
  Lifetime,    \* the lifetimes of the schedule, by class
  Quantum,     \* WFQ_QUANTUM
  Weight,      \* WFQ_WEIGHT, by class of the round robin
  MaxSize      \* largest size of a bundle, header and overhead included

RANK == [emergency |-> 0, telemetry |-> 1, sci_bulk |-> 2, media |-> 3]
Class == DOMAIN RANK
ByRank == <<"emergency", "telemetry", "sci_bulk", "media">>
DrrOrder == Tail(ByRank)
DrrClass == Class \ {"emergency"}

ASSUME GatewayAssumption ==
  /\ Policy \in {"fifo", "strict", "wfq"}
  /\ Admission \in {"droptail", "priority"}
  /\ Cap \in Nat
  /\ Lifetime \in [Class -> Nat]
  /\ Quantum \in Nat \ {0}
  /\ Weight \in [DrrClass -> Nat \ {0}]
  /\ MaxSize \in Nat \ {0}

VARIABLES
  bundle,    \* the bundle dicts made so far: class, size n, arrival time t
  q,         \* per-class FIFOs
  fifo,      \* arrival order over all classes
  gone,      \* the bundles whose "gone" flag is set
  bytes,     \* bytes charged to the buffer
  deficit,   \* DRR deficit counters
  rr,        \* DRR visiting order
  evlog      \* gw.jsonl: the events logged, in order

gwvars == <<bundle, q, fifo, gone, bytes, deficit, rr, evlog>>

Bundle == [cls : Class, n : 1..MaxSize, t : Nat]
Event == {"evict", "drop", "expire", "fwd", "queued_at_end"}

Cls(b) == bundle[b].cls
Size(b) == bundle[b].n
Rank(b) == RANK[Cls(b)]
Expired(b, now) == now - bundle[b].t > Lifetime[Cls(b)]

Elems(s) == {s[i] : i \in DOMAIN s}
Queued == UNION {Elems(q[c]) : c \in Class}

GatewayInit ==
  /\ bundle = <<>>
  /\ q = [c \in Class |-> <<>>]
  /\ fifo = <<>>
  /\ gone = {}
  /\ bytes = 0
  /\ deficit = [c \in DrrClass |-> 0]
  /\ rr = DrrOrder
  /\ evlog = <<>>

Log(ev, b, t) == evlog' = Append(evlog, [ev |-> ev, seq |-> b, t |-> t])

(* The first class in the order s that is in S.                            *)
FirstIn(s, S) ==
  s[CHOOSE i \in DOMAIN s : s[i] \in S /\ \A j \in 1..(i - 1) : s[j] \notin S]

-----------------------------------------------------------------------------
(* _head(): an iteration that discards the head of class c, either because *)
(* it is already gone or because it outlived its class.                    *)
Stale(c, now) ==
  /\ q[c] # <<>>
  /\ Head(q[c]) \in gone \/ Expired(Head(q[c]), now)

StaleClasses(now) == {c \in Class : Stale(c, now)}

Discard(c, now) ==
  LET h == Head(q[c]) IN
  /\ q' = [q EXCEPT ![c] = Tail(@)]
  /\ IF h \in gone
       THEN UNCHANGED <<gone, bytes, evlog>>
       ELSE /\ gone' = gone \cup {h}
            /\ bytes' = bytes - Size(h)
            /\ Log("expire", h, now)
  /\ UNCHANGED <<bundle, fifo, deficit, rr>>

(* _take(): the head of class c leaves the buffer.                         *)
Take(c) ==
  LET h == Head(q[c]) IN
  /\ q' = [q EXCEPT ![c] = Tail(@)]
  /\ gone' = gone \cup {h}
  /\ bytes' = bytes - Size(h)

-----------------------------------------------------------------------------
(* admit(b, now), iteration by iteration.                                  *)
OverCap(b) == bytes + Size(b) > Cap

(* A mutant of Evictable: bundles of the arrival's own class may go too.   *)
Evictable_SameRank(b) == {c \in Class : RANK[c] >= Rank(b) /\ q[c] # <<>>}

(* The classes that may still give up a bundle to b.                       *)
Evictable(b) == {c \in Class : RANK[c] > Rank(b) /\ q[c] # <<>>}

MayEvict(b) == OverCap(b) /\ Admission = "priority" /\ Evictable(b) # {}

(* Mutants of Evict: the victim stays in its queue; the victim's gone flag *)
(* is not set; its bytes are not given back.                               *)
Evict_Variant(b, now, popped, flagged, credited) ==
  LET c == CHOOSE c \in Evictable(b) : \A d \in Evictable(b) : RANK[d] <= RANK[c]
      v == q[c][Len(q[c])]
  IN  /\ q' = IF popped THEN [q EXCEPT ![c] = SubSeq(@, 1, Len(@) - 1)] ELSE q
      /\ gone' = IF flagged THEN gone \cup {v} ELSE gone
      /\ bytes' = IF credited THEN bytes - Size(v) ELSE bytes
      /\ Log("evict", v, now)
      /\ UNCHANGED <<bundle, fifo, deficit, rr>>
Evict_NotPopped(b, now) == Evict_Variant(b, now, FALSE, TRUE, TRUE)
Evict_NotFlagged(b, now) == Evict_Variant(b, now, TRUE, FALSE, TRUE)
Evict_NotCredited(b, now) == Evict_Variant(b, now, TRUE, TRUE, FALSE)

(* The newest bundle of the lowest class below b's is evicted.             *)
Evict(b, now) ==
  LET c == CHOOSE c \in Evictable(b) : \A d \in Evictable(b) : RANK[d] <= RANK[c]
      v == q[c][Len(q[c])]
  IN  /\ q' = [q EXCEPT ![c] = SubSeq(@, 1, Len(@) - 1)]
      /\ gone' = gone \cup {v}
      /\ bytes' = bytes - Size(v)
      /\ Log("evict", v, now)
      /\ UNCHANGED <<bundle, fifo, deficit, rr>>

Drop(b, now) ==
  /\ Log("drop", b, now)
  /\ UNCHANGED <<bundle, q, fifo, gone, bytes, deficit, rr>>

Enqueue(b) ==
  /\ gone' = gone \ {b}
  /\ q' = [q EXCEPT ![Cls(b)] = Append(@, b)]
  /\ fifo' = Append(fifo, b)
  /\ bytes' = bytes + Size(b)
  /\ UNCHANGED <<bundle, deficit, rr, evlog>>

-----------------------------------------------------------------------------
(* next(now), iteration by iteration.                                      *)

(* fifo: the head of the arrival order is served if it heads its class as  *)
(* well; one that is gone, or is not the head of its class, is skipped.    *)
FifoServable ==
  /\ Head(fifo) \notin gone
  /\ q[Cls(Head(fifo))] # <<>>
  /\ Head(q[Cls(Head(fifo))]) = Head(fifo)

FifoSkip ==
  /\ fifo' = Tail(fifo)
  /\ UNCHANGED <<bundle, q, gone, bytes, deficit, rr, evlog>>

FifoTake ==
  /\ Take(Cls(Head(fifo)))
  /\ fifo' = Tail(fifo)
  /\ UNCHANGED <<bundle, deficit, rr, evlog>>

(* strict, and emergency under wfq.                                        *)
PriorityTake(c) ==
  /\ Take(c)
  /\ UNCHANGED <<bundle, fifo, deficit, rr, evlog>>

(* wfq: nothing is backlogged, the round robin forgets its deficits.       *)
DrrReset ==
  /\ deficit' = [c \in DrrClass |-> 0]
  /\ UNCHANGED <<bundle, q, fifo, gone, bytes, rr, evlog>>

(* A mutant of DrrCanServe: the deficit is not compared with the head.     *)
DrrCanServe_NoDeficit(c) == q[c] # <<>>

DrrCanServe(c) == q[c] # <<>> /\ deficit[c] >= Size(Head(q[c]))

DrrTake(c) ==
  /\ Take(c)
  /\ deficit' = [deficit EXCEPT ![c] = @ - Size(Head(q[c]))]
  /\ UNCHANGED <<bundle, fifo, rr, evlog>>

(* A mutant of DrrPass: an empty class keeps its deficit and is credited.  *)
DrrPass_Hoarding(c) ==
  /\ deficit' = [deficit EXCEPT ![c] = @ + Quantum * Weight[c]]
  /\ rr' = Append(Tail(rr), c)
  /\ UNCHANGED <<bundle, q, fifo, gone, bytes, evlog>>

(* wfq: the visited class has nothing, or too small a deficit for its      *)
(* head; it goes to the end of the visiting order.                         *)
DrrPass(c) ==
  /\ deficit' = [deficit EXCEPT ![c] =
                   IF q[c] = <<>> THEN 0 ELSE @ + Quantum * Weight[c]]
  /\ rr' = Append(Tail(rr), c)
  /\ UNCHANGED <<bundle, q, fifo, gone, bytes, evlog>>
=============================================================================
