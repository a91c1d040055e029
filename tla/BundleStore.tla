----------------------------- MODULE BundleStore -----------------------------
(***************************************************************************)
(* What the gateway promises of its bounded store, with no threads, locks, *)
(* queues or deficits: each bundle that arrives is in one place at a time  *)
(* and only ever moves along                                               *)
(*                                                                         *)
(*    offered -> drop                                                      *)
(*    offered -> queued -> evict                                           *)
(*               queued -> expire                                          *)
(*               queued -> inhand -> fwd                                   *)
(*                                                                         *)
(* under the conditions below.  It is the discipline that both             *)
(* link_controller/live_gateway.py (docstring, lines 10-25) and            *)
(* gateway/scheduler.py set out to implement.                              *)
(***************************************************************************)
EXTENDS Integers, FiniteSets, Sequences

CONSTANTS
  Class, RANK,   \* the classes and their rank, 0 the most urgent
  Policy,        \* "fifo", "strict" or "wfq"
  Admission,     \* "droptail" or "priority"
  Cap,           \* capacity
  Lifetime,      \* by class
  MaxSize        \* largest size

VARIABLES
  bundle,   \* what arrived: class, size, time
  place,    \* where each of them is
  clock

storevars == <<bundle, place, clock>>

In(p) == {b \in DOMAIN bundle : place[b] = p}
Stock == In("queued")
Used == Cardinality({x \in Stock \X (1..MaxSize) : x[2] <= bundle[x[1]].n})
Full(b) == Used + bundle[b].n > Cap
RankOf(b) == RANK[bundle[b].cls]
Before(u, v) == RankOf(u) < RankOf(v) \/ (RankOf(u) = RankOf(v) /\ u < v)
DeadAt(b, now) == now - bundle[b].t > Lifetime[bundle[b].cls]

Move(b, p) == place' = [place EXCEPT ![b] = p] /\ UNCHANGED <<bundle, clock>>

StoreInit == bundle = <<>> /\ place = <<>> /\ clock \in Nat

(* One bundle at a time is offered.                                        *)
Arrive ==
  /\ In("offered") = {}
  /\ \E c \in Class, n \in 1..MaxSize :
       bundle' = Append(bundle, [cls |-> c, n |-> n, t |-> clock])
  /\ place' = Append(place, "offered")
  /\ UNCHANGED clock

Accept(b) == b \in In("offered") /\ ~Full(b) /\ Move(b, "queued")

(* Dead bundles make way before a live one is evicted or refused.          *)
Live(b) == \A u \in Stock : ~DeadAt(u, bundle[b].t)

Refuse(b) ==
  /\ b \in In("offered") /\ Full(b) /\ Live(b)
  /\ Admission = "priority" => \A u \in Stock : RankOf(u) <= RankOf(b)
  /\ Move(b, "drop")

(* The newest bundle of the least urgent class makes way for b.            *)
Evict(v, b) ==
  /\ Admission = "priority"
  /\ b \in In("offered") /\ Full(b) /\ Live(b)
  /\ v \in Stock /\ RankOf(v) > RankOf(b)
  /\ \A u \in Stock \ {v} : Before(u, v)
  /\ Move(v, "evict")

(* A bundle older than its lifetime is discarded, oldest first.            *)
Expire(v) ==
  /\ v \in Stock /\ DeadAt(v, clock)
  /\ \A u \in Stock : RankOf(u) = RankOf(v) => u >= v
  /\ Move(v, "expire")

(* The link takes one bundle at a time, in the order of the policy.        *)
Serve(v) ==
  /\ In("inhand") = {} /\ v \in Stock
  /\ \A u \in Stock \ {v} :
       CASE Policy = "fifo" -> u > v
         [] Policy = "strict" -> Before(v, u)
         [] Policy = "wfq" -> /\ RankOf(u) = RankOf(v) => u > v
                              /\ RankOf(u) = 0 => RankOf(v) = 0
  /\ Move(v, "inhand")

Delivered(v) == v \in In("inhand") /\ Move(v, "fwd")

Wait == clock' > clock /\ UNCHANGED <<bundle, place>>

StoreNext ==
  \/ Arrive
  \/ \E b \in DOMAIN bundle : Accept(b) \/ Refuse(b) \/ Expire(b) \/ Serve(b) \/ Delivered(b)
  \/ \E v, b \in DOMAIN bundle : Evict(v, b)
  \/ Wait

StoreSpec == StoreInit /\ [][StoreNext]_storevars
=============================================================================
