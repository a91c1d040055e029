-------------------------- MODULE GatewayProperties --------------------------
(***************************************************************************)
(* What the live gateway is expected to do, stated over GatewayWorker.     *)
(***************************************************************************)
EXTENDS GatewayWorker

Bundles == 1..Len(bundle)
Lines(b) == {i \in DOMAIN evlog : evlog[i].seq = b}
LinesOf(b, evs) == {i \in Lines(b) : evlog[i].ev \in evs}
Fates == {"evict", "drop", "expire", "fwd"}

ReaderPcs == {"recv", "offer", "purge", "decide", "done"}
MainPcs == {"check", "top", "poll", "next", "send", "snapshot", "report", "exit"}
Offered == IF rpc \in {"offer", "purge", "decide"} THEN {Arriving} ELSE {}
InHand == {hand} \ {None}

(* Every variable keeps its type (the constructor of LiveGateway,          *)
(* live_gateway.py:34-46, and the locals of worker_gateway).               *)
TypeOK ==
  /\ bundle \in Seq(Bundle)
  /\ q \in [Class -> Seq(Nat \ {0})]
  /\ fifo \in Seq(Nat \ {0})
  /\ gone \subseteq Nat \ {0}
  /\ bytes \in Int
  /\ deficit \in [DrrClass -> Nat]
  /\ rr \in Seq(DrrClass) /\ Len(rr) = Len(DrrOrder)
  /\ evlog \in Seq([ev : Event, seq : Nat \ {0}, t : Nat])
  /\ clock \in Nat
  /\ gwlock \in {"free", "reader", "main"}
  /\ rpc \in ReaderPcs
  /\ mpc \in MainPcs
  /\ mnow \in Nat /\ hand \in Nat /\ tfree \in Nat /\ rounds \in Nat
  /\ left \subseteq Nat \ {0}

-----------------------------------------------------------------------------
(* The units of size the bundles of S take up.                             *)
Cells(S) == {x \in S \X (1..MaxSize) : x[2] <= Size(x[1])}

(* The byte count is exactly what the queued bundles are charged, through  *)
(* every purge, eviction, drop and pop of both threads, and never exceeds  *)
(* the capacity (live_gateway.py:54-73, 85, 93).                           *)
BytesExact ==
  /\ bytes = Cardinality(Cells(Queued))
  /\ bytes <= Cap

(* Every bundle the reader recorded is in exactly one place: in admit(),   *)
(* queued, returned by next() and not yet logged, or decided by exactly    *)
(* one line of gw.jsonl - never lost, never decided twice, whatever the    *)
(* two threads interleave (live_gateway.py:62-70, 83-94; n6_bridge.py:252- *)
(* 257).  The lines that list the final snapshot are left out.             *)
OnePlace ==
  \A b \in Bundles :
    Cardinality(LinesOf(b, Fates))
      + Cardinality({b} \cap Queued)
      + Cardinality({b} \cap InHand)
      + Cardinality({b} \cap Offered) = 1

(* The class queues hold no gone bundle, nothing twice, and hold the       *)
(* bundles of their class in arrival order; under the fifo policy the      *)
(* global order holds exactly the queued ones besides the gone ones, so no *)
(* bundle is stranded in its class queue (live_gateway.py:40-41, 99-109).  *)
QueuesAgree ==
  /\ \A c \in Class :
       /\ \A i, j \in DOMAIN q[c] : i < j => q[c][i] < q[c][j]
       /\ \A b \in Elems(q[c]) : b \notin gone /\ Cls(b) = c
  /\ Policy = "fifo" => Queued = Elems(fifo) \ gone

(* A DRR deficit never reaches the largest bundle plus one credit, so no   *)
(* class can save up for a burst (live_gateway.py:118-134).                *)
DeficitBound ==
  \A c \in DrrClass : deficit[c] < MaxSize + Quantum * Weight[c]

(* Nothing is forwarded, by the poll's clock, outside a contact, past its  *)
(* class lifetime, or while the link still carries the bundle before it    *)
(* (live_gateway.py:23-25; n6_bridge.py:248-258).                          *)
ForwardedInTime ==
  \A i \in DOMAIN evlog :
    evlog[i].ev = "fwd" =>
      /\ InContact(evlog[i].t)
      /\ ~Expired(evlog[i].seq, evlog[i].t)
      /\ \A j \in 1..(i - 1) :
           evlog[j].ev = "fwd" => evlog[i].t >= evlog[j].t + Slot * Size(evlog[j].seq)

-----------------------------------------------------------------------------
(* next() gives its round robin up after MaxRounds iterations: enough for  *)
(* the deficit of a waiting class to reach the largest bundle.  With the   *)
(* code's 10000 iterations, quantum 1500 and weights 10, 1 and 1 that      *)
(* holds of bundles up to 4.9 MB (live_gateway.py:30-31, 123-135).         *)
ASSUME RoundsAssumption ==
  \A c \in DrrClass : (MaxRounds - 5) * (Quantum * Weight[c]) > 3 * (MaxSize - 1)

(* Work conservation: a poll that returns None leaves nothing queued; in   *)
(* particular the round robin ends with a bundle within its bound of       *)
(* iterations whenever one waits (live_gateway.py:96-135).                 *)
WorkConserving ==
  [][ (mpc = "next" /\ mpc' = "check") => Queued = {} ]_vars

-----------------------------------------------------------------------------
(* The worker implements the abstract store: what gw.jsonl and the queues  *)
(* tell of a bundle only ever moves as BundleStore allows (all of          *)
(* live_gateway.py under the two threads of n6_bridge.py).                 *)
PlaceOf(b) ==
  CASE b \in Queued -> "queued"
    [] b \in InHand -> "inhand"
    [] b \in Offered -> "offered"
    [] OTHER -> evlog[CHOOSE i \in LinesOf(b, Fates) : TRUE].ev

Store == INSTANCE BundleStore WITH place <- [b \in Bundles |-> PlaceOf(b)]
ImplementsStore == Store!StoreSpec

-----------------------------------------------------------------------------
(* The main thread always gets to the end of the run: neither the gateway  *)
(* lock nor a poll holds it up for ever (n6_bridge.py:247-270).            *)
RunEnds == <>(mpc = "exit")

(* "Live gateway: fate of every bundle" (n6_bridge.py:373): once the       *)
(* worker has ended, gw.jsonl decides each bundle of sent.jsonl, once.     *)
FateOfEveryBundle == mpc = "exit" => \A b \in Bundles : Cardinality(Lines(b)) = 1
=============================================================================
