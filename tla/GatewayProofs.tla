---------------------------- MODULE GatewayProofs ----------------------------
(***************************************************************************)
(* Proofs about the live gateway, for every capacity, lifetime, schedule   *)
(* of contacts, stream of packets and policy: its types, the deficits of   *)
(* its round robin, what the buffer holds and is charged for, and that a   *)
(* poll leaves nothing behind that it could have served.                   *)
(***************************************************************************)
EXTENDS GatewayProperties, SequenceTheorems, FiniteSetTheorems, TLAPS

Seqs == Nat \ {0}

(* The class queues hold bundles of their class.                           *)
QueueShape ==
  /\ q \in [Class -> Seq(Seqs)]
  /\ \A c \in Class : \A i \in 1..Len(q[c]) : q[c][i] \in Bundles /\ Cls(q[c][i]) = c

(* The variables of the LiveGateway are well formed.                       *)
GatewayShape ==
  /\ bundle \in Seq(Bundle)
  /\ QueueShape
  /\ fifo \in Seq(Seqs)
  /\ \A i \in 1..Len(fifo) : fifo[i] \in Bundles
  /\ gone \subseteq Bundles
  /\ bytes \in Int
  /\ deficit \in [DrrClass -> Nat]
  /\ rr \in Seq(DrrClass) /\ Len(rr) = 3
  /\ \A c \in DrrClass : \E i \in 1..3 : rr[i] = c
  /\ evlog \in Seq([ev : Event, seq : Seqs, t : Nat])

(* The variables of the two threads are well formed.                       *)
ThreadShape ==
  /\ clock \in Nat
  /\ gwlock \in {"free", "reader", "main"}
  /\ rpc \in ReaderPcs
  /\ rpc \in {"offer", "purge", "decide"} => Len(bundle) > 0
  /\ mpc \in MainPcs
  /\ mnow \in Nat /\ tfree \in Nat /\ rounds \in Nat
  /\ hand \in 0..Len(bundle)
  /\ mpc = "send" => hand # None
  /\ left \subseteq Bundles

Shape == GatewayShape /\ ThreadShape

-----------------------------------------------------------------------------
(* Facts about the constants.                                              *)
LEMMA Classes ==
  /\ Class = {"emergency", "telemetry", "sci_bulk", "media"}
  /\ DrrClass = {"telemetry", "sci_bulk", "media"}
  /\ DrrOrder = <<"telemetry", "sci_bulk", "media">>
  /\ DrrClass \subseteq Class
BY DEF Class, DrrClass, RANK, DrrOrder, ByRank

(* The size, class and time of a bundle.                                   *)
LEMMA BundleFields ==
  ASSUME bundle \in Seq(Bundle), NEW b \in Bundles
  PROVE  /\ Size(b) \in 1..MaxSize /\ Size(b) \in Nat
         /\ Cls(b) \in Class
         /\ bundle[b].t \in Nat
<1>1. bundle[b] \in Bundle
  BY ElementOfSeq DEF Bundles
<1>2. MaxSize \in Nat
  BY GatewayAssumption
<1>3. QED
  BY <1>1, <1>2 DEF Bundle, Size, Cls

(* A step that leaves the LiveGateway alone keeps it well formed.          *)
LEMMA ShapeStutter ==
  ASSUME GatewayShape, UNCHANGED gwvars
  PROVE  GatewayShape'
BY DEF GatewayShape, QueueShape, gwvars, Bundles, Cls

(* One more line in gw.jsonl.                                              *)
LEMMA LogShape ==
  ASSUME GatewayShape, NEW b \in Bundles, NEW t \in Nat, NEW ev \in Event, Log(ev, b, t)
  PROVE  evlog' \in Seq([ev : Event, seq : Seqs, t : Nat])
<1>1. [ev |-> ev, seq |-> b, t |-> t] \in [ev : Event, seq : Seqs, t : Nat]
  BY LenProperties DEF Bundles, Seqs, GatewayShape
<1>2. QED
  BY <1>1, AppendProperties DEF Log, GatewayShape

(* A class queue may be replaced by any sequence of bundles of the class.  *)
LEMMA ReplaceQueue ==
  ASSUME GatewayShape, NEW c \in Class, NEW r \in Seq(Seqs),
         \A i \in 1..Len(r) : r[i] \in Bundles /\ Cls(r[i]) = c,
         q' = [q EXCEPT ![c] = r], bundle' = bundle
  PROVE  QueueShape'
BY DEF GatewayShape, QueueShape, Bundles, Cls

(* Removing the head of a class queue keeps the queues well formed.        *)
LEMMA TailShape ==
  ASSUME GatewayShape, NEW c \in Class, q[c] # <<>>,
         q' = [q EXCEPT ![c] = Tail(@)], bundle' = bundle
  PROVE  /\ QueueShape'
         /\ Head(q[c]) \in Bundles /\ Cls(Head(q[c])) = c
<1> DEFINE s == q[c]
<1>1. s \in Seq(Seqs)
  BY DEF GatewayShape, QueueShape
<1>2. /\ Tail(s) \in Seq(Seqs)
      /\ Len(Tail(s)) = Len(s) - 1
      /\ \A i \in 1..Len(Tail(s)) : Tail(s)[i] = s[i + 1]
  BY <1>1, HeadTailProperties
<1>3. Len(s) \in Nat \ {0} /\ Head(s) = s[1]
  BY <1>1, EmptySeq
<1>4. \A i \in 1..Len(Tail(s)) : i + 1 \in 1..Len(s)
  BY <1>2, <1>3
<1>5. \A i \in 1..Len(Tail(s)) : Tail(s)[i] \in Bundles /\ Cls(Tail(s)[i]) = c
  BY <1>2, <1>4 DEF GatewayShape, QueueShape
<1>6. Head(s) \in Bundles /\ Cls(Head(s)) = c
  BY <1>3 DEF GatewayShape, QueueShape
<1>7. QED
  BY <1>2, <1>5, <1>6, ReplaceQueue

(* Removing the last of a class queue keeps the queues well formed.        *)
LEMMA FrontShape ==
  ASSUME GatewayShape, NEW c \in Class, q[c] # <<>>,
         q' = [q EXCEPT ![c] = SubSeq(@, 1, Len(@) - 1)], bundle' = bundle
  PROVE  /\ QueueShape'
         /\ q[c][Len(q[c])] \in Bundles /\ Cls(q[c][Len(q[c])]) = c
<1> DEFINE s == q[c]
           r == SubSeq(s, 1, Len(s) - 1)
<1>1. s \in Seq(Seqs) /\ Len(s) \in Nat \ {0}
  BY EmptySeq DEF GatewayShape, QueueShape
<1>2. \A i \in 1..(Len(s) - 1) : s[i] \in Seqs
  BY <1>1, ElementOfSeq, SMT
<1>3. /\ r \in Seq(Seqs)
      /\ Len(r) = Len(s) - 1
      /\ \A i \in 1..Len(r) : r[i] = s[i]
  BY <1>1, <1>2, SubSeqProperties
<1>4. \A i \in 1..Len(r) : i \in 1..Len(s)
  BY <1>1, <1>3
<1>5. \A i \in 1..Len(r) : r[i] \in Bundles /\ Cls(r[i]) = c
  BY <1>3, <1>4 DEF GatewayShape, QueueShape
<1>6. s[Len(s)] \in Bundles /\ Cls(s[Len(s)]) = c
  BY <1>1 DEF GatewayShape, QueueShape
<1>7. QED
  BY <1>3, <1>5, <1>6, ReplaceQueue

(* So does adding a bundle at the end of the queue of its class.           *)
LEMMA AppendShape ==
  ASSUME GatewayShape, NEW b \in Bundles,
         q' = [q EXCEPT ![Cls(b)] = Append(@, b)], bundle' = bundle
  PROVE  QueueShape'
<1> DEFINE c == Cls(b)
           s == q[c]
           r == Append(s, b)
<1>1. c \in Class
  BY BundleFields DEF GatewayShape
<1>2. s \in Seq(Seqs) /\ b \in Seqs
  BY <1>1, LenProperties DEF GatewayShape, QueueShape, Bundles, Seqs
<1>3. /\ r \in Seq(Seqs)
      /\ Len(s) \in Nat
      /\ Len(r) = Len(s) + 1
      /\ \A i \in 1..Len(s) : r[i] = s[i]
      /\ r[Len(s) + 1] = b
  BY <1>2, AppendProperties, LenProperties
<1>4. \A i \in 1..Len(r) : r[i] \in Bundles /\ Cls(r[i]) = c
  BY <1>1, <1>3 DEF GatewayShape, QueueShape
<1>5. QED
  BY <1>1, <1>3, <1>4, ReplaceQueue

(* The arrival order after an append and after dropping its head.          *)
LEMMA FifoShape ==
  ASSUME GatewayShape
  PROVE  /\ \A b \in Bundles :
              /\ Append(fifo, b) \in Seq(Seqs)
              /\ \A i \in 1..Len(Append(fifo, b)) : Append(fifo, b)[i] \in Bundles
         /\ fifo # <<>> =>
              /\ Head(fifo) \in Bundles
              /\ Tail(fifo) \in Seq(Seqs)
              /\ \A i \in 1..Len(Tail(fifo)) : Tail(fifo)[i] \in Bundles
<1>1. fifo \in Seq(Seqs) /\ Len(fifo) \in Nat
  BY LenProperties DEF GatewayShape
<1>2. ASSUME NEW b \in Bundles
      PROVE  /\ Append(fifo, b) \in Seq(Seqs)
             /\ \A i \in 1..Len(Append(fifo, b)) : Append(fifo, b)[i] \in Bundles
  <2>1. b \in Seqs
    BY LenProperties DEF GatewayShape, Bundles, Seqs
  <2>2. /\ Append(fifo, b) \in Seq(Seqs)
        /\ Len(Append(fifo, b)) = Len(fifo) + 1
        /\ \A i \in 1..Len(fifo) : Append(fifo, b)[i] = fifo[i]
        /\ Append(fifo, b)[Len(fifo) + 1] = b
    BY <1>1, <2>1, AppendProperties
  <2>3. QED
    BY <1>1, <2>2 DEF GatewayShape
<1>3. ASSUME fifo # <<>>
      PROVE  /\ Head(fifo) \in Bundles
             /\ Tail(fifo) \in Seq(Seqs)
             /\ \A i \in 1..Len(Tail(fifo)) : Tail(fifo)[i] \in Bundles
  <2>1. /\ Tail(fifo) \in Seq(Seqs)
        /\ Len(Tail(fifo)) = Len(fifo) - 1
        /\ \A i \in 1..Len(Tail(fifo)) : Tail(fifo)[i] = fifo[i + 1]
    BY <1>1, <1>3, HeadTailProperties
  <2>2. Len(fifo) \in Nat \ {0} /\ Head(fifo) = fifo[1]
    BY <1>1, <1>3, EmptySeq
  <2>3. QED
    BY <2>1, <2>2 DEF GatewayShape
<1>4. QED
  BY <1>2, <1>3

-----------------------------------------------------------------------------
(* Every operation of the LiveGateway keeps it well formed.                *)
LEMMA DiscardShape ==
  ASSUME GatewayShape, NEW c \in Class, NEW now \in Nat, Stale(c, now), Discard(c, now)
  PROVE  GatewayShape' /\ bundle' = bundle
<1>1. q[c] # <<>> /\ q' = [q EXCEPT ![c] = Tail(@)] /\ bundle' = bundle
  BY DEF Stale, Discard
<1>2. QueueShape' /\ Head(q[c]) \in Bundles
  BY <1>1, TailShape
<1>3. Size(Head(q[c])) \in Nat
  BY <1>2, BundleFields DEF GatewayShape
<1>4. CASE Head(q[c]) \in gone
  BY <1>1, <1>2, <1>4 DEF Discard, GatewayShape, Bundles
<1>5. CASE Head(q[c]) \notin gone
  <2>1. Log("expire", Head(q[c]), now)
    BY <1>5 DEF Discard
  <2>2. evlog' \in Seq([ev : Event, seq : Seqs, t : Nat])
    BY <2>1, <1>2, LogShape DEF Event
  <2>3. /\ gone' = gone \cup {Head(q[c])}
        /\ bytes' = bytes - Size(Head(q[c]))
        /\ UNCHANGED <<bundle, fifo, deficit, rr>>
    BY <1>5 DEF Discard
  <2>4. Bundles' = Bundles
    BY <2>3 DEF Bundles
  <2>5. gone' \subseteq Bundles
    BY <1>2, <2>3 DEF GatewayShape
  <2>6. bytes' \in Int
    BY <1>3, <2>3 DEF GatewayShape
  <2>7. QED
    BY <1>2, <2>2, <2>3, <2>4, <2>5, <2>6 DEF GatewayShape
<1>6. QED
  BY <1>4, <1>5

LEMMA EvictShape ==
  ASSUME GatewayShape, NEW b \in Bundles, NEW now \in Nat,
         Evictable(b) # {}, Evict(b, now)
  PROVE  GatewayShape' /\ bundle' = bundle
<1> DEFINE c == CHOOSE c \in Evictable(b) : \A d \in Evictable(b) : RANK[d] <= RANK[c]
           v == q[c][Len(q[c])]
<1>1. Evictable(b) \subseteq Class /\ \A d \in Class : RANK[d] \in 0..3
  BY Classes DEF Evictable, RANK
<1>2. c \in Evictable(b)
  <2>1. \E e \in Evictable(b) : \A d \in Evictable(b) : RANK[d] <= RANK[e]
    BY <1>1, Classes DEF RANK
  <2>2. QED
    BY <2>1
<1>3. c \in Class /\ q[c] # <<>>
  BY <1>1, <1>2 DEF Evictable
<1>4. /\ q' = [q EXCEPT ![c] = SubSeq(@, 1, Len(@) - 1)]
      /\ gone' = gone \cup {v}
      /\ bytes' = bytes - Size(v)
      /\ Log("evict", v, now)
      /\ UNCHANGED <<bundle, fifo, deficit, rr>>
  BY DEF Evict
<1>5. QueueShape' /\ v \in Bundles
  BY <1>3, <1>4, FrontShape
<1>6. Size(v) \in Nat
  BY <1>5, BundleFields DEF GatewayShape
<1>7. evlog' \in Seq([ev : Event, seq : Seqs, t : Nat])
  BY <1>4, <1>5, LogShape DEF Event
<1>8. gone' \subseteq Bundles
  BY <1>4, <1>5 DEF GatewayShape
<1>9. bytes' \in Int
  BY <1>4, <1>6 DEF GatewayShape
<1>10. UNCHANGED <<bundle, fifo, deficit, rr>> /\ Bundles' = Bundles
  BY <1>4 DEF Bundles
<1>11. QED
  BY <1>5, <1>7, <1>8, <1>9, <1>10 DEF GatewayShape

LEMMA DropShape ==
  ASSUME GatewayShape, NEW b \in Bundles, NEW now \in Nat, Drop(b, now)
  PROVE  GatewayShape' /\ bundle' = bundle
<1>1. evlog' \in Seq([ev : Event, seq : Seqs, t : Nat])
  BY LogShape DEF Drop, Event
<1>2. QED
  BY <1>1 DEF Drop, GatewayShape, QueueShape, Bundles, Cls

LEMMA EnqueueShape ==
  ASSUME GatewayShape, NEW b \in Bundles, Enqueue(b)
  PROVE  GatewayShape' /\ bundle' = bundle
<1>1. QueueShape'
  BY AppendShape DEF Enqueue
<1>2. Size(b) \in Nat
  BY BundleFields DEF GatewayShape
<1>3. QED
  BY <1>1, <1>2, FifoShape DEF Enqueue, GatewayShape, Bundles

LEMMA TakeShape ==
  ASSUME GatewayShape, NEW c \in Class, q[c] # <<>>, Take(c), bundle' = bundle
  PROVE  /\ QueueShape'
         /\ Head(q[c]) \in Bundles
         /\ gone' \subseteq Bundles
         /\ bytes' \in Int
<1>1. QueueShape' /\ Head(q[c]) \in Bundles
  BY TailShape DEF Take
<1>2. Size(Head(q[c])) \in Nat
  BY <1>1, BundleFields DEF GatewayShape
<1>3. QED
  BY <1>1, <1>2 DEF Take, GatewayShape

-----------------------------------------------------------------------------
(* Every step of the worker keeps both parts well formed.                  *)

LEMMA ShapeInit == Init => Shape
<1> SUFFICES ASSUME Init PROVE Shape
  OBVIOUS
<1>1. /\ bundle \in Seq(Bundle) /\ Len(bundle) = 0
      /\ fifo \in Seq(Seqs) /\ Len(fifo) = 0
      /\ evlog \in Seq([ev : Event, seq : Seqs, t : Nat])
  BY EmptySeq DEF Init, GatewayInit
<1>2. q \in [Class -> Seq(Seqs)] /\ \A c \in Class : Len(q[c]) = 0
  BY EmptySeq DEF Init, GatewayInit
<1>3. /\ rr \in Seq(DrrClass) /\ Len(rr) = 3
      /\ \A c \in DrrClass : \E i \in 1..3 : rr[i] = c
  <2>1. rr = <<"telemetry", "sci_bulk", "media">>
    BY Classes DEF Init, GatewayInit
  <2>2. QED
    BY <2>1, Classes
<1>4. gone = {} /\ bytes = 0 /\ deficit \in [DrrClass -> Nat]
  BY DEF Init, GatewayInit
<1>5. GatewayShape
  BY <1>1, <1>2, <1>3, <1>4 DEF GatewayShape, QueueShape
<1>6. ThreadShape
  <2>1. hand \in 0..Len(bundle)
    BY <1>1 DEF Init, None
  <2>2. QED
    BY <1>1, <2>1 DEF Init, ThreadShape, ReaderPcs, MainPcs, Bundles
<1>7. QED
  BY <1>5, <1>6 DEF Shape

(* The bundle being admitted, while there is one.                          *)
LEMMA ArrivingShape ==
  ASSUME Shape, rpc \in {"offer", "purge", "decide"}
  PROVE  Arriving \in Bundles /\ Arrival \in Nat
<1>1. Len(bundle) \in Nat
  BY LenProperties DEF Shape, GatewayShape
<1>2. Arriving \in Bundles
  BY <1>1 DEF Shape, ThreadShape, Arriving, Bundles
<1>3. QED
  BY <1>2, BundleFields DEF Shape, GatewayShape, Arrival

(* FirstIn picks a member of the set from an order of four classes.        *)
LEMMA FirstInSet ==
  ASSUME NEW s, NEW S, DOMAIN s = 1..4, \E i \in 1..4 : s[i] \in S
  PROVE  FirstIn(s, S) \in S
<1> DEFINE P(i) == s[i] \in S /\ \A j \in 1..(i - 1) : s[j] \notin S
<1>1. \E i \in 1..4 : P(i)
  <2>1. CASE s[1] \in S
    BY <2>1
  <2>2. CASE s[1] \notin S /\ s[2] \in S
    BY <2>2
  <2>3. CASE s[1] \notin S /\ s[2] \notin S /\ s[3] \in S
    BY <2>3
  <2>4. CASE s[1] \notin S /\ s[2] \notin S /\ s[3] \notin S /\ s[4] \in S
    BY <2>4
  <2>5. QED
    BY <2>1, <2>2, <2>3, <2>4
<1>2. P(CHOOSE i \in 1..4 : P(i))
  BY <1>1
<1>3. QED
  BY <1>2 DEF FirstIn

(* The classes a purge and a poll look at.                                 *)
LEMMA FirstByRank ==
  ASSUME NEW S, S \subseteq Class, S # {}
  PROVE  FirstIn(ByRank, S) \in S
<1>1. /\ DOMAIN ByRank = 1..4
      /\ ByRank[1] = "emergency" /\ ByRank[2] = "telemetry"
      /\ ByRank[3] = "sci_bulk" /\ ByRank[4] = "media"
  BY DEF ByRank
<1>2. \E i \in 1..4 : ByRank[i] \in S
  <2>1. PICK c \in S : c \in {"emergency", "telemetry", "sci_bulk", "media"}
    BY Classes
  <2>2. PICK i \in 1..4 : ByRank[i] = c
    BY <1>1, <2>1
  <2>3. QED
    BY <2>2
<1>3. QED
  BY <1>1, <1>2, FirstInSet

(* One class followed by an order of three.                                *)
LEMMA OneAndThree ==
  ASSUME NEW u \in Seq(Class), Len(u) = 1, NEW v \in Seq(Class), Len(v) = 3
  PROVE  /\ u \o v \in Seq(Class)
         /\ Len(u \o v) = 4
         /\ (u \o v)[1] = u[1]
         /\ \A i \in 1..3 : (u \o v)[i + 1] = v[i]
<1>1. /\ u \o v \in Seq(Class)
      /\ Len(u \o v) = Len(u) + Len(v)
      /\ \A i \in 1..Len(u) + Len(v) :
           (u \o v)[i] = IF i <= Len(u) THEN u[i] ELSE v[i - Len(u)]
  BY ConcatProperties, Zenon
<1>2. QED
  BY <1>1

LEMMA FirstByTurn ==
  ASSUME GatewayShape, NEW S, S \subseteq Class, S # {}
  PROVE  FirstIn(<<"emergency">> \o rr, S) \in S
<1> DEFINE s == <<"emergency">> \o rr
<1>1. <<"emergency">> \in Seq(Class) /\ rr \in Seq(Class)
  BY Classes, SeqMonotonic DEF GatewayShape
<1>2. /\ s \in Seq(Class)
      /\ Len(s) = 4
      /\ s[1] = "emergency"
      /\ \A i \in 1..3 : s[i + 1] = rr[i]
  <2>1. Len(<<"emergency">>) = 1 /\ <<"emergency">>[1] = "emergency" /\ Len(rr) = 3
    BY DEF GatewayShape
  <2>2. QED
    BY <1>1, <2>1, OneAndThree
<1>3. DOMAIN s = 1..4
  BY <1>2, LenProperties
<1>4. PICK c \in S : TRUE
  OBVIOUS
<1>5. \E i \in 1..4 : s[i] \in S
  <2>1. CASE c = "emergency"
    BY <1>2, <2>1
  <2>2. CASE c \in DrrClass
    <3>1. PICK i \in 1..3 : rr[i] = c
      BY <2>2 DEF GatewayShape
    <3>2. i + 1 \in 1..4 /\ s[i + 1] = c
      BY <1>2, <3>1
    <3>3. QED
      BY <3>2
  <2>3. QED
    BY <2>1, <2>2, Classes
<1>6. QED
  BY <1>3, <1>5, FirstInSet

(* What a poll examines are classes, and those it serves are not empty.    *)
LEMMA ExaminedClasses ==
  ASSUME GatewayShape
  PROVE  /\ Examined \subseteq Class
         /\ Policy # "fifo" => Examined \subseteq Backlogged
<1>1. Backlogged \subseteq Class
  BY DEF Backlogged
<1>2. CASE Policy = "fifo"
  <2>1. ASSUME fifo # <<>> PROVE Cls(Head(fifo)) \in Class
    BY <2>1, FifoShape, BundleFields DEF GatewayShape
  <2>2. QED
    BY <1>2, <2>1 DEF Examined
<1>3. CASE Policy = "strict"
  <2>1. ASSUME Backlogged # {} PROVE FirstIn(ByRank, Backlogged) \in Backlogged
    BY <1>1, <2>1, FirstByRank
  <2>2. QED
    BY <1>1, <1>3, <2>1 DEF Examined
<1>4. CASE Policy = "wfq"
  BY <1>1, <1>4 DEF Examined
<1>5. QED
  BY <1>2, <1>3, <1>4, GatewayAssumption

(* The class whose turn it is, and the others.                             *)
LEMMA Turn ==
  ASSUME NEW s \in Seq(DrrClass), Len(s) = 3
  PROVE  /\ Head(s) = s[1] /\ Head(s) \in DrrClass
         /\ Tail(s) \in Seq(DrrClass)
         /\ Len(Tail(s)) = 2
         /\ Tail(s)[1] = s[2] /\ Tail(s)[2] = s[3]
<1>1. s # <<>>
  BY EmptySeq
<1>2. /\ Tail(s) \in Seq(DrrClass)
      /\ Len(Tail(s)) = Len(s) - 1
      /\ \A i \in 1..Len(Tail(s)) : Tail(s)[i] = s[i + 1]
  BY <1>1, HeadTailProperties
<1>3. Head(s) = s[1] /\ s[1] \in DrrClass
  BY <1>1, ElementOfSeq
<1>4. QED
  BY <1>2, <1>3

(* An order of two classes and one more.                                   *)
LEMMA TwoAndOne ==
  ASSUME NEW u \in Seq(DrrClass), Len(u) = 2, NEW e \in DrrClass
  PROVE  /\ Append(u, e) \in Seq(DrrClass)
         /\ Len(Append(u, e)) = 3
         /\ Append(u, e)[1] = u[1] /\ Append(u, e)[2] = u[2]
         /\ Append(u, e)[3] = e
<1>1. \A w \in Seq(DrrClass) :
        /\ Append(w, e) \in Seq(DrrClass)
        /\ Len(Append(w, e)) = Len(w) + 1
        /\ \A i \in 1..Len(w) : Append(w, e)[i] = w[i]
        /\ Append(w, e)[Len(w) + 1] = e
  BY AppendProperties
<1> DEFINE r == Append(u, e)
<1>2. /\ r \in Seq(DrrClass)
      /\ Len(r) = Len(u) + 1
      /\ \A i \in 1..Len(u) : r[i] = u[i]
      /\ r[Len(u) + 1] = e
  BY <1>1, Zenon
<1> HIDE DEF r
<1>3. Len(r) = 3 /\ r[1] = u[1] /\ r[2] = u[2] /\ r[3] = e
  BY <1>2
<1>4. QED
  BY <1>2, <1>3 DEF r

(* Passing the turn keeps the visiting order a permutation.                *)
LEMMA PassShape ==
  ASSUME GatewayShape, DrrPass(Head(rr))
  PROVE  GatewayShape' /\ bundle' = bundle
<1> DEFINE c == Head(rr)
<1>1. rr \in Seq(DrrClass) /\ Len(rr) = 3
  BY DEF GatewayShape
<1>2. /\ c = rr[1] /\ c \in DrrClass
      /\ Tail(rr) \in Seq(DrrClass)
      /\ Len(Tail(rr)) = 2
      /\ Tail(rr)[1] = rr[2] /\ Tail(rr)[2] = rr[3]
  BY <1>1, Turn
<1>3. /\ rr' \in Seq(DrrClass)
      /\ Len(rr') = 3
      /\ rr'[1] = rr[2] /\ rr'[2] = rr[3] /\ rr'[3] = rr[1]
  <2>1. rr' = Append(Tail(rr), c)
    BY DEF DrrPass
  <2>2. /\ Append(Tail(rr), c) \in Seq(DrrClass)
        /\ Len(Append(Tail(rr), c)) = 3
        /\ Append(Tail(rr), c)[1] = Tail(rr)[1]
        /\ Append(Tail(rr), c)[2] = Tail(rr)[2]
        /\ Append(Tail(rr), c)[3] = c
    BY <1>2, TwoAndOne, Zenon
  <2>3. QED
    BY <1>2, <2>1, <2>2
<1>4. ASSUME NEW d \in DrrClass PROVE \E i \in 1..3 : rr'[i] = d
  <2>1. PICK i \in 1..3 : rr[i] = d
    BY DEF GatewayShape
  <2>2. CASE i = 1
    BY <1>3, <2>1, <2>2
  <2>3. CASE i = 2
    BY <1>3, <2>1, <2>3
  <2>4. CASE i = 3
    BY <1>3, <2>1, <2>4
  <2>5. QED
    BY <2>1, <2>2, <2>3, <2>4
<1>5. deficit' \in [DrrClass -> Nat]
  <2>1. Quantum * Weight[c] \in Nat /\ deficit[c] + Quantum * Weight[c] \in Nat
    <3>1. Quantum \in Nat /\ Weight[c] \in Nat /\ deficit[c] \in Nat
      BY <1>2, GatewayAssumption DEF GatewayShape
    <3>2. QED
      BY <3>1
  <2>2. QED
    BY <1>2, <2>1 DEF DrrPass, GatewayShape
<1>6. UNCHANGED <<bundle, q, fifo, gone, bytes, evlog>> /\ Bundles' = Bundles
  BY DEF DrrPass, Bundles
<1>7. QueueShape'
  BY <1>6 DEF GatewayShape, QueueShape, Cls
<1>8. QED
  BY <1>3, <1>4, <1>5, <1>6, <1>7 DEF GatewayShape

LEMMA FifoTakeShape ==
  ASSUME GatewayShape, fifo # <<>>, FifoServable, FifoTake
  PROVE  GatewayShape' /\ bundle' = bundle /\ Head(fifo) \in Bundles
<1> DEFINE c == Cls(Head(fifo))
<1>1. Head(fifo) \in Bundles /\ c \in Class /\ q[c] # <<>> /\ Take(c) /\ bundle' = bundle
  BY FifoShape, BundleFields DEF GatewayShape, FifoServable, FifoTake
<1>2. QueueShape' /\ gone' \subseteq Bundles /\ bytes' \in Int
  BY <1>1, TakeShape
<1>3. UNCHANGED <<bundle, deficit, rr, evlog>> /\ fifo' = Tail(fifo) /\ Bundles' = Bundles
  BY DEF FifoTake, Bundles
<1>4. QED
  BY <1>1, <1>2, <1>3, FifoShape DEF GatewayShape

LEMMA PriorityTakeShape ==
  ASSUME GatewayShape, NEW c \in Class, q[c] # <<>>, PriorityTake(c)
  PROVE  GatewayShape' /\ bundle' = bundle /\ Head(q[c]) \in Bundles
<1>1. Take(c) /\ UNCHANGED <<bundle, fifo, deficit, rr, evlog>> /\ Bundles' = Bundles
  BY DEF PriorityTake, Bundles
<1>2. QueueShape' /\ gone' \subseteq Bundles /\ bytes' \in Int /\ Head(q[c]) \in Bundles
  BY <1>1, TakeShape
<1>3. QED
  BY <1>1, <1>2 DEF GatewayShape

LEMMA DrrTakeShape ==
  ASSUME GatewayShape, DrrCanServe(Head(rr)), DrrTake(Head(rr))
  PROVE  GatewayShape' /\ bundle' = bundle /\ Head(q[Head(rr)]) \in Bundles
<1> DEFINE c == Head(rr)
<1>1. c \in DrrClass
  <2>1. rr \in Seq(DrrClass) /\ Len(rr) = 3
    BY DEF GatewayShape
  <2>2. QED
    BY <2>1, Turn
<1>2. Take(c) /\ q[c] # <<>> /\ UNCHANGED <<bundle, fifo, rr, evlog>> /\ Bundles' = Bundles
  BY DEF DrrCanServe, DrrTake, Bundles
<1>3. QueueShape' /\ gone' \subseteq Bundles /\ bytes' \in Int /\ Head(q[c]) \in Bundles
  BY <1>1, <1>2, TakeShape, Classes
<1>4. deficit[c] - Size(Head(q[c])) \in Nat
  BY <1>1, <1>3, BundleFields DEF GatewayShape, DrrCanServe
<1>5. deficit' \in [DrrClass -> Nat]
  BY <1>1, <1>4 DEF DrrTake, GatewayShape
<1>6. QED
  BY <1>2, <1>3, <1>5 DEF GatewayShape

-----------------------------------------------------------------------------
(* One more bundle made by the reader.                                     *)
LEMMA ReceiveShape ==
  ASSUME GatewayShape, NEW r \in Bundle, bundle' = Append(bundle, r),
         UNCHANGED <<q, fifo, gone, bytes, deficit, rr, evlog>>
  PROVE  GatewayShape' /\ Len(bundle) \in Nat /\ Len(bundle') = Len(bundle) + 1
<1>1. bundle \in Seq(Bundle) /\ Len(bundle) \in Nat
  BY LenProperties DEF GatewayShape
<1>2. /\ bundle' \in Seq(Bundle)
      /\ Len(bundle') = Len(bundle) + 1
      /\ \A i \in 1..Len(bundle) : bundle'[i] = bundle[i]
  BY <1>1, AppendProperties
<1>3. \A b \in Bundles : b \in Bundles' /\ Cls(b)' = Cls(b)
  BY <1>1, <1>2 DEF Bundles, Cls
<1>4. QueueShape'
  BY <1>3 DEF GatewayShape, QueueShape
<1>5. gone' \subseteq Bundles' /\ \A i \in 1..Len(fifo') : fifo'[i] \in Bundles'
  BY <1>3 DEF GatewayShape
<1>6. QED
  BY <1>1, <1>2, <1>4, <1>5 DEF GatewayShape

(* The reader's steps after the packet is recorded.                        *)
LEMMA AdmitThread ==
  ASSUME Shape, bundle' = bundle, UNCHANGED <<clock, main>>,
         rpc' \in ReaderPcs,
         gwlock' \in {"free", "reader", "main"},
         rpc' \in {"offer", "purge", "decide"} => rpc \in {"offer", "purge", "decide"}
  PROVE  ThreadShape'
BY DEF Shape, ThreadShape, main, Bundles

(* The steps of the reader keep both parts well formed.                    *)
LEMMA ReaderShape ==
  ASSUME Shape, ReaderNext
  PROVE  Shape'
<1> USE DEF Shape
<1>0. /\ rpc \in ReaderPcs
      /\ gwlock \in {"free", "reader", "main"}
  BY DEF ThreadShape
<1>1. CASE \E o \in Offers : Receive(o)
  <2>1. PICK o \in Offers : Receive(o)
    BY <1>1
  <2> DEFINE r == [cls |-> o.cls, n |-> o.n, t |-> clock]
  <2>2. r \in Bundle
    BY WorkerAssumption DEF Bundle, ThreadShape
  <2>3. /\ bundle' = Append(bundle, r) /\ rpc' = "offer"
        /\ UNCHANGED <<q, fifo, gone, bytes, deficit, rr, evlog>>
        /\ UNCHANGED <<clock, gwlock, main>>
    BY <2>1 DEF Receive
  <2> HIDE DEF r
  <2>4. GatewayShape' /\ Len(bundle) \in Nat /\ Len(bundle') = Len(bundle) + 1
    BY <2>2, <2>3, ReceiveShape
  <2>5. ThreadShape'
    BY <1>0, <2>3, <2>4 DEF ThreadShape, main, ReaderPcs, Bundles
  <2>6. QED
    BY <2>4, <2>5
<1>2. CASE ReaderStop
  <2>1. GatewayShape' /\ bundle' = bundle
    BY <1>2, ShapeStutter DEF ReaderStop, gwvars
  <2>2. QED
    BY <1>0, <1>2, <2>1, AdmitThread DEF ReaderStop, ReaderPcs
<1>3. CASE AdmitBegin
  <2>1. GatewayShape' /\ bundle' = bundle
    BY <1>3, ShapeStutter DEF AdmitBegin, gwvars
  <2>2. QED
    BY <1>0, <1>3, <2>1, AdmitThread DEF AdmitBegin, ReaderPcs
<1>4. CASE AdmitPurge
  <2> DEFINE c == FirstIn(ByRank, StaleClasses(Arrival))
  <2>1. c \in Class /\ Stale(c, Arrival)
    <3>1. c \in StaleClasses(Arrival)
      BY <1>4, FirstByRank DEF AdmitPurge, StaleClasses
    <3>2. QED
      BY <3>1 DEF StaleClasses
  <2>2. Discard(c, Arrival) /\ UNCHANGED <<clock, gwlock, rpc, main>>
    BY <1>4 DEF AdmitPurge
  <2>3. Arrival \in Nat
    BY <1>4, ArrivingShape DEF AdmitPurge
  <2>4. GatewayShape' /\ bundle' = bundle
    BY <2>1, <2>2, <2>3, DiscardShape
  <2>5. QED
    BY <1>0, <2>2, <2>4, AdmitThread
<1>5. CASE AdmitPurged
  <2>1. GatewayShape' /\ bundle' = bundle
    BY <1>5, ShapeStutter DEF AdmitPurged, gwvars
  <2>2. QED
    BY <1>0, <1>5, <2>1, AdmitThread DEF AdmitPurged, ReaderPcs
<1>6. CASE AdmitEvict
  <2>1. Arriving \in Bundles /\ Arrival \in Nat
    BY <1>6, ArrivingShape DEF AdmitEvict
  <2>2. GatewayShape' /\ bundle' = bundle
    BY <1>6, <2>1, EvictShape DEF AdmitEvict, MayEvict
  <2>3. QED
    BY <1>0, <1>6, <2>2, AdmitThread DEF AdmitEvict
<1>7. CASE AdmitDrop
  <2>1. Arriving \in Bundles /\ Arrival \in Nat
    BY <1>7, ArrivingShape DEF AdmitDrop
  <2>2. GatewayShape' /\ bundle' = bundle
    BY <1>7, <2>1, DropShape DEF AdmitDrop
  <2>3. QED
    BY <1>0, <1>7, <2>2, AdmitThread DEF AdmitDrop, AdmitReturn, ReaderPcs
<1>8. CASE AdmitEnqueue
  <2>1. Arriving \in Bundles /\ Arrival \in Nat
    BY <1>8, ArrivingShape DEF AdmitEnqueue
  <2>2. GatewayShape' /\ bundle' = bundle
    BY <1>8, <2>1, EnqueueShape DEF AdmitEnqueue, Enqueue
  <2>3. QED
    BY <1>0, <1>8, <2>2, AdmitThread DEF AdmitEnqueue, AdmitReturn, ReaderPcs
<1>9. QED
  BY <1>1, <1>2, <1>3, <1>4, <1>5, <1>6, <1>7, <1>8 DEF ReaderNext

-----------------------------------------------------------------------------
(* The main thread's part after the end of a poll, and while it goes on.   *)
LEMMA ReturnThread ==
  ASSUME Shape, bundle' = bundle, NEW b \in 0..Len(bundle), NextReturn(b)
  PROVE  ThreadShape'
BY DEF Shape, ThreadShape, NextReturn, None, MainPcs, Bundles

LEMMA GoesOnThread ==
  ASSUME Shape, bundle' = bundle, NextGoesOn, rounds' \in Nat
  PROVE  ThreadShape'
BY DEF Shape, ThreadShape, NextGoesOn, Bundles

(* The steps inside a poll keep both parts well formed.                    *)
LEMMA PollShape ==
  ASSUME Shape, NextPoll
  PROVE  Shape'
<1> USE DEF Shape
<1>0. Bundles \subseteq 0..Len(bundle) /\ Len(bundle) \in Nat
  BY LenProperties DEF GatewayShape, Bundles
<1>1. CASE NextDiscard
  <2> DEFINE order == IF Policy = "wfq" THEN <<"emergency">> \o rr ELSE ByRank
             c == FirstIn(order, StaleHeads)
  <2>1. StaleHeads \subseteq Class /\ StaleHeads # {}
    BY <1>1, ExaminedClasses DEF NextDiscard, StaleHeads
  <2>2. c \in StaleHeads
    <3>1. CASE Policy = "wfq"
      BY <2>1, <3>1, FirstByTurn
    <3>2. CASE Policy # "wfq"
      BY <2>1, <3>2, FirstByRank
    <3>3. QED
      BY <3>1, <3>2
  <2>3. c \in Class /\ Stale(c, mnow)
    BY <2>1, <2>2 DEF StaleHeads, StaleClasses
  <2>4. Discard(c, mnow) /\ NextGoesOn /\ rounds' = rounds
    BY <1>1 DEF NextDiscard
  <2>5. mnow \in Nat /\ rounds' \in Nat
    BY <2>4 DEF ThreadShape
  <2> HIDE DEF c
  <2>6. GatewayShape' /\ bundle' = bundle
    BY <2>3, <2>4, <2>5, DiscardShape
  <2>7. QED
    BY <2>4, <2>5, <2>6, GoesOnThread
<1>2. CASE NextFifoSkip
  <2>1. fifo # <<>> /\ FifoSkip /\ NextGoesOn /\ rounds' \in Nat
    BY <1>2 DEF NextFifoSkip, ThreadShape
  <2>2. /\ fifo' = Tail(fifo) /\ Bundles' = Bundles
        /\ UNCHANGED <<bundle, q, gone, bytes, deficit, rr, evlog>>
    BY <2>1 DEF FifoSkip, Bundles
  <2>3. QueueShape'
    BY <2>2 DEF GatewayShape, QueueShape, Cls
  <2>4. GatewayShape'
    BY <2>1, <2>2, <2>3, FifoShape DEF GatewayShape
  <2>5. QED
    BY <2>1, <2>2, <2>4, GoesOnThread
<1>3. CASE NextFifoTake
  <2>1. GatewayShape' /\ bundle' = bundle /\ Head(fifo) \in Bundles
    BY <1>3, FifoTakeShape DEF NextFifoTake
  <2>2. NextReturn(Head(fifo))
    BY <1>3 DEF NextFifoTake
  <2>3. QED
    BY <1>0, <2>1, <2>2, ReturnThread
<1>4. CASE NextPriorityTake
  <2>1. PICK c \in Examined : PriorityTake(c) /\ NextReturn(Head(q[c]))
    BY <1>4 DEF NextPriorityTake
  <2>2. c \in Class /\ q[c] # <<>>
    <3>1. Policy # "fifo"
      BY <1>4 DEF NextPriorityTake
    <3>2. QED
      BY <2>1, <3>1, ExaminedClasses DEF Backlogged
  <2>3. GatewayShape' /\ bundle' = bundle /\ Head(q[c]) \in Bundles
    BY <2>1, <2>2, PriorityTakeShape
  <2>4. QED
    BY <1>0, <2>1, <2>3, ReturnThread
<1>5. CASE NextDrrTake
  <2>1. /\ DrrCanServe(Head(rr)) /\ DrrTake(Head(rr))
        /\ NextReturn(Head(q[Head(rr)]))
    BY <1>5 DEF NextDrrTake
  <2>2. GatewayShape' /\ bundle' = bundle /\ Head(q[Head(rr)]) \in Bundles
    BY <2>1, DrrTakeShape
  <2>3. QED
    BY <1>0, <2>1, <2>2, ReturnThread
<1>6. CASE NextDrrPass
  <2>1. DrrPass(Head(rr)) /\ NextGoesOn /\ rounds' \in Nat
    BY <1>6 DEF NextDrrPass, ThreadShape
  <2>2. GatewayShape' /\ bundle' = bundle
    BY <2>1, PassShape
  <2>3. QED
    BY <2>1, <2>2, GoesOnThread
<1>7. CASE NextNone
  <2>1. NextReturn(None) /\ None \in 0..Len(bundle)
    BY <1>0, <1>7 DEF NextNone, None
  <2>2. GatewayShape' /\ bundle' = bundle
    <3>1. CASE DrrReset
      <4>1. deficit' \in [DrrClass -> Nat]
        BY <3>1 DEF DrrReset
      <4>2. UNCHANGED <<bundle, q, fifo, gone, bytes, rr, evlog>> /\ Bundles' = Bundles
        BY <3>1 DEF DrrReset, Bundles
      <4>3. QueueShape'
        BY <4>2 DEF GatewayShape, QueueShape, Cls
      <4>4. QED
        BY <4>1, <4>2, <4>3 DEF GatewayShape
    <3>2. CASE UNCHANGED gwvars
      BY <3>2, ShapeStutter DEF gwvars
    <3>3. QED
      BY <1>7, <3>1, <3>2 DEF NextNone
  <2>3. QED
    BY <2>1, <2>2, ReturnThread
<1>8. QED
  BY <1>1, <1>2, <1>3, <1>4, <1>5, <1>6, <1>7 DEF NextPoll

(* Queued bundles are recorded bundles.                                    *)
LEMMA QueuedBundles ==
  ASSUME GatewayShape
  PROVE  Queued \subseteq Bundles
<1>1. ASSUME NEW c \in Class PROVE Elems(q[c]) \subseteq Bundles
  <2>1. DOMAIN q[c] = 1..Len(q[c])
    BY LenProperties DEF GatewayShape, QueueShape
  <2>2. QED
    BY <2>1 DEF GatewayShape, QueueShape, Elems
<1>2. QED
  BY <1>1 DEF Queued

(* The steps of the main thread keep both parts well formed.               *)
LEMMA MainShape ==
  ASSUME Shape, MainNext
  PROVE  Shape'
<1> USE DEF Shape
<1>1. ASSUME UNCHANGED gwvars PROVE GatewayShape' /\ bundle' = bundle
  BY <1>1, ShapeStutter DEF gwvars
<1>2. CASE LoopTest
  BY <1>1, <1>2 DEF LoopTest, ThreadShape, MainPcs, Bundles
<1>3. CASE ReadClock
  BY <1>1, <1>3 DEF ReadClock, ThreadShape, MainPcs, Bundles
<1>4. CASE NextBegin
  BY <1>1, <1>4 DEF NextBegin, ThreadShape, MainPcs, Bundles
<1>5. CASE NextPoll
  BY <1>5, PollShape
<1>6. CASE Forward
  <2>1. hand \in Bundles /\ mnow \in Nat /\ tfree \in Nat
    <3>1. Len(bundle) \in Nat
      BY LenProperties DEF GatewayShape
    <3>2. QED
      BY <1>6, <3>1 DEF Forward, ThreadShape, Bundles, None
  <2>2. Log("fwd", hand, mnow)
    BY <1>6 DEF Forward
  <2>3. evlog' \in Seq([ev : Event, seq : Seqs, t : Nat])
    BY <2>1, <2>2, LogShape DEF Event
  <2>4. UNCHANGED <<bundle, q, fifo, gone, bytes, deficit, rr>> /\ Bundles' = Bundles
    BY <1>6 DEF Forward, Bundles
  <2>5. QueueShape'
    BY <2>4 DEF GatewayShape, QueueShape, Cls
  <2>6. GatewayShape'
    BY <2>3, <2>4, <2>5 DEF GatewayShape
  <2>7. tfree' \in Nat
    <3>1. Slot * Size(hand) \in Nat
      <4>1. Slot \in Nat /\ Size(hand) \in Nat
        BY <2>1, BundleFields, WorkerAssumption DEF GatewayShape
      <4>2. QED
        BY <4>1
    <3>2. QED
      BY <1>6, <2>1, <3>1 DEF Forward
  <2>8. hand' \in 0..Len(bundle')
    BY <1>6, <2>4, LenProperties DEF Forward, None, GatewayShape
  <2>9. QED
    BY <1>6, <2>4, <2>6, <2>7, <2>8 DEF Forward, ThreadShape, MainPcs, Bundles
<1>7. CASE Snapshot
  BY <1>1, <1>7, QueuedBundles DEF Snapshot, ThreadShape, MainPcs, Bundles
<1>8. CASE ReportLeft
  <2>1. PICK b \in left : Log("queued_at_end", b, clock) /\ left' = left \ {b}
    BY <1>8 DEF ReportLeft
  <2>2. b \in Bundles /\ clock \in Nat
    BY DEF ThreadShape
  <2>3. evlog' \in Seq([ev : Event, seq : Seqs, t : Nat])
    BY <2>1, <2>2, LogShape DEF Event
  <2>4. UNCHANGED <<bundle, q, fifo, gone, bytes, deficit, rr>> /\ Bundles' = Bundles
    BY <1>8 DEF ReportLeft, Bundles
  <2>5. QueueShape'
    BY <2>4 DEF GatewayShape, QueueShape, Cls
  <2>6. GatewayShape'
    BY <2>3, <2>4, <2>5 DEF GatewayShape
  <2>7. QED
    BY <1>8, <2>1, <2>4, <2>6 DEF ReportLeft, ThreadShape
<1>9. CASE Exit
  BY <1>1, <1>9 DEF Exit, ThreadShape, MainPcs, Bundles
<1>10. QED
  BY <1>2, <1>3, <1>4, <1>5, <1>6, <1>7, <1>8, <1>9 DEF MainNext

LEMMA ShapeStep ==
  ASSUME Shape, [Next]_vars
  PROVE  Shape'
<1>1. CASE Tick
  <2>1. GatewayShape'
    BY <1>1, ShapeStutter DEF Tick, Shape
  <2>2. ThreadShape'
    BY <1>1 DEF Tick, Shape, ThreadShape, gwvars, main, Bundles
  <2>3. QED
    BY <2>1, <2>2 DEF Shape
<1>2. CASE ReaderNext
  BY <1>2, ReaderShape
<1>3. CASE MainNext
  BY <1>3, MainShape
<1>4. CASE UNCHANGED vars
  <2>1. GatewayShape'
    BY <1>4, ShapeStutter DEF vars, Shape
  <2>2. ThreadShape'
    BY <1>4 DEF vars, Shape, ThreadShape, gwvars, main, Bundles
  <2>3. QED
    BY <2>1, <2>2 DEF Shape
<1>5. QED
  BY <1>1, <1>2, <1>3, <1>4 DEF Next, Exited

(* The state of the gateway and of its two threads is always well formed:  *)
(* queues hold recorded bundles of their class, the visiting order of the  *)
(* round robin is a permutation, deficits are never negative (live_        *)
(* gateway.py:40-46, 49-135; n6_bridge.py:214-270).                        *)
THEOREM ShapeInvariant == Spec => []Shape
<1>1. Init => Shape
  BY ShapeInit
<1>2. Shape /\ [Next]_vars => Shape'
  BY ShapeStep
<1>3. QED
  BY <1>1, <1>2, PTL DEF Spec

(* Every variable keeps its type, for every capacity, schedule and stream  *)
(* of packets (live_gateway.py:34-46).                                     *)
THEOREM TypeInvariant == Spec => []TypeOK
<1>1. Shape => TypeOK
  <2> SUFFICES ASSUME Shape PROVE TypeOK
    OBVIOUS
  <2>1. Len(bundle) \in Nat /\ Bundles \subseteq Nat \ {0}
    BY LenProperties DEF Shape, GatewayShape, Bundles
  <2>2. Len(DrrOrder) = 3
    BY Classes
  <2>3. hand \in Nat
    BY <2>1 DEF Shape, ThreadShape
  <2>4. QED
    BY <2>1, <2>2, <2>3
       DEF Shape, GatewayShape, ThreadShape, QueueShape, TypeOK, Seqs
<1>2. QED
  BY <1>1, ShapeInvariant, PTL

-----------------------------------------------------------------------------
(* Every step but those of the round robin leaves the deficits alone.      *)
LEMMA DeficitKept ==
  ASSUME Shape, [Next]_vars, deficit' # deficit
  PROVE  \/ NextDrrTake
         \/ NextDrrPass
         \/ DrrReset
<1>1. CASE ReaderNext
  BY <1>1 DEF ReaderNext, Receive, ReaderStop, AdmitBegin, AdmitPurge, AdmitPurged,
              AdmitEvict, AdmitDrop, AdmitEnqueue, Discard, Evict, Drop, Enqueue, gwvars
<1>2. CASE NextPoll
  BY <1>2 DEF NextPoll, NextDiscard, NextFifoSkip, NextFifoTake, NextPriorityTake,
              NextNone, Discard, FifoSkip, FifoTake, PriorityTake, gwvars
<1>3. CASE MainNext /\ ~NextPoll
  BY <1>3 DEF MainNext, LoopTest, ReadClock, NextBegin, Forward, Snapshot, ReportLeft,
              Exit, gwvars
<1>4. CASE Tick \/ UNCHANGED vars
  BY <1>4 DEF Tick, vars, gwvars
<1>5. QED
  BY <1>1, <1>2, <1>3, <1>4 DEF Next, Exited

(* The deficits stay below the largest bundle plus one credit.             *)
LEMMA DeficitStep ==
  ASSUME Shape, DeficitBound, [Next]_vars
  PROVE  DeficitBound'
<1> SUFFICES ASSUME NEW c \in DrrClass
             PROVE  deficit'[c] < MaxSize + Quantum * Weight[c]
  BY DEF DeficitBound
<1> DEFINE credit == Quantum * Weight[c]
<1>1. credit \in Nat /\ MaxSize \in Nat \ {0}
  <2>1. Quantum \in Nat /\ Weight[c] \in Nat /\ MaxSize \in Nat \ {0}
    BY GatewayAssumption
  <2>2. QED
    BY <2>1
<1> HIDE DEF credit
<1>2. /\ deficit \in [DrrClass -> Nat]
      /\ deficit[c] < MaxSize + credit
  BY DEF Shape, GatewayShape, DeficitBound, credit
<1>3. CASE deficit' = deficit
  BY <1>2, <1>3 DEF credit
<1>4. CASE DrrReset
  BY <1>1, <1>4 DEF DrrReset, credit
<1> DEFINE h == Head(rr)
<1>5. h \in DrrClass
  <2>1. rr \in Seq(DrrClass) /\ Len(rr) = 3
    BY DEF Shape, GatewayShape
  <2>2. QED
    BY <2>1, Turn
<1>6. ASSUME q[h] # <<>> PROVE Size(Head(q[h])) \in 1..MaxSize
  <2>1. q[h] \in Seq(Seqs)
    BY <1>5, Classes DEF Shape, GatewayShape, QueueShape
  <2>2. Head(q[h]) = q[h][1] /\ 1 \in 1..Len(q[h])
    BY <1>6, <2>1, EmptySeq
  <2>3. Head(q[h]) \in Bundles
    <3>1. h \in Class /\ \A i \in 1..Len(q[h]) : q[h][i] \in Bundles
      BY <1>5, Classes DEF Shape, GatewayShape, QueueShape
    <3>2. QED
      BY <2>2, <3>1
  <2>4. QED
    BY <2>3, BundleFields DEF Shape, GatewayShape
<1> HIDE DEF h
<1>7. CASE NextDrrTake
  <2>1. q[h] # <<>> /\ deficit' = [deficit EXCEPT ![h] = @ - Size(Head(q[h]))]
    BY <1>7 DEF NextDrrTake, DrrCanServe, DrrTake, h
  <2>2. deficit'[c] <= deficit[c] /\ deficit'[c] \in Int
    BY <1>1, <1>2, <1>5, <1>6, <2>1
  <2>3. QED
    BY <1>1, <1>2, <2>2 DEF credit
<1>8. CASE NextDrrPass
  <2>1. /\ ~DrrCanServe(h)
        /\ deficit' = [deficit EXCEPT ![h] =
                         IF q[h] = <<>> THEN 0 ELSE @ + Quantum * Weight[h]]
    BY <1>8 DEF NextDrrPass, DrrPass, h
  <2>2. CASE q[h] = <<>> \/ c # h
    BY <1>1, <1>2, <2>1, <2>2 DEF credit
  <2>3. CASE q[h] # <<>> /\ c = h
    <3>1. deficit[c] < Size(Head(q[h]))
      BY <1>2, <1>6, <2>1, <2>3 DEF DrrCanServe
    <3>2. deficit'[c] = deficit[c] + credit
      BY <1>2, <2>1, <2>3 DEF credit
    <3>3. QED
      BY <1>1, <1>2, <1>6, <2>3, <3>1, <3>2 DEF credit
  <2>4. QED
    BY <2>2, <2>3
<1>9. QED
  BY <1>3, <1>4, <1>7, <1>8, DeficitKept

(* No class of the round robin can save up for a burst: its deficit stays  *)
(* below the largest bundle plus one credit, for every quantum, weights,   *)
(* backlog and interleaving (live_gateway.py:118-134).                     *)
THEOREM DeficitInvariant == Spec => []DeficitBound
<1>1. Init => DeficitBound
  <2> SUFFICES ASSUME Init, NEW c \in DrrClass
               PROVE  deficit[c] < MaxSize + Quantum * Weight[c]
    BY DEF DeficitBound
  <2>1. Quantum * Weight[c] \in Nat /\ MaxSize \in Nat \ {0}
    <3>1. Quantum \in Nat /\ Weight[c] \in Nat /\ MaxSize \in Nat \ {0}
      BY GatewayAssumption
    <3>2. QED
      BY <3>1
  <2>2. deficit[c] = 0
    BY DEF Init, GatewayInit
  <2>3. QED
    BY <2>1, <2>2
<1>2. Shape /\ DeficitBound /\ [Next]_vars => DeficitBound'
  BY DeficitStep
<1>3. QED
  BY <1>1, <1>2, ShapeInvariant, PTL DEF Spec

-----------------------------------------------------------------------------
(* What the buffer holds and what it is charged for.                       *)
(*                                                                         *)
(* Whatever the two threads do, a step either leaves the queues alone,     *)
(* takes one bundle out of them, or puts the arriving bundle in (lemma     *)
(* StepKinds).  The byte count and the order of the queues follow from     *)
(* that.                                                                   *)
Admitting == rpc \in {"offer", "purge", "decide"}

Increasing(s) == \A i, j \in DOMAIN s : i < j => s[i] < s[j]

(* The queues are in arrival order, none holds a gone bundle, the arriving *)
(* bundle is newer than all, and the arrival order of the fifo policy is   *)
(* that of the queued bundles.                                             *)
BufferOrder ==
  /\ \A c \in Class : Increasing(q[c])
  /\ Increasing(fifo)
  /\ Queued \cap gone = {}
  /\ Admitting => \A b \in Queued \cup Elems(fifo) : b < Arriving
  /\ Policy = "fifo" => Queued = Elems(fifo) \ gone

-----------------------------------------------------------------------------
(* Increasing sequences: what is left without the first or the last        *)
(* element, and with a new largest one.                                    *)
LEMMA WithoutHead ==
  ASSUME NEW s \in Seq(Seqs), s # <<>>
  PROVE  /\ Head(s) \in Elems(s)
         /\ Elems(s) = {Head(s)} \cup Elems(Tail(s))
         /\ Increasing(s) => /\ Increasing(Tail(s))
                             /\ Elems(Tail(s)) = Elems(s) \ {Head(s)}
                             /\ \A x \in Elems(s) : Head(s) <= x
<1> DEFINE r == Tail(s)
<1>1. /\ r \in Seq(Seqs)
      /\ Len(r) = Len(s) - 1
      /\ \A i \in 1..Len(r) : r[i] = s[i + 1]
  BY HeadTailProperties
<1>2. Head(s) = s[1] /\ Len(s) \in Nat \ {0}
  BY EmptySeq
<1>3. DOMAIN s = 1..Len(s) /\ DOMAIN r = 1..Len(r)
  BY <1>1, LenProperties
<1>4. \A i \in 1..Len(s) : s[i] \in Seqs
  BY ElementOfSeq
<1> HIDE DEF r
<1>5. \A i \in 1..Len(s) : i = 1 \/ (i - 1 \in 1..Len(r) /\ s[i] = r[i - 1])
  BY <1>1, <1>2
<1>6. Elems(s) = {s[1]} \cup Elems(r)
  <2>1. Elems(s) \subseteq {s[1]} \cup Elems(r)
    BY <1>3, <1>5 DEF Elems
  <2>2. s[1] \in Elems(s)
    BY <1>2, <1>3 DEF Elems
  <2>3. ASSUME NEW i \in 1..Len(r) PROVE r[i] \in Elems(s)
    <3>1. i + 1 \in 1..Len(s) /\ r[i] = s[i + 1]
      BY <1>1, <1>2
    <3>2. QED
      BY <1>3, <3>1 DEF Elems
  <2>4. Elems(r) \subseteq Elems(s)
    BY <1>3, <2>3 DEF Elems
  <2>5. QED
    BY <2>1, <2>2, <2>4
<1>7. ASSUME Increasing(s)
      PROVE  /\ Increasing(r)
             /\ Elems(r) = Elems(s) \ {s[1]}
             /\ \A x \in Elems(s) : s[1] <= x
  <2>1. \A i, j \in 1..Len(s) : i < j => s[i] < s[j]
    BY <1>3, <1>7 DEF Increasing
  <2>2. ASSUME NEW i \in 1..Len(r), NEW j \in 1..Len(r), i < j PROVE r[i] < r[j]
    <3>1. /\ i + 1 \in 1..Len(s) /\ j + 1 \in 1..Len(s) /\ i + 1 < j + 1
          /\ r[i] = s[i + 1] /\ r[j] = s[j + 1]
      BY <1>1, <1>2, <2>2
    <3>2. QED
      BY <2>1, <3>1
  <2>3. Increasing(r)
    BY <1>3, <2>2 DEF Increasing
  <2>4. ASSUME NEW i \in 1..Len(s) PROVE s[1] <= s[i]
    <3>1. 1 \in 1..Len(s) /\ s[1] \in Int /\ s[i] \in Int
      BY <1>2, <1>4 DEF Seqs
    <3>2. CASE i = 1
      BY <3>1, <3>2
    <3>3. CASE i # 1
      <4>1. s[1] < s[i]
        BY <2>1, <3>1, <3>3
      <4>2. QED
        BY <3>1, <4>1
    <3>4. QED
      BY <3>2, <3>3
  <2>5. \A x \in Elems(s) : s[1] <= x
    BY <1>3, <2>4 DEF Elems
  <2>6. s[1] \notin Elems(r)
    <3>1. ASSUME NEW i \in 1..Len(r) PROVE s[1] # r[i]
      <4>1. i + 1 \in 1..Len(s) /\ 1 < i + 1 /\ r[i] = s[i + 1] /\ 1 \in 1..Len(s)
        BY <1>1, <1>2
      <4>2. s[1] < s[i + 1] /\ s[1] \in Seqs /\ s[i + 1] \in Seqs
        BY <1>4, <2>1, <4>1
      <4>3. QED
        BY <4>1, <4>2 DEF Seqs
    <3>2. QED
      BY <1>3, <3>1 DEF Elems
  <2>7. QED
    BY <1>6, <2>3, <2>5, <2>6
<1>8. QED
  BY <1>2, <1>6, <1>7 DEF r

LEMMA WithoutLast ==
  ASSUME NEW s \in Seq(Seqs), s # <<>>, Increasing(s)
  PROVE  /\ s[Len(s)] \in Elems(s)
         /\ Increasing(SubSeq(s, 1, Len(s) - 1))
         /\ Elems(SubSeq(s, 1, Len(s) - 1)) = Elems(s) \ {s[Len(s)]}
<1> DEFINE n == Len(s)
           r == SubSeq(s, 1, n - 1)
<1>1. n \in Nat \ {0}
  BY EmptySeq
<1>2. \A i \in 1..n : s[i] \in Seqs
  BY ElementOfSeq
<1>3. r \in Seq(Seqs) /\ Len(r) = n - 1 /\ \A i \in 1..Len(r) : r[i] = s[i]
  <2> HIDE DEF n
  <2>1. \A i \in 1..(n - 1) : s[i] \in Seqs
    BY <1>1, <1>2
  <2>2. QED
    BY <1>1, <2>1, SubSeqProperties
<1>4. DOMAIN s = 1..n /\ DOMAIN r = 1..Len(r)
  BY <1>3, LenProperties
<1> HIDE DEF r, n
<1>5. \A i, j \in 1..n : i < j => s[i] < s[j]
  BY <1>4 DEF Increasing
<1>6. s[n] \in Elems(s)
  BY <1>1, <1>4 DEF Elems
<1>7. Increasing(r)
  BY <1>1, <1>3, <1>4, <1>5 DEF Increasing
<1>8. Elems(r) \subseteq Elems(s)
  BY <1>1, <1>3, <1>4 DEF Elems
<1>9. s[n] \notin Elems(r)
  <2>1. ASSUME NEW i \in 1..Len(r) PROVE s[n] # r[i]
    <3>1. i \in 1..n /\ n \in 1..n /\ i < n /\ r[i] = s[i]
      BY <1>1, <1>3
    <3>2. s[i] < s[n] /\ s[i] \in Seqs /\ s[n] \in Seqs
      BY <1>2, <1>5, <3>1
    <3>3. QED
      BY <3>1, <3>2 DEF Seqs
  <2>2. QED
    BY <1>4, <2>1 DEF Elems
<1>10. Elems(s) \subseteq Elems(r) \cup {s[n]}
  <2>1. ASSUME NEW i \in 1..n PROVE s[i] \in Elems(r) \cup {s[n]}
    <3>1. CASE i = n
      BY <3>1
    <3>2. CASE i # n
      <4>1. i \in 1..Len(r) /\ s[i] = r[i]
        BY <1>1, <1>3, <3>2
      <4>2. QED
        BY <1>4, <4>1 DEF Elems
    <3>3. QED
      BY <3>1, <3>2
  <2>2. QED
    BY <1>4, <2>1 DEF Elems
<1>11. QED
  BY <1>6, <1>7, <1>8, <1>9, <1>10 DEF r, n

LEMMA WithNewest ==
  ASSUME NEW s \in Seq(Seqs), NEW b \in Seqs, Increasing(s), \A x \in Elems(s) : x < b
  PROVE  /\ Increasing(Append(s, b))
         /\ Elems(Append(s, b)) = Elems(s) \cup {b}
<1> DEFINE r == Append(s, b)
<1>1. /\ r \in Seq(Seqs)
      /\ Len(s) \in Nat
      /\ Len(r) = Len(s) + 1
      /\ \A i \in 1..Len(s) : r[i] = s[i]
      /\ r[Len(s) + 1] = b
  BY AppendProperties, LenProperties
<1>2. DOMAIN s = 1..Len(s) /\ DOMAIN r = 1..Len(r)
  BY <1>1, LenProperties
<1> HIDE DEF r
<1>3. \A i \in 1..Len(s) : s[i] < b
  BY <1>2 DEF Elems
<1>4. \A i, j \in 1..Len(s) : i < j => s[i] < s[j]
  BY <1>2 DEF Increasing
<1>5. \A i \in 1..Len(r) : i \in 1..Len(s) \/ i = Len(s) + 1
  BY <1>1
<1>6. Increasing(r)
  BY <1>1, <1>2, <1>3, <1>4, <1>5 DEF Increasing
<1>7. Elems(r) \subseteq Elems(s) \cup {b}
  BY <1>1, <1>2, <1>5 DEF Elems
<1>8. Elems(s) \subseteq Elems(r) /\ b \in Elems(r)
  BY <1>1, <1>2 DEF Elems
<1>9. QED
  BY <1>6, <1>7, <1>8 DEF r

-----------------------------------------------------------------------------
(* The units of size of a set of bundles.                                  *)
LEMMA CellsOfOne ==
  ASSUME bundle \in Seq(Bundle), NEW b \in Bundles
  PROVE  /\ IsFiniteSet(Cells({b}))
         /\ Cardinality(Cells({b})) = Size(b)
<1>1. Size(b) \in 1..MaxSize /\ Size(b) \in Nat
  BY BundleFields
<1>2. MaxSize \in Nat
  BY GatewayAssumption
<1>3. Cells({b}) = {b} \X (1..Size(b))
  BY <1>1, <1>2 DEF Cells
<1>4. IsFiniteSet({b}) /\ Cardinality({b}) = 1
  BY FS_Singleton
<1>5. IsFiniteSet(1..Size(b)) /\ Cardinality(1..Size(b)) = Size(b)
  BY <1>1, FS_Interval
<1>6. /\ IsFiniteSet({b} \X (1..Size(b)))
      /\ Cardinality({b} \X (1..Size(b))) = 1 * Size(b)
  BY <1>4, <1>5, FS_Product
<1>7. 1 * Size(b) = Size(b)
  BY <1>1
<1>8. QED
  BY <1>3, <1>6, <1>7, Zenon

LEMMA CellsFinite ==
  ASSUME bundle \in Seq(Bundle), NEW S, S \subseteq Bundles
  PROVE  IsFiniteSet(Cells(S)) /\ Cardinality(Cells(S)) \in Nat
<1>1. IsFiniteSet(Bundles) /\ IsFiniteSet(1..MaxSize)
  <2>1. Len(bundle) \in Int /\ MaxSize \in Int
    BY LenProperties, GatewayAssumption
  <2>2. QED
    BY <2>1, FS_Interval DEF Bundles
<1>2. IsFiniteSet(Bundles \X (1..MaxSize))
  BY <1>1, FS_Product
<1>3. Cells(S) \in SUBSET (Bundles \X (1..MaxSize))
  BY DEF Cells
<1>4. IsFiniteSet(Cells(S))
  BY <1>2, <1>3, FS_Subset
<1>5. QED
  BY <1>4, FS_CardinalityType

LEMMA CellsWithout ==
  ASSUME bundle \in Seq(Bundle), NEW S, S \subseteq Bundles, NEW b \in S
  PROVE  Cardinality(Cells(S \ {b})) = Cardinality(Cells(S)) - Size(b)
<1>1. IsFiniteSet(Cells(S))
  BY CellsFinite
<1>2. Cells(S \ {b}) = Cells(S) \ Cells({b})
  BY DEF Cells
<1>3. Cells(S) \cap Cells({b}) = Cells({b})
  BY DEF Cells
<1>4. Cardinality(Cells({b})) = Size(b)
  BY CellsOfOne
<1>5. Cardinality(Cells(S) \ Cells({b}))
        = Cardinality(Cells(S)) - Cardinality(Cells(S) \cap Cells({b}))
  BY <1>1, FS_Difference
<1>6. QED
  BY <1>2, <1>3, <1>4, <1>5

LEMMA CellsWith ==
  ASSUME bundle \in Seq(Bundle), NEW S, S \subseteq Bundles, NEW b \in Bundles, b \notin S
  PROVE  Cardinality(Cells(S \cup {b})) = Cardinality(Cells(S)) + Size(b)
<1>1. (S \cup {b}) \ {b} = S /\ S \cup {b} \subseteq Bundles /\ b \in S \cup {b}
  OBVIOUS
<1>2. Cardinality(Cells((S \cup {b}) \ {b})) = Cardinality(Cells(S \cup {b})) - Size(b)
  BY <1>1, CellsWithout
<1>3. /\ Cardinality(Cells(S \cup {b})) \in Nat
      /\ Cardinality(Cells(S)) \in Nat
      /\ Size(b) \in Nat
  BY <1>1, CellsFinite, BundleFields
<1>4. Cardinality(Cells(S)) = Cardinality(Cells(S \cup {b})) - Size(b)
  BY <1>1, <1>2, Zenon
<1>5. QED
  BY <1>3, <1>4

-----------------------------------------------------------------------------
(* A bundle leaves the buffer.                                             *)
Leaves(b) ==
  /\ b \in Queued
  /\ Queued' = Queued \ {b}
  /\ gone' = gone \cup {b}
  /\ bytes' = bytes - Size(b)
  /\ bundle' = bundle
  /\ \A c \in Class : Increasing(q'[c])

(* The queues of two classes share no bundle.                              *)
LEMMA QueuesApart ==
  ASSUME GatewayShape, NEW c \in Class, NEW b \in Elems(q[c])
  PROVE  b \in Bundles /\ Cls(b) = c
<1>1. DOMAIN q[c] = 1..Len(q[c])
  BY LenProperties DEF GatewayShape, QueueShape
<1>2. QED
  BY <1>1 DEF GatewayShape, QueueShape, Elems

(* Taking a bundle out of the queue of its class takes it out of the       *)
(* buffer.                                                                 *)
LEMMA TakenOut ==
  ASSUME GatewayShape, NEW c \in Class, NEW r, NEW b \in Elems(q[c]),
         Elems(r) = Elems(q[c]) \ {b}, q' = [q EXCEPT ![c] = r]
  PROVE  b \in Queued /\ Queued' = Queued \ {b}
<1>1. q \in [Class -> Seq(Seqs)]
  BY DEF GatewayShape, QueueShape
<1>2. \A d \in Class : Elems(q'[d]) = Elems(q[d]) \ {b}
  <2>1. ASSUME NEW d \in Class, d # c PROVE b \notin Elems(q[d])
    BY <2>1, QueuesApart
  <2>2. ASSUME NEW d \in Class, d # c PROVE q'[d] = q[d]
    BY <1>1, <2>2
  <2>3. q'[c] = r
    BY <1>1
  <2>4. ASSUME NEW d \in Class PROVE Elems(q'[d]) = Elems(q[d]) \ {b}
    <3>1. CASE d = c
      BY <2>3, <3>1
    <3>2. CASE d # c
      <4>1. q'[d] = q[d] /\ b \notin Elems(q[d])
        BY <2>1, <2>2, <3>2
      <4>2. Elems(q'[d]) = Elems(q[d])
        BY <4>1
      <4>3. QED
        BY <4>1, <4>2
    <3>3. QED
      BY <3>1, <3>2
  <2>5. QED
    BY <2>4
<1>3. Queued' = UNION {Elems(q'[d]) : d \in Class}
  BY DEF Queued, Elems
<1>4. QED
  BY <1>2, <1>3 DEF Queued

LEMMA HeadLeaves ==
  ASSUME GatewayShape, BufferOrder, NEW c \in Class, q[c] # <<>>,
         q' = [q EXCEPT ![c] = Tail(@)], gone' = gone \cup {Head(q[c])},
         bytes' = bytes - Size(Head(q[c])), bundle' = bundle
  PROVE  Leaves(Head(q[c]))
<1> DEFINE s == q[c]
<1>1. s \in Seq(Seqs) /\ Increasing(s) /\ q \in [Class -> Seq(Seqs)]
  BY DEF GatewayShape, QueueShape, BufferOrder
<1>2. /\ Head(s) \in Elems(s)
      /\ Increasing(Tail(s))
      /\ Elems(Tail(s)) = Elems(s) \ {Head(s)}
  BY <1>1, WithoutHead
<1>3. Head(s) \in Queued /\ Queued' = Queued \ {Head(s)}
  BY <1>2, TakenOut
<1>4. \A d \in Class : Increasing(q'[d])
  <2>1. \A d \in Class : q'[d] = IF d = c THEN Tail(s) ELSE q[d]
    BY <1>1
  <2>2. \A d \in Class : Increasing(q[d])
    BY DEF BufferOrder
  <2>3. QED
    BY <1>2, <2>1, <2>2
<1>5. QED
  BY <1>3, <1>4 DEF Leaves

LEMMA LastLeaves ==
  ASSUME GatewayShape, BufferOrder, NEW b \in Bundles, NEW now,
         Evictable(b) # {}, Evict(b, now)
  PROVE  \E v \in Bundles : Leaves(v) /\ fifo' = fifo
<1> DEFINE c == CHOOSE c \in Evictable(b) : \A d \in Evictable(b) : RANK[d] <= RANK[c]
           s == q[c]
           r == SubSeq(s, 1, Len(s) - 1)
           v == s[Len(s)]
<1>1. c \in Class /\ q[c] # <<>>
  <2>1. \E e \in Evictable(b) : \A d \in Evictable(b) : RANK[d] <= RANK[e]
    <3>1. Evictable(b) \subseteq Class /\ \A d \in Class : RANK[d] \in 0..3
      BY Classes DEF Evictable, RANK
    <3>2. QED
      BY <3>1, Classes DEF RANK
  <2>2. c \in Evictable(b)
    BY <2>1
  <2>3. QED
    BY <2>2 DEF Evictable
<1>2. /\ q' = [q EXCEPT ![c] = r]
      /\ gone' = gone \cup {v}
      /\ bytes' = bytes - Size(v)
      /\ bundle' = bundle /\ fifo' = fifo
  BY DEF Evict
<1> HIDE DEF c
<1>3. s \in Seq(Seqs) /\ Increasing(s) /\ q \in [Class -> Seq(Seqs)]
  BY <1>1 DEF GatewayShape, QueueShape, BufferOrder
<1>4. v \in Elems(s) /\ Increasing(r) /\ Elems(r) = Elems(s) \ {v}
  BY <1>1, <1>3, WithoutLast
<1> HIDE DEF r, v
<1>5. v \in Queued /\ Queued' = Queued \ {v} /\ v \in Bundles
  BY <1>1, <1>2, <1>4, TakenOut, QueuesApart
<1>6. \A d \in Class : Increasing(q'[d])
  <2>1. \A d \in Class : q'[d] = IF d = c THEN r ELSE q[d]
    BY <1>2, <1>3
  <2>2. \A d \in Class : Increasing(q[d])
    BY DEF BufferOrder
  <2>3. QED
    BY <1>4, <2>1, <2>2
<1>7. QED
  BY <1>2, <1>5, <1>6 DEF Leaves

-----------------------------------------------------------------------------
(* What a step may do to the buffer.                                       *)
SameArrival == bundle' = bundle /\ (Admitting' => Admitting)

Stays == UNCHANGED <<q, fifo, gone, bytes>> /\ SameArrival

Arrives ==
  /\ UNCHANGED <<q, fifo, gone, bytes>>
  /\ \E r \in Bundle : bundle' = Append(bundle, r)

Removes == SameArrival /\ \E b \in Bundles : Leaves(b) /\ fifo' = fifo

RemovesFirst ==
  /\ SameArrival
  /\ fifo # <<>> /\ fifo' = Tail(fifo)
  /\ Head(fifo) \in Bundles /\ Leaves(Head(fifo))

Skips ==
  /\ SameArrival
  /\ Policy = "fifo" /\ fifo # <<>> /\ fifo' = Tail(fifo) /\ ~FifoServable
  /\ UNCHANGED <<q, gone, bytes>>

Enters ==
  /\ Admitting /\ ~Admitting'
  /\ ~OverCap(Arriving)
  /\ Enqueue(Arriving)

LEMMA DiscardRemoves ==
  ASSUME GatewayShape, BufferOrder, NEW c \in Class, NEW now,
         Stale(c, now), Discard(c, now), Admitting' => Admitting
  PROVE  Removes
<1> DEFINE h == Head(q[c])
<1>1. q[c] # <<>>
  BY DEF Stale
<1>2. h \in Queued /\ h \in Bundles
  <2>1. q[c] \in Seq(Seqs)
    BY DEF GatewayShape, QueueShape
  <2>2. h \in Elems(q[c])
    BY <1>1, <2>1, WithoutHead
  <2>3. QED
    BY <2>2, QueuesApart DEF Queued
<1>3. h \notin gone
  BY <1>2 DEF BufferOrder
<1>4. /\ q' = [q EXCEPT ![c] = Tail(@)] /\ gone' = gone \cup {h}
      /\ bytes' = bytes - Size(h) /\ bundle' = bundle /\ fifo' = fifo
  BY <1>3 DEF Discard
<1>5. Leaves(h)
  BY <1>1, <1>4, HeadLeaves
<1>6. QED
  BY <1>2, <1>4, <1>5 DEF Removes, SameArrival

LEMMA TakeLeaves ==
  ASSUME GatewayShape, BufferOrder, NEW c \in Class, q[c] # <<>>, Take(c),
         bundle' = bundle
  PROVE  Leaves(Head(q[c])) /\ Head(q[c]) \in Bundles
<1>1. Leaves(Head(q[c]))
  BY HeadLeaves DEF Take
<1>2. Head(q[c]) \in Bundles
  BY TakeShape
<1>3. QED
  BY <1>1, <1>2

LEMMA ReaderKinds ==
  ASSUME Shape, BufferOrder, ReaderNext
  PROVE  Stays \/ Arrives \/ Removes \/ Enters
<1>0. GatewayShape
  BY DEF Shape
<1>1. CASE \E o \in Offers : Receive(o)
  <2>1. PICK o \in Offers : Receive(o)
    BY <1>1
  <2>2. [cls |-> o.cls, n |-> o.n, t |-> clock] \in Bundle
    BY WorkerAssumption DEF Bundle, Shape, ThreadShape
  <2>3. QED
    BY <2>1, <2>2 DEF Receive, Arrives
<1>2. CASE ReaderStop \/ AdmitBegin \/ AdmitPurged \/ AdmitDrop
  BY <1>2 DEF ReaderStop, AdmitBegin, AdmitPurged, AdmitDrop, AdmitReturn, Drop,
              gwvars, Stays, SameArrival, Admitting
<1>3. CASE AdmitPurge
  <2> DEFINE c == FirstIn(ByRank, StaleClasses(Arrival))
  <2>1. c \in StaleClasses(Arrival)
    BY <1>3, FirstByRank DEF AdmitPurge, StaleClasses
  <2>2. c \in Class /\ Stale(c, Arrival)
    BY <2>1 DEF StaleClasses
  <2>3. Discard(c, Arrival) /\ (Admitting' => Admitting)
    BY <1>3 DEF AdmitPurge, Admitting
  <2> HIDE DEF c
  <2>4. QED
    BY <1>0, <2>2, <2>3, DiscardRemoves
<1>4. CASE AdmitEvict
  <2>1. Arriving \in Bundles
    BY <1>4, ArrivingShape DEF AdmitEvict
  <2>2. Evictable(Arriving) # {} /\ Evict(Arriving, Arrival)
    BY <1>4 DEF AdmitEvict, MayEvict
  <2>3. PICK v \in Bundles : Leaves(v) /\ fifo' = fifo
    BY <1>0, <2>1, <2>2, LastLeaves
  <2>4. SameArrival
    BY <1>4, <2>2 DEF AdmitEvict, Evict, SameArrival, Admitting
  <2>5. QED
    BY <2>3, <2>4 DEF Removes
<1>5. CASE AdmitEnqueue
  BY <1>5 DEF AdmitEnqueue, AdmitReturn, Enters, Admitting
<1>6. QED
  BY <1>1, <1>2, <1>3, <1>4, <1>5 DEF ReaderNext

LEMMA PollKinds ==
  ASSUME Shape, BufferOrder, NextPoll
  PROVE  Stays \/ Removes \/ RemovesFirst \/ Skips
<1>0. GatewayShape
  BY DEF Shape
<1>1. (NextGoesOn \/ \E b : NextReturn(b)) => (Admitting' => Admitting)
  BY DEF NextGoesOn, NextReturn, Admitting
<1>2. CASE NextDiscard
  <2> DEFINE order == IF Policy = "wfq" THEN <<"emergency">> \o rr ELSE ByRank
             c == FirstIn(order, StaleHeads)
  <2>1. StaleHeads \subseteq Class /\ StaleHeads # {}
    BY <1>0, <1>2, ExaminedClasses DEF NextDiscard, StaleHeads
  <2>2. c \in StaleHeads
    <3>1. CASE Policy = "wfq"
      BY <1>0, <2>1, <3>1, FirstByTurn
    <3>2. CASE Policy # "wfq"
      BY <2>1, <3>2, FirstByRank
    <3>3. QED
      BY <3>1, <3>2
  <2>3. c \in Class /\ Stale(c, mnow)
    BY <2>1, <2>2 DEF StaleHeads, StaleClasses
  <2>4. Discard(c, mnow) /\ NextGoesOn
    BY <1>2 DEF NextDiscard
  <2> HIDE DEF c
  <2>5. QED
    BY <1>0, <1>1, <2>3, <2>4, DiscardRemoves
<1>3. CASE NextFifoSkip
  BY <1>1, <1>3 DEF NextFifoSkip, FifoSkip, Skips, SameArrival
<1>4. CASE NextFifoTake
  <2>1. fifo # <<>> /\ FifoServable /\ FifoTake /\ NextReturn(Head(fifo))
    BY <1>4 DEF NextFifoTake
  <2> DEFINE c == Cls(Head(fifo))
  <2>2. Head(fifo) \in Bundles /\ c \in Class
    BY <1>0, <2>1, FifoShape, BundleFields DEF GatewayShape
  <2>3. q[c] # <<>> /\ Head(q[c]) = Head(fifo) /\ Take(c)
    BY <2>1 DEF FifoServable, FifoTake
  <2>4. bundle' = bundle /\ fifo' = Tail(fifo)
    BY <2>1 DEF FifoTake
  <2> HIDE DEF c
  <2>5. Leaves(Head(fifo))
    <3>1. Leaves(Head(q[c]))
      BY <1>0, <2>2, <2>3, <2>4, TakeLeaves
    <3>2. QED
      BY <2>3, <3>1
  <2>6. QED
    BY <1>1, <2>1, <2>2, <2>4, <2>5 DEF RemovesFirst, SameArrival
<1>5. CASE NextPriorityTake
  <2>1. PICK c \in Examined : PriorityTake(c) /\ NextReturn(Head(q[c]))
    BY <1>5 DEF NextPriorityTake
  <2>2. c \in Class /\ q[c] # <<>>
    <3>1. Policy # "fifo"
      BY <1>5 DEF NextPriorityTake
    <3>2. QED
      BY <1>0, <2>1, <3>1, ExaminedClasses DEF Backlogged
  <2>3. Take(c) /\ bundle' = bundle /\ fifo' = fifo
    BY <2>1 DEF PriorityTake
  <2>4. Leaves(Head(q[c])) /\ Head(q[c]) \in Bundles
    BY <1>0, <2>2, <2>3, TakeLeaves
  <2>5. QED
    BY <1>1, <2>1, <2>3, <2>4 DEF Removes, SameArrival
<1>6. CASE NextDrrTake
  <2> DEFINE c == Head(rr)
  <2>1. c \in Class
    <3>1. rr \in Seq(DrrClass) /\ Len(rr) = 3
      BY <1>0 DEF GatewayShape
    <3>2. QED
      BY <3>1, Turn, Classes
  <2>2. q[c] # <<>> /\ Take(c) /\ bundle' = bundle /\ fifo' = fifo
    BY <1>6 DEF NextDrrTake, DrrCanServe, DrrTake
  <2>3. Leaves(Head(q[c])) /\ Head(q[c]) \in Bundles
    BY <1>0, <2>1, <2>2, TakeLeaves
  <2>4. QED
    BY <1>1, <1>6, <2>2, <2>3 DEF NextDrrTake, Removes, SameArrival
<1>7. CASE NextDrrPass
  BY <1>1, <1>7 DEF NextDrrPass, DrrPass, Stays, SameArrival
<1>8. CASE NextNone
  BY <1>1, <1>8 DEF NextNone, DrrReset, gwvars, Stays, SameArrival
<1>9. QED
  BY <1>2, <1>3, <1>4, <1>5, <1>6, <1>7, <1>8 DEF NextPoll

LEMMA StepKinds ==
  ASSUME Shape, BufferOrder, [Next]_vars
  PROVE  Stays \/ Arrives \/ Removes \/ RemovesFirst \/ Skips \/ Enters
<1>1. CASE ReaderNext
  BY <1>1, ReaderKinds
<1>2. CASE NextPoll
  BY <1>2, PollKinds
<1>3. CASE MainNext /\ ~NextPoll
  BY <1>3 DEF MainNext, LoopTest, ReadClock, NextBegin, Forward, Snapshot, ReportLeft,
              Exit, gwvars, Stays, SameArrival, Admitting
<1>4. CASE Tick \/ UNCHANGED vars
  BY <1>4 DEF Tick, vars, gwvars, Stays, SameArrival, Admitting
<1>5. QED
  BY <1>1, <1>2, <1>3, <1>4 DEF Next, Exited

-----------------------------------------------------------------------------
(* The order of the buffer.                                                *)
LEMMA OrderInit == Init => BufferOrder
<1> SUFFICES ASSUME Init PROVE BufferOrder
  OBVIOUS
<1>1. /\ \A c \in Class : q[c] = <<>>
      /\ fifo = <<>> /\ gone = {} /\ rpc = "recv"
  BY DEF Init, GatewayInit
<1>2. Elems(<<>>) = {} /\ Increasing(<<>>)
  <2>1. DOMAIN <<>> = {}
    <3>1. <<>> \in Seq(Seqs) /\ Len(<<>>) = 0
      BY EmptySeq
    <3>2. DOMAIN <<>> = 1..Len(<<>>)
      BY <3>1, LenProperties, Zenon
    <3>3. QED
      BY <3>1, <3>2
  <2>2. QED
    BY <2>1 DEF Elems, Increasing
<1>3. Queued = {}
  BY <1>1, <1>2 DEF Queued
<1>4. QED
  BY <1>1, <1>2, <1>3 DEF BufferOrder, Admitting

(* Every bundle queued under the fifo policy is at or behind the head of   *)
(* the arrival order; a live head is therefore servable.                   *)
LEMMA LiveHeadServable ==
  ASSUME GatewayShape, BufferOrder, Policy = "fifo", fifo # <<>>, ~FifoServable
  PROVE  Head(fifo) \in gone
<1> SUFFICES ASSUME Head(fifo) \notin gone PROVE FALSE
  OBVIOUS
<1> DEFINE h == Head(fifo)
           c == Cls(h)
<1>1. fifo \in Seq(Seqs) /\ Increasing(fifo)
  BY DEF GatewayShape, BufferOrder
<1>2. h \in Elems(fifo) /\ \A x \in Elems(fifo) : h <= x
  BY <1>1, WithoutHead
<1>3. h \in Queued
  BY <1>2 DEF BufferOrder
<1>4. PICK d \in Class : h \in Elems(q[d])
  BY <1>3 DEF Queued
<1>5. c = d /\ h \in Bundles
  BY <1>4, QueuesApart
<1>6. q[c] \in Seq(Seqs) /\ Increasing(q[c]) /\ h \in Elems(q[c])
  BY <1>4, <1>5 DEF GatewayShape, QueueShape, BufferOrder
<1>7. q[c] # <<>>
  <2>1. SUFFICES ASSUME q[c] = <<>> PROVE FALSE
    OBVIOUS
  <2>2. DOMAIN q[c] = 1..Len(q[c]) /\ Len(q[c]) = 0
    BY <1>6, <2>1, LenProperties, EmptySeq
  <2>3. QED
    BY <1>6, <2>2 DEF Elems
<1> DEFINE g == Head(q[c])
<1>8. g \in Elems(q[c]) /\ g <= h
  BY <1>6, <1>7, WithoutHead
<1>9. g \in Queued /\ g \in Bundles
  BY <1>4, <1>5, <1>8, QueuesApart DEF Queued
<1>10. h <= g
  BY <1>2, <1>9 DEF BufferOrder
<1>11. h \in Nat /\ g \in Nat
  <2>1. Len(bundle) \in Nat
    BY LenProperties DEF GatewayShape
  <2>2. QED
    BY <1>5, <1>9, <2>1 DEF Bundles
<1>12. g = h
  BY <1>8, <1>10, <1>11
<1>13. QED
  BY <1>7, <1>12 DEF FifoServable

LEMMA OrderStep ==
  ASSUME Shape, BufferOrder, [Next]_vars
  PROVE  BufferOrder'
<1>0. GatewayShape
  BY DEF Shape
<1>1. fifo \in Seq(Seqs) /\ Increasing(fifo) /\ Len(bundle) \in Nat
  BY <1>0, LenProperties DEF GatewayShape, BufferOrder
<1>2. ASSUME fifo # <<>>
      PROVE  /\ Increasing(Tail(fifo))
             /\ Elems(Tail(fifo)) = Elems(fifo) \ {Head(fifo)}
  BY <1>1, <1>2, WithoutHead
<1>3. Queued \cup Elems(fifo) \subseteq Bundles
  <2>1. DOMAIN fifo = 1..Len(fifo)
    BY <1>1, LenProperties
  <2>2. QED
    BY <1>0, <2>1, QueuedBundles DEF GatewayShape, Elems
<1>4. ASSUME q' = q PROVE Queued' = Queued
  BY <1>4 DEF Queued, Elems
<1>5. Elems(fifo)' = Elems(fifo')
  BY DEF Elems
<1>6. ASSUME SameArrival, Queued' \subseteq Queued, Elems(fifo') \subseteq Elems(fifo)
      PROVE  Admitting' => \A b \in Queued' \cup Elems(fifo') : b < Arriving'
  BY <1>6 DEF SameArrival, Arriving, BufferOrder
<1>7. CASE Stays
  <2>1. Queued' = Queued /\ Elems(fifo') = Elems(fifo)
    BY <1>4, <1>7 DEF Stays
  <2>2. QED
    BY <1>5, <1>6, <1>7, <2>1 DEF Stays, BufferOrder, Increasing
<1>8. CASE Arrives
  <2>1. PICK r \in Bundle : bundle' = Append(bundle, r)
    BY <1>8 DEF Arrives
  <2>2. Arriving' = Len(bundle) + 1
    BY <1>0, <2>1, AppendProperties DEF GatewayShape, Arriving
  <2>3. Queued' = Queued /\ fifo' = fifo /\ gone' = gone /\ q' = q
    BY <1>4, <1>8 DEF Arrives
  <2>4. \A b \in Queued \cup Elems(fifo) : b < Arriving'
    BY <1>1, <1>3, <2>2 DEF Bundles
  <2>5. QED
    BY <1>5, <2>3, <2>4 DEF BufferOrder, Increasing
<1>9. CASE Removes
  <2>1. PICK b \in Bundles : Leaves(b) /\ fifo' = fifo
    BY <1>9 DEF Removes
  <2>2. Queued' = Queued \ {b} /\ gone' = gone \cup {b} /\ Elems(fifo') = Elems(fifo)
    BY <2>1 DEF Leaves
  <2>3. Admitting' => \A x \in Queued' \cup Elems(fifo') : x < Arriving'
    BY <1>6, <1>9, <2>2 DEF Removes
  <2>4. \A c \in Class : Increasing(q'[c])
    BY <2>1 DEF Leaves
  <2>5. Increasing(fifo')
    BY <1>1, <2>1
  <2>6. Queued' \cap gone' = {} /\ (Policy = "fifo" => Queued' = Elems(fifo') \ gone')
    BY <2>2 DEF BufferOrder
  <2>7. QED
    BY <1>5, <2>3, <2>4, <2>5, <2>6 DEF BufferOrder, Increasing
<1>10. CASE RemovesFirst
  <2> DEFINE b == Head(fifo)
  <2>1. fifo # <<>> /\ fifo' = Tail(fifo) /\ Leaves(b)
    BY <1>10 DEF RemovesFirst
  <2>2. /\ Queued' = Queued \ {b} /\ gone' = gone \cup {b}
        /\ Elems(fifo') = Elems(fifo) \ {b}
    BY <1>2, <2>1 DEF Leaves
  <2> HIDE DEF b
  <2>3. Admitting' => \A x \in Queued' \cup Elems(fifo') : x < Arriving'
    BY <1>6, <1>10, <2>2 DEF RemovesFirst
  <2>4. \A c \in Class : Increasing(q'[c])
    BY <2>1 DEF Leaves
  <2>5. Increasing(fifo')
    BY <1>2, <2>1
  <2>6. Queued' \cap gone' = {} /\ (Policy = "fifo" => Queued' = Elems(fifo') \ gone')
    BY <2>2 DEF BufferOrder
  <2>7. QED
    BY <1>5, <2>3, <2>4, <2>5, <2>6 DEF BufferOrder, Increasing
<1>11. CASE Skips
  <2> DEFINE b == Head(fifo)
  <2>1. b \in gone
    BY <1>0, <1>11, LiveHeadServable DEF Skips
  <2>2. fifo # <<>> /\ fifo' = Tail(fifo) /\ q' = q /\ gone' = gone /\ Queued' = Queued
    BY <1>4, <1>11 DEF Skips
  <2>3. Elems(fifo') = Elems(fifo) \ {b} /\ Increasing(fifo')
    BY <1>2, <2>2
  <2> HIDE DEF b
  <2>4. Admitting' => \A x \in Queued' \cup Elems(fifo') : x < Arriving'
    BY <1>6, <1>11, <2>2, <2>3 DEF Skips
  <2>5. Policy = "fifo" => Queued' = Elems(fifo') \ gone'
    BY <2>1, <2>2, <2>3 DEF BufferOrder
  <2>6. \A c \in Class : Increasing(q'[c])
    BY <2>2 DEF BufferOrder
  <2>7. Queued' \cap gone' = {}
    BY <2>2 DEF BufferOrder
  <2>8. QED
    BY <1>5, <2>3, <2>4, <2>5, <2>6, <2>7 DEF BufferOrder, Increasing
<1>12. CASE Enters
  <2> DEFINE b == Arriving
             c == Cls(b)
  <2>1. b \in Bundles /\ ~Admitting' /\ Enqueue(b) /\ Admitting
    BY <1>12, ArrivingShape DEF Enters, Admitting
  <2>2. /\ gone' = gone \ {b} /\ fifo' = Append(fifo, b)
        /\ q' = [q EXCEPT ![c] = Append(@, b)]
    BY <2>1 DEF Enqueue
  <2>3. c \in Class /\ b \in Seqs
    BY <1>0, <1>1, <2>1, BundleFields DEF GatewayShape, Bundles, Seqs
  <2>4. \A x \in Queued \cup Elems(fifo) : x < b
    BY <2>1 DEF BufferOrder
  <2> HIDE DEF c
  <2>5. /\ q[c] \in Seq(Seqs) /\ Increasing(q[c]) /\ q \in [Class -> Seq(Seqs)]
        /\ \A x \in Elems(q[c]) : x < b
    BY <1>0, <2>3, <2>4 DEF GatewayShape, QueueShape, BufferOrder, Queued
  <2> HIDE DEF b
  <2>6. /\ Increasing(Append(q[c], b))
        /\ Elems(Append(q[c], b)) = Elems(q[c]) \cup {b}
    BY <2>3, <2>5, WithNewest
  <2>7. /\ Increasing(fifo') /\ Elems(fifo') = Elems(fifo) \cup {b}
    <3>1. \A x \in Elems(fifo) : x < b
      BY <2>4
    <3>2. QED
      BY <1>1, <2>2, <2>3, <3>1, WithNewest
  <2>8. \A d \in Class : q'[d] = IF d = c THEN Append(q[c], b) ELSE q[d]
    BY <2>2, <2>5
  <2>9. \A d \in Class : Increasing(q'[d])
    BY <2>6, <2>8 DEF BufferOrder
  <2>10. Queued' = Queued \cup {b}
    <3>1. \A d \in Class : Elems(q'[d]) = IF d = c THEN Elems(q[d]) \cup {b} ELSE Elems(q[d])
      BY <2>6, <2>8
    <3>2. Queued' = UNION {Elems(q'[d]) : d \in Class}
      BY DEF Queued, Elems
    <3>3. QED
      BY <2>3, <3>1, <3>2 DEF Queued
  <2>11. b \notin Elems(fifo)
    BY <2>3, <2>4 DEF Seqs
  <2>12. Queued' \cap gone' = {} /\ (Policy = "fifo" => Queued' = Elems(fifo') \ gone')
    BY <2>2, <2>7, <2>10, <2>11 DEF BufferOrder
  <2>13. QED
    BY <1>5, <2>1, <2>7, <2>9, <2>12 DEF BufferOrder, Increasing
<1>13. QED
  BY <1>7, <1>8, <1>9, <1>10, <1>11, <1>12, StepKinds

LEMMA OrderInvariant == Spec => []BufferOrder
<1>1. Shape /\ BufferOrder /\ [Next]_vars => BufferOrder'
  BY OrderStep
<1>2. QED
  BY <1>1, OrderInit, ShapeInvariant, PTL DEF Spec

(* The class queues hold live bundles of their class in arrival order, and *)
(* the arrival order of the fifo policy holds exactly the queued ones      *)
(* besides the gone ones, so no bundle is stranded in its class queue      *)
(* (live_gateway.py:40-41, 99-109).                                        *)
THEOREM QueuesAgreeInvariant == Spec => []QueuesAgree
<1>1. Shape /\ BufferOrder => QueuesAgree
  <2> SUFFICES ASSUME Shape, BufferOrder PROVE QueuesAgree
    OBVIOUS
  <2>1. ASSUME NEW c \in Class, NEW b \in Elems(q[c])
        PROVE  b \notin gone /\ Cls(b) = c
    <3>1. b \in Queued
      BY DEF Queued
    <3>2. QED
      BY <3>1, QueuesApart DEF Shape, BufferOrder
  <2>2. QED
    BY <2>1 DEF BufferOrder, Increasing, QueuesAgree
<1>2. QED
  BY <1>1, ShapeInvariant, OrderInvariant, PTL

-----------------------------------------------------------------------------
(* The byte count.                                                         *)
LEMMA BytesInit == Init => BytesExact
<1> SUFFICES ASSUME Init PROVE BytesExact
  OBVIOUS
<1>1. \A c \in Class : Elems(q[c]) = {}
  <2>1. \A c \in Class : q[c] = <<>>
    BY DEF Init, GatewayInit
  <2>2. DOMAIN <<>> = {}
    <3>1. <<>> \in Seq(Seqs) /\ Len(<<>>) = 0
      BY EmptySeq
    <3>2. DOMAIN <<>> = 1..Len(<<>>)
      BY <3>1, LenProperties, Zenon
    <3>3. QED
      BY <3>1, <3>2
  <2>3. QED
    BY <2>1, <2>2 DEF Elems
<1>2. Queued = {}
  BY <1>1 DEF Queued
<1>3. Cells({}) = {}
  BY DEF Cells
<1>4. Cardinality(Cells(Queued)) = 0
  BY <1>2, <1>3, FS_EmptySet
<1>5. bytes = 0 /\ Cap \in Nat
  BY GatewayAssumption DEF Init, GatewayInit
<1>6. QED
  BY <1>4, <1>5 DEF BytesExact

(* The size of a recorded bundle never changes.                            *)
LEMMA CellsKept ==
  ASSUME GatewayShape, bundle' = bundle \/ Arrives, NEW S, S \subseteq Bundles
  PROVE  {x \in S \X (1..MaxSize) : x[2] <= Size(x[1])'} = Cells(S)
<1>1. \A b \in Bundles : bundle'[b] = bundle[b]
  <2>1. CASE bundle' = bundle
    BY <2>1
  <2>2. CASE Arrives
    <3>1. PICK r \in Bundle : bundle' = Append(bundle, r)
      BY <2>2 DEF Arrives
    <3>2. bundle \in Seq(Bundle)
      BY DEF GatewayShape
    <3>3. QED
      BY <3>1, <3>2, AppendProperties DEF Bundles
  <2>3. QED
    BY <2>1, <2>2
<1>2. \A b \in Bundles : Size(b)' = Size(b)
  BY <1>1 DEF Size
<1>3. QED
  BY <1>2 DEF Cells

LEMMA BytesStep ==
  ASSUME Shape, BufferOrder, BytesExact, [Next]_vars
  PROVE  BytesExact'
<1>0. GatewayShape /\ bundle \in Seq(Bundle) /\ Cap \in Nat
  BY GatewayAssumption DEF Shape, GatewayShape
<1>1. Queued \subseteq Bundles
  BY <1>0, QueuedBundles
<1>2. Cells(Queued)' = {x \in Queued' \X (1..MaxSize) : x[2] <= Size(x[1])'}
  BY DEF Cells
<1>3. bytes = Cardinality(Cells(Queued)) /\ bytes <= Cap
  BY DEF BytesExact
<1>4. bytes \in Nat
  BY <1>0, <1>1, <1>3, CellsFinite
<1>5. CASE Stays \/ Arrives \/ Skips
  <2>1. q' = q /\ bytes' = bytes /\ (bundle' = bundle \/ Arrives)
    BY <1>5 DEF Stays, Arrives, Skips, SameArrival
  <2>2. Queued' = Queued
    BY <2>1 DEF Queued, Elems
  <2>3. Cells(Queued)' = Cells(Queued)
    BY <1>0, <1>1, <1>2, <2>1, <2>2, CellsKept
  <2>4. QED
    BY <1>3, <2>1, <2>3 DEF BytesExact
<1>6. CASE Removes \/ RemovesFirst
  <2>1. PICK b \in Bundles : Leaves(b)
    BY <1>6 DEF Removes, RemovesFirst
  <2>2. /\ b \in Queued /\ Queued' = Queued \ {b}
        /\ bytes' = bytes - Size(b) /\ bundle' = bundle
    BY <2>1 DEF Leaves
  <2>3. Queued \ {b} \subseteq Bundles
    BY <1>1
  <2>4. Cells(Queued)' = Cells(Queued \ {b})
    BY <1>0, <1>2, <2>2, <2>3, CellsKept
  <2>5. Cardinality(Cells(Queued \ {b})) = Cardinality(Cells(Queued)) - Size(b)
    BY <1>0, <1>1, <2>2, CellsWithout
  <2>6. Size(b) \in Nat
    BY <1>0, BundleFields
  <2>7. bytes' <= Cap
    BY <1>0, <1>3, <1>4, <2>2, <2>6
  <2>8. bytes' = Cardinality(Cells(Queued)')
    BY <1>3, <2>2, <2>4, <2>5
  <2>9. QED
    BY <2>7, <2>8 DEF BytesExact
<1>7. CASE Enters
  <2> DEFINE b == Arriving
             c == Cls(b)
  <2>1. b \in Bundles /\ Admitting
    BY <1>7, ArrivingShape DEF Enters, Admitting
  <2>2. /\ q' = [q EXCEPT ![c] = Append(@, b)]
        /\ bytes' = bytes + Size(b) /\ bundle' = bundle
    BY <1>7 DEF Enters, Enqueue
  <2>3. bytes + Size(b) <= Cap
    <3>1. ~(bytes + Size(b) > Cap) /\ Size(b) \in Nat
      BY <1>0, <1>7, <2>1, BundleFields DEF Enters, OverCap
    <3>2. QED
      BY <1>0, <1>4, <3>1
  <2>4. b \notin Queued
    <3>1. b \in Seqs
      BY <1>0, <2>1, LenProperties DEF Bundles, Seqs
    <3>2. \A x \in Queued : x < b
      BY <2>1 DEF BufferOrder
    <3>3. QED
      BY <3>1, <3>2 DEF Seqs
  <2>5. Queued' = Queued \cup {b}
    <3>1. c \in Class /\ q \in [Class -> Seq(Seqs)] /\ b \in Seqs
      BY <1>0, <2>1, BundleFields, LenProperties
         DEF GatewayShape, QueueShape, Bundles, Seqs
    <3> HIDE DEF c, b
    <3>2. Elems(Append(q[c], b)) = Elems(q[c]) \cup {b}
      <4>1. /\ Increasing(q[c]) /\ q[c] \in Seq(Seqs)
            /\ \A x \in Elems(q[c]) : x < b
        BY <2>1, <3>1 DEF BufferOrder, Queued, b
      <4>2. QED
        BY <3>1, <4>1, WithNewest
    <3>3. \A d \in Class : q'[d] = IF d = c THEN Append(q[c], b) ELSE q[d]
      BY <2>2, <3>1
    <3>4. \A d \in Class : Elems(q'[d]) = IF d = c THEN Elems(q[d]) \cup {b} ELSE Elems(q[d])
      BY <3>2, <3>3
    <3>5. Queued' = UNION {Elems(q'[d]) : d \in Class}
      BY DEF Queued, Elems
    <3>6. QED
      BY <3>1, <3>4, <3>5 DEF Queued
  <2> HIDE DEF b
  <2>6. Queued \cup {b} \subseteq Bundles
    BY <1>1, <2>1
  <2>7. Cells(Queued)' = Cells(Queued \cup {b})
    BY <1>0, <1>2, <2>2, <2>5, <2>6, CellsKept
  <2>8. Cardinality(Cells(Queued \cup {b})) = Cardinality(Cells(Queued)) + Size(b)
    BY <1>0, <1>1, <2>1, <2>4, CellsWith
  <2>9. QED
    BY <1>3, <2>2, <2>3, <2>7, <2>8 DEF BytesExact
<1>8. QED
  BY <1>5, <1>6, <1>7, StepKinds

(* The byte count of the buffer is exactly what its queued bundles are     *)
(* charged and never exceeds the capacity, whatever the two threads        *)
(* interleave (live_gateway.py:54-73, 85, 93).                             *)
THEOREM BytesInvariant == Spec => []BytesExact
<1>1. Shape /\ BufferOrder /\ BytesExact /\ [Next]_vars => BytesExact'
  BY BytesStep
<1>2. QED
  BY <1>1, BytesInit, ShapeInvariant, OrderInvariant, PTL DEF Spec

-----------------------------------------------------------------------------
(* The gateway's lock is held by the thread inside admit() or next().      *)
LockShape ==
  /\ gwlock = "reader" <=> rpc \in {"purge", "decide"}
  /\ gwlock = "main" <=> mpc = "next"

LEMMA LockInit == Init => LockShape
BY DEF Init, LockShape

LEMMA LockStep ==
  ASSUME LockShape, [Next]_vars
  PROVE  LockShape'
<1>1. CASE ReaderNext
  BY <1>1 DEF ReaderNext, Receive, ReaderStop, AdmitBegin, AdmitPurge, AdmitPurged,
              AdmitEvict, AdmitDrop, AdmitEnqueue, AdmitReturn, main, LockShape
<1>2. CASE NextPoll
  BY <1>2 DEF NextPoll, NextDiscard, NextFifoSkip, NextFifoTake, NextPriorityTake,
              NextDrrTake, NextDrrPass, NextNone, DrrTurn, NextGoesOn, NextReturn,
              None, LockShape
<1>3. CASE MainNext /\ ~NextPoll
  BY <1>3 DEF MainNext, LoopTest, ReadClock, NextBegin, Forward, Snapshot, ReportLeft,
              Exit, LockShape
<1>4. CASE Tick \/ UNCHANGED vars
  BY <1>4 DEF Tick, vars, main, LockShape
<1>5. QED
  BY <1>1, <1>2, <1>3, <1>4 DEF Next, Exited

-----------------------------------------------------------------------------
(* The round robin of a poll.  A class that waits has been visited in      *)
(* every third iteration, and its deficit has grown by a credit each time; *)
(* one whose turn comes sooner may be a visit behind.                      *)
Credit(c) == Quantum * Weight[c]

TurnShape ==
  /\ mpc # "next" => rounds = 0
  /\ mpc = "next" =>
       \A i \in 1..3 :
         q[rr[i]] # <<>> => 3 * deficit[rr[i]] >= (rounds + i - 3) * Credit(rr[i])

LEMMA CreditPositive ==
  ASSUME NEW c \in DrrClass
  PROVE  Credit(c) \in Nat \ {0}
<1>1. Quantum \in Nat \ {0} /\ Weight[c] \in Nat \ {0}
  BY GatewayAssumption
<1>2. QED
  BY <1>1 DEF Credit

LEMMA OneMore ==
  ASSUME NEW n \in Int, NEW k \in Int
  PROVE  n * k \in Int /\ (n + 1) * k = n * k + k
OBVIOUS

LEMMA TurnInit == Init => TurnShape
BY DEF Init, TurnShape

(* The visited class has nothing, or gains a credit; it comes last, and    *)
(* the others move up.                                                     *)
LEMMA TurnPasses ==
  ASSUME Shape, TurnShape, NextDrrPass
  PROVE  TurnShape'
<1>1. /\ mpc = "next" /\ mpc' = "next" /\ rounds' = rounds + 1 /\ q' = q
      /\ DrrPass(Head(rr))
  BY DEF NextDrrPass, DrrTurn, NextGoesOn, DrrPass
<1>2. /\ rr \in Seq(DrrClass) /\ Len(rr) = 3
      /\ deficit \in [DrrClass -> Nat] /\ rounds \in Nat
      /\ \A c \in DrrClass : \E i \in 1..3 : rr[i] = c
  BY DEF Shape, GatewayShape, ThreadShape
<1>3. /\ Head(rr) = rr[1]
      /\ Tail(rr) \in Seq(DrrClass) /\ Len(Tail(rr)) = 2
      /\ Tail(rr)[1] = rr[2] /\ Tail(rr)[2] = rr[3]
  BY <1>2, Turn
<1>4. rr[1] \in DrrClass /\ rr[2] \in DrrClass /\ rr[3] \in DrrClass
  <2>1. \A i \in 1..Len(rr) : rr[i] \in DrrClass
    BY <1>2, ElementOfSeq
  <2>2. QED
    BY <1>2, <2>1
<1>5. rr'[1] = rr[2] /\ rr'[2] = rr[3] /\ rr'[3] = rr[1]
  <2>1. rr' = Append(Tail(rr), rr[1])
    BY <1>1, <1>3 DEF DrrPass
  <2>2. \A u \in Seq(DrrClass) : Len(u) = 2 =>
          Append(u, rr[1])[1] = u[1] /\ Append(u, rr[1])[2] = u[2] /\ Append(u, rr[1])[3] = rr[1]
    BY <1>4, TwoAndOne
  <2>3. QED
    BY <1>3, <2>1, <2>2
<1>6. rr[1] # rr[2] /\ rr[1] # rr[3]
  <2>1. \E i, j, k \in 1..3 : rr[i] = "telemetry" /\ rr[j] = "sci_bulk" /\ rr[k] = "media"
    BY <1>2, Classes
  <2>2. QED
    BY <2>1
<1>7. /\ deficit'[rr[2]] = deficit[rr[2]] /\ deficit'[rr[3]] = deficit[rr[3]]
      /\ q[rr[1]] # <<>> => deficit'[rr[1]] = deficit[rr[1]] + Credit(rr[1])
  BY <1>1, <1>2, <1>3, <1>4, <1>6 DEF DrrPass, Credit
<1>8. \A c : Credit(c)' = Credit(c)
  BY DEF Credit
<1>9. \A i \in 1..3 : q[rr[i]] # <<>> => 3 * deficit[rr[i]] >= (rounds + i - 3) * Credit(rr[i])
  BY <1>1 DEF TurnShape
<1>10. ASSUME q[rr[2]] # <<>>
       PROVE  3 * deficit'[rr[2]] >= (rounds' + 1 - 3) * Credit(rr[2])
  <2>1. 3 * deficit[rr[2]] >= (rounds + 2 - 3) * Credit(rr[2])
    BY <1>9, <1>10
  <2>2. rounds + 2 - 3 = rounds' + 1 - 3
    BY <1>1, <1>2
  <2>3. QED
    BY <1>7, <2>1, <2>2
<1>11. ASSUME q[rr[3]] # <<>>
       PROVE  3 * deficit'[rr[3]] >= (rounds' + 2 - 3) * Credit(rr[3])
  <2>1. 3 * deficit[rr[3]] >= (rounds + 3 - 3) * Credit(rr[3])
    BY <1>9, <1>11
  <2>2. rounds + 3 - 3 = rounds' + 2 - 3
    BY <1>1, <1>2
  <2>3. QED
    BY <1>7, <2>1, <2>2
<1>12. ASSUME q[rr[1]] # <<>>
       PROVE  3 * deficit'[rr[1]] >= (rounds' + 3 - 3) * Credit(rr[1])
  <2> DEFINE k == Credit(rr[1])
             n == rounds + 1 - 3
  <2>1. 3 * deficit[rr[1]] >= n * k /\ k \in Nat /\ n \in Int /\ deficit[rr[1]] \in Nat
    BY <1>2, <1>4, <1>9, <1>12, CreditPositive
  <2>2. n + 1 + 1 + 1 = rounds' + 3 - 3
    BY <1>1, <1>2
  <2>3. deficit'[rr[1]] = deficit[rr[1]] + k
    BY <1>7, <1>12
  <2> HIDE DEF k, n
  <2>4. (n + 1 + 1 + 1) * k = n * k + k + k + k /\ n * k \in Int
    <3>1. (n + 1) * k = n * k + k /\ n * k \in Int
      BY <2>1, OneMore
    <3>2. (n + 1 + 1) * k = (n + 1) * k + k
      BY <2>1, OneMore
    <3>3. (n + 1 + 1 + 1) * k = (n + 1 + 1) * k + k
      BY <2>1, OneMore
    <3>4. QED
      BY <3>1, <3>2, <3>3
  <2>5. 3 * deficit'[rr[1]] >= (n + 1 + 1 + 1) * k
    BY <2>1, <2>3, <2>4
  <2>6. QED
    BY <2>2, <2>5 DEF k
<1>13. \A i \in 1..3 : q'[rr'[i]] # <<>> => 3 * deficit'[rr'[i]] >= (rounds' + i - 3) * Credit(rr'[i])
  <2> SUFFICES ASSUME NEW i \in 1..3, q'[rr'[i]] # <<>>
               PROVE  3 * deficit'[rr'[i]] >= (rounds' + i - 3) * Credit(rr'[i])
    OBVIOUS
  <2>1. i = 1 \/ i = 2 \/ i = 3
    OBVIOUS
  <2>2. QED
    BY <1>1, <1>5, <1>10, <1>11, <1>12, <2>1
<1>14. QED
  BY <1>1, <1>8, <1>13 DEF TurnShape, Credit

(* A step that leaves the round robin alone but takes bundles out, or ends *)
(* a poll.                                                                 *)
LEMMA TurnKept ==
  ASSUME TurnShape, UNCHANGED <<rr, deficit, rounds, mpc>>,
         \A c \in Class : q'[c] # <<>> => q[c] # <<>>, Shape
  PROVE  TurnShape'
<1>1. \A i \in 1..3 : rr[i] \in Class
  BY ElementOfSeq, Classes DEF Shape, GatewayShape
<1>2. QED
  BY <1>1 DEF TurnShape, Credit

LEMMA TurnStep ==
  ASSUME Shape, LockShape, TurnShape, [Next]_vars
  PROVE  TurnShape'
<1>1. CASE ReaderNext
  <2>1. UNCHANGED main
    BY <1>1 DEF ReaderNext, Receive, ReaderStop, AdmitBegin, AdmitPurge, AdmitPurged,
                AdmitEvict, AdmitDrop, AdmitEnqueue, AdmitReturn
  <2>2. CASE mpc # "next"
    BY <2>1, <2>2 DEF TurnShape, main
  <2>3. CASE mpc = "next"
    <3>1. gwlock = "main" /\ rpc \notin {"purge", "decide"}
      BY <2>3 DEF LockShape
    <3>2. UNCHANGED <<q, rr, deficit>>
      BY <1>1, <3>1 DEF ReaderNext, Receive, ReaderStop, AdmitBegin, AdmitPurge, AdmitPurged,
                        AdmitEvict, AdmitDrop, AdmitEnqueue, gwvars
    <3>3. QED
      BY <2>1, <3>2 DEF TurnShape, Credit, main
  <2>4. QED
    BY <2>2, <2>3
<1>2. CASE NextDiscard
  <2> DEFINE order == IF Policy = "wfq" THEN <<"emergency">> \o rr ELSE ByRank
             c == FirstIn(order, StaleHeads)
  <2>0. GatewayShape
    BY DEF Shape
  <2>1. StaleHeads \subseteq Class /\ StaleHeads # {}
    BY <1>2, <2>0, ExaminedClasses DEF NextDiscard, StaleHeads
  <2>2. c \in StaleHeads
    <3>1. CASE Policy = "wfq"
      BY <2>0, <2>1, <3>1, FirstByTurn
    <3>2. CASE Policy # "wfq"
      BY <2>1, <3>2, FirstByRank
    <3>3. QED
      BY <3>1, <3>2
  <2>3. q[c] # <<>>
    BY <2>2 DEF StaleHeads, StaleClasses, Stale
  <2>4. Discard(c, mnow) /\ NextGoesOn /\ UNCHANGED rounds
    BY <1>2 DEF NextDiscard, NextGoesOn
  <2> HIDE DEF c
  <2>5. UNCHANGED <<rr, deficit, rounds, mpc>> /\ q' = [q EXCEPT ![c] = Tail(@)]
    BY <2>4 DEF NextGoesOn, Discard
  <2>6. \A k \in Class : q'[k] # <<>> => q[k] # <<>>
    BY <2>0, <2>3, <2>5 DEF GatewayShape
  <2>7. QED
    BY <2>5, <2>6, TurnKept
<1>3. CASE NextDrrPass
  BY <1>3, TurnPasses
<1>4. CASE NextFifoSkip
  BY <1>4, TurnKept DEF NextFifoSkip, FifoSkip, NextGoesOn
<1>5. CASE NextFifoTake \/ NextPriorityTake \/ NextDrrTake \/ NextNone
  <2>1. \E b : NextReturn(b)
    BY <1>5 DEF NextFifoTake, NextPriorityTake, NextDrrTake, NextNone
  <2>2. rounds' = 0 /\ mpc' # "next"
    BY <2>1 DEF NextReturn
  <2>3. QED
    BY <2>2 DEF TurnShape
<1>6. CASE NextBegin
  <2>1. rounds = 0 /\ mpc' = "next" /\ UNCHANGED <<q, rr, deficit, rounds>>
    BY <1>6 DEF NextBegin, TurnShape, gwvars
  <2>2. ASSUME NEW i \in 1..3
        PROVE  3 * deficit[rr[i]] >= (rounds + i - 3) * Credit(rr[i])
    <3>1. rr[i] \in DrrClass /\ deficit[rr[i]] \in Nat
      BY ElementOfSeq DEF Shape, GatewayShape
    <3>2. PICK k : k = Credit(rr[i])
      OBVIOUS
    <3>3. k \in Nat
      BY <3>1, <3>2, CreditPositive
    <3>4. (rounds + i - 3) * k <= 0
      <4>1. CASE i = 1
        BY <2>1, <3>3, <4>1
      <4>2. CASE i = 2
        BY <2>1, <3>3, <4>2
      <4>3. CASE i = 3
        BY <2>1, <3>3, <4>3
      <4>4. QED
        BY <4>1, <4>2, <4>3
    <3>5. (rounds + i - 3) * k \in Int
      BY <2>1, <3>3
    <3>6. QED
      BY <3>1, <3>2, <3>4, <3>5
  <2>3. QED
    BY <2>1, <2>2 DEF TurnShape, Credit
<1>7. CASE LoopTest \/ ReadClock \/ Forward \/ Snapshot \/ ReportLeft \/ Exit
  <2>1. mpc # "next" /\ mpc' # "next" /\ rounds' = rounds
    BY <1>7 DEF LoopTest, ReadClock, Forward, Snapshot, ReportLeft, Exit
  <2>2. QED
    BY <2>1 DEF TurnShape
<1>8. CASE Tick \/ UNCHANGED vars
  BY <1>8, TurnKept DEF Tick, vars, gwvars, main
<1>9. QED
  BY <1>1, <1>2, <1>3, <1>4, <1>5, <1>6, <1>7, <1>8 DEF Next, MainNext, NextPoll, Exited

LEMMA TurnInvariant == Spec => [](LockShape /\ TurnShape)
<1>1. Init => LockShape /\ TurnShape
  BY LockInit, TurnInit
<1>2. Shape /\ LockShape /\ TurnShape /\ [Next]_vars => LockShape' /\ TurnShape'
  BY LockStep, TurnStep
<1>3. QED
  BY <1>1, <1>2, ShapeInvariant, PTL DEF Spec

(* While a class of the round robin waits, the bound on the iterations is  *)
(* not reached: its deficit would exceed what DeficitBound allows.         *)
LEMMA TurnsSuffice ==
  ASSUME Shape, TurnShape, DeficitBound, mpc = "next",
         NEW c \in DrrClass, q[c] # <<>>
  PROVE  rounds < MaxRounds
<1> SUFFICES ASSUME rounds >= MaxRounds PROVE FALSE
  BY WorkerAssumption DEF Shape, ThreadShape
<1>1. PICK i \in 1..3 : rr[i] = c
  BY DEF Shape, GatewayShape
<1>2. PICK k : k = Credit(c)
  OBVIOUS
<1>3. k \in Nat \ {0}
  BY <1>2, CreditPositive
<1>4. 3 * deficit[c] >= (rounds + i - 3) * k
  BY <1>1, <1>2 DEF TurnShape
<1>5. deficit[c] < MaxSize + k /\ deficit[c] \in Nat /\ MaxSize \in Nat
  BY <1>2, GatewayAssumption DEF DeficitBound, Credit, Shape, GatewayShape
<1>6. (MaxRounds - 5) * k > 3 * (MaxSize - 1)
  BY <1>2, RoundsAssumption DEF Credit
<1>7. rounds \in Nat /\ MaxRounds \in Nat
  BY WorkerAssumption DEF Shape, ThreadShape
<1>8. (rounds + i - 3) * k >= (MaxRounds - 2) * k
  <2> DEFINE a == rounds + i - 3 - (MaxRounds - 2)
  <2>1. a \in Nat /\ rounds + i - 3 = (MaxRounds - 2) + a
    BY <1>7
  <2> HIDE DEF a
  <2>2. a * k \in Nat /\ ((MaxRounds - 2) + a) * k = (MaxRounds - 2) * k + a * k
    BY <1>3, <1>7, <2>1
  <2>3. (MaxRounds - 2) * k \in Int
    BY <1>3, <1>7
  <2>4. QED
    BY <2>1, <2>2, <2>3
<1>9. (MaxRounds - 2) * k = (MaxRounds - 5) * k + 3 * k /\ (MaxRounds - 5) * k \in Int
  BY <1>3, <1>7
<1>10. (rounds + i - 3) * k \in Int
  BY <1>3, <1>7
<1>11. QED
  BY <1>3, <1>4, <1>5, <1>6, <1>8, <1>9, <1>10

(* A poll that returns None leaves nothing queued, whatever the policy,    *)
(* the quantum, the weights, the bundles and the threads do: the bound on  *)
(* the round robin's iterations never makes it give up on a bundle that    *)
(* waits (live_gateway.py:96-135).                                         *)
THEOREM WorkConservingAlways == Spec => WorkConserving
<1>1. ASSUME Shape, BufferOrder, TurnShape, DeficitBound, [Next]_vars,
             mpc = "next", mpc' = "check"
      PROVE  Queued = {}
  <2>1. NextNone
    <3>1. ASSUME NEW b \in Bundles PROVE ~NextReturn(b)
      <4>1. b # None
        BY LenProperties DEF Shape, GatewayShape, Bundles, None
      <4>2. QED
        BY <1>1, <4>1 DEF NextReturn
    <3>2. ~ReaderNext
      BY <1>1 DEF ReaderNext, Receive, ReaderStop, AdmitBegin, AdmitPurge, AdmitPurged,
                  AdmitEvict, AdmitDrop, AdmitEnqueue, AdmitReturn, main
    <3>3. ~NextFifoTake
      BY <1>1, <3>1, FifoShape DEF NextFifoTake, Shape
    <3>0. GatewayShape
      BY <1>1 DEF Shape
    <3>4. ~NextPriorityTake
      <4> SUFFICES ASSUME NextPriorityTake PROVE FALSE
        OBVIOUS
      <4>1. PICK c \in Examined : PriorityTake(c) /\ NextReturn(Head(q[c]))
        BY DEF NextPriorityTake
      <4>2. c \in Class /\ q[c] # <<>>
        BY <3>0, <4>1, ExaminedClasses DEF Backlogged, NextPriorityTake
      <4>3. Take(c) /\ bundle' = bundle /\ fifo' = fifo
        BY <4>1 DEF PriorityTake
      <4>4. Head(q[c]) \in Bundles
        BY <1>1, <3>0, <4>2, <4>3, TakeLeaves
      <4>5. QED
        BY <3>1, <4>1, <4>4
    <3>5. ~NextDrrTake
      <4> SUFFICES ASSUME NextDrrTake PROVE FALSE
        OBVIOUS
      <4> DEFINE c == Head(rr)
      <4>1. c \in Class
        BY <3>0, Turn, Classes DEF GatewayShape
      <4>2. q[c] # <<>> /\ Take(c) /\ bundle' = bundle /\ fifo' = fifo
        BY DEF NextDrrTake, DrrCanServe, DrrTake
      <4>3. Head(q[c]) \in Bundles
        BY <1>1, <3>0, <4>1, <4>2, TakeLeaves
      <4>4. QED
        BY <3>1, <4>3 DEF NextDrrTake
    <3>6. QED
      BY <1>1, <3>2, <3>3, <3>4, <3>5 DEF Next, MainNext, NextPoll, NextDiscard, NextFifoSkip,
         NextDrrPass, NextGoesOn, LoopTest, ReadClock, NextBegin, Forward, Snapshot, ReportLeft,
         Exit, Tick, Exited, vars, main
  <2>2. NothingServed
    BY <2>1 DEF NextNone
  <2>3. CASE Policy = "fifo"
    <3>1. Elems(fifo) = {}
      BY <2>2, <2>3 DEF NothingServed, DrrTurn, Elems
    <3>2. QED
      BY <1>1, <2>3, <3>1 DEF BufferOrder
  <2>4. CASE Backlogged = {}
    <3>1. \A c \in Class : q[c] = <<>>
      BY <2>4 DEF Backlogged
    <3>2. QED
      BY <3>1 DEF Queued, Elems
  <2>5. CASE DrrTurn /\ rounds >= MaxRounds
    <3>1. PICK c \in Class : q[c] # <<>> /\ c # "emergency"
      BY <2>5 DEF DrrTurn, Backlogged
    <3>2. c \in DrrClass
      BY <3>1, Classes
    <3>3. rounds < MaxRounds
      BY <1>1, <3>1, <3>2, TurnsSuffice
    <3>4. QED
      BY <1>1, <2>5, <3>3, WorkerAssumption DEF Shape, ThreadShape
  <2>6. QED
    BY <2>2, <2>3, <2>4, <2>5 DEF NothingServed
<1>2. Shape /\ BufferOrder /\ TurnShape /\ DeficitBound /\ [Next]_vars
      => ((mpc = "next" /\ mpc' = "check") => Queued = {})
  BY <1>1
<1>3. QED
  BY <1>2, ShapeInvariant, OrderInvariant, TurnInvariant, DeficitInvariant, PTL
     DEF Spec, WorkConserving

-----------------------------------------------------------------------------
(***************************************************************************)
(* Where each bundle of the live gateway is, for every capacity, schedule, *)
(* policy and stream of packets: a bundle is in one place at a time, and   *)
(* only ever moves as the abstract store BundleStore allows.               *)
(*                                                                         *)
(* Of the steps of the two threads, one records a new bundle, some move    *)
(* one bundle (lemma MoveKinds says from where to where, and under which   *)
(* conditions), and all others leave every bundle where it is.             *)
(***************************************************************************)

FateLines(b) == LinesOf(b, Fates)

(* The lines of gw.jsonl that decide b, and whether b is queued, in the    *)
(* drain loop's hand or offered to the buffer: one of the four.            *)
Placed(b) ==
  \/ b \in Queued /\ b # hand /\ b \notin Offered /\ FateLines(b) = {}
  \/ b \notin Queued /\ b = hand /\ b \notin Offered /\ FateLines(b) = {}
  \/ b \notin Queued /\ b # hand /\ b \in Offered /\ FateLines(b) = {}
  \/ b \notin Queued /\ b # hand /\ b \notin Offered /\ \E i : FateLines(b) = {i}

(* Each bundle is in one place; the hand is empty but between a poll and   *)
(* its "fwd" line; the lines of gw.jsonl are about recorded bundles.       *)
PlaceShape ==
  /\ \A b \in Bundles : Placed(b)
  /\ mpc # "send" => hand = None
  /\ \A i \in DOMAIN evlog : evlog[i].seq \in Bundles

(* Bundles are recorded as time goes on; a poll's clock is not ahead; and  *)
(* when admit() decides that a bundle does not fit, nothing queued has     *)
(* outlived its class by the bundle's arrival.                             *)
ClockShape ==
  /\ \A b \in Bundles : bundle[b].t <= clock
  /\ \A a, b \in Bundles : a <= b => bundle[a].t <= bundle[b].t
  /\ mnow <= clock
  /\ rpc = "decide" /\ OverCap(Arriving) => \A u \in Queued : ~Expired(u, Arrival)

-----------------------------------------------------------------------------
(* The lines of gw.jsonl, as one more is written.                          *)
LEMMA LinesGrow ==
  ASSUME GatewayShape, NEW ev, NEW v, NEW t, Log(ev, v, t)
  PROVE  /\ Len(evlog) \in Nat
         /\ DOMAIN evlog' = DOMAIN evlog \cup {Len(evlog) + 1}
         /\ Len(evlog) + 1 \notin DOMAIN evlog
         /\ \A i \in DOMAIN evlog : evlog'[i] = evlog[i]
         /\ evlog'[Len(evlog) + 1].ev = ev
         /\ evlog'[Len(evlog) + 1].seq = v
         /\ evlog'[Len(evlog) + 1].t = t
         /\ \A b : FateLines(b)' = IF b = v /\ ev \in Fates
                                     THEN FateLines(b) \cup {Len(evlog) + 1}
                                     ELSE FateLines(b)
<1> DEFINE n == Len(evlog)
           e == [ev |-> ev, seq |-> v, t |-> t]
<1>1. evlog \in Seq([ev : Event, seq : Seqs, t : Nat]) /\ evlog' = Append(evlog, e)
  BY DEF GatewayShape, Log
<1>2. n \in Nat /\ DOMAIN evlog = 1..n
  BY <1>1, LenProperties
<1>3. /\ DOMAIN evlog' = 1..(n + 1)
      /\ \A i \in 1..n : evlog'[i] = evlog[i]
      /\ evlog'[n + 1] = e
  BY <1>1, <1>2
<1> HIDE DEF n
<1>4. DOMAIN evlog' = DOMAIN evlog \cup {n + 1} /\ n + 1 \notin DOMAIN evlog
  BY <1>2, <1>3
<1>5. e.ev = ev /\ e.seq = v /\ e.t = t
  OBVIOUS
<1> HIDE DEF e
<1>6. \A b : FateLines(b)' = {i \in DOMAIN evlog' : evlog'[i].seq = b /\ evlog'[i].ev \in Fates}
  BY DEF FateLines, LinesOf, Lines, Fates
<1>7. \A b : FateLines(b) = {i \in DOMAIN evlog : evlog[i].seq = b /\ evlog[i].ev \in Fates}
  BY DEF FateLines, LinesOf, Lines
<1>8. \A b : FateLines(b)' = IF b = v /\ ev \in Fates
                               THEN FateLines(b) \cup {n + 1} ELSE FateLines(b)
  BY <1>2, <1>3, <1>4, <1>5, <1>6, <1>7
<1>9. QED
  BY <1>2, <1>3, <1>4, <1>5, <1>8 DEF n

-----------------------------------------------------------------------------
(* A bundle rests: it is where it was.  At most v moves in a step that     *)
(* records no bundle and only adds to gw.jsonl.                            *)
Rests(b) ==
  /\ b \in Queued' <=> b \in Queued
  /\ b = hand' <=> b = hand
  /\ b \in Offered' <=> b \in Offered
  /\ FateLines(b)' = FateLines(b)

Moves(v) ==
  /\ bundle' = bundle
  /\ \A b \in Bundles \ {v} : Rests(b)
  /\ DOMAIN evlog \subseteq DOMAIN evlog'
  /\ \A i \in DOMAIN evlog : evlog'[i] = evlog[i]

(* Where v is after it moved.                                              *)
ToFate(v, ev) ==
  /\ ev \in Fates
  /\ v \notin Queued' /\ v # hand' /\ v \notin Offered'
  /\ \E i \in DOMAIN evlog' : FateLines(v)' = {i} /\ evlog'[i].ev = ev
ToHand(v) == v \notin Queued' /\ v = hand' /\ v \notin Offered' /\ FateLines(v)' = {}
ToQueue(v) == v \in Queued' /\ v # hand' /\ v \notin Offered' /\ FateLines(v)' = {}

(* A step that leaves the queues, the hand, the arrival and the log alone  *)
(* moves nothing.                                                          *)
LEMMA NothingMoves ==
  ASSUME UNCHANGED <<bundle, q, hand, evlog>>, Offered' = Offered
  PROVE  Moves(None)
<1>1. Queued' = Queued
  BY DEF Queued, Elems
<1>2. \A b : FateLines(b)' = FateLines(b)
  BY DEF FateLines, LinesOf, Lines, Fates
<1>3. QED
  BY <1>1, <1>2 DEF Moves, Rests

(* One bundle leaves the queue for a line of gw.jsonl.                     *)
LEMMA QueuedToFate ==
  ASSUME Shape, PlaceShape, NEW v \in Bundles, v \in Queued, Queued' = Queued \ {v},
         NEW ev \in Fates, NEW t, Log(ev, v, t), bundle' = bundle,
         UNCHANGED <<hand, rpc>>
  PROVE  Moves(v) /\ ToFate(v, ev)
<1>1. GatewayShape /\ Placed(v)
  BY DEF Shape, PlaceShape
<1>2. v # hand /\ v \notin Offered /\ FateLines(v) = {}
  BY <1>1 DEF Placed
<1>3. Offered' = Offered
  BY DEF Offered, Arriving
<1>4. /\ DOMAIN evlog' = DOMAIN evlog \cup {Len(evlog) + 1}
      /\ \A i \in DOMAIN evlog : evlog'[i] = evlog[i]
      /\ evlog'[Len(evlog) + 1].ev = ev
  BY <1>1, LinesGrow
<1>5. FateLines(v)' = {Len(evlog) + 1}
  BY <1>1, <1>2, LinesGrow
<1>6. \A b \in Bundles \ {v} : FateLines(b)' = FateLines(b)
  BY <1>1, LinesGrow
<1>7. Moves(v)
  BY <1>3, <1>4, <1>6 DEF Moves, Rests
<1>8. QED
  BY <1>2, <1>3, <1>4, <1>5, <1>7 DEF ToFate

(* The offered bundle, or the one in hand, gets its line of gw.jsonl.      *)
LEMMA OfferedToFate ==
  ASSUME Shape, NEW v \in Bundles, Offered = {v}, Offered' = {},
         v \notin Queued, v # hand, FateLines(v) = {},
         NEW ev \in Fates, NEW t, Log(ev, v, t), UNCHANGED <<bundle, q, hand>>
  PROVE  Moves(v) /\ ToFate(v, ev)
<1>1. GatewayShape
  BY DEF Shape
<1>2. Queued' = Queued
  BY DEF Queued, Elems
<1>3. /\ DOMAIN evlog' = DOMAIN evlog \cup {Len(evlog) + 1}
      /\ \A i \in DOMAIN evlog : evlog'[i] = evlog[i]
      /\ evlog'[Len(evlog) + 1].ev = ev
  BY <1>1, LinesGrow
<1>4. FateLines(v)' = {Len(evlog) + 1}
  BY <1>1, LinesGrow
<1>5. \A b \in Bundles \ {v} : FateLines(b)' = FateLines(b)
  BY <1>1, LinesGrow
<1>6. Moves(v)
  BY <1>2, <1>3, <1>5 DEF Moves, Rests
<1>7. QED
  BY <1>2, <1>3, <1>4, <1>6 DEF ToFate

LEMMA HandToFate ==
  ASSUME Shape, PlaceShape, NEW v \in Bundles, v = hand, hand' = None,
         NEW ev \in Fates, NEW t, Log(ev, v, t), UNCHANGED <<bundle, q, rpc>>
  PROVE  Moves(v) /\ ToFate(v, ev)
<1>1. GatewayShape /\ Placed(v)
  BY DEF Shape, PlaceShape
<1>2. v \notin Queued /\ v \notin Offered /\ FateLines(v) = {}
  BY <1>1 DEF Placed
<1>3. Queued' = Queued /\ Offered' = Offered
  BY DEF Queued, Elems, Offered, Arriving
<1>4. /\ DOMAIN evlog' = DOMAIN evlog \cup {Len(evlog) + 1}
      /\ \A i \in DOMAIN evlog : evlog'[i] = evlog[i]
      /\ evlog'[Len(evlog) + 1].ev = ev
  BY <1>1, LinesGrow
<1>5. FateLines(v)' = {Len(evlog) + 1}
  BY <1>1, <1>2, LinesGrow
<1>6. \A b \in Bundles \ {v} : FateLines(b)' = FateLines(b)
  BY <1>1, LinesGrow
<1>7. \A b \in Bundles : b # None
  BY LenProperties DEF Shape, GatewayShape, Bundles, None
<1>8. Moves(v)
  BY <1>3, <1>4, <1>6, <1>7 DEF Moves, Rests
<1>9. QED
  BY <1>2, <1>3, <1>4, <1>5, <1>7, <1>8 DEF ToFate

(* One bundle leaves the queue for the hand.                               *)
LEMMA QueuedToHand ==
  ASSUME Shape, PlaceShape, NEW v \in Bundles, v \in Queued, Queued' = Queued \ {v},
         hand = None, hand' = v, UNCHANGED <<bundle, evlog, rpc>>
  PROVE  Moves(v) /\ ToHand(v)
<1>1. v \notin Offered /\ FateLines(v) = {}
  BY DEF PlaceShape, Placed
<1>2. Offered' = Offered
  BY DEF Offered, Arriving
<1>3. \A b : FateLines(b)' = FateLines(b)
  BY DEF FateLines, LinesOf, Lines, Fates
<1>4. \A b \in Bundles : b # None
  BY LenProperties DEF Shape, GatewayShape, Bundles, None
<1>5. Moves(v)
  BY <1>2, <1>3, <1>4 DEF Moves, Rests
<1>6. QED
  BY <1>1, <1>2, <1>3, <1>5 DEF ToHand

-----------------------------------------------------------------------------
(* The order of the queues.                                                *)
Ahead(u, v) == Rank(u) < Rank(v) \/ (Rank(u) = Rank(v) /\ u < v)
Oldest(v) == \A u \in Queued : Rank(u) = Rank(v) => v <= u

LEMMA RanksDiffer ==
  /\ \A c \in Class : RANK[c] \in 0..3
  /\ \A c, d \in Class : RANK[c] = RANK[d] => c = d
  /\ \A c \in Class : RANK[c] = 0 <=> c = "emergency"
BY Classes DEF RANK

LEMMA InItsQueue ==
  ASSUME GatewayShape, NEW u \in Queued
  PROVE  /\ u \in Bundles /\ u \in Nat
         /\ Cls(u) \in Class /\ Rank(u) \in 0..3
         /\ u \in Elems(q[Cls(u)]) /\ q[Cls(u)] # <<>>
<1>1. PICK c \in Class : u \in Elems(q[c])
  BY DEF Queued
<1>2. u \in Bundles /\ Cls(u) = c
  BY <1>1, QueuesApart
<1>3. q[c] \in Seq(Seqs) /\ DOMAIN q[c] = 1..Len(q[c])
  BY LenProperties DEF GatewayShape, QueueShape
<1>4. q[c] # <<>>
  BY <1>1, <1>3 DEF Elems
<1>5. u \in Nat
  BY <1>2, LenProperties DEF GatewayShape, Bundles
<1>6. QED
  BY <1>1, <1>2, <1>4, <1>5, RanksDiffer DEF Rank

(* The head of a class queue is the oldest bundle of its class.            *)
LEMMA HeadOldest ==
  ASSUME GatewayShape, BufferOrder, NEW c \in Class, q[c] # <<>>
  PROVE  /\ Head(q[c]) \in Queued /\ Head(q[c]) \in Bundles
         /\ Cls(Head(q[c])) = c /\ Rank(Head(q[c])) = RANK[c]
         /\ Oldest(Head(q[c]))
<1> DEFINE h == Head(q[c])
<1>1. q[c] \in Seq(Seqs) /\ Increasing(q[c])
  BY DEF GatewayShape, QueueShape, BufferOrder
<1>2. h \in Elems(q[c]) /\ \A x \in Elems(q[c]) : h <= x
  BY <1>1, WithoutHead
<1>3. h \in Queued /\ h \in Bundles /\ Cls(h) = c
  BY <1>2, QueuesApart DEF Queued
<1> HIDE DEF h
<1>4. ASSUME NEW u \in Queued, Rank(u) = Rank(h) PROVE h <= u
  <2>1. Cls(u) \in Class /\ u \in Elems(q[Cls(u)])
    BY InItsQueue
  <2>2. Cls(u) = c
    BY <1>3, <1>4, <2>1, RanksDiffer DEF Rank
  <2>3. QED
    BY <1>2, <2>1, <2>2
<1>5. QED
  BY <1>3, <1>4 DEF Oldest, Rank, h

(* The last bundle of a class queue is the newest of its class.            *)
LEMMA LastNewest ==
  ASSUME GatewayShape, BufferOrder, NEW c \in Class, q[c] # <<>>
  PROVE  LET v == q[c][Len(q[c])] IN
         /\ v \in Queued /\ v \in Bundles /\ Rank(v) = RANK[c]
         /\ \A u \in Queued \ {v} : Rank(u) = Rank(v) => u < v
<1> DEFINE v == q[c][Len(q[c])]
<1>1. /\ q[c] \in Seq(Seqs) /\ Increasing(q[c])
      /\ Len(q[c]) \in Nat \ {0} /\ DOMAIN q[c] = 1..Len(q[c])
  BY EmptySeq, LenProperties DEF GatewayShape, QueueShape, BufferOrder
<1>2. v \in Elems(q[c])
  BY <1>1 DEF Elems
<1>3. \A x \in Elems(q[c]) \ {v} : x < v
  BY <1>1 DEF Elems, Increasing
<1>4. v \in Queued /\ v \in Bundles /\ Cls(v) = c
  BY <1>2, QueuesApart DEF Queued
<1> HIDE DEF v
<1>5. ASSUME NEW u \in Queued \ {v}, Rank(u) = Rank(v) PROVE u < v
  <2>1. Cls(u) \in Class /\ u \in Elems(q[Cls(u)])
    BY InItsQueue
  <2>2. Cls(u) = c
    BY <1>4, <1>5, <2>1, RanksDiffer DEF Rank
  <2>3. QED
    BY <1>3, <2>1, <2>2
<1>6. QED
  BY <1>4, <1>5 DEF Rank, v

(* Of a set of classes, the first by rank is the most urgent.              *)
LEMMA FirstMostUrgent ==
  ASSUME NEW S, S \subseteq Class, S # {}
  PROVE  \A d \in S : RANK[FirstIn(ByRank, S)] <= RANK[d]
<1> DEFINE P(i) == ByRank[i] \in S /\ \A j \in 1..(i - 1) : ByRank[j] \notin S
           i == CHOOSE i \in 1..4 : P(i)
<1>1. /\ DOMAIN ByRank = 1..4
      /\ ByRank[1] = "emergency" /\ ByRank[2] = "telemetry"
      /\ ByRank[3] = "sci_bulk" /\ ByRank[4] = "media"
  BY DEF ByRank
<1>2. \A d \in Class : RANK[d] + 1 \in 1..4 /\ ByRank[RANK[d] + 1] = d
  BY <1>1, Classes DEF RANK
<1>3. \A k \in 1..4 : RANK[ByRank[k]] = k - 1
  BY <1>1 DEF RANK
<1>4. \E k \in 1..4 : P(k)
  <2>1. \E k \in 1..4 : ByRank[k] \in S
    BY <1>2
  <2>2. CASE ByRank[1] \in S
    BY <2>2
  <2>3. CASE ByRank[1] \notin S /\ ByRank[2] \in S
    BY <2>3
  <2>4. CASE ByRank[1] \notin S /\ ByRank[2] \notin S /\ ByRank[3] \in S
    BY <2>4
  <2>5. CASE ByRank[1] \notin S /\ ByRank[2] \notin S /\ ByRank[3] \notin S /\ ByRank[4] \in S
    BY <2>5
  <2>6. QED
    BY <2>1, <2>2, <2>3, <2>4, <2>5
<1>5. i \in 1..4 /\ P(i)
  BY <1>4
<1>6. FirstIn(ByRank, S) = ByRank[i]
  BY <1>1 DEF FirstIn
<1> HIDE DEF i
<1>7. ASSUME NEW d \in S PROVE RANK[ByRank[i]] <= RANK[d]
  <2>1. RANK[d] + 1 \in 1..4 /\ ByRank[RANK[d] + 1] \in S
    BY <1>2
  <2>2. ~(RANK[d] + 1 < i)
    BY <1>5, <2>1
  <2>3. RANK[d] \in 0..3
    BY RanksDiffer
  <2>4. QED
    BY <1>3, <1>5, <2>2, <2>3
<1>8. QED
  BY <1>6, <1>7

-----------------------------------------------------------------------------
(* The moves, and the conditions they are made under.                      *)
NoneDead == \A u \in Queued : ~Expired(u, Arrival)
Offering(b) == b = Arriving /\ Offered = {b}

Records ==
  /\ Offered = {} /\ Offered' = {Len(bundle) + 1}
  /\ \E r \in Bundle : r.t = clock /\ bundle' = Append(bundle, r)
  /\ UNCHANGED <<q, hand, evlog, clock>>

Accepts == \E b \in Bundles : Offering(b) /\ ~OverCap(b) /\ Moves(b) /\ ToQueue(b)

Refuses ==
  \E b \in Bundles :
    /\ Offering(b) /\ OverCap(b) /\ NoneDead
    /\ Admission = "priority" => \A u \in Queued : Rank(u) <= Rank(b)
    /\ Moves(b) /\ ToFate(b, "drop")

Evicts ==
  \E b \in Bundles, v \in Queued :
    /\ Offering(b) /\ OverCap(b) /\ NoneDead /\ Admission = "priority"
    /\ Rank(v) > Rank(b) /\ \A u \in Queued \ {v} : Ahead(u, v)
    /\ Moves(v) /\ ToFate(v, "evict")

Expires ==
  \E v \in Queued : Expired(v, clock) /\ Oldest(v) /\ Moves(v) /\ ToFate(v, "expire")

(* The next bundle to be served, by policy.                                *)
InTurn(v) ==
  \A u \in Queued \ {v} :
    CASE Policy = "fifo" -> u > v
      [] Policy = "strict" -> Ahead(v, u)
      [] Policy = "wfq" -> /\ Rank(u) = Rank(v) => u > v
                           /\ Rank(u) = 0 => Rank(v) = 0

Serves == hand = None /\ \E v \in Queued : InTurn(v) /\ Moves(v) /\ ToHand(v)

Delivers == \E v \in Bundles : v = hand /\ Moves(v) /\ ToFate(v, "fwd")

Passes == Moves(None)

(* What outlived its class still has later.                                *)
LEMMA ExpiredLater ==
  ASSUME Shape, NEW v \in Bundles, NEW now \in Nat, NEW later \in Nat,
         now <= later, Expired(v, now)
  PROVE  Expired(v, later)
<1>1. bundle[v].t \in Nat /\ Lifetime[Cls(v)] \in Nat
  BY BundleFields, GatewayAssumption DEF Shape, GatewayShape
<1>2. QED
  BY <1>1 DEF Expired

(* A discard is the expiry of the oldest bundle of a class.                *)
LEMMA DiscardExpires ==
  ASSUME Shape, BufferOrder, PlaceShape, NEW c \in Class, NEW now \in Nat, now <= clock,
         Stale(c, now), Discard(c, now), UNCHANGED <<hand, rpc>>
  PROVE  Expires
<1> DEFINE v == Head(q[c])
<1>1. GatewayShape /\ q[c] # <<>> /\ clock \in Nat
  BY DEF Shape, ThreadShape, Stale
<1>2. v \in Queued /\ v \in Bundles /\ Oldest(v)
  BY <1>1, HeadOldest
<1>3. v \notin gone
  BY <1>2 DEF BufferOrder
<1>4. Expired(v, now) /\ Log("expire", v, now) /\ bundle' = bundle
  BY <1>3 DEF Stale, Discard
<1>5. Queued' = Queued \ {v}
  <2>1. /\ q' = [q EXCEPT ![c] = Tail(@)] /\ gone' = gone \cup {v}
        /\ bytes' = bytes - Size(v)
    BY <1>3 DEF Discard
  <2>2. Leaves(v)
    BY <1>1, <1>4, <2>1, HeadLeaves
  <2>3. QED
    BY <2>2 DEF Leaves
<1> HIDE DEF v
<1>6. "expire" \in Fates
  BY DEF Fates
<1>7. Moves(v) /\ ToFate(v, "expire")
  BY <1>2, <1>4, <1>5, <1>6, QueuedToFate
<1>8. Expired(v, clock)
  BY <1>1, <1>2, <1>4, ExpiredLater
<1>9. QED
  BY <1>2, <1>7, <1>8 DEF Expires

(* An eviction takes the newest bundle of the least urgent class.          *)
LEMMA EvictMoves ==
  ASSUME Shape, BufferOrder, PlaceShape, NEW b \in Bundles, NEW now \in Nat,
         Evictable(b) # {}, Evict(b, now), UNCHANGED <<hand, rpc>>
  PROVE  \E v \in Queued :
           /\ Rank(v) > Rank(b) /\ \A u \in Queued \ {v} : Ahead(u, v)
           /\ Moves(v) /\ ToFate(v, "evict")
<1> DEFINE c == CHOOSE c \in Evictable(b) : \A d \in Evictable(b) : RANK[d] <= RANK[c]
           v == q[c][Len(q[c])]
<1>0. GatewayShape
  BY DEF Shape
<1>1. c \in Evictable(b) /\ \A d \in Evictable(b) : RANK[d] <= RANK[c]
  <2>1. \E e \in Evictable(b) : \A d \in Evictable(b) : RANK[d] <= RANK[e]
    <3>1. Evictable(b) \subseteq Class /\ \A d \in Class : RANK[d] \in 0..3
      BY Classes DEF Evictable, RANK
    <3>2. QED
      BY <3>1, Classes DEF RANK
  <2>2. QED
    BY <2>1
<1>2. Log("evict", v, now) /\ q' = [q EXCEPT ![c] = SubSeq(@, 1, Len(@) - 1)]
      /\ bundle' = bundle
  BY DEF Evict
<1> HIDE DEF c
<1>3. c \in Class /\ q[c] # <<>> /\ RANK[c] > Rank(b)
  BY <1>1 DEF Evictable
<1>4. /\ v \in Queued /\ v \in Bundles /\ Rank(v) = RANK[c]
      /\ \A u \in Queued \ {v} : Rank(u) = Rank(v) => u < v
  BY <1>0, <1>3, LastNewest
<1>5. Queued' = Queued \ {v}
  <2> DEFINE s == q[c]
             r == SubSeq(s, 1, Len(s) - 1)
  <2>1. s \in Seq(Seqs) /\ Increasing(s)
    BY <1>0, <1>3 DEF GatewayShape, QueueShape, BufferOrder
  <2>2. v \in Elems(s) /\ Elems(r) = Elems(s) \ {v}
    BY <1>3, <2>1, WithoutLast
  <2>3. q' = [q EXCEPT ![c] = r]
    BY <1>2
  <2> HIDE DEF r, v
  <2>4. QED
    BY <1>0, <1>3, <2>2, <2>3, TakenOut
<1> HIDE DEF v
<1>6. "evict" \in Fates
  BY DEF Fates
<1>7. Moves(v) /\ ToFate(v, "evict")
  BY <1>2, <1>4, <1>5, <1>6, QueuedToFate
<1>8. ASSUME NEW u \in Queued \ {v} PROVE Ahead(u, v)
  <2>1. /\ Cls(u) \in Class /\ q[Cls(u)] # <<>> /\ Rank(u) = RANK[Cls(u)]
        /\ RANK[Cls(u)] \in 0..3
    BY <1>0, InItsQueue, RanksDiffer DEF Rank
  <2>2. Rank(b) \in 0..3
    BY <1>0, BundleFields, RanksDiffer DEF Rank, GatewayShape
  <2>3. RANK[c] \in 0..3
    BY <1>3, RanksDiffer
  <2>4. CASE RANK[Cls(u)] > Rank(b)
    <3>1. RANK[Cls(u)] <= RANK[c]
      BY <1>1, <2>1, <2>4 DEF Evictable
    <3>2. QED
      BY <1>4, <2>1, <2>3, <3>1 DEF Ahead
  <2>5. CASE ~(RANK[Cls(u)] > Rank(b))
    BY <1>3, <1>4, <2>1, <2>2, <2>3, <2>5 DEF Ahead
  <2>6. QED
    BY <2>4, <2>5
<1>9. QED
  BY <1>3, <1>4, <1>7, <1>8

LEMMA EnqueuedLast ==
  ASSUME GatewayShape, BufferOrder, Admitting, Arriving \in Bundles, Enqueue(Arriving)
  PROVE  Queued' = Queued \cup {Arriving} /\ bundle' = bundle /\ evlog' = evlog
<1> DEFINE b == Arriving
           c == Cls(b)
<1>1. q' = [q EXCEPT ![c] = Append(@, b)] /\ bundle' = bundle /\ evlog' = evlog
  BY DEF Enqueue
<1>2. c \in Class /\ b \in Seqs
  BY BundleFields, LenProperties DEF GatewayShape, Bundles, Seqs
<1>3. \A x \in Queued : x < b
  BY DEF BufferOrder
<1> HIDE DEF c
<1>4. /\ q[c] \in Seq(Seqs) /\ Increasing(q[c]) /\ q \in [Class -> Seq(Seqs)]
      /\ \A x \in Elems(q[c]) : x < b
  BY <1>2, <1>3 DEF GatewayShape, QueueShape, BufferOrder, Queued
<1> HIDE DEF b
<1>5. Elems(Append(q[c], b)) = Elems(q[c]) \cup {b}
  BY <1>2, <1>4, WithNewest
<1>6. \A d \in Class : q'[d] = IF d = c THEN Append(q[c], b) ELSE q[d]
  BY <1>1, <1>4
<1>7. \A d \in Class : Elems(q'[d]) = IF d = c THEN Elems(q[d]) \cup {b} ELSE Elems(q[d])
  BY <1>5, <1>6
<1>8. Queued' = UNION {Elems(q'[d]) : d \in Class}
  BY DEF Queued, Elems
<1>9. Queued' = Queued \cup {b}
  BY <1>2, <1>7, <1>8 DEF Queued
<1>10. QED
  BY <1>1, <1>9 DEF b

(* What the reader's steps do to the bundles.                              *)
LEMMA ReaderMoves ==
  ASSUME Shape, BufferOrder, PlaceShape, LockShape, ClockShape, ReaderNext
  PROVE  Records \/ Accepts \/ Refuses \/ Evicts \/ Expires \/ Passes
<1>0. GatewayShape /\ clock \in Nat
  BY DEF Shape, ThreadShape
<1>1. CASE \E o \in Offers : Receive(o)
  <2>1. PICK o \in Offers : Receive(o)
    BY <1>1
  <2> DEFINE r == [cls |-> o.cls, n |-> o.n, t |-> clock]
  <2>2. r \in Bundle /\ r.t = clock
    BY <1>0, WorkerAssumption DEF Bundle
  <2>3. /\ bundle' = Append(bundle, r) /\ rpc = "recv" /\ rpc' = "offer"
        /\ UNCHANGED <<q, hand, evlog, clock>>
    BY <2>1 DEF Receive, main
  <2> HIDE DEF r
  <2>4. Len(bundle') = Len(bundle) + 1
    BY <1>0, <2>2, <2>3, AppendProperties DEF GatewayShape
  <2>5. Offered = {} /\ Offered' = {Len(bundle) + 1}
    BY <2>3, <2>4 DEF Offered, Arriving
  <2>6. QED
    BY <2>2, <2>3, <2>5 DEF Records
<1>2. CASE ReaderStop \/ AdmitBegin \/ AdmitPurged
  <2>1. UNCHANGED <<bundle, q, hand, evlog>>
    BY <1>2 DEF ReaderStop, AdmitBegin, AdmitPurged, gwvars, main
  <2>2. Offered' = Offered
    BY <1>2, <2>1 DEF ReaderStop, AdmitBegin, AdmitPurged, Offered, Arriving
  <2>3. QED
    BY <2>1, <2>2, NothingMoves DEF Passes
<1>3. ASSUME rpc \in {"purge", "decide"}
      PROVE  /\ Arriving \in Bundles /\ Offered = {Arriving} /\ Admitting
             /\ Arrival \in Nat /\ Arrival <= clock
  BY <1>3, ArrivingShape DEF Offered, Admitting, ClockShape, Arrival
<1>4. CASE AdmitPurge
  <2> DEFINE c == FirstIn(ByRank, StaleClasses(Arrival))
  <2>1. c \in StaleClasses(Arrival)
    BY <1>4, FirstByRank DEF AdmitPurge, StaleClasses
  <2>2. c \in Class /\ Stale(c, Arrival)
    BY <2>1 DEF StaleClasses
  <2>3. Discard(c, Arrival) /\ rpc = "purge" /\ UNCHANGED <<hand, rpc>>
    BY <1>4 DEF AdmitPurge, main
  <2> HIDE DEF c
  <2>4. QED
    BY <1>3, <2>2, <2>3, DiscardExpires
<1>5. ASSUME rpc = "decide"
      PROVE  \E b \in Bundles :
               /\ Offering(b) /\ b \notin Queued /\ b # hand /\ FateLines(b) = {}
               /\ OverCap(b) => NoneDead
  <2>1. PICK b \in Bundles : b = Arriving
    BY <1>3, <1>5
  <2>2. Offering(b) /\ Placed(b)
    BY <1>3, <1>5, <2>1 DEF Offering, PlaceShape
  <2>3. OverCap(b) => NoneDead
    BY <1>5, <2>1 DEF ClockShape, NoneDead
  <2>4. QED
    BY <2>2, <2>3 DEF Placed, Offering
<1>6. CASE AdmitEvict
  <2>1. PICK b \in Bundles : Offering(b) /\ (OverCap(b) => NoneDead)
    BY <1>5, <1>6 DEF AdmitEvict
  <2>2. /\ OverCap(b) /\ Admission = "priority"
        /\ Evictable(b) # {} /\ Evict(b, Arrival)
        /\ UNCHANGED <<hand, rpc>> /\ Arrival \in Nat
    BY <1>3, <1>6, <2>1 DEF AdmitEvict, MayEvict, main, Offering
  <2>3. \E v \in Queued :
           /\ Rank(v) > Rank(b) /\ \A u \in Queued \ {v} : Ahead(u, v)
           /\ Moves(v) /\ ToFate(v, "evict")
    BY <2>2, EvictMoves
  <2>4. QED
    BY <2>1, <2>2, <2>3 DEF Evicts
<1>7. CASE AdmitDrop
  <2>1. PICK b \in Bundles :
               /\ Offering(b) /\ b \notin Queued /\ b # hand /\ FateLines(b) = {}
               /\ OverCap(b) => NoneDead
    BY <1>5, <1>7 DEF AdmitDrop
  <2>2. /\ OverCap(b) /\ ~MayEvict(b) /\ rpc' = "recv"
        /\ \E t : Log("drop", b, t)
        /\ UNCHANGED <<bundle, q, hand>>
    BY <1>7, <2>1 DEF AdmitDrop, AdmitReturn, Drop, main, Offering
  <2>3. Admission = "priority" => \A u \in Queued : Rank(u) <= Rank(b)
    <3>1. SUFFICES ASSUME Admission = "priority", NEW u \in Queued
                   PROVE  Rank(u) <= Rank(b)
      OBVIOUS
    <3>2. Evictable(b) = {}
      BY <2>2, <3>1 DEF MayEvict
    <3>3. Cls(u) \in Class /\ q[Cls(u)] # <<>> /\ Rank(u) \in 0..3
      BY <1>0, InItsQueue
    <3>4. Rank(b) \in 0..3
      BY <1>0, BundleFields, RanksDiffer DEF Rank, GatewayShape
    <3>5. QED
      BY <3>2, <3>3, <3>4 DEF Evictable, Rank
  <2>4. Offered = {b} /\ Offered' = {}
    BY <2>1, <2>2 DEF Offering, Offered
  <2>5. PICK t : Log("drop", b, t)
    BY <2>2
  <2>6. "drop" \in Fates
    BY DEF Fates
  <2>7. Moves(b) /\ ToFate(b, "drop")
    BY <2>1, <2>2, <2>4, <2>5, <2>6, OfferedToFate
  <2>8. QED
    BY <2>1, <2>2, <2>3, <2>7 DEF Refuses
<1>8. CASE AdmitEnqueue
  <2>1. PICK b \in Bundles :
               Offering(b) /\ b \notin Queued /\ b # hand /\ FateLines(b) = {}
    BY <1>5, <1>8 DEF AdmitEnqueue
  <2>2. /\ rpc = "decide" /\ ~OverCap(b) /\ Enqueue(Arriving) /\ rpc' = "recv"
        /\ hand' = hand
    BY <1>8, <2>1 DEF AdmitEnqueue, AdmitReturn, main, Offering
  <2>3. Queued' = Queued \cup {b} /\ bundle' = bundle /\ evlog' = evlog
    BY <1>0, <1>3, <2>1, <2>2, EnqueuedLast DEF Offering
  <2>4. Offered' = {}
    BY <2>2 DEF Offered
  <2>5. \A u : FateLines(u)' = FateLines(u)
    BY <2>3 DEF FateLines, LinesOf, Lines, Fates
  <2>6. \A u \in Bundles \ {b} : Rests(u)
    BY <2>1, <2>2, <2>3, <2>4, <2>5 DEF Rests, Offering
  <2>7. Moves(b) /\ ToQueue(b)
    BY <2>1, <2>2, <2>3, <2>4, <2>5, <2>6 DEF Moves, ToQueue
  <2>8. QED
    BY <2>1, <2>2, <2>7 DEF Accepts
<1>9. QED
  BY <1>1, <1>2, <1>4, <1>6, <1>7, <1>8 DEF ReaderNext

(* The bundle a poll takes is the first of its class, and the one the      *)
(* policy serves next.                                                     *)
LEMMA TakeServes ==
  ASSUME Shape, BufferOrder, PlaceShape, NEW c \in Class, q[c] # <<>>, Take(c),
         NEW v, v = Head(q[c]), InTurn(v), mpc = "next", NextReturn(v),
         bundle' = bundle, evlog' = evlog
  PROVE  Serves
<1>1. GatewayShape
  BY DEF Shape
<1>2. v \in Queued /\ v \in Bundles
  BY <1>1, HeadOldest
<1>3. Queued' = Queued \ {v}
  <2>1. Leaves(v)
    BY <1>1, TakeLeaves
  <2>2. QED
    BY <2>1 DEF Leaves
<1>4. hand = None /\ hand' = v /\ rpc' = rpc
  BY DEF PlaceShape, NextReturn
<1>5. Moves(v) /\ ToHand(v)
  BY <1>2, <1>3, <1>4, QueuedToHand
<1>6. QED
  BY <1>2, <1>4, <1>5 DEF Serves

LEMMA PollMoves ==
  ASSUME Shape, BufferOrder, PlaceShape, ClockShape, NextPoll
  PROVE  Serves \/ Expires \/ Passes
<1>0. GatewayShape /\ clock \in Nat /\ mnow \in Nat /\ mnow <= clock
  BY DEF Shape, ThreadShape, ClockShape
<1>1. CASE NextDiscard
  <2> DEFINE order == IF Policy = "wfq" THEN <<"emergency">> \o rr ELSE ByRank
             c == FirstIn(order, StaleHeads)
  <2>1. StaleHeads \subseteq Class /\ StaleHeads # {}
    BY <1>0, <1>1, ExaminedClasses DEF NextDiscard, StaleHeads
  <2>2. c \in StaleHeads
    <3>1. CASE Policy = "wfq"
      BY <1>0, <2>1, <3>1, FirstByTurn
    <3>2. CASE Policy # "wfq"
      BY <2>1, <3>2, FirstByRank
    <3>3. QED
      BY <3>1, <3>2
  <2>3. c \in Class /\ Stale(c, mnow)
    BY <2>1, <2>2 DEF StaleHeads, StaleClasses
  <2>4. Discard(c, mnow) /\ UNCHANGED <<hand, rpc>>
    BY <1>1 DEF NextDiscard, NextGoesOn
  <2> HIDE DEF c
  <2>5. QED
    BY <1>0, <2>3, <2>4, DiscardExpires
<1>2. CASE NextFifoSkip \/ NextDrrPass \/ NextNone
  <2>1. UNCHANGED <<bundle, q, evlog, rpc>>
    BY <1>2 DEF NextFifoSkip, NextDrrPass, NextNone, FifoSkip, DrrPass, DrrReset, gwvars,
                NextGoesOn, NextReturn
  <2>2. hand' = hand
    BY <1>2 DEF NextFifoSkip, NextDrrPass, DrrTurn, NextNone, NextGoesOn, NextReturn,
                PlaceShape
  <2>3. Offered' = Offered
    BY <2>1 DEF Offered, Arriving
  <2>4. QED
    BY <2>1, <2>2, <2>3, NothingMoves DEF Passes
<1>3. CASE NextFifoTake
  <2>1. /\ fifo # <<>> /\ FifoServable /\ FifoTake /\ NextReturn(Head(fifo))
        /\ Policy = "fifo" /\ mpc = "next"
    BY <1>3 DEF NextFifoTake
  <2>2. PICK v, c : v = Head(fifo) /\ c = Cls(v)
    OBVIOUS
  <2>3. v \in Bundles /\ c \in Class
    BY <1>0, <2>1, <2>2, FifoShape, BundleFields DEF GatewayShape
  <2>4. q[c] # <<>> /\ v = Head(q[c]) /\ Take(c) /\ NextReturn(v)
    BY <2>1, <2>2 DEF FifoServable, FifoTake
  <2>5. bundle' = bundle /\ evlog' = evlog
    BY <2>1 DEF FifoTake
  <2>6. InTurn(v)
    <3>1. ASSUME NEW u \in Queued \ {v} PROVE u > v
      <4>1. fifo \in Seq(Seqs) /\ Increasing(fifo) /\ u \in Elems(fifo)
        BY <1>0, <2>1 DEF GatewayShape, BufferOrder
      <4>2. v <= u
        BY <2>1, <2>2, <4>1, WithoutHead
      <4>3. u \in Nat /\ v \in Nat
        BY <1>0, <2>3, InItsQueue, LenProperties DEF GatewayShape, Bundles
      <4>4. QED
        BY <4>2, <4>3
    <3>2. QED
      BY <2>1, <3>1 DEF InTurn
  <2>7. QED
    BY <2>1, <2>3, <2>4, <2>5, <2>6, TakeServes
<1>4. CASE NextPriorityTake
  <2>1. PICK c \in Examined : PriorityTake(c) /\ NextReturn(Head(q[c]))
    BY <1>4 DEF NextPriorityTake
  <2>2. Policy # "fifo" /\ mpc = "next"
    BY <1>4 DEF NextPriorityTake
  <2>3. c \in Class /\ q[c] # <<>>
    BY <1>0, <2>1, <2>2, ExaminedClasses DEF Backlogged
  <2>4. PICK v : v = Head(q[c])
    OBVIOUS
  <2>5. Take(c) /\ NextReturn(v) /\ bundle' = bundle /\ evlog' = evlog
    BY <2>1, <2>4 DEF PriorityTake
  <2>6. v \in Queued /\ v \in Nat /\ Rank(v) = RANK[c] /\ Rank(v) \in 0..3 /\ Oldest(v)
    BY <1>0, <2>3, <2>4, HeadOldest, InItsQueue
  <2>7. \A u \in Queued \ {v} : /\ u \in Nat /\ Rank(u) \in 0..3
                                /\ Cls(u) \in Backlogged
                                /\ Rank(u) = Rank(v) => u > v
    BY <1>0, <2>6, InItsQueue DEF Oldest, Backlogged
  <2>8. CASE Policy = "strict"
    <3>1. Backlogged # {} /\ Backlogged \subseteq Class
      BY <2>3 DEF Backlogged
    <3>2. c = FirstIn(ByRank, Backlogged)
      BY <2>1, <2>8, <3>1 DEF Examined
    <3>3. \A d \in Backlogged : RANK[c] <= RANK[d]
      BY <3>1, <3>2, FirstMostUrgent
    <3>4. ASSUME NEW u \in Queued \ {v} PROVE Ahead(v, u)
      <4>1. RANK[c] <= Rank(u)
        BY <2>7, <3>3 DEF Rank
      <4>2. QED
        BY <2>6, <2>7, <4>1 DEF Ahead
    <3>5. InTurn(v)
      BY <2>8, <3>4 DEF InTurn
    <3>6. QED
      BY <2>2, <2>3, <2>4, <2>5, <3>5, TakeServes
  <2>9. CASE Policy = "wfq" /\ "emergency" \in Backlogged
    <3>1. c = "emergency"
      BY <2>1, <2>9 DEF Examined
    <3>2. Rank(v) = 0
      BY <2>3, <2>6, <3>1, RanksDiffer
    <3>3. InTurn(v)
      BY <2>7, <2>9, <3>2 DEF InTurn
    <3>4. QED
      BY <2>2, <2>3, <2>4, <2>5, <3>3, TakeServes
  <2>10. QED
    BY <1>4, <2>8, <2>9 DEF NextPriorityTake
<1>5. CASE NextDrrTake
  <2>1. PICK c : c = Head(rr)
    OBVIOUS
  <2>2. c \in Class
    <3>1. rr \in Seq(DrrClass) /\ Len(rr) = 3
      BY <1>0 DEF GatewayShape
    <3>2. QED
      BY <2>1, <3>1, Turn, Classes
  <2>3. PICK v : v = Head(q[c])
    OBVIOUS
  <2>4. /\ q[c] # <<>> /\ Take(c) /\ bundle' = bundle /\ evlog' = evlog
        /\ mpc = "next" /\ Policy = "wfq" /\ "emergency" \notin Backlogged
        /\ NextReturn(v)
    BY <1>5, <2>1, <2>3 DEF NextDrrTake, DrrTurn, DrrCanServe, DrrTake
  <2>5. v \in Queued /\ v \in Nat /\ Oldest(v)
    BY <1>0, <2>2, <2>3, <2>4, HeadOldest, InItsQueue
  <2>6. ASSUME NEW u \in Queued \ {v}
        PROVE  (Rank(u) = Rank(v) => u > v) /\ Rank(u) # 0
    <3>1. u \in Nat /\ Cls(u) \in Class /\ Cls(u) \in Backlogged
      BY <1>0, InItsQueue DEF Backlogged
    <3>2. Rank(u) # 0
      BY <2>4, <3>1, RanksDiffer DEF Rank
    <3>3. QED
      BY <2>5, <3>1, <3>2 DEF Oldest
  <2>7. InTurn(v)
    BY <2>4, <2>6 DEF InTurn
  <2>8. QED
    BY <2>2, <2>3, <2>4, <2>7, TakeServes
<1>6. QED
  BY <1>1, <1>2, <1>3, <1>4, <1>5 DEF NextPoll

LEMMA MoveKinds ==
  ASSUME Shape, BufferOrder, PlaceShape, LockShape, ClockShape, [Next]_vars
  PROVE  \/ Records \/ Accepts \/ Refuses \/ Evicts \/ Expires \/ Serves \/ Delivers
         \/ Passes
<1>0. GatewayShape
  BY DEF Shape
<1>1. CASE ReaderNext
  BY <1>1, ReaderMoves
<1>2. CASE NextPoll
  BY <1>2, PollMoves
<1>3. CASE Forward
  <2>1. PICK v : v = hand
    OBVIOUS
  <2>2. /\ mpc = "send" /\ hand' = None /\ UNCHANGED <<bundle, q, rpc>>
        /\ \E t : Log("fwd", v, t)
    BY <1>3, <2>1 DEF Forward
  <2>3. v \in Bundles
    BY <1>0, <2>1, <2>2, LenProperties DEF Shape, ThreadShape, GatewayShape, Bundles, None
  <2>4. PICK t : Log("fwd", v, t)
    BY <2>2
  <2>5. "fwd" \in Fates
    BY DEF Fates
  <2>6. Moves(v) /\ ToFate(v, "fwd")
    BY <2>1, <2>2, <2>3, <2>4, <2>5, HandToFate
  <2>7. QED
    BY <2>1, <2>3, <2>6 DEF Delivers
<1>4. CASE ReportLeft
  <2>1. PICK v, ev, t : ev = "queued_at_end" /\ Log(ev, v, t)
    BY <1>4 DEF ReportLeft
  <2>2. UNCHANGED <<bundle, q, hand, rpc>>
    BY <1>4 DEF ReportLeft
  <2>3. Queued' = Queued /\ Offered' = Offered
    BY <2>2 DEF Queued, Elems, Offered, Arriving
  <2>4. /\ DOMAIN evlog' = DOMAIN evlog \cup {Len(evlog) + 1}
        /\ \A i \in DOMAIN evlog : evlog'[i] = evlog[i]
    BY <1>0, <2>1, LinesGrow
  <2>5. ev \notin Fates
    BY <2>1 DEF Fates
  <2>6. \A u \in Bundles : FateLines(u)' = FateLines(u)
    BY <1>0, <2>1, <2>5, LinesGrow
  <2>7. QED
    BY <2>2, <2>3, <2>4, <2>6 DEF Passes, Moves, Rests
<1>5. CASE LoopTest \/ ReadClock \/ NextBegin \/ Snapshot \/ Exit \/ Tick \/ UNCHANGED vars
  <2>1. UNCHANGED <<bundle, q, hand, evlog, rpc>>
    BY <1>5 DEF LoopTest, ReadClock, NextBegin, Snapshot, Exit, Tick, vars, gwvars, main
  <2>2. Offered' = Offered
    BY <2>1 DEF Offered, Arriving
  <2>3. QED
    BY <2>1, <2>2, NothingMoves DEF Passes
<1>6. QED
  BY <1>1, <1>2, <1>3, <1>4, <1>5 DEF Next, MainNext, Exited

-----------------------------------------------------------------------------
(* The invariants.                                                         *)
(* A step writes at most one line to gw.jsonl, about a recorded bundle;    *)
(* only the drain loop writes "fwd".                                       *)
LEMMA LogKinds ==
  ASSUME Shape, BufferOrder, [Next]_vars
  PROVE  \/ evlog' = evlog
         \/ Forward
         \/ \E ev \in Event \ {"fwd"}, b \in Bundles, t \in Nat : Log(ev, b, t)
<1>0. GatewayShape /\ clock \in Nat /\ mnow \in Nat
  BY DEF Shape, ThreadShape
<1>1. ASSUME NEW c \in Class, NEW now \in Nat, Stale(c, now), Discard(c, now)
      PROVE  \E ev \in Event \ {"fwd"}, b \in Bundles, t \in Nat : Log(ev, b, t)
  <2>1. PICK b : b = Head(q[c])
    OBVIOUS
  <2>2. b \in Bundles /\ b \notin gone
    BY <1>0, <1>1, <2>1, HeadOldest DEF Stale, BufferOrder
  <2>3. Log("expire", b, now)
    BY <1>1, <2>1, <2>2 DEF Discard
  <2>4. QED
    BY <2>2, <2>3 DEF Event
<1>2. CASE AdmitPurge
  <2> DEFINE c == FirstIn(ByRank, StaleClasses(Arrival))
  <2>1. c \in StaleClasses(Arrival)
    BY <1>2, FirstByRank DEF AdmitPurge, StaleClasses
  <2>2. c \in Class /\ Stale(c, Arrival) /\ Discard(c, Arrival)
    BY <1>2, <2>1 DEF StaleClasses, AdmitPurge
  <2>3. Arrival \in Nat
    BY <1>2, ArrivingShape DEF AdmitPurge
  <2> HIDE DEF c
  <2>4. QED
    BY <1>1, <2>2, <2>3
<1>3. CASE AdmitEvict
  <2>1. PICK b, now : b = Arriving /\ now = Arrival
    OBVIOUS
  <2>2. b \in Bundles /\ now \in Nat /\ Evictable(b) # {} /\ Evict(b, now)
    BY <1>3, <2>1, ArrivingShape DEF AdmitEvict, MayEvict
  <2> DEFINE c == CHOOSE c \in Evictable(b) : \A d \in Evictable(b) : RANK[d] <= RANK[c]
  <2>3. c \in Evictable(b)
    <3>1. \E e \in Evictable(b) : \A d \in Evictable(b) : RANK[d] <= RANK[e]
      <4>1. Evictable(b) \subseteq Class /\ \A d \in Class : RANK[d] \in 0..3
        BY Classes DEF Evictable, RANK
      <4>2. QED
        BY <2>2, <4>1, Classes DEF RANK
    <3>2. QED
      BY <3>1
  <2>4. Log("evict", q[c][Len(q[c])], now)
    BY <2>2 DEF Evict
  <2> HIDE DEF c
  <2>5. q[c][Len(q[c])] \in Bundles
    BY <1>0, <2>3, LastNewest DEF Evictable
  <2>6. QED
    BY <2>2, <2>4, <2>5 DEF Event
<1>4. CASE AdmitDrop
  <2>1. PICK b, now : b = Arriving /\ now = Arrival
    OBVIOUS
  <2>2. b \in Bundles /\ now \in Nat /\ Log("drop", b, now)
    BY <1>4, <2>1, ArrivingShape DEF AdmitDrop, Drop
  <2>3. QED
    BY <2>2 DEF Event
<1>5. CASE NextDiscard
  <2> DEFINE order == IF Policy = "wfq" THEN <<"emergency">> \o rr ELSE ByRank
             c == FirstIn(order, StaleHeads)
  <2>1. StaleHeads \subseteq Class /\ StaleHeads # {}
    BY <1>0, <1>5, ExaminedClasses DEF NextDiscard, StaleHeads
  <2>2. c \in StaleHeads
    <3>1. CASE Policy = "wfq"
      BY <1>0, <2>1, <3>1, FirstByTurn
    <3>2. CASE Policy # "wfq"
      BY <2>1, <3>2, FirstByRank
    <3>3. QED
      BY <3>1, <3>2
  <2>3. c \in Class /\ Stale(c, mnow) /\ Discard(c, mnow)
    BY <1>5, <2>1, <2>2 DEF StaleHeads, StaleClasses, NextDiscard
  <2> HIDE DEF c
  <2>4. QED
    BY <1>0, <1>1, <2>3
<1>6. CASE ReportLeft
  <2>1. PICK b \in left : Log("queued_at_end", b, clock)
    BY <1>6 DEF ReportLeft
  <2>2. b \in Bundles
    BY DEF Shape, ThreadShape
  <2>3. PICK t \in Nat : t = clock
    BY <1>0
  <2>4. QED
    BY <2>1, <2>2, <2>3 DEF Event
<1>7. CASE \/ \E o \in Offers : Receive(o)
           \/ ReaderStop \/ AdmitBegin \/ AdmitPurged \/ AdmitEnqueue
  BY <1>7 DEF Receive, ReaderStop, AdmitBegin, AdmitPurged, AdmitEnqueue, Enqueue, gwvars
<1>8. CASE NextPoll /\ ~NextDiscard
  BY <1>8 DEF NextPoll, NextFifoSkip, NextFifoTake, NextPriorityTake,
              NextDrrTake, NextDrrPass, NextNone, FifoSkip, FifoTake, PriorityTake,
              DrrTake, DrrPass, DrrReset, gwvars
<1>9. CASE LoopTest \/ ReadClock \/ NextBegin \/ Snapshot \/ Exit \/ Tick \/ UNCHANGED vars
  BY <1>9 DEF LoopTest, ReadClock, NextBegin, Snapshot, Exit, Tick, vars, gwvars
<1>10. QED
  BY <1>2, <1>3, <1>4, <1>5, <1>6, <1>7, <1>8, <1>9 DEF Next, ReaderNext, MainNext, Exited

LEMMA PlaceInit == Init => PlaceShape
<1> SUFFICES ASSUME Init PROVE PlaceShape
  OBVIOUS
<1>1. bundle = <<>> /\ evlog = <<>> /\ hand = None
  BY DEF Init, GatewayInit
<1>2. Bundles = {} /\ DOMAIN evlog = {}
  BY <1>1 DEF Bundles
<1>3. QED
  BY <1>1, <1>2 DEF PlaceShape

(* A bundle that rests stays in one place, and so does one that moves.     *)
LEMMA MovesPlaced ==
  ASSUME PlaceShape, NEW v, Moves(v),
         v \in Bundles => (\E ev : ToFate(v, ev)) \/ ToHand(v) \/ ToQueue(v)
  PROVE  \A b \in Bundles' : Placed(b)'
<1>1. Bundles' = Bundles
  BY DEF Moves, Bundles
<1>2. ASSUME NEW b \in Bundles, b # v PROVE Placed(b)'
  <2>1. Placed(b) /\ Rests(b)
    BY <1>2 DEF PlaceShape, Moves
  <2>2. QED
    BY <2>1 DEF Placed, Rests
<1>3. ASSUME v \in Bundles PROVE Placed(v)'
  BY <1>3 DEF Placed, ToFate, ToHand, ToQueue
<1>4. QED
  BY <1>1, <1>2, <1>3

LEMMA PlaceStep ==
  ASSUME Shape, BufferOrder, PlaceShape, LockShape, ClockShape, [Next]_vars
  PROVE  PlaceShape'
<1>0. GatewayShape /\ Len(bundle) \in Nat
  BY LenProperties DEF Shape, GatewayShape
<1>1. Bundles \subseteq Bundles' /\ \A b \in Bundles' : Placed(b)'
  <2>1. CASE Records
    <3>1. PICK r \in Bundle : bundle' = Append(bundle, r)
      BY <2>1 DEF Records
    <3>2. Len(bundle') = Len(bundle) + 1
      BY <1>0, <3>1, AppendProperties DEF GatewayShape
    <3>3. PICK n : n = Len(bundle) + 1
      OBVIOUS
    <3>4. Bundles' = Bundles \cup {n} /\ n \notin Bundles
      BY <1>0, <3>2, <3>3 DEF Bundles
    <3>5. UNCHANGED <<q, hand, evlog>> /\ Offered = {} /\ Offered' = {n}
      BY <2>1, <3>3 DEF Records
    <3>6. Queued' = Queued
      BY <3>5 DEF Queued, Elems
    <3>7. \A b : FateLines(b)' = FateLines(b)
      BY <3>5 DEF FateLines, LinesOf, Lines, Fates
    <3>8. ASSUME NEW b \in Bundles PROVE Placed(b)'
      <4>1. Placed(b) /\ b # n
        BY <3>4 DEF PlaceShape
      <4>2. QED
        BY <3>5, <3>6, <3>7, <4>1 DEF Placed
    <3>9. Placed(n)'
      <4>1. n \notin Queued /\ n # hand
        BY <1>0, <3>3, <3>4, QueuedBundles DEF Shape, ThreadShape
      <4>2. FateLines(n) = {}
        BY <3>4 DEF FateLines, LinesOf, Lines, PlaceShape
      <4>3. QED
        BY <3>5, <3>6, <3>7, <4>1, <4>2 DEF Placed
    <3>10. QED
      BY <3>4, <3>8, <3>9
  <2>2. CASE Accepts \/ Refuses
    <3>1. PICK b \in Bundles : Moves(b) /\ (ToQueue(b) \/ ToFate(b, "drop"))
      BY <2>2 DEF Accepts, Refuses
    <3>2. QED
      BY <3>1, MovesPlaced DEF Moves, Bundles
  <2>3. CASE Evicts \/ Expires \/ Serves
    <3>1. PICK v : Moves(v) /\ (ToFate(v, "evict") \/ ToFate(v, "expire") \/ ToHand(v))
      BY <2>3 DEF Evicts, Expires, Serves
    <3>2. QED
      BY <3>1, MovesPlaced DEF Moves, Bundles
  <2>4. CASE Delivers
    <3>1. PICK v \in Bundles : Moves(v) /\ ToFate(v, "fwd")
      BY <2>4 DEF Delivers
    <3>2. QED
      BY <3>1, MovesPlaced DEF Moves, Bundles
  <2>5. CASE Passes
    <3>1. Moves(None) /\ None \notin Bundles
      BY <1>0, <2>5 DEF Passes, Bundles, None
    <3>2. QED
      BY <3>1, MovesPlaced DEF Moves, Bundles
  <2>6. QED
    BY <2>1, <2>2, <2>3, <2>4, <2>5, MoveKinds
<1>2. mpc' # "send" => hand' = None
  <2>1. CASE ReaderNext
    BY <2>1 DEF ReaderNext, Receive, ReaderStop, AdmitBegin, AdmitPurge, AdmitPurged,
                AdmitEvict, AdmitDrop, AdmitEnqueue, AdmitReturn, main, PlaceShape
  <2>2. CASE NextPoll
    BY <2>2 DEF NextPoll, NextDiscard, NextFifoSkip, NextFifoTake, NextPriorityTake,
                NextDrrTake, NextDrrPass, NextNone, DrrTurn, NextGoesOn, NextReturn,
                PlaceShape
  <2>3. CASE MainNext /\ ~NextPoll
    BY <2>3 DEF MainNext, LoopTest, ReadClock, NextBegin, Forward, Snapshot, ReportLeft,
                Exit, PlaceShape
  <2>4. CASE Tick \/ UNCHANGED vars
    BY <2>4 DEF Tick, vars, main, PlaceShape
  <2>5. QED
    BY <2>1, <2>2, <2>3, <2>4 DEF Next, Exited
<1>3. \A i \in DOMAIN evlog' : evlog'[i].seq \in Bundles'
  <2>1. ASSUME NEW v \in Bundles, NEW ev, NEW t, Log(ev, v, t)
        PROVE  \A i \in DOMAIN evlog' : evlog'[i].seq \in Bundles'
    <3>1. PICK n : /\ DOMAIN evlog' = DOMAIN evlog \cup {n}
                   /\ \A i \in DOMAIN evlog : evlog'[i] = evlog[i]
                   /\ evlog'[n].seq = v
      BY <1>0, <2>1, LinesGrow
    <3>2. v \in Bundles' /\ \A i \in DOMAIN evlog : evlog[i].seq \in Bundles'
      BY <1>1, <2>1 DEF PlaceShape
    <3>3. ASSUME NEW i \in DOMAIN evlog' PROVE evlog'[i].seq \in Bundles'
      <4>1. CASE i \in DOMAIN evlog
        BY <3>1, <3>2, <4>1
      <4>2. CASE i = n
        BY <3>1, <3>2, <4>2
      <4>3. QED
        BY <3>1, <3>3, <4>1, <4>2
    <3>4. QED
      BY <3>3
  <2>2. CASE evlog' = evlog
    BY <1>1, <2>2 DEF PlaceShape
  <2>3. CASE Forward
    <3>1. PICK v, t : v = hand /\ Log("fwd", v, t)
      BY <2>3 DEF Forward
    <3>2. v \in Bundles
      BY <1>0, <2>3, <3>1 DEF Forward, Shape, ThreadShape, Bundles, None
    <3>3. QED
      BY <2>1, <3>1, <3>2
  <2>4. CASE \E ev \in Event \ {"fwd"}, b \in Bundles, t \in Nat : Log(ev, b, t)
    BY <2>1, <2>4
  <2>5. QED
    BY <2>2, <2>3, <2>4, LogKinds
<1>4. QED
  BY <1>1, <1>2, <1>3 DEF PlaceShape

LEMMA ClockInit == Init => ClockShape
<1> SUFFICES ASSUME Init PROVE ClockShape
  OBVIOUS
<1>1. bundle = <<>> /\ mnow = 0 /\ clock = 0 /\ rpc = "recv"
  BY DEF Init, GatewayInit
<1>2. Bundles = {}
  BY <1>1 DEF Bundles
<1>3. QED
  BY <1>1, <1>2 DEF ClockShape

(* Time goes on, and a poll keeps the clock it read.                       *)
LEMMA ClockGoesOn ==
  ASSUME Shape, mnow <= clock, [Next]_vars
  PROVE  clock' \in Nat /\ clock <= clock' /\ mnow' <= clock'
<1>0. clock \in Nat /\ mnow \in Nat
  BY DEF Shape, ThreadShape
<1>1. CASE Tick
  BY <1>0, <1>1 DEF Tick, main
<1>2. CASE ReaderNext
  <2>1. clock' = clock /\ mnow' = mnow
    BY <1>2 DEF ReaderNext, Receive, ReaderStop, AdmitBegin, AdmitPurge, AdmitPurged,
                AdmitEvict, AdmitDrop, AdmitEnqueue, AdmitReturn, main
  <2>2. QED
    BY <1>0, <2>1
<1>3. CASE NextPoll
  <2>1. clock' = clock /\ mnow' \in {mnow, 0}
    BY <1>3 DEF NextPoll, NextDiscard, NextFifoSkip, NextFifoTake, NextPriorityTake,
                NextDrrTake, NextDrrPass, NextNone, NextGoesOn, NextReturn
  <2>2. QED
    BY <1>0, <2>1
<1>4. CASE MainNext /\ ~NextPoll
  <2>1. clock' = clock /\ mnow' \in {mnow, 0, clock}
    BY <1>4 DEF MainNext, LoopTest, ReadClock, NextBegin, Forward, Snapshot, ReportLeft,
                Exit
  <2>2. QED
    BY <1>0, <2>1
<1>5. CASE UNCHANGED vars
  BY <1>0, <1>5 DEF vars, main
<1>6. QED
  BY <1>1, <1>2, <1>3, <1>4, <1>5 DEF Next, Exited

(* When the heads of the class queues are not stale, nothing queued is     *)
(* expired: bundles behind a head arrived later.                           *)
LEMMA FreshBehindHeads ==
  ASSUME Shape, BufferOrder, NEW now \in Nat, StaleClasses(now) = {},
         \A a, b \in Bundles : a <= b => bundle[a].t <= bundle[b].t
  PROVE  \A u \in Queued : ~Expired(u, now)
<1>0. GatewayShape
  BY DEF Shape
<1>1. SUFFICES ASSUME NEW u \in Queued, Expired(u, now) PROVE FALSE
  OBVIOUS
<1>2. u \in Bundles /\ Cls(u) \in Class /\ q[Cls(u)] # <<>>
  BY <1>0, InItsQueue
<1>3. PICK h : h = Head(q[Cls(u)])
  OBVIOUS
<1>4. h \in Bundles /\ Cls(h) = Cls(u) /\ h <= u
  BY <1>0, <1>2, <1>3, HeadOldest DEF Oldest, Rank
<1>5. ~Expired(h, now)
  BY <1>2, <1>3 DEF StaleClasses, Stale
<1>6. bundle[h].t <= bundle[u].t
  BY <1>2, <1>4
<1>7. bundle[h].t \in Nat /\ bundle[u].t \in Nat /\ Lifetime[Cls(u)] \in Nat
  BY <1>0, <1>2, <1>4, BundleFields, GatewayAssumption DEF GatewayShape
<1>8. QED
  BY <1>1, <1>4, <1>5, <1>6, <1>7 DEF Expired

(* While admit() decides, only its own evictions change the buffer.        *)
LEMMA DecideHolds ==
  ASSUME LockShape, rpc = "decide", rpc' = "decide", [Next]_vars
  PROVE  AdmitEvict \/ UNCHANGED <<bundle, q, bytes>>
<1>1. gwlock = "reader" /\ mpc # "next"
  BY DEF LockShape
<1>2. ~NextPoll
  BY <1>1 DEF NextPoll, NextDiscard, NextFifoSkip, NextFifoTake, NextPriorityTake,
              NextDrrTake, NextDrrPass, NextNone, DrrTurn
<1>3. CASE ReaderNext
  BY <1>3 DEF ReaderNext, Receive, ReaderStop, AdmitBegin, AdmitPurge, AdmitPurged,
              AdmitDrop, AdmitEnqueue, AdmitReturn
<1>4. CASE MainNext
  BY <1>2, <1>4 DEF MainNext, LoopTest, ReadClock, NextBegin, Forward, Snapshot,
                    ReportLeft, Exit, gwvars
<1>5. CASE Tick \/ UNCHANGED vars
  BY <1>5 DEF Tick, vars, gwvars
<1>6. QED
  BY <1>3, <1>4, <1>5 DEF Next, Exited

(* admit() begins to decide with room for the bundle, or after a purge.    *)
LEMMA DecideBegins ==
  ASSUME rpc # "decide", rpc' = "decide", [Next]_vars
  PROVE  /\ AdmitBegin \/ AdmitPurged
         /\ UNCHANGED <<bundle, q, bytes>>
<1>1. CASE ReaderNext
  BY <1>1 DEF ReaderNext, Receive, ReaderStop, AdmitBegin, AdmitPurge, AdmitPurged,
              AdmitEvict, AdmitDrop, AdmitEnqueue, AdmitReturn, gwvars
<1>2. CASE MainNext \/ Tick \/ UNCHANGED vars
  BY <1>2 DEF MainNext, LoopTest, ReadClock, NextBegin, NextPoll, NextDiscard,
              NextFifoSkip, NextFifoTake, NextPriorityTake, NextDrrTake, NextDrrPass,
              NextNone, NextGoesOn, NextReturn, Forward, Snapshot, ReportLeft, Exit,
              Tick, vars
<1>3. QED
  BY <1>1, <1>2 DEF Next, Exited

LEMMA ClockStep ==
  ASSUME Shape, BufferOrder, PlaceShape, LockShape, ClockShape, [Next]_vars
  PROVE  ClockShape'
<1>0. /\ GatewayShape /\ Len(bundle) \in Nat /\ clock \in Nat
      /\ clock' \in Nat /\ clock <= clock' /\ mnow' <= clock'
  BY ClockGoesOn, LenProperties DEF Shape, GatewayShape, ThreadShape, ClockShape
<1>1. \A b \in Bundles : bundle[b].t \in Nat
  BY <1>0, BundleFields DEF GatewayShape
<1>2. bundle' = bundle \/ Records
  BY MoveKinds DEF Accepts, Refuses, Evicts, Expires, Serves, Delivers, Passes, Moves
<1>3. /\ \A b \in Bundles' : bundle'[b].t <= clock'
      /\ \A a, b \in Bundles' : a <= b => bundle'[a].t <= bundle'[b].t
  <2>1. CASE bundle' = bundle
    <3>1. Bundles' = Bundles
      BY <2>1 DEF Bundles
    <3>2. \A b \in Bundles : bundle[b].t <= clock'
      BY <1>0, <1>1 DEF ClockShape
    <3>3. QED
      BY <2>1, <3>1, <3>2 DEF ClockShape
  <2>2. CASE Records
    <3>1. PICK r \in Bundle : r.t = clock /\ bundle' = Append(bundle, r) /\ clock' = clock
      BY <2>2 DEF Records
    <3>2. PICK n : n = Len(bundle) + 1
      OBVIOUS
    <3>3. /\ Len(bundle') = n /\ bundle'[n] = r
          /\ \A b \in Bundles : bundle'[b] = bundle[b]
      BY <1>0, <3>1, <3>2, AppendProperties DEF GatewayShape, Bundles
    <3>4. /\ Bundles' = Bundles \cup {n} /\ n \in Nat
          /\ \A b \in Bundles : b \in Nat /\ b < n
      BY <1>0, <3>2, <3>3 DEF Bundles
    <3>5. \A b \in Bundles' : bundle'[b].t <= clock'
      BY <1>0, <3>1, <3>3, <3>4 DEF ClockShape
    <3>6. ASSUME NEW a \in Bundles', NEW b \in Bundles', a <= b
          PROVE  bundle'[a].t <= bundle'[b].t
      <4>1. CASE b = n
        BY <3>1, <3>3, <3>5, <4>1
      <4>2. CASE b # n
        <5>1. a \in Bundles /\ b \in Bundles
          BY <3>4, <3>6, <4>2
        <5>2. QED
          BY <3>3, <3>6, <5>1 DEF ClockShape
      <4>3. QED
        BY <4>1, <4>2
    <3>7. QED
      BY <3>5, <3>6
  <2>3. QED
    BY <1>2, <2>1, <2>2
<1>4. ASSUME rpc' = "decide", OverCap(Arriving)', NEW u \in Queued'
      PROVE  ~Expired(u, Arrival)'
  <2>1. CASE UNCHANGED <<bundle, q, bytes>>
    <3>1. /\ Queued' = Queued /\ (OverCap(Arriving)' <=> OverCap(Arriving))
          /\ Expired(u, Arrival)' <=> Expired(u, Arrival)
      BY <2>1 DEF Queued, Elems, OverCap, Arriving, Arrival, Expired, Size, Cls
    <3>2. CASE rpc = "decide"
      BY <1>4, <3>1, <3>2 DEF ClockShape
    <3>3. CASE rpc # "decide"
      <4>1. AdmitBegin \/ AdmitPurged
        BY <1>4, <3>3, DecideBegins
      <4>2. ~AdmitBegin
        BY <1>4, <3>1 DEF AdmitBegin
      <4>3. StaleClasses(Arrival) = {} /\ rpc = "purge"
        BY <4>1, <4>2 DEF AdmitPurged
      <4>4. PICK now \in Nat : now = Arrival
        BY <4>3, ArrivingShape
      <4>5. \A w \in Queued : ~Expired(w, now)
        BY <4>3, <4>4, FreshBehindHeads DEF ClockShape
      <4>6. QED
        BY <1>4, <3>1, <4>4, <4>5
    <3>4. QED
      BY <3>2, <3>3
  <2>2. CASE AdmitEvict
    <3>1. OverCap(Arriving) /\ rpc = "decide"
      BY <2>2 DEF AdmitEvict, MayEvict
    <3>2. PICK b, now : b = Arriving /\ now = Arrival
      OBVIOUS
    <3>3. b \in Bundles /\ now \in Nat /\ Evictable(b) # {} /\ Evict(b, now)
      BY <2>2, <3>1, <3>2, ArrivingShape DEF AdmitEvict, MayEvict
    <3>4. PICK v \in Bundles : Leaves(v)
      BY <1>0, <3>3, LastLeaves
    <3>5. Queued' \subseteq Queued /\ bundle' = bundle
      BY <3>4 DEF Leaves
    <3>6. ~Expired(u, Arrival)
      BY <1>4, <3>1, <3>5 DEF ClockShape
    <3>7. QED
      BY <3>5, <3>6 DEF Expired, Arrival, Arriving, Cls
  <2>3. QED
    BY <1>4, <2>1, <2>2, DecideHolds, DecideBegins
<1>5. QED
  BY <1>0, <1>3, <1>4 DEF ClockShape

LEMMA PlaceInvariant == Spec => [](PlaceShape /\ LockShape /\ ClockShape)
<1> DEFINE Inv == PlaceShape /\ LockShape /\ ClockShape
<1>1. Init => Inv
  BY PlaceInit, LockInit, ClockInit
<1>2. Shape /\ BufferOrder /\ Inv /\ [Next]_vars => Inv'
  BY PlaceStep, LockStep, ClockStep
<1>3. QED
  BY <1>1, <1>2, ShapeInvariant, OrderInvariant, PTL DEF Spec

(* Every bundle the reader recorded is in exactly one place - in admit(),  *)
(* queued, returned by next(), or decided by one line of gw.jsonl - for    *)
(* every interleaving of the two threads (live_gateway.py:62-70, 83-94;    *)
(* n6_bridge.py:252-257).                                                  *)
THEOREM OnePlaceInvariant == Spec => []OnePlace
<1>1. Shape /\ PlaceShape => OnePlace
  <2> SUFFICES ASSUME Shape, PlaceShape, NEW b \in Bundles
               PROVE  Cardinality(LinesOf(b, Fates)) + Cardinality({b} \cap Queued)
                        + Cardinality({b} \cap InHand) + Cardinality({b} \cap Offered) = 1
    BY DEF OnePlace
  <2>1. Placed(b) /\ b # None
    BY LenProperties DEF PlaceShape, Shape, GatewayShape, Bundles, None
  <2>2. Cardinality({}) = 0 /\ \A x : Cardinality({x}) = 1
    BY FS_EmptySet, FS_Singleton
  <2>3. /\ {b} \cap Queued = IF b \in Queued THEN {b} ELSE {}
        /\ {b} \cap InHand = IF b = hand THEN {b} ELSE {}
        /\ {b} \cap Offered = IF b \in Offered THEN {b} ELSE {}
    BY <2>1 DEF InHand
  <2>4. /\ Cardinality({b} \cap Queued) = IF b \in Queued THEN 1 ELSE 0
        /\ Cardinality({b} \cap InHand) = IF b = hand THEN 1 ELSE 0
        /\ Cardinality({b} \cap Offered) = IF b \in Offered THEN 1 ELSE 0
    BY <2>2, <2>3
  <2>5. CASE FateLines(b) = {}
    <3>1. Cardinality(LinesOf(b, Fates)) = 0
      BY <2>2, <2>5 DEF FateLines
    <3>2. QED
      BY <2>1, <2>4, <2>5, <3>1 DEF Placed
  <2>6. CASE FateLines(b) # {}
    <3>1. /\ b \notin Queued /\ b # hand /\ b \notin Offered
          /\ Cardinality(LinesOf(b, Fates)) = 1
      BY <2>1, <2>2, <2>6 DEF Placed, FateLines
    <3>2. QED
      BY <2>4, <3>1
  <2>7. QED
    BY <2>5, <2>6
<1>2. QED
  BY <1>1, ShapeInvariant, PlaceInvariant, PTL

-----------------------------------------------------------------------------
(* When bundles are forwarded.                                             *)
Busy(i) == evlog[i].t + Slot * Size(evlog[i].seq)

(* A poll under way read its clock inside a contact, with the link free;   *)
(* the bundle it returned was alive; the link is free after all that was   *)
(* forwarded.                                                              *)
TimeShape ==
  /\ mpc \in {"poll", "next", "send"} => InContact(mnow) /\ mnow >= tfree
  /\ mpc = "send" => ~Expired(hand, mnow)
  /\ \A i \in DOMAIN evlog : evlog[i].ev = "fwd" => tfree >= Busy(i)
  /\ ForwardedInTime

LEMMA TimeInit == Init => TimeShape
<1> SUFFICES ASSUME Init PROVE TimeShape
  OBVIOUS
<1>1. evlog = <<>> /\ mpc = "check"
  BY DEF Init, GatewayInit
<1>2. DOMAIN evlog = {}
  BY <1>1
<1>3. QED
  BY <1>1, <1>2 DEF TimeShape, ForwardedInTime

(* A recorded bundle keeps its class, size and time.                       *)
LEMMA RecordsKept ==
  ASSUME Shape, BufferOrder, PlaceShape, LockShape, ClockShape, [Next]_vars
  PROVE  \A b \in Bundles : bundle'[b] = bundle[b]
<1>0. bundle \in Seq(Bundle)
  BY DEF Shape, GatewayShape
<1>1. bundle' = bundle \/ Records
  BY MoveKinds DEF Accepts, Refuses, Evicts, Expires, Serves, Delivers, Passes, Moves
<1>2. CASE Records
  <2>1. PICK r \in Bundle : bundle' = Append(bundle, r)
    BY <1>2 DEF Records
  <2>2. QED
    BY <1>0, <2>1, AppendProperties DEF Bundles
<1>3. QED
  BY <1>1, <1>2

(* A poll under way keeps its clock, and the link stays free.              *)
LEMMA PollClock ==
  ASSUME TimeShape, [Next]_vars, mpc' \in {"poll", "next", "send"}
  PROVE  InContact(mnow') /\ mnow' >= tfree'
<1>1. CASE ReaderNext \/ Tick \/ UNCHANGED vars
  <2>1. UNCHANGED main
    BY <1>1 DEF ReaderNext, Receive, ReaderStop, AdmitBegin, AdmitPurge, AdmitPurged,
                AdmitEvict, AdmitDrop, AdmitEnqueue, AdmitReturn, Tick, vars
  <2>2. QED
    BY <2>1 DEF main, TimeShape
<1>2. CASE NextPoll
  <2>1. mpc = "next" /\ mnow' = mnow /\ tfree' = tfree
    BY <1>2 DEF NextPoll, NextDiscard, NextFifoSkip, NextFifoTake, NextPriorityTake,
                NextDrrTake, NextDrrPass, NextNone, DrrTurn, NextGoesOn, NextReturn
  <2>2. QED
    BY <2>1 DEF TimeShape
<1>3. CASE MainNext /\ ~NextPoll
  <2>1. CASE ReadClock
    BY <2>1 DEF ReadClock
  <2>2. CASE NextBegin
    BY <2>2 DEF NextBegin, TimeShape
  <2>3. CASE LoopTest \/ Forward \/ Snapshot \/ ReportLeft \/ Exit
    BY <2>3 DEF LoopTest, Forward, Snapshot, ReportLeft, Exit
  <2>4. QED
    BY <1>3, <2>1, <2>2, <2>3 DEF MainNext
<1>4. QED
  BY <1>1, <1>2, <1>3 DEF Next, Exited

(* The bundle a poll returns is alive by the poll's clock.                 *)
LEMMA PollAlive ==
  ASSUME Shape, BufferOrder, NextPoll, mpc' = "send"
  PROVE  ~Expired(hand', mnow') /\ bundle' = bundle
<1>0. GatewayShape
  BY DEF Shape
<1>1. ASSUME NEW c, c \in Examined, c \in Class, q[c] # <<>>, StaleHeads = {}
      PROVE  ~Expired(Head(q[c]), mnow)
  BY <1>1 DEF StaleHeads, StaleClasses, Stale
<1>2. CASE NextFifoTake
  <2>1. /\ fifo # <<>> /\ FifoServable /\ StaleHeads = {} /\ Policy = "fifo"
        /\ hand' = Head(fifo) /\ mnow' = mnow /\ bundle' = bundle /\ Head(fifo) # None
    BY <1>2 DEF NextFifoTake, NextReturn, FifoTake
  <2>2. PICK c : c = Cls(Head(fifo))
    OBVIOUS
  <2>3. c \in Class /\ c \in Examined /\ q[c] # <<>> /\ Head(q[c]) = Head(fifo)
    BY <1>0, <2>1, <2>2, FifoShape, BundleFields DEF GatewayShape, FifoServable, Examined
  <2>4. QED
    BY <1>1, <2>1, <2>3
<1>3. CASE NextPriorityTake
  <2>1. PICK c \in Examined : PriorityTake(c) /\ NextReturn(Head(q[c]))
    BY <1>3 DEF NextPriorityTake
  <2>2. Policy # "fifo" /\ StaleHeads = {}
    BY <1>3 DEF NextPriorityTake
  <2>3. c \in Class /\ q[c] # <<>>
    BY <1>0, <2>1, <2>2, ExaminedClasses DEF Backlogged
  <2>4. hand' = Head(q[c]) /\ mnow' = mnow /\ bundle' = bundle
    BY <2>1, mpc' = "send" DEF NextReturn, PriorityTake
  <2>5. QED
    BY <1>1, <2>1, <2>2, <2>3, <2>4
<1>4. CASE NextDrrTake
  <2>1. PICK c : c = Head(rr)
    OBVIOUS
  <2>2. c \in Class
    <3>1. rr \in Seq(DrrClass) /\ Len(rr) = 3
      BY <1>0 DEF GatewayShape
    <3>2. QED
      BY <2>1, <3>1, Turn, Classes
  <2>3. /\ q[c] # <<>> /\ Policy = "wfq" /\ "emergency" \notin Backlogged
        /\ StaleHeads = {} /\ hand' = Head(q[c]) /\ mnow' = mnow /\ bundle' = bundle
    BY <1>4, <2>1, mpc' = "send"
       DEF NextDrrTake, DrrTurn, DrrCanServe, DrrTake, NextReturn
  <2>4. c \in Examined
    BY <2>2, <2>3 DEF Examined, Backlogged
  <2>5. QED
    BY <1>1, <2>2, <2>3, <2>4
<1>5. CASE NextDiscard \/ NextFifoSkip \/ NextDrrPass \/ NextNone
  BY <1>5, mpc' = "send" DEF NextDiscard, NextFifoSkip, NextDrrPass, NextNone, DrrTurn,
                             NextGoesOn, NextReturn, None
<1>6. QED
  BY <1>2, <1>3, <1>4, <1>5 DEF NextPoll

LEMMA SendAlive ==
  ASSUME Shape, BufferOrder, PlaceShape, LockShape, ClockShape, TimeShape, [Next]_vars,
         mpc' = "send"
  PROVE  ~Expired(hand, mnow)'
<1>1. CASE NextPoll
  BY <1>1, PollAlive, mpc' = "send" DEF Expired, Cls
<1>2. CASE ~NextPoll
  <2>1. mpc = "send" /\ hand' = hand /\ mnow' = mnow
    BY <1>2, mpc' = "send"
       DEF Next, Exited, Tick, vars, main, ReaderNext, Receive, ReaderStop, AdmitBegin,
           AdmitPurge, AdmitPurged, AdmitEvict, AdmitDrop, AdmitEnqueue, AdmitReturn,
           MainNext, LoopTest, ReadClock, NextBegin, Forward, Snapshot, ReportLeft, Exit
  <2>2. hand \in Bundles
    BY <2>1, LenProperties DEF Shape, ThreadShape, GatewayShape, Bundles, None
  <2>3. bundle'[hand] = bundle[hand]
    BY <2>2, RecordsKept
  <2>4. QED
    BY <2>1, <2>3 DEF Expired, Cls, TimeShape
<1>3. QED
  BY <1>1, <1>2

(* The time the link needs for a bundle, and until when it is busy.        *)
LEMMA BusyNat ==
  ASSUME Shape, NEW b \in Bundles
  PROVE  Slot * Size(b) \in Nat
<1>1. Slot \in Nat /\ Size(b) \in Nat
  BY BundleFields, WorkerAssumption DEF Shape, GatewayShape
<1>2. QED
  BY <1>1

LEMMA LineFields ==
  ASSUME Shape, PlaceShape, NEW i \in DOMAIN evlog
  PROVE  /\ i \in Nat /\ i > 0 /\ evlog[i].t \in Nat /\ evlog[i].seq \in Bundles
         /\ Busy(i) \in Nat
<1>1. /\ evlog \in Seq([ev : Event, seq : Seqs, t : Nat])
      /\ DOMAIN evlog = 1..Len(evlog) /\ Len(evlog) \in Nat
  BY LenProperties DEF Shape, GatewayShape
<1>2. evlog[i] \in [ev : Event, seq : Seqs, t : Nat]
  BY <1>1, ElementOfSeq
<1>3. evlog[i].seq \in Bundles
  BY DEF PlaceShape
<1>4. PICK w : w = Slot * Size(evlog[i].seq)
  OBVIOUS
<1>5. w \in Nat
  BY <1>3, <1>4, BusyNat
<1>6. QED
  BY <1>1, <1>2, <1>3, <1>4, <1>5 DEF Busy

(* The lines written stay, and so does what they say.                      *)
LEMMA LinesKept ==
  ASSUME Shape, BufferOrder, PlaceShape, LockShape, ClockShape, [Next]_vars
  PROVE  \A i \in DOMAIN evlog :
           /\ evlog'[i] = evlog[i]
           /\ Busy(i)' = Busy(i)
           /\ \A t : Expired(evlog[i].seq, t)' <=> Expired(evlog[i].seq, t)
<1>1. SUFFICES ASSUME NEW i \in DOMAIN evlog
               PROVE  /\ evlog'[i] = evlog[i]
                      /\ Busy(i)' = Busy(i)
                      /\ \A t : Expired(evlog[i].seq, t)' <=> Expired(evlog[i].seq, t)
  OBVIOUS
<1>2. evlog'[i] = evlog[i]
  BY MoveKinds DEF Records, Accepts, Refuses, Evicts, Expires, Serves, Delivers, Passes, Moves
<1>3. bundle'[evlog[i].seq] = bundle[evlog[i].seq]
  BY LineFields, RecordsKept
<1>4. QED
  BY <1>2, <1>3 DEF Busy, Expired, Size, Cls

(* What a step that forwards nothing adds to gw.jsonl is no "fwd" line.    *)
LEMMA NothingForwarded ==
  ASSUME Shape, BufferOrder, PlaceShape, LockShape, ClockShape, [Next]_vars, ~Forward
  PROVE  /\ tfree' = tfree
         /\ \A i \in DOMAIN evlog' : evlog'[i].ev = "fwd" => i \in DOMAIN evlog
<1>1. tfree' = tfree
  BY DEF Next, Exited, Tick, vars, main, ReaderNext, Receive, ReaderStop, AdmitBegin,
         AdmitPurge, AdmitPurged, AdmitEvict, AdmitDrop, AdmitEnqueue, AdmitReturn,
         MainNext, LoopTest, ReadClock, NextBegin, NextPoll, NextDiscard, NextFifoSkip,
         NextFifoTake, NextPriorityTake, NextDrrTake, NextDrrPass, NextNone, NextGoesOn,
         NextReturn, Forward, Snapshot, ReportLeft, Exit
<1>2. CASE evlog' = evlog
  BY <1>1, <1>2
<1>3. CASE \E ev \in Event \ {"fwd"}, b \in Bundles, t \in Nat : Log(ev, b, t)
  <2>1. PICK ev \in Event \ {"fwd"}, b \in Bundles, t \in Nat : Log(ev, b, t)
    BY <1>3
  <2>2. PICK n : DOMAIN evlog' = DOMAIN evlog \cup {n} /\ evlog'[n].ev = ev
    BY <2>1, LinesGrow DEF Shape
  <2>3. QED
    BY <1>1, <2>1, <2>2
<1>4. QED
  BY <1>2, <1>3, LogKinds

LEMMA TimeStep ==
  ASSUME Shape, BufferOrder, PlaceShape, LockShape, ClockShape, TimeShape, [Next]_vars
  PROVE  TimeShape'
<1>0. tfree \in Nat /\ mnow \in Nat /\ DOMAIN evlog = 1..Len(evlog) /\ Len(evlog) \in Nat
  BY LenProperties DEF Shape, GatewayShape, ThreadShape
<1>1. mpc' \in {"poll", "next", "send"} => InContact(mnow)' /\ mnow' >= tfree'
  BY PollClock DEF InContact
<1>2. mpc' = "send" => ~Expired(hand, mnow)'
  BY SendAlive
<1>3. ASSUME NEW i \in DOMAIN evlog, evlog[i].ev = "fwd"
      PROVE  /\ evlog'[i] = evlog[i] /\ tfree >= Busy(i) /\ Busy(i)' = Busy(i)
             /\ InContact(evlog[i].t)'
             /\ ~Expired(evlog[i].seq, evlog[i].t)'
             /\ \A j \in 1..(i - 1) : evlog'[j].ev = "fwd" => evlog'[i].t >= Busy(j)'
  <2>1. /\ evlog'[i] = evlog[i] /\ Busy(i)' = Busy(i)
        /\ Expired(evlog[i].seq, evlog[i].t)' <=> Expired(evlog[i].seq, evlog[i].t)
    BY LinesKept
  <2>2. InContact(evlog[i].t) /\ ~Expired(evlog[i].seq, evlog[i].t) /\ tfree >= Busy(i)
    BY <1>3 DEF TimeShape, ForwardedInTime
  <2>3. ASSUME NEW j \in 1..(i - 1), evlog'[j].ev = "fwd" PROVE evlog'[i].t >= Busy(j)'
    <3>1. j \in DOMAIN evlog
      BY <1>0
    <3>2. evlog'[j] = evlog[j] /\ Busy(j)' = Busy(j)
      BY <3>1, LinesKept
    <3>3. evlog[i].t >= Busy(j)
      BY <1>3, <2>3, <3>2 DEF TimeShape, ForwardedInTime, Busy
    <3>4. QED
      BY <2>1, <3>2, <3>3
  <2>4. InContact(evlog[i].t)' /\ ~Expired(evlog[i].seq, evlog[i].t)'
    BY <2>1, <2>2 DEF InContact, Expired, Cls
  <2>5. QED
    BY <2>1, <2>2, <2>3, <2>4
<1>4. CASE ~Forward
  <2>1. /\ tfree' = tfree
        /\ \A i \in DOMAIN evlog' : evlog'[i].ev = "fwd" => i \in DOMAIN evlog
    BY <1>4, NothingForwarded
  <2>2. ASSUME NEW i \in DOMAIN evlog', evlog'[i].ev = "fwd"
        PROVE  i \in DOMAIN evlog /\ evlog[i].ev = "fwd"
    BY <2>1, <2>2, LinesKept
  <2>3. \A i \in DOMAIN evlog' : evlog'[i].ev = "fwd" => tfree' >= Busy(i)'
    BY <1>3, <2>1, <2>2
  <2>4. ForwardedInTime'
    BY <1>3, <2>2 DEF ForwardedInTime, Busy
  <2>5. QED
    BY <1>1, <1>2, <2>3, <2>4 DEF TimeShape
<1>5. CASE Forward
  <2>1. PICK v, w : v = hand /\ w = Slot * Size(v)
    OBVIOUS
  <2>2. /\ mpc = "send" /\ Log("fwd", v, mnow) /\ bundle' = bundle
        /\ tfree' = (IF tfree > mnow THEN tfree ELSE mnow) + w
    BY <1>5, <2>1 DEF Forward
  <2>3. v \in Bundles
    BY <2>1, <2>2, LenProperties DEF Shape, ThreadShape, GatewayShape, Bundles, None
  <2>4. w \in Nat
    BY <2>1, <2>3, BusyNat
  <2>5. PICK t : t = mnow
    OBVIOUS
  <2>6. Log("fwd", v, t)
    BY <2>2, <2>5
  <2>7. PICK n : /\ n = Len(evlog) + 1
                 /\ DOMAIN evlog' = DOMAIN evlog \cup {n}
                 /\ evlog'[n].ev = "fwd" /\ evlog'[n].seq = v /\ evlog'[n].t = t
    BY <2>6, LinesGrow DEF Shape
  <2>8. InContact(t) /\ t >= tfree /\ ~Expired(v, t) /\ t \in Nat
    BY <1>0, <2>1, <2>2, <2>5 DEF TimeShape
  <2>9. tfree' >= tfree /\ tfree' >= t + w
    BY <1>0, <2>2, <2>4, <2>5, <2>8
  <2>10. Busy(n)' = t + w
    BY <2>1, <2>2, <2>7 DEF Busy, Size
  <2>11. ASSUME NEW i \in DOMAIN evlog', evlog'[i].ev = "fwd"
         PROVE  tfree' >= Busy(i)'
    <3>1. CASE i = n
      BY <2>9, <2>10, <3>1
    <3>2. CASE i # n
      <4>1. i \in DOMAIN evlog
        BY <2>7, <2>11, <3>2
      <4>2. evlog[i].ev = "fwd"
        BY <2>11, <4>1, LinesKept
      <4>3. tfree >= Busy(i) /\ Busy(i)' = Busy(i) /\ Busy(i) \in Nat
        BY <1>3, <4>1, <4>2, LineFields
      <4>4. tfree' \in Nat
        BY <1>0, <2>2, <2>4, <2>8
      <4>5. QED
        BY <1>0, <2>9, <4>3, <4>4
    <3>3. QED
      BY <3>1, <3>2
  <2>12. ASSUME NEW i \in DOMAIN evlog', evlog'[i].ev = "fwd"
         PROVE  /\ InContact(evlog[i].t)'
                /\ ~Expired(evlog[i].seq, evlog[i].t)'
                /\ \A j \in 1..(i - 1) : evlog'[j].ev = "fwd" => evlog'[i].t >= Busy(j)'
    <3>1. CASE i = n
      <4>1. InContact(evlog[i].t)'
        BY <2>7, <2>8, <3>1 DEF InContact
      <4>2. ~Expired(evlog[i].seq, evlog[i].t)'
        BY <2>2, <2>7, <2>8, <3>1 DEF Expired, Cls
      <4>3. ASSUME NEW j \in 1..(i - 1), evlog'[j].ev = "fwd" PROVE evlog'[i].t >= Busy(j)'
        <5>1. j \in DOMAIN evlog
          BY <1>0, <2>7, <3>1
        <5>2. evlog[j].ev = "fwd"
          BY <4>3, <5>1, LinesKept
        <5>3. tfree >= Busy(j) /\ Busy(j)' = Busy(j) /\ Busy(j) \in Nat
          BY <1>3, <5>1, <5>2, LineFields
        <5>4. QED
          BY <1>0, <2>7, <2>8, <3>1, <5>3
      <4>4. QED
        BY <4>1, <4>2, <4>3
    <3>2. CASE i # n
      <4>1. i \in DOMAIN evlog
        BY <2>7, <2>12, <3>2
      <4>2. evlog[i].ev = "fwd"
        BY <2>12, <4>1, LinesKept
      <4>3. QED
        BY <1>3, <4>1, <4>2
    <3>3. QED
      BY <3>1, <3>2
  <2>13. ForwardedInTime'
    BY <2>12 DEF ForwardedInTime, Busy
  <2>14. QED
    BY <1>1, <1>2, <2>11, <2>13 DEF TimeShape
<1>6. QED
  BY <1>4, <1>5

(* Nothing is forwarded, by the poll's clock, outside a contact, past its  *)
(* class lifetime, or while the link still carries the bundle before it,   *)
(* for every schedule and stream of packets (live_gateway.py:23-25;        *)
(* n6_bridge.py:248-258).                                                  *)
THEOREM ForwardedInTimeInvariant == Spec => []ForwardedInTime
<1>1. /\ Shape /\ BufferOrder /\ PlaceShape /\ LockShape /\ ClockShape
      /\ TimeShape /\ [Next]_vars
      => TimeShape'
  BY TimeStep
<1>2. TimeShape => ForwardedInTime
  BY DEF TimeShape
<1>3. QED
  BY <1>1, <1>2, TimeInit, ShapeInvariant, OrderInvariant, PlaceInvariant, PTL DEF Spec

-----------------------------------------------------------------------------
(* The refinement.  Where is what ImplementsStore puts in the place of the *)
(* variable "place" of the abstract store.                                 *)
Where == [b \in Bundles |-> PlaceOf(b)]

LEMMA QueuedPlace ==
  ASSUME NEW b, b \in Queued, b \notin InHand, b \notin Offered
  PROVE  PlaceOf(b) = "queued"
BY Zenon DEF PlaceOf

LEMMA HandPlace ==
  ASSUME NEW b, b \notin Queued, b \in InHand, b \notin Offered
  PROVE  PlaceOf(b) = "inhand"
BY Zenon DEF PlaceOf

LEMMA OfferedPlace ==
  ASSUME NEW b, b \notin Queued, b \notin InHand, b \in Offered
  PROVE  PlaceOf(b) = "offered"
BY Zenon DEF PlaceOf

LEMMA FatePlace ==
  ASSUME NEW b, b \notin Queued, b \notin InHand, b \notin Offered,
         NEW i, FateLines(b) = {i}
  PROVE  PlaceOf(b) = evlog[i].ev
<1>1. PlaceOf(b) = evlog[CHOOSE k \in FateLines(b) : TRUE].ev
  BY Zenon DEF PlaceOf, FateLines
<1>2. (CHOOSE k \in {i} : TRUE) = i
  OBVIOUS
<1>3. QED
  BY <1>1, <1>2

(* The same of the state after a step.                                     *)
LEMMA QueuedPlaceNext ==
  ASSUME NEW b, b \in Queued', b \notin InHand', b \notin Offered'
  PROVE  PlaceOf(b)' = "queued"
BY Zenon DEF PlaceOf

LEMMA HandPlaceNext ==
  ASSUME NEW b, b \notin Queued', b \in InHand', b \notin Offered'
  PROVE  PlaceOf(b)' = "inhand"
BY Zenon DEF PlaceOf

LEMMA OfferedPlaceNext ==
  ASSUME NEW b, b \notin Queued', b \notin InHand', b \in Offered'
  PROVE  PlaceOf(b)' = "offered"
BY Zenon DEF PlaceOf

LEMMA FatePlaceNext ==
  ASSUME NEW b, b \notin Queued', b \notin InHand', b \notin Offered',
         NEW i, FateLines(b)' = {i}
  PROVE  PlaceOf(b)' = evlog'[i].ev
<1>1. PlaceOf(b)' = evlog'[CHOOSE k \in FateLines(b)' : TRUE].ev
  BY Zenon DEF PlaceOf, FateLines
<1>2. (CHOOSE k \in {i} : TRUE) = i
  OBVIOUS
<1>3. QED
  BY <1>1, <1>2

LEMMA HandBundle ==
  ASSUME Shape, NEW b \in Bundles
  PROVE  (b \in InHand <=> b = hand) /\ (b \in InHand' <=> b = hand')
<1>1. b # None
  BY LenProperties DEF Shape, GatewayShape, Bundles, None
<1>2. QED
  BY <1>1 DEF InHand

(* The place tells where a bundle is.                                      *)
LEMMA PlaceTells ==
  ASSUME Shape, PlaceShape, NEW b \in Bundles
  PROVE  /\ PlaceOf(b) = "queued" <=> b \in Queued
         /\ PlaceOf(b) = "inhand" <=> b = hand
         /\ PlaceOf(b) = "offered" <=> b \in Offered
<1>1. Placed(b) /\ (b \in InHand <=> b = hand)
  BY HandBundle DEF PlaceShape
<1>2. CASE b \in Queued
  BY <1>1, <1>2, QueuedPlace DEF Placed
<1>3. CASE b = hand
  BY <1>1, <1>3, HandPlace DEF Placed
<1>4. CASE b \in Offered
  BY <1>1, <1>4, OfferedPlace DEF Placed
<1>5. CASE b \notin Queued /\ b # hand /\ b \notin Offered
  <2>1. PICK i : FateLines(b) = {i}
    BY <1>1, <1>5 DEF Placed
  <2>2. PlaceOf(b) = evlog[i].ev
    BY <1>1, <1>5, <2>1, FatePlace
  <2>3. evlog[i].ev \in Fates
    BY <2>1 DEF FateLines, LinesOf
  <2>4. QED
    BY <1>5, <2>2, <2>3 DEF Fates
<1>6. QED
  BY <1>2, <1>3, <1>4, <1>5

(* A bundle that rests keeps its place.                                    *)
LEMMA RestsPlace ==
  ASSUME Shape, PlaceShape, NEW b \in Bundles, Rests(b),
         \A i \in DOMAIN evlog : evlog'[i] = evlog[i]
  PROVE  PlaceOf(b)' = PlaceOf(b)
<1>1. /\ Placed(b) /\ (b \in InHand <=> b = hand) /\ (b \in InHand' <=> b = hand')
  BY HandBundle DEF PlaceShape
<1>2. CASE b \in Queued
  BY <1>1, <1>2, QueuedPlace, QueuedPlaceNext DEF Placed, Rests
<1>3. CASE b = hand
  BY <1>1, <1>3, HandPlace, HandPlaceNext DEF Placed, Rests
<1>4. CASE b \in Offered
  BY <1>1, <1>4, OfferedPlace, OfferedPlaceNext DEF Placed, Rests
<1>5. CASE b \notin Queued /\ b # hand /\ b \notin Offered
  <2>1. PICK i : FateLines(b) = {i}
    BY <1>1, <1>5 DEF Placed
  <2>2. PlaceOf(b) = evlog[i].ev
    BY <1>1, <1>5, <2>1, FatePlace
  <2>3. FateLines(b)' = {i} /\ b \notin Queued' /\ b \notin InHand' /\ b \notin Offered'
    BY <1>1, <1>5, <2>1 DEF Rests
  <2>4. PlaceOf(b)' = evlog'[i].ev
    BY <2>3, FatePlaceNext
  <2>5. i \in DOMAIN evlog
    BY <2>1 DEF FateLines, LinesOf, Lines
  <2>6. QED
    BY <2>2, <2>4, <2>5
<1>6. QED
  BY <1>2, <1>3, <1>4, <1>5

(* A move changes the place of the bundle moved.                           *)
LEMMA MovesPlace ==
  ASSUME Shape, PlaceShape, NEW v \in Bundles, Moves(v), NEW p, PlaceOf(v)' = p
  PROVE  Where' = [Where EXCEPT ![v] = p] /\ bundle' = bundle
<1>1. bundle' = bundle /\ Bundles' = Bundles
  BY DEF Moves, Bundles
<1>2. \A b \in Bundles \ {v} : PlaceOf(b)' = PlaceOf(b)
  BY RestsPlace DEF Moves
<1>3. Where' = [b \in Bundles |-> PlaceOf(b)']
  BY <1>1 DEF Where
<1>4. QED
  BY <1>1, <1>2, <1>3 DEF Where

LEMMA PassesPlace ==
  ASSUME Shape, PlaceShape, Moves(None)
  PROVE  Where' = Where /\ bundle' = bundle
<1>1. bundle' = bundle /\ Bundles' = Bundles
  BY DEF Moves, Bundles
<1>2. None \notin Bundles
  BY LenProperties DEF Shape, GatewayShape, Bundles, None
<1>3. \A b \in Bundles : PlaceOf(b)' = PlaceOf(b)
  BY <1>2, RestsPlace DEF Moves
<1>4. QED
  BY <1>1, <1>3 DEF Where

LEMMA ToPlace ==
  ASSUME Shape, NEW v \in Bundles
  PROVE  /\ \A ev : ToFate(v, ev) => PlaceOf(v)' = ev
         /\ ToHand(v) => PlaceOf(v)' = "inhand"
         /\ ToQueue(v) => PlaceOf(v)' = "queued"
<1>1. v \in InHand' <=> v = hand'
  BY HandBundle
<1>2. ASSUME NEW ev, ToFate(v, ev) PROVE PlaceOf(v)' = ev
  BY <1>1, <1>2, FatePlaceNext DEF ToFate
<1>3. ASSUME ToHand(v) PROVE PlaceOf(v)' = "inhand"
  BY <1>1, <1>3, HandPlaceNext DEF ToHand
<1>4. ASSUME ToQueue(v) PROVE PlaceOf(v)' = "queued"
  BY <1>1, <1>4, QueuedPlaceNext DEF ToQueue
<1>5. QED
  BY <1>2, <1>3, <1>4

-----------------------------------------------------------------------------
(* What the abstract store sees.                                           *)
LEMMA StoreSees ==
  ASSUME Shape, PlaceShape, BytesExact
  PROVE  /\ DOMAIN bundle = Bundles
         /\ Store!In("queued") = Queued
         /\ Store!In("offered") = Offered
         /\ Store!In("inhand") = Bundles \cap {hand}
         /\ Store!Stock = Queued
         /\ \A b : Store!Full(b) <=> OverCap(b)
         /\ \A b : Store!RankOf(b) = Rank(b)
         /\ \A u, v : Store!Before(u, v) <=> Ahead(u, v)
         /\ \A b, now : Store!DeadAt(b, now) <=> Expired(b, now)
<1>1. DOMAIN bundle = Bundles /\ Queued \subseteq Bundles
  BY LenProperties, QueuedBundles DEF Shape, GatewayShape, Bundles
<1>2. Offered \subseteq Bundles
  BY ArrivingShape DEF Offered
<1>3. \A p : Store!In(p) = {b \in Bundles : PlaceOf(b) = p}
  BY <1>1 DEF Store!In
<1>4. Store!In("queued") = Queued
  BY <1>1, <1>3, PlaceTells
<1>5. Store!In("offered") = Offered
  BY <1>2, <1>3, PlaceTells
<1>6. Store!In("inhand") = Bundles \cap {hand}
  BY <1>3, PlaceTells
<1>7. Store!Stock = Queued
  BY <1>4 DEF Store!Stock
<1>8. Store!Used = bytes
  <2>1. Store!Used = Cardinality(Cells(Queued))
    BY <1>7 DEF Store!Used, Store!Cardinality, Cardinality, Cells, Size
  <2>2. QED
    BY <2>1 DEF BytesExact
<1>9. \A b : Store!Full(b) <=> OverCap(b)
  BY <1>8 DEF Store!Full, OverCap, Size
<1>10. \A b : Store!RankOf(b) = Rank(b)
  BY DEF Store!RankOf, Rank, Cls
<1>11. \A u, v : Store!Before(u, v) <=> Ahead(u, v)
  BY <1>10 DEF Store!Before, Ahead
<1>12. \A b, now : Store!DeadAt(b, now) <=> Expired(b, now)
  BY DEF Store!DeadAt, Expired, Cls
<1>13. QED
  BY <1>1, <1>4, <1>5, <1>6, <1>7, <1>9, <1>10, <1>11, <1>12

LEMMA StoreMove ==
  ASSUME Shape, PlaceShape, NEW v \in Bundles, Moves(v), NEW p, PlaceOf(v)' = p,
         clock' = clock
  PROVE  Store!Move(v, p)
<1>1. Where' = [Where EXCEPT ![v] = p] /\ bundle' = bundle
  BY MovesPlace
<1>2. QED
  BY <1>1 DEF Store!Move, Where

(* A new bundle is offered.                                                *)
LEMMA StoreArrives ==
  ASSUME Shape, PlaceShape, BytesExact, Records
  PROVE  Store!Arrive
<1>0. bundle \in Seq(Bundle) /\ Len(bundle) \in Nat
  BY LenProperties DEF Shape, GatewayShape
<1>1. PICK r \in Bundle : r.t = clock /\ bundle' = Append(bundle, r)
  BY DEF Records
<1>2. PICK n : n = Len(bundle) + 1
  OBVIOUS
<1>3. Bundles' = Bundles \cup {n} /\ n \notin Bundles /\ Bundles = 1..(n - 1) /\ n \in Nat \ {0}
  BY <1>0, <1>1, <1>2, AppendProperties DEF Bundles
<1>4. UNCHANGED <<q, hand, evlog, clock>> /\ Offered = {} /\ Offered' = {n}
  BY <1>2 DEF Records
<1>5. Queued' = Queued /\ \A b : FateLines(b)' = FateLines(b)
  BY <1>4 DEF Queued, Elems, FateLines, LinesOf, Lines, Fates
<1>6. \A b \in Bundles : PlaceOf(b)' = PlaceOf(b)
  <2>1. \A b \in Bundles : Rests(b)
    BY <1>3, <1>4, <1>5 DEF Rests
  <2>2. QED
    BY <1>4, <2>1, RestsPlace
<1>7. PlaceOf(n)' = "offered"
  <2>1. n \notin Queued'
    BY <1>3, <1>5, QueuedBundles DEF Shape
  <2>2. n \notin InHand'
    BY <1>0, <1>2, <1>4 DEF InHand, Shape, ThreadShape
  <2>3. QED
    BY <1>4, <2>1, <2>2, OfferedPlaceNext
<1>8. Where' = Append(Where, "offered")
  <2> DEFINE S == {PlaceOf(b) : b \in Bundles} \cup {"offered"}
  <2>1. Where \in [1..(n - 1) -> S]
    BY <1>3 DEF Where
  <2>2. Where \in Seq(S) /\ Len(Where) = n - 1
    BY <1>3, <2>1
  <2>3. "offered" \in S
    OBVIOUS
  <2> HIDE DEF S
  <2>4. PICK w \in Seq(S) : w = Append(Where, "offered")
    BY <2>2, <2>3, AppendProperties
  <2>5. /\ DOMAIN w = 1..n
        /\ \A i \in 1..(n - 1) : w[i] = Where[i]
        /\ w[n] = "offered"
    BY <1>3, <2>2, <2>3, <2>4, AppendProperties, LenProperties
  <2>6. Where' = [b \in Bundles' |-> PlaceOf(b)']
    BY DEF Where
  <2>7. \A b \in 1..(n - 1) : Where[b] = PlaceOf(b)
    BY <1>3 DEF Where
  <2>8. Bundles' = 1..n
    BY <1>3
  <2>9. \A b \in 1..n : w[b] = PlaceOf(b)'
    BY <1>3, <1>6, <1>7, <2>5, <2>7
  <2>10. w = [b \in 1..n |-> w[b]]
    <3>1. Len(w) = n
      BY <1>3, <2>2, <2>3, <2>4, AppendProperties
    <3>2. w \in [1..n -> S]
      BY <2>4, <3>1, LenProperties
    <3>3. QED
      BY <3>2
  <2>11. QED
    BY <2>4, <2>6, <2>8, <2>9, <2>10
<1>9. \E c \in Class, m \in 1..MaxSize :
        bundle' = Append(bundle, [cls |-> c, n |-> m, t |-> clock])
  <2>1. r = [cls |-> r.cls, n |-> r.n, t |-> clock] /\ r.cls \in Class /\ r.n \in 1..MaxSize
    BY <1>1 DEF Bundle
  <2>2. QED
    BY <1>1, <2>1
<1>10. Store!In("offered") = {}
  BY <1>4, StoreSees
<1>11. QED
  BY <1>4, <1>8, <1>9, <1>10 DEF Store!Arrive, Where

(* Only time goes on, or every step the store sees is one of its own.      *)
LEMMA ClockTicks ==
  ASSUME Shape, [Next]_vars, clock' # clock
  PROVE  clock' > clock /\ Moves(None)
<1>1. CASE Tick
  <2>1. UNCHANGED <<bundle, q, hand, evlog, rpc>> /\ clock' = clock + 1
    BY <1>1 DEF Tick, gwvars, main
  <2>2. Offered' = Offered
    BY <2>1 DEF Offered, Arriving
  <2>3. clock \in Nat
    BY DEF Shape, ThreadShape
  <2>4. QED
    BY <2>1, <2>2, <2>3, NothingMoves
<1>2. CASE ~Tick
  BY <1>2 DEF Next, Exited, vars, ReaderNext, Receive, ReaderStop, AdmitBegin,
         AdmitPurge, AdmitPurged, AdmitEvict, AdmitDrop, AdmitEnqueue, AdmitReturn,
         MainNext, LoopTest, ReadClock, NextBegin, NextPoll, NextDiscard, NextFifoSkip,
         NextFifoTake, NextPriorityTake, NextDrrTake, NextDrrPass, NextNone, NextGoesOn,
         NextReturn, Forward, Snapshot, ReportLeft, Exit
<1>3. QED
  BY <1>1, <1>2

LEMMA StoreStep ==
  ASSUME Shape, BufferOrder, PlaceShape, LockShape, ClockShape, BytesExact, [Next]_vars
  PROVE  [Store!StoreNext]_(Store!storevars)
<1>0. /\ DOMAIN bundle = Bundles /\ Queued \subseteq Bundles
      /\ Store!In("queued") = Queued /\ Store!In("offered") = Offered
      /\ Store!In("inhand") = Bundles \cap {hand} /\ Store!Stock = Queued
      /\ \A b : Store!Full(b) <=> OverCap(b)
      /\ \A b : Store!RankOf(b) = Rank(b)
      /\ \A u, v : Store!Before(u, v) <=> Ahead(u, v)
      /\ \A b, now : Store!DeadAt(b, now) <=> Expired(b, now)
  BY StoreSees, QueuedBundles DEF Shape
<1>1. CASE clock' # clock
  <2>1. clock' > clock /\ Where' = Where /\ bundle' = bundle
    BY <1>1, ClockTicks, PassesPlace
  <2>2. Store!Wait
    BY <2>1 DEF Store!Wait, Where
  <2>3. QED
    BY <2>2 DEF Store!StoreNext
<1>2. CASE Passes /\ clock' = clock
  <2>1. Where' = Where /\ bundle' = bundle
    BY <1>2, PassesPlace DEF Passes
  <2>2. QED
    BY <1>2, <2>1 DEF Store!storevars, Where
<1>3. CASE Records
  BY <1>3, StoreArrives DEF Store!StoreNext
<1>4. ASSUME NEW b \in Bundles, Offering(b), NoneDead
      PROVE  b \in Store!In("offered") /\ Store!Live(b)
  BY <1>0, <1>4 DEF Store!Live, NoneDead, Offering, Arrival
<1>5. CASE Accepts /\ clock' = clock
  <2>1. PICK b \in Bundles : Offering(b) /\ ~OverCap(b) /\ Moves(b) /\ ToQueue(b)
    BY <1>5 DEF Accepts
  <2>2. Store!Move(b, "queued")
    BY <1>5, <2>1, ToPlace, StoreMove
  <2>3. Store!Accept(b)
    BY <1>0, <2>1, <2>2 DEF Store!Accept, Offering
  <2>4. QED
    BY <1>0, <2>3 DEF Store!StoreNext
<1>6. CASE Refuses /\ clock' = clock
  <2>1. PICK b \in Bundles :
          /\ Offering(b) /\ OverCap(b) /\ NoneDead
          /\ Admission = "priority" => \A u \in Queued : Rank(u) <= Rank(b)
          /\ Moves(b) /\ ToFate(b, "drop")
    BY <1>6 DEF Refuses
  <2>2. Store!Move(b, "drop")
    BY <1>6, <2>1, ToPlace, StoreMove
  <2>3. Store!Refuse(b)
    BY <1>0, <1>4, <2>1, <2>2 DEF Store!Refuse
  <2>4. QED
    BY <1>0, <2>3 DEF Store!StoreNext
<1>7. CASE Evicts /\ clock' = clock
  <2>1. PICK b \in Bundles, v \in Queued :
          /\ Offering(b) /\ OverCap(b) /\ NoneDead /\ Admission = "priority"
          /\ Rank(v) > Rank(b) /\ \A u \in Queued \ {v} : Ahead(u, v)
          /\ Moves(v) /\ ToFate(v, "evict")
    BY <1>7 DEF Evicts
  <2>2. Store!Move(v, "evict") /\ v \in Bundles
    BY <1>0, <1>7, <2>1, ToPlace, StoreMove
  <2>3. Store!Evict(v, b)
    BY <1>0, <1>4, <2>1, <2>2 DEF Store!Evict
  <2>4. QED
    BY <1>0, <2>2, <2>3 DEF Store!StoreNext
<1>8. CASE Expires /\ clock' = clock
  <2>1. PICK v \in Queued :
          Expired(v, clock) /\ Oldest(v) /\ Moves(v) /\ ToFate(v, "expire")
    BY <1>8 DEF Expires
  <2>2. Store!Move(v, "expire") /\ v \in Bundles
    BY <1>0, <1>8, <2>1, ToPlace, StoreMove
  <2>3. ASSUME NEW u \in Queued, Rank(u) = Rank(v) PROVE u >= v
    BY <2>1, <2>3, InItsQueue DEF Oldest, Shape
  <2>4. Store!Expire(v)
    BY <1>0, <2>1, <2>2, <2>3 DEF Store!Expire
  <2>5. QED
    BY <1>0, <2>2, <2>4 DEF Store!StoreNext
<1>9. CASE Serves /\ clock' = clock
  <2>1. PICK v \in Queued : InTurn(v) /\ Moves(v) /\ ToHand(v)
    BY <1>9 DEF Serves
  <2>2. Store!Move(v, "inhand") /\ v \in Bundles
    BY <1>0, <1>9, <2>1, ToPlace, StoreMove
  <2>3. Store!In("inhand") = {}
    BY <1>0, <1>9, LenProperties DEF Serves, Shape, GatewayShape, Bundles, None
  <2>4. ASSUME NEW u \in Queued \ {v}
        PROVE  CASE Policy = "fifo" -> u > v
                 [] Policy = "strict" -> Store!Before(v, u)
                 [] Policy = "wfq" -> /\ Store!RankOf(u) = Store!RankOf(v) => u > v
                                      /\ Store!RankOf(u) = 0 => Store!RankOf(v) = 0
    <3>1. /\ Store!RankOf(u) = Rank(u) /\ Store!RankOf(v) = Rank(v)
          /\ Store!Before(v, u) <=> Ahead(v, u)
      BY <1>0
    <3>2. CASE Policy = "fifo"
      BY <2>1, <3>2 DEF InTurn
    <3>3. CASE Policy = "strict"
      BY <2>1, <3>1, <3>3 DEF InTurn
    <3>4. CASE Policy = "wfq"
      BY <2>1, <3>1, <3>4 DEF InTurn
    <3>5. QED
      BY <3>2, <3>3, <3>4, GatewayAssumption
  <2>5. Store!Serve(v)
    BY <1>0, <2>1, <2>2, <2>3, <2>4 DEF Store!Serve
  <2>6. QED
    BY <1>0, <2>2, <2>5 DEF Store!StoreNext
<1>10. CASE Delivers /\ clock' = clock
  <2>1. PICK v \in Bundles : v = hand /\ Moves(v) /\ ToFate(v, "fwd")
    BY <1>10 DEF Delivers
  <2>2. Store!Move(v, "fwd")
    BY <1>10, <2>1, ToPlace, StoreMove
  <2>3. Store!Delivered(v)
    BY <1>0, <2>1, <2>2 DEF Store!Delivered
  <2>4. QED
    BY <1>0, <2>3 DEF Store!StoreNext
<1>11. QED
  BY <1>1, <1>2, <1>3, <1>5, <1>6, <1>7, <1>8, <1>9, <1>10, MoveKinds

LEMMA StoreBegins == Init => Store!StoreInit
<1> SUFFICES ASSUME Init PROVE Store!StoreInit
  OBVIOUS
<1>1. bundle = <<>> /\ clock = 0
  BY DEF Init, GatewayInit
<1>2. Bundles = {}
  BY <1>1 DEF Bundles
<1>3. Where = <<>>
  <2>1. Where \in Seq(Seqs) /\ Len(Where) = 0
    <3>1. Where \in [1..0 -> Seqs]
      BY <1>2 DEF Where
    <3>2. QED
      BY <3>1
  <2>2. QED
    BY <2>1, EmptySeq
<1>4. QED
  BY <1>1, <1>3 DEF Store!StoreInit, Where

(* The two threads and the buffer they share implement the abstract store: *)
(* for every capacity, policy, schedule and stream of packets, a bundle    *)
(* only ever moves as BundleStore allows (live_gateway.py:10-135;          *)
(* n6_bridge.py:205-270).                                                  *)
THEOREM StoreImplemented == Spec => ImplementsStore
<1>1. Init => Store!StoreInit
  BY StoreBegins
<1>2. /\ Shape /\ BufferOrder /\ PlaceShape /\ LockShape /\ ClockShape
      /\ BytesExact /\ [Next]_vars
      => [Store!StoreNext]_(Store!storevars)
  BY StoreStep
<1>3. QED
  BY <1>1, <1>2, ShapeInvariant, OrderInvariant, PlaceInvariant, BytesInvariant, PTL
     DEF Spec, ImplementsStore, Store!StoreSpec
=============================================================================
