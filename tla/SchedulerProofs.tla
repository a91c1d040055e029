--------------------------- MODULE SchedulerProofs ---------------------------
(***************************************************************************)
(* The queue of the scheduler, for every plan, workload, policy, admission *)
(* rule and cap: its byte counter is exact and bounded, a bundle's fate is *)
(* decided once, and admission sacrifices only what it must.               *)
(***************************************************************************)
EXTENDS SchedulerProperties, BasicProofs

Pcs == {"admit", "evict", "expire", "begin", "drain", "round", "turn", "serve",
        "close", "leftover", "done"}
Lasting == pc \in {"admit", "evict", "expire", "begin"}
BundleLists == Seq(BundleIn)

(* A run about to start: run() has just been called on a new scheduler.    *)
(* The loop variables still have the values of an earlier run, if any.     *)
Starting ==
  /\ plan \in Plan /\ bundles \in BundleLists /\ MaxQueueBytes \in Nat
  /\ arrivals = DOMAIN bundles /\ active = {} /\ activeBytes = 0
  /\ state = [b \in DOMAIN bundles |-> "pending"]
  /\ contact = [b \in DOMAIN bundles |-> NoWindow]
  /\ deficit = [c \in WfqClass |-> 0] /\ rotation = 0 /\ rounds \in Nat
  /\ turn \in [classes : SUBSET WfqClass, budget : Int, weight : Int]
  /\ pc = "admit" /\ cur = FirstWindow(plan) /\ last = NoWindow

(* An arrival is offered once, is pending and not queued; while bundles    *)
(* are admitted, evicted or expired the queue holds no decided bundle; the *)
(* drain loops only go through bundles still waiting.                      *)
QueueShape ==
  /\ bundles \in BundleLists
  /\ arrivals \subseteq Bundles /\ active \subseteq Bundles
  /\ arrivals \cap active = {}
  /\ state \in [Bundles -> Terminal \cup {"pending"}]
  /\ \A b \in arrivals : state[b] = "pending"
  /\ pc \in Pcs
  /\ pc = "evict" => incoming \in arrivals
  /\ Lasting => \A b \in active : state[b] = "pending"
  /\ pc \in {"drain", "serve"} => todo \subseteq Waiting

(* The cap is a number.                                                    *)
CapShape == MaxQueueBytes \in Nat

-----------------------------------------------------------------------------
(* The bytes of a set of bundles.                                          *)
LEMMA BundleFields ==
  ASSUME bundles \in BundleLists, NEW b \in Bundles
  PROVE  Size(b) \in 1..MaxSize /\ Size(b) \in Nat /\ Size(b) > 0 /\ MaxSize \in Nat
<1>1. bundles \in Seq(BundleIn) /\ MaxSize \in Nat
  BY SchedulerAssumption DEF BundleLists
<1>2. bundles[b] \in BundleIn
  BY <1>1 DEF Bundles
<1>3. bundles[b].size \in 1..MaxSize
  BY <1>2 DEF BundleIn
<1> QED
  BY <1>1, <1>3 DEF Size

LEMMA BytesOfOne ==
  ASSUME bundles \in BundleLists, NEW b \in Bundles
  PROVE  IsFiniteSet(Cells({b})) /\ Cardinality(Cells({b})) = Size(b)
<1>1. Size(b) \in 1..MaxSize /\ Size(b) \in Nat /\ MaxSize \in Nat
  BY BundleFields
<1>2. Cells({b}) = {b} \X (1..Size(b))
  BY <1>1 DEF Cells
<1>3. IsFiniteSet({b}) /\ Cardinality({b}) = 1
  BY FS_Singleton
<1>4. IsFiniteSet(1..Size(b)) /\ Cardinality(1..Size(b)) = Size(b)
  BY <1>1, FS_Interval
<1>5. /\ IsFiniteSet({b} \X (1..Size(b)))
      /\ Cardinality({b} \X (1..Size(b))) = Cardinality({b}) * Cardinality(1..Size(b))
  BY <1>3, <1>4, FS_Product, Zenon
<1>6. 1 * Size(b) = Size(b)
  BY <1>1
<1> QED
  BY <1>2, <1>3, <1>4, <1>5, <1>6, Zenon

LEMMA BytesFinite ==
  ASSUME bundles \in BundleLists, NEW S, S \subseteq Bundles
  PROVE  IsFiniteSet(Cells(S)) /\ Bytes(S) \in Nat
<1>1. IsFiniteSet(Bundles) /\ IsFiniteSet(1..MaxSize)
  <2>1. bundles \in Seq(BundleIn) /\ MaxSize \in Int
    BY SchedulerAssumption DEF BundleLists
  <2>2. Bundles = 1..Len(bundles) /\ Len(bundles) \in Int
    BY <2>1 DEF Bundles
  <2> QED
    BY <2>1, <2>2, FS_Interval
<1>2. IsFiniteSet(Bundles \X (1..MaxSize))
  BY <1>1, FS_Product
<1>3. Cells(S) \in SUBSET (Bundles \X (1..MaxSize))
  BY DEF Cells
<1>4. IsFiniteSet(Cells(S))
  BY <1>2, <1>3, FS_Subset
<1> QED
  BY <1>4, FS_CardinalityType DEF Bytes

LEMMA BytesDifference ==
  ASSUME bundles \in BundleLists, NEW S, S \subseteq Bundles, NEW T, T \subseteq S
  PROVE  Bytes(S \ T) = Bytes(S) - Bytes(T)
<1>1. IsFiniteSet(Cells(S))
  BY BytesFinite
<1>2. Cells(S \ T) = Cells(S) \ Cells(T)
  BY DEF Cells
<1>3. Cells(S) \cap Cells(T) = Cells(T)
  BY DEF Cells
<1>4. Cardinality(Cells(S) \ Cells(T))
        = Cardinality(Cells(S)) - Cardinality(Cells(S) \cap Cells(T))
  BY <1>1, FS_Difference
<1> QED
  BY <1>2, <1>3, <1>4 DEF Bytes

LEMMA BytesWithout ==
  ASSUME bundles \in BundleLists, NEW S, S \subseteq Bundles, NEW b \in S
  PROVE  Bytes(S \ {b}) = Bytes(S) - Size(b)
<1>1. b \in Bundles /\ {b} \subseteq S
  OBVIOUS
<1>2. Bytes(S \ {b}) = Bytes(S) - Bytes({b})
  BY <1>1, BytesDifference
<1>3. Bytes({b}) = Size(b)
  BY <1>1, BytesOfOne DEF Bytes
<1> QED
  BY <1>2, <1>3

LEMMA BytesWith ==
  ASSUME bundles \in BundleLists, NEW S, S \subseteq Bundles, NEW b \in Bundles, b \notin S
  PROVE  Bytes(S \cup {b}) = Bytes(S) + Size(b)
<1>1. (S \cup {b}) \ {b} = S /\ S \cup {b} \subseteq Bundles /\ b \in S \cup {b}
  OBVIOUS
<1>2. Bytes((S \cup {b}) \ {b}) = Bytes(S \cup {b}) - Size(b)
  BY <1>1, BytesWithout
<1>3. Bytes(S \cup {b}) \in Nat /\ Bytes(S) \in Nat /\ Size(b) \in Nat
  BY <1>1, BytesFinite, BundleFields
<1>4. Bytes(S) = Bytes(S \cup {b}) - Size(b)
  BY <1>1, <1>2, Zenon
<1> QED
  BY <1>3, <1>4

(* The bundles, and so their bytes, are the same after a step.             *)
LEMMA BytesKept ==
  ASSUME bundles' = bundles, NEW S, Waiting' = S
  PROVE  Bytes(Waiting)' = Bytes(S)
<1>1. Cells(Waiting)' = {x \in S \X (1..MaxSize) : x[2] <= Size(x[1])'}
  BY DEF Cells
<1>2. \A b : Size(b)' = Size(b)
  BY DEF Size
<1>3. Cells(Waiting)' = Cells(S)
  BY <1>1, <1>2 DEF Cells
<1> QED
  BY <1>3 DEF Bytes

-----------------------------------------------------------------------------
(* mark() takes pending bundles to a terminal state and leaves the others. *)
LEMMA MarkedOnes ==
  ASSUME QueueShape, NEW S, \A b \in S : state[b] = "pending",
         NEW st \in Terminal
  PROVE  /\ Marked(S, st) \in [Bundles -> Terminal \cup {"pending"}]
         /\ \A b \in Bundles : Marked(S, st)[b] = IF b \in S THEN st ELSE state[b]
<1>0. DOMAIN state = Bundles
  BY DEF QueueShape
<1>1. \A b \in Bundles : Marked(S, st)[b] = IF b \in S THEN st ELSE state[b]
  BY <1>0 DEF Marked
<1>2. Marked(S, st) = [b \in Bundles |-> Marked(S, st)[b]]
  BY <1>0 DEF Marked
<1>3. \A b \in Bundles : Marked(S, st)[b] \in Terminal \cup {"pending"}
  BY <1>1 DEF QueueShape
<1> QED
  BY <1>1, <1>2, <1>3

LEMMA OfferedArrives ==
  ASSUME QueueShape, NEW b \in Offered
  PROVE  /\ b \in arrivals /\ b \in Bundles /\ b \notin active
         /\ state[b] = "pending" /\ Lasting
<1>1. CASE pc = "admit"
  BY <1>1 DEF Offered, Earliest, Ready, QueueShape, Lasting
<1>2. CASE pc = "evict"
  BY <1>2 DEF Offered, QueueShape, Lasting
<1> QED
  BY <1>1, <1>2 DEF Offered

(* What a step may do to the queue.                                        *)
Same == Waiting' = Waiting /\ activeBytes' = activeBytes
Grows == \E b \in Bundles \ Waiting :
           Fits(b) /\ Waiting' = Waiting \cup {b} /\ activeBytes' = activeBytes + Size(b)
Shrinks == \E S \in SUBSET Waiting :
             Waiting' = Waiting \ S /\ activeBytes' = activeBytes - Bytes(S)
StateKept == \A b \in Bundles : state[b] # "pending" => state'[b] = state[b]

StepFine ==
  /\ QueueShape'
  /\ bundles' = bundles
  /\ StateKept
  /\ Same \/ Grows \/ Shrinks \/ pc' = "done"

LEMMA AdmitFine ==
  ASSUME QueueShape, AdmitOne
  PROVE  StepFine
<1>1. PICK b \in Offered :
        /\ Fits(b) /\ Admit(b) /\ pc' = "admit"
        /\ UNCHANGED <<inputs, wfq, cur, last, remaining, todo>>
  BY DEF AdmitOne
<1>2. b \in arrivals /\ b \in Bundles /\ b \notin active /\ state[b] = "pending" /\ Lasting
  BY OfferedArrives
<1>3. /\ active' = active \cup {b} /\ arrivals' = arrivals \ {b} /\ state' = state
      /\ activeBytes' = activeBytes + Size(b) /\ bundles' = bundles
  BY <1>1 DEF Admit, inputs
<1>4. QueueShape'
  BY <1>1, <1>2, <1>3 DEF QueueShape, Bundles, Lasting, Pcs
<1>5. Waiting' = Waiting \cup {b} /\ b \in Bundles \ Waiting
  BY <1>2, <1>3 DEF Waiting
<1>6. Grows
  BY <1>1, <1>3, <1>5 DEF Grows
<1> QED
  BY <1>3, <1>4, <1>6 DEF StepFine, StateKept

LEMMA EvictFine ==
  ASSUME QueueShape, EvictOne
  PROVE  StepFine
<1>1. PICK v \in Victim(incoming) :
        /\ active' = active \ {v}
        /\ activeBytes' = activeBytes - Size(v)
        /\ state' = Marked({v}, "queue_overflow")
  BY DEF EvictOne
<1>2. /\ pc = "evict" /\ pc' = pc /\ incoming' = incoming /\ arrivals' = arrivals
      /\ bundles' = bundles
  BY DEF EvictOne, inputs, control
<1>3. v \in active /\ v \in Bundles /\ state[v] = "pending" /\ v \notin arrivals
  BY <1>2 DEF Victim, Candidates, QueueShape, Lasting
<1>4. "queue_overflow" \in Terminal /\ "queue_overflow" # "pending"
  BY DEF Terminal
<1>5. /\ state' \in [Bundles -> Terminal \cup {"pending"}]
      /\ \A b \in Bundles : state'[b] = IF b \in {v} THEN "queue_overflow" ELSE state[b]
  BY <1>1, <1>3, <1>4, MarkedOnes
<1>6. QueueShape'
  BY <1>1, <1>2, <1>3, <1>5 DEF QueueShape, Bundles, Lasting
<1>7. Waiting' = Waiting \ {v} /\ {v} \in SUBSET Waiting
  BY <1>1, <1>3, <1>5 DEF Waiting, QueueShape
<1>8. Bytes({v}) = Size(v)
  BY <1>3, BytesOfOne DEF Bytes, QueueShape
<1>9. Shrinks
  BY <1>1, <1>7, <1>8 DEF Shrinks
<1> QED
  BY <1>2, <1>3, <1>5, <1>6, <1>9 DEF StepFine, StateKept

LEMMA OverflowFine ==
  ASSUME QueueShape, OverflowOne
  PROVE  StepFine
<1>1. PICK b \in Offered :
        /\ arrivals' = arrivals \ {b}
        /\ state' = Marked({b}, "queue_overflow")
        /\ pc' = "admit"
        /\ UNCHANGED <<inputs, active, activeBytes, contact, wfq, cur, last, remaining, todo>>
  BY DEF OverflowOne
<1>2. b \in arrivals /\ b \in Bundles /\ b \notin active /\ state[b] = "pending" /\ Lasting
  BY OfferedArrives
<1>3. "queue_overflow" \in Terminal /\ "queue_overflow" # "pending"
  BY DEF Terminal
<1>4. /\ state' \in [Bundles -> Terminal \cup {"pending"}]
      /\ \A x \in Bundles : state'[x] = IF x \in {b} THEN "queue_overflow" ELSE state[x]
  BY <1>1, <1>2, <1>3, MarkedOnes
<1>5. active' = active /\ activeBytes' = activeBytes /\ bundles' = bundles
  BY <1>1 DEF inputs
<1>6. QueueShape'
  BY <1>1, <1>2, <1>4, <1>5 DEF QueueShape, Bundles, Lasting, Pcs
<1>7. Same
  BY <1>2, <1>4, <1>5 DEF Same, Waiting, QueueShape
<1> QED
  BY <1>2, <1>4, <1>5, <1>6, <1>7 DEF StepFine, StateKept

LEMMA ExpireFine ==
  ASSUME QueueShape, Expire
  PROVE  StepFine
<1>1. /\ state' = Marked(Dead, "ttl_expired")
      /\ active' = active \ Dead /\ activeBytes' = activeBytes - Bytes(Dead)
      /\ pc = "expire" /\ pc' \in {"leftover", "begin"}
      /\ arrivals' = arrivals /\ bundles' = bundles
  BY DEF Expire, inputs
<1>2. Dead \subseteq Waiting /\ \A b \in Dead : b \in active /\ state[b] = "pending"
  BY DEF Dead, Waiting
<1>3. "ttl_expired" \in Terminal /\ "ttl_expired" # "pending"
  BY DEF Terminal
<1>4. /\ state' \in [Bundles -> Terminal \cup {"pending"}]
      /\ \A b \in Bundles : state'[b] = IF b \in Dead THEN "ttl_expired" ELSE state[b]
  BY <1>1, <1>2, <1>3, MarkedOnes
<1>5. QueueShape'
  BY <1>1, <1>2, <1>4 DEF QueueShape, Bundles, Lasting, Pcs
<1>6. Waiting' = Waiting \ Dead
  BY <1>1, <1>2, <1>4 DEF Waiting, QueueShape
<1>7. Shrinks
  BY <1>1, <1>2, <1>6 DEF Shrinks
<1> QED
  BY <1>1, <1>2, <1>4, <1>5, <1>7 DEF StepFine, StateKept

(* A bundle leaves through a drain loop.                                   *)
LEMMA SendFine ==
  ASSUME QueueShape, pc \in {"drain", "serve"}, NEW b \in todo, Transmit(b),
         todo' = todo \ {b},
         UNCHANGED <<inputs, arrivals, active, pc>>
  PROVE  StepFine
<1>1. /\ state' = Marked({b}, "delivered") /\ activeBytes' = activeBytes - Size(b)
      /\ bundles' = bundles /\ active' = active /\ arrivals' = arrivals /\ pc' = pc
  BY DEF Transmit, inputs
<1>2. b \in Waiting /\ b \in active /\ b \in Bundles /\ state[b] = "pending" /\ b \notin arrivals
  BY DEF QueueShape, Waiting
<1>3. "delivered" \in Terminal /\ "delivered" # "pending"
  BY DEF Terminal
<1>4. /\ state' \in [Bundles -> Terminal \cup {"pending"}]
      /\ \A x \in Bundles : state'[x] = IF x \in {b} THEN "delivered" ELSE state[x]
  BY <1>1, <1>2, <1>3, MarkedOnes
<1>5. Waiting' = Waiting \ {b} /\ {b} \in SUBSET Waiting
  BY <1>1, <1>2, <1>4 DEF Waiting, QueueShape
<1>6. QueueShape'
  <2>1. todo' \subseteq Waiting'
    BY <1>5 DEF QueueShape
  <2>2. ~Lasting /\ pc # "evict" /\ ~Lasting'
    BY <1>1 DEF Lasting
  <2> QED
    BY <1>1, <1>2, <1>4, <2>1, <2>2 DEF QueueShape, Bundles
<1>7. Bytes({b}) = Size(b)
  BY <1>2, BytesOfOne DEF Bytes, QueueShape
<1>8. Shrinks
  BY <1>1, <1>5, <1>7 DEF Shrinks
<1> QED
  BY <1>1, <1>2, <1>4, <1>6, <1>8 DEF StepFine, StateKept

(* A step that touches neither the queue nor the bundles.                  *)
LEMMA ControlFine ==
  ASSUME QueueShape, UNCHANGED <<bundles, arrivals, active, activeBytes, state>>,
         pc' \in Pcs,
         pc' = "evict" => incoming' \in arrivals,
         Lasting' => Lasting,
         pc' \in {"drain", "serve"} => todo' \subseteq Waiting
  PROVE  StepFine
<1>1. Waiting' = Waiting
  BY DEF Waiting
<1>2. QueueShape'
  BY <1>1 DEF QueueShape, Bundles, Lasting
<1> QED
  BY <1>1, <1>2 DEF StepFine, Same, StateKept

LEMMA CloseFine ==
  ASSUME QueueShape, CloseWindow
  PROVE  StepFine
<1>1. /\ active' = Waiting /\ pc' = "admit"
      /\ UNCHANGED <<bundles, arrivals, activeBytes, state>>
  BY DEF CloseWindow, inputs
<1>2. Waiting' = Waiting
  BY <1>1 DEF Waiting
<1>3. Waiting \subseteq active /\ \A b \in Waiting : state[b] = "pending"
  BY DEF Waiting
<1>4. QueueShape'
  BY <1>1, <1>3 DEF QueueShape, Bundles, Lasting, Pcs
<1> QED
  BY <1>1, <1>2, <1>4 DEF StepFine, Same, StateKept

LEMMA WriteOffFine ==
  ASSUME QueueShape, WriteOff
  PROVE  StepFine
<1>1. /\ state' = Marked(Waiting, "never_scheduled") /\ active' = {} /\ pc' = "done"
      /\ arrivals' = arrivals /\ bundles' = bundles
  BY DEF WriteOff, inputs
<1>2. \A b \in Waiting : b \in active /\ state[b] = "pending"
  BY DEF Waiting
<1>3. "never_scheduled" \in Terminal /\ "never_scheduled" # "pending"
  BY DEF Terminal
<1>4. /\ state' \in [Bundles -> Terminal \cup {"pending"}]
      /\ \A b \in Bundles : state'[b] = IF b \in Waiting THEN "never_scheduled" ELSE state[b]
  BY <1>1, <1>2, <1>3, MarkedOnes
<1>5. QueueShape'
  BY <1>1, <1>2, <1>4 DEF QueueShape, Bundles, Lasting, Pcs
<1> QED
  BY <1>1, <1>2, <1>4, <1>5 DEF StepFine, StateKept

-----------------------------------------------------------------------------
LEMMA StepIsFine ==
  ASSUME QueueShape, Next
  PROVE  StepFine
<1>1. CASE AdmitOne
  BY <1>1, AdmitFine
<1>2. CASE EvictOne
  BY <1>2, EvictFine
<1>3. CASE OverflowOne
  BY <1>3, OverflowFine
<1>4. CASE Expire
  BY <1>4, ExpireFine
<1>5. CASE CloseWindow
  BY <1>5, CloseFine
<1>6. CASE WriteOff
  BY <1>6, WriteOffFine
<1>7. CASE SendForemost
  <2>1. PICK b \in Foremost(todo) : Transmit(b) /\ todo' = todo \ {b}
    BY <1>7 DEF SendForemost
  <2>2. b \in todo
    BY <2>1 DEF Foremost
  <2> QED
    BY <1>7, <2>1, <2>2, SendFine DEF SendForemost
<1>8. CASE SendNext
  <2>1. PICK b \in Earliest(todo) : Transmit(b) /\ todo' = todo \ {b}
    BY <1>8 DEF SendNext
  <2>2. b \in todo
    BY <2>1 DEF Earliest
  <2> QED
    BY <1>8, <2>1, <2>2, SendFine DEF SendNext
<1>9. CASE BeginEviction
  <2>1. PICK b \in Offered : pc' = "evict" /\ incoming' = b
    BY <1>9 DEF BeginEviction
  <2>2. b \in arrivals /\ Lasting
    BY OfferedArrives
  <2> QED
    BY <1>9, <2>1, <2>2, ControlFine DEF BeginEviction, inputs, queue, Pcs
<1>10. CASE AdmissionOver
  BY <1>10, ControlFine DEF AdmissionOver, inputs, queue, Pcs, Lasting
<1>11. CASE BeginDrain
  <2>1. Listed \subseteq Waiting
    BY DEF Listed, ByClass, Eligible
  <2> QED
    BY <1>11, <2>1, ControlFine DEF BeginDrain, inputs, queue, Pcs, Lasting
<1>12. CASE DeferForemost
  <2>1. todo' \subseteq todo
    BY <1>12 DEF DeferForemost
  <2> QED
    BY <1>12, <2>1, ControlFine DEF DeferForemost, inputs, queue, Pcs, Lasting, QueueShape
<1>13. CASE DrainOver
  BY <1>13, ControlFine DEF DrainOver, inputs, queue, Pcs, Lasting
<1>14. CASE BeginRound
  BY <1>14, ControlFine DEF BeginRound, inputs, queue, Pcs, Lasting
<1>15. CASE BeginTurn
  <2>1. PICK c \in InTurn : todo' = ByClass(c)
    BY <1>15 DEF BeginTurn
  <2>2. todo' \subseteq Waiting
    BY <2>1 DEF ByClass, Eligible
  <2> QED
    BY <1>15, <2>2, ControlFine DEF BeginTurn, inputs, queue, Pcs, Lasting
<1>16. CASE PassNext
  <2>1. todo' \subseteq todo
    BY <1>16 DEF PassNext
  <2> QED
    BY <1>16, <2>1, ControlFine DEF PassNext, inputs, queue, Pcs, Lasting, QueueShape
<1>17. CASE EndTurn
  <2>1. pc' \in {"round", "turn"}
    BY <1>17 DEF EndTurn
  <2> QED
    BY <1>17, <2>1, ControlFine DEF EndTurn, inputs, queue, Pcs, Lasting
<1>18. CASE RoundsOver
  BY <1>18, ControlFine DEF RoundsOver, inputs, queue, Pcs, Lasting
<1>19. CASE Done
  BY <1>19, ControlFine
     DEF Done, vars, inputs, queue, wfq, control, Lasting, QueueShape
<1> QED
  BY <1>1, <1>2, <1>3, <1>4, <1>5, <1>6, <1>7, <1>8, <1>9, <1>10, <1>11, <1>12,
     <1>13, <1>14, <1>15, <1>16, <1>17, <1>18, <1>19
     DEF Next, Run, Admission, Drain, RoundRobin

LEMMA InitStarts == Init => Starting
<1>1. SUFFICES ASSUME Init PROVE Starting
  OBVIOUS
<1>2. plan \in Plan /\ bundles \in BundleLists /\ MaxQueueBytes \in Capacities
  BY <1>1, SchedulerAssumption DEF Init, MaxQueueBytes, BundleLists
<1>3. MaxQueueBytes \in Nat
  BY <1>2, SchedulerAssumption
<1> QED
  BY <1>1, <1>2, <1>3 DEF Init, Fresh, Starting, NoTurn

LEMMA CapStarts == Starting => CapShape
  BY DEF Starting, CapShape

LEMMA ConfigKept == [Next]_vars => config' = config /\ bundles' = bundles
  BY DEF Next, Run, Admission, Drain, RoundRobin, AdmitOne, BeginEviction, EvictOne,
     OverflowOne, AdmissionOver, Expire, BeginDrain, SendForemost, DeferForemost,
     DrainOver, BeginRound, BeginTurn, SendNext, PassNext, EndTurn, RoundsOver,
     CloseWindow, WriteOff, Done, vars, inputs

LEMMA CapStep == CapShape /\ [Next]_vars => CapShape' /\ MaxQueueBytes' = MaxQueueBytes
  BY ConfigKept DEF CapShape, MaxQueueBytes

LEMMA ShapeStarts == Starting => QueueShape /\ QueueExact
<1>1. SUFFICES ASSUME Starting PROVE QueueShape /\ QueueExact
  OBVIOUS
<1>2. QueueShape
  BY <1>1 DEF Starting, QueueShape, Bundles, Lasting, Pcs
<1>3. Waiting = {} /\ activeBytes = 0 /\ bundles \in BundleLists
  BY <1>1 DEF Starting, Waiting
<1>4. Cells({}) = {}
  BY DEF Cells
<1>5. Bytes(Waiting) = 0
  BY <1>3, <1>4, FS_EmptySet DEF Bytes
<1> QED
  BY <1>1, <1>2, <1>3, <1>5, CapStarts DEF QueueExact, CapShape

LEMMA ShapeStep == QueueShape /\ [Next]_vars => QueueShape'
<1>1. SUFFICES ASSUME QueueShape, [Next]_vars PROVE QueueShape'
  OBVIOUS
<1>2. CASE Next
  BY <1>1, <1>2, StepIsFine DEF StepFine
<1>3. CASE UNCHANGED vars
  BY <1>1, <1>3
     DEF vars, inputs, queue, wfq, control, QueueShape, Bundles, Lasting, Waiting
<1> QED
  BY <1>1, <1>2, <1>3

(* The queue is never decided over after the end.                          *)
LEMMA DoneStays == pc = "done" /\ Next => pc' = "done"
  BY DEF Next, Run, Admission, Drain, RoundRobin, AdmitOne, BeginEviction, EvictOne,
     OverflowOne, AdmissionOver, Expire, BeginDrain, SendForemost, DeferForemost,
     DrainOver, BeginRound, BeginTurn, SendNext, PassNext, EndTurn, RoundsOver,
     CloseWindow, WriteOff, Done, Offered, vars

LEMMA ExactStep == QueueShape /\ CapShape /\ QueueExact /\ [Next]_vars => QueueExact'
<1>1. SUFFICES ASSUME QueueShape, CapShape, QueueExact, [Next]_vars, pc' # "done"
               PROVE  /\ activeBytes' = Bytes(Waiting)'
                      /\ activeBytes' <= MaxQueueBytes
  BY CapStep DEF QueueExact
<1>2. CASE UNCHANGED vars
  <2>1. Waiting' = Waiting /\ bundles' = bundles /\ pc' = pc /\ activeBytes' = activeBytes
    BY <1>2 DEF vars, inputs, queue, Waiting
  <2>2. Bytes(Waiting)' = Bytes(Waiting)
    BY <2>1, BytesKept
  <2> QED
    BY <1>1, <2>1, <2>2 DEF QueueExact
<1>3. CASE Next
  <2>1. StepFine /\ pc # "done"
    BY <1>1, <1>3, StepIsFine, DoneStays
  <2>2. bundles' = bundles /\ (Same \/ Grows \/ Shrinks)
    BY <1>1, <2>1 DEF StepFine
  <2>3. /\ bundles \in BundleLists /\ Waiting \subseteq Bundles
        /\ activeBytes = Bytes(Waiting) /\ activeBytes <= MaxQueueBytes
    BY <1>1, <2>1 DEF QueueShape, QueueExact, Waiting
  <2>4. activeBytes \in Nat /\ MaxQueueBytes \in Nat
    BY <1>1, <2>3, BytesFinite DEF CapShape
  <2>5. CASE Same
    <3>1. Bytes(Waiting)' = Bytes(Waiting)
      BY <2>2, <2>5, BytesKept DEF Same
    <3> QED
      BY <2>3, <2>5, <3>1 DEF Same
  <2>6. CASE Grows
    <3>1. PICK b \in Bundles \ Waiting :
            Fits(b) /\ Waiting' = Waiting \cup {b} /\ activeBytes' = activeBytes + Size(b)
      BY <2>6 DEF Grows
    <3>2. Bytes(Waiting)' = Bytes(Waiting \cup {b})
      BY <2>2, <3>1, BytesKept
    <3>3. Bytes(Waiting \cup {b}) = Bytes(Waiting) + Size(b)
      BY <2>3, <3>1, BytesWith
    <3> QED
      BY <2>3, <3>1, <3>2, <3>3 DEF Fits
  <2>7. CASE Shrinks
    <3>1. PICK S \in SUBSET Waiting :
            Waiting' = Waiting \ S /\ activeBytes' = activeBytes - Bytes(S)
      BY <2>7 DEF Shrinks
    <3>2. Bytes(Waiting)' = Bytes(Waiting \ S)
      BY <2>2, <3>1, BytesKept
    <3>3. Bytes(Waiting \ S) = Bytes(Waiting) - Bytes(S) /\ Bytes(S) \in Nat
      BY <2>3, <3>1, BytesDifference, BytesFinite
    <3> QED
      BY <2>3, <2>4, <3>1, <3>2, <3>3
  <2> QED
    BY <2>2, <2>5, <2>6, <2>7
<1> QED
  BY <1>1, <1>2, <1>3

-----------------------------------------------------------------------------
LEMMA QueueShapeInvariant == Spec => []QueueShape
  BY InitStarts, ShapeStarts, ShapeStep, PTL DEF Spec

LEMMA CapShapeInvariant == Spec => []CapShape
  BY InitStarts, CapStarts, CapStep, PTL DEF Spec

(* For every plan, workload, policy, admission rule and cap: the byte      *)
(* counter is what the waiting bundles take up and stays within the cap.   *)
THEOREM QueueExactInvariant == Spec => []QueueExact
  BY InitStarts, ShapeStarts, ExactStep, QueueShapeInvariant, CapShapeInvariant, PTL DEF Spec

(* For the same: no step changes the fate of a bundle already decided.     *)
THEOREM DecidedOnceAlways == Spec => DecidedOnce
<1>1. QueueShape /\ [Next]_vars =>
        [\A b \in Bundles : state[b] # "pending" => state'[b] = state[b]]_vars
  BY StepIsFine DEF StepFine, StateKept
<1> QED
  BY <1>1, QueueShapeInvariant, PTL DEF Spec, DecidedOnce
-----------------------------------------------------------------------------
(* Priority-aware admission: what a lost bundle had to make way for.       *)
LEMMA BytesMonotone ==
  ASSUME bundles \in BundleLists, NEW S, S \subseteq Bundles, NEW T, T \subseteq S
  PROVE  Bytes(T) <= Bytes(S)
<1>1. Bytes(S) \in Nat /\ Bytes(T) \in Nat /\ Bytes(S \ T) \in Nat
  BY BytesFinite
<1>2. Bytes(S \ T) = Bytes(S) - Bytes(T)
  BY BytesDifference
<1> QED
  BY <1>1, <1>2

LEMMA RanksAreNumbers ==
  ASSUME bundles \in BundleLists, NEW b \in Bundles
  PROVE  Rank(b) \in Nat
<1>1. bundles[b] \in BundleIn
  BY SchedulerAssumption DEF Bundles, BundleLists
<1>2. Cls(b) \in Class
  BY <1>1 DEF BundleIn, Cls
<1>3. RANK \in [{"emergency", "telemetry", "science_bulk", "media"} -> Nat]
  BY DEF RANK
<1>4. Cls(b) \in {"emergency", "telemetry", "science_bulk", "media"}
  BY <1>2 DEF Class, RANK
<1> QED
  BY <1>3, <1>4 DEF Rank

(* An arrival that cannot be admitted, beside the queue at that moment.    *)
LEMMA RefusedFor ==
  ASSUME QueueShape, CapShape, QueueExact, NEW b \in Offered,
         ~Fits(b), Candidates(b) = {} \/ ~Feasible(b)
  PROVE  Bytes(AtLeastAsUrgent(b)) > MaxQueueBytes
<1>1. b \in Bundles /\ b \notin active /\ Lasting /\ bundles \in BundleLists
  BY OfferedArrives DEF QueueShape
<1>2. Waiting = active /\ active \subseteq Bundles /\ activeBytes = Bytes(active)
  BY <1>1 DEF Waiting, QueueShape, Lasting, QueueExact
<1> DEFINE kept == active \ Candidates(b)
<1>3. Candidates(b) \subseteq active /\ kept \subseteq Bundles /\ b \notin kept
  BY <1>1, <1>2 DEF Candidates
<1>4. /\ Bytes(kept) = Bytes(active) - Bytes(Candidates(b))
      /\ Bytes(active) \in Nat /\ Bytes(Candidates(b)) \in Nat /\ Bytes(kept) \in Nat
  BY <1>1, <1>2, <1>3, BytesDifference, BytesFinite
<1>5. Size(b) \in Nat /\ MaxQueueBytes \in Nat
  BY <1>1, BundleFields DEF CapShape
<1>6. Bytes(kept) + Size(b) > MaxQueueBytes
  <2>1. CASE Candidates(b) = {}
    <3>1. kept = active
      BY <2>1
    <3>2. Bytes(kept) = activeBytes
      BY <1>2, <3>1
    <3>3. ~(activeBytes + Size(b) <= MaxQueueBytes)
      BY DEF Fits
    <3> HIDE DEF kept
    <3> QED
      BY <1>4, <1>5, <3>2, <3>3
  <2>2. CASE Candidates(b) # {} /\ ~Feasible(b)
    BY <1>2, <1>4, <1>5, <2>2 DEF Feasible
  <2> QED
    BY <2>1, <2>2
<1>7. kept \cup {b} \subseteq AtLeastAsUrgent(b)
  <2>1. \A u \in kept : Rank(u) <= Rank(b)
    BY <1>1, <1>2, <1>3, RanksAreNumbers DEF Candidates
  <2>2. Rank(b) <= Rank(b)
    BY <1>1, RanksAreNumbers
  <2> QED
    BY <1>1, <1>3, <2>1, <2>2 DEF AtLeastAsUrgent
<1>8. Bytes(kept \cup {b}) = Bytes(kept) + Size(b)
  BY <1>1, <1>3, BytesWith
<1>9. /\ AtLeastAsUrgent(b) \subseteq Bundles
      /\ Bytes(kept \cup {b}) <= Bytes(AtLeastAsUrgent(b))
      /\ Bytes(AtLeastAsUrgent(b)) \in Nat
  BY <1>1, <1>7, BytesMonotone, BytesFinite DEF AtLeastAsUrgent
<1> QED
  BY <1>4, <1>5, <1>6, <1>8, <1>9

(* A victim is of the lowest rank queued, so the queue and the arrival it  *)
(* makes way for are at least as urgent, and too much.                     *)
LEMMA EvictedFor ==
  ASSUME QueueShape, CapShape, QueueExact, pc = "evict", ~Fits(incoming),
         NEW v \in Victim(incoming)
  PROVE  Bytes(AtLeastAsUrgent(v)) > MaxQueueBytes
<1>1. /\ incoming \in Bundles /\ incoming \notin active /\ bundles \in BundleLists
      /\ Waiting = active /\ active \subseteq Bundles /\ activeBytes = Bytes(active)
  BY DEF Waiting, QueueShape, Lasting, QueueExact
<1>2. v \in active /\ Rank(v) > Rank(incoming)
  BY DEF Victim, Candidates
<1>3. \A u \in active : Rank(u) \in Nat
  BY <1>1, RanksAreNumbers
<1>4. Rank(incoming) \in Nat /\ Rank(v) \in Nat
  BY <1>1, <1>2, RanksAreNumbers
<1>5. \A u \in active : Rank(u) <= Rank(v)
  <2>1. TAKE u \in active
  <2>2. CASE u \in Candidates(incoming) /\ u # v
    <3>1. GoesBefore(v, u)
      BY <2>2 DEF Victim
    <3>2. Rank(v) > Rank(u) \/ Rank(v) = Rank(u)
      BY <3>1 DEF GoesBefore
    <3> QED
      BY <1>3, <1>4, <3>2
  <2>3. CASE u \notin Candidates(incoming)
    <3>1. ~(Rank(u) > Rank(incoming))
      BY <2>3 DEF Candidates
    <3> QED
      BY <1>2, <1>3, <1>4, <3>1
  <2> QED
    BY <1>4, <2>2, <2>3
<1>6. active \cup {incoming} \subseteq AtLeastAsUrgent(v)
  BY <1>1, <1>2, <1>4, <1>5 DEF AtLeastAsUrgent
<1>7. Bytes(active \cup {incoming}) = Bytes(active) + Size(incoming)
  BY <1>1, BytesWith
<1>8. /\ Bytes(active \cup {incoming}) <= Bytes(AtLeastAsUrgent(v))
      /\ Bytes(AtLeastAsUrgent(v)) \in Nat
  BY <1>1, <1>6, BytesMonotone, BytesFinite DEF AtLeastAsUrgent
<1>9. Bytes(active) \in Nat /\ Size(incoming) \in Nat /\ MaxQueueBytes \in Nat
  BY <1>1, BytesFinite, BundleFields DEF CapShape
<1> QED
  BY <1>1, <1>7, <1>8, <1>9 DEF Fits

(* Only admission loses a bundle to overflow.                              *)
OverflowKept ==
  \A b \in Bundles : state'[b] = "queue_overflow" => state[b] = "queue_overflow"

LEMMA MarkedOtherwise ==
  ASSUME QueueShape, NEW S, NEW st, st # "queue_overflow", state' = Marked(S, st)
  PROVE  OverflowKept
<1>1. DOMAIN state = Bundles
  BY DEF QueueShape
<1> QED
  BY <1>1 DEF Marked, OverflowKept

LEMMA OverflowByAdmission ==
  ASSUME QueueShape, [Next]_vars, ~OverflowOne, ~EvictOne
  PROVE  OverflowKept
<1>1. CASE state' = state
  BY <1>1 DEF OverflowKept
<1>2. CASE Expire
  <2>1. state' = Marked(Dead, "ttl_expired")
    BY <1>2 DEF Expire
  <2> QED
    BY <2>1, MarkedOtherwise
<1>3. CASE SendForemost \/ SendNext
  <2>1. PICK b : Transmit(b)
    BY <1>3 DEF SendForemost, SendNext
  <2>2. state' = Marked({b}, "delivered")
    BY <2>1 DEF Transmit
  <2> QED
    BY <2>2, MarkedOtherwise
<1>4. CASE WriteOff
  <2>1. state' = Marked(Waiting, "never_scheduled")
    BY <1>4 DEF WriteOff
  <2> QED
    BY <2>1, MarkedOtherwise
<1>5. ~(Expire \/ SendForemost \/ SendNext \/ WriteOff) => state' = state
  BY DEF Next, Run, Admission, Drain, RoundRobin, AdmitOne, Admit, BeginEviction,
     AdmissionOver, BeginDrain, DeferForemost, DrainOver, BeginRound, BeginTurn,
     PassNext, EndTurn, RoundsOver, CloseWindow, Done, vars, queue
<1> QED
  BY <1>1, <1>2, <1>3, <1>4, <1>5

LEMMA LostStep ==
  ASSUME QueueShape, CapShape, QueueExact, PriorityAware, [Next]_vars,
         NEW b \in Bundles, state'[b] = "queue_overflow", state[b] # "queue_overflow"
  PROVE  Bytes(AtLeastAsUrgent(b)) > MaxQueueBytes
<1>0. DOMAIN state = Bundles
  BY DEF QueueShape
<1>1. CASE OverflowOne
  <2>1. PICK x \in Offered :
          /\ ~Fits(x)
          /\ IF pc = "evict" THEN Candidates(x) = {} ELSE ~(PriorityAware /\ Feasible(x))
          /\ state' = Marked({x}, "queue_overflow")
    BY <1>1 DEF OverflowOne
  <2>2. b = x
    BY <1>0, <2>1 DEF Marked
  <2> QED
    BY <2>1, <2>2, RefusedFor
<1>2. CASE EvictOne
  <2>1. /\ pc = "evict" /\ ~Fits(incoming)
        /\ \E v \in Victim(incoming) : state' = Marked({v}, "queue_overflow")
    BY <1>2 DEF EvictOne
  <2>2. PICK v \in Victim(incoming) : state' = Marked({v}, "queue_overflow")
    BY <2>1
  <2>3. b = v
    BY <1>0, <2>2 DEF Marked
  <2> QED
    BY <2>1, <2>2, <2>3, EvictedFor
<1>3. CASE ~OverflowOne /\ ~EvictOne
  BY <1>3, OverflowByAdmission DEF OverflowKept
<1> QED
  BY <1>1, <1>2, <1>3

LEMMA KeepRoomStarts == Starting => UrgentKeepRoom
  BY DEF Starting, Bundles, UrgentKeepRoom

LEMMA KeepRoomStep ==
  QueueShape /\ CapShape /\ QueueExact /\ UrgentKeepRoom /\ [Next]_vars => UrgentKeepRoom'
<1>1. SUFFICES ASSUME QueueShape, CapShape, QueueExact, UrgentKeepRoom, [Next]_vars
               PROVE  UrgentKeepRoom'
  OBVIOUS
<1>2. /\ bundles' = bundles /\ config' = config
      /\ MaxQueueBytes' = MaxQueueBytes
  BY <1>1, ConfigKept, CapStep
<1>3. Bundles' = Bundles /\ PriorityAware' = PriorityAware
  BY <1>2 DEF Bundles, PriorityAware
<1>4. SUFFICES ASSUME PriorityAware, NEW b \in Bundles, state'[b] = "queue_overflow"
               PROVE  Bytes(AtLeastAsUrgent(b))' > MaxQueueBytes
  BY <1>2, <1>3 DEF UrgentKeepRoom
<1>5. Bytes(AtLeastAsUrgent(b))' = Bytes(AtLeastAsUrgent(b))
  BY <1>2 DEF Bytes, Cells, AtLeastAsUrgent, Bundles, Rank, Cls, Size
<1>6. CASE state[b] = "queue_overflow"
  BY <1>1, <1>4, <1>5, <1>6 DEF UrgentKeepRoom
<1>7. CASE state[b] # "queue_overflow"
  BY <1>1, <1>4, <1>5, <1>7, LostStep
<1> QED
  BY <1>6, <1>7

(* For every plan, workload, policy and cap: with priority-aware admission *)
(* no bundle overflows unless the bundles at least as urgent would not all *)
(* fit the buffer.                                                         *)
THEOREM UrgentKeepRoomInvariant == Spec => []UrgentKeepRoom
  BY InitStarts, KeepRoomStarts, KeepRoomStep, QueueShapeInvariant, CapShapeInvariant,
     QueueExactInvariant, PTL DEF Spec

-----------------------------------------------------------------------------
(* Evictions begin only when they can make enough room, and each one frees *)
(* what it takes away from what is left to evict.                          *)
RoomShape ==
  pc = "evict" =>
    MaxQueueBytes - activeBytes + Bytes(Candidates(incoming)) >= Size(incoming)

LEMMA RoomStarts == Starting => RoomShape
  BY DEF Starting, RoomShape

LEMMA RoomStep ==
  QueueShape /\ CapShape /\ QueueExact /\ RoomShape /\ [Next]_vars => RoomShape'
<1>1. SUFFICES ASSUME QueueShape, CapShape, QueueExact, RoomShape, [Next]_vars,
                      pc' = "evict"
               PROVE  RoomShape'
  BY DEF RoomShape
<1>2. bundles' = bundles /\ MaxQueueBytes' = MaxQueueBytes
  BY <1>1, ConfigKept, CapStep
<1>3. ASSUME active' = active, activeBytes' = activeBytes, NEW b, incoming' = b
      PROVE  /\ Size(incoming)' = Size(b)
             /\ Bytes(Candidates(incoming))' = Bytes(Candidates(b))
  <2>1. Candidates(incoming)' = Candidates(b)
    BY <1>2, <1>3 DEF Candidates, Rank, Cls
  <2> QED
    BY <1>2, <1>3, <2>1 DEF Bytes, Cells, Size
<1>4. CASE BeginEviction
  <2>1. PICK b \in Offered : Feasible(b) /\ incoming' = b
    BY <1>4 DEF BeginEviction
  <2>2. active' = active /\ activeBytes' = activeBytes
    BY <1>4 DEF BeginEviction, queue
  <2>3. /\ Size(incoming)' = Size(b)
        /\ Bytes(Candidates(incoming))' = Bytes(Candidates(b))
    BY <1>3, <2>1, <2>2
  <2>4. MaxQueueBytes - activeBytes + Bytes(Candidates(b)) >= Size(b)
    BY <2>1 DEF Feasible
  <2> QED
    BY <1>2, <2>2, <2>3, <2>4 DEF RoomShape
<1>5. CASE EvictOne
  <2>1. PICK v \in Victim(incoming) :
          active' = active \ {v} /\ activeBytes' = activeBytes - Size(v)
    BY <1>5 DEF EvictOne
  <2>2. /\ pc = "evict" /\ incoming' = incoming /\ v \in Candidates(incoming)
        /\ Candidates(incoming) \subseteq Bundles /\ bundles \in BundleLists
        /\ Waiting = active
    BY <1>1, <1>5, <2>1
       DEF EvictOne, control, Victim, Candidates, QueueShape, Lasting, Waiting
  <2>3. Candidates(incoming)' = Candidates(incoming) \ {v}
    BY <1>2, <2>1, <2>2 DEF Candidates, Rank, Cls
  <2>4. Bytes(Candidates(incoming))' = Bytes(Candidates(incoming) \ {v})
    BY <1>2, <2>3 DEF Bytes, Cells, Size
  <2>5. Bytes(Candidates(incoming) \ {v}) = Bytes(Candidates(incoming)) - Size(v)
    BY <2>2, BytesWithout
  <2>6. Size(incoming)' = Size(incoming)
    BY <1>2, <2>2 DEF Size
  <2>7. MaxQueueBytes - activeBytes + Bytes(Candidates(incoming)) >= Size(incoming)
    BY <1>1, <2>2 DEF RoomShape
  <2>8. /\ Size(v) \in Nat /\ Size(incoming) \in Nat /\ MaxQueueBytes \in Nat
        /\ Bytes(Candidates(incoming)) \in Nat /\ activeBytes \in Nat
    <3>1. v \in Bundles /\ incoming \in Bundles /\ active \subseteq Bundles
          /\ activeBytes = Bytes(active)
      BY <1>1, <2>2 DEF QueueShape, QueueExact
    <3> QED
      BY <1>1, <2>2, <3>1, BundleFields, BytesFinite DEF CapShape
  <2>9. MaxQueueBytes - activeBytes' + Bytes(Candidates(incoming))' >= Size(incoming)'
    BY <2>1, <2>4, <2>5, <2>6, <2>7, <2>8
  <2> QED
    BY <1>2, <2>9 DEF RoomShape
<1>6. CASE UNCHANGED vars
  <2>1. active' = active /\ activeBytes' = activeBytes /\ incoming' = incoming /\ pc = "evict"
    BY <1>1, <1>6 DEF vars, queue, control
  <2>2. /\ Size(incoming)' = Size(incoming)
        /\ Bytes(Candidates(incoming))' = Bytes(Candidates(incoming))
    BY <1>2, <2>1 DEF Candidates, Rank, Cls, Bytes, Cells, Size
  <2> QED
    BY <1>1, <1>2, <2>1, <2>2 DEF RoomShape
<1>7. BeginEviction \/ EvictOne \/ UNCHANGED vars
  BY <1>1 DEF Next, Run, Admission, Drain, RoundRobin, AdmitOne, OverflowOne,
     AdmissionOver, Expire, BeginDrain, SendForemost, DeferForemost, DrainOver,
     BeginRound, BeginTurn, SendNext, PassNext, EndTurn, RoundsOver, CloseWindow,
     WriteOff, Done
<1> QED
  BY <1>4, <1>5, <1>6, <1>7

(* Evictions end with the arrival admitted.                                *)
LEMMA EvictionEnds ==
  ASSUME QueueShape, CapShape, QueueExact, RoomShape, [Next]_vars,
         pc = "evict", pc' # "evict"
  PROVE  incoming \in active'
<1>1. AdmitOne \/ OverflowOne
  BY DEF Next, Run, Admission, Drain, RoundRobin, BeginEviction, EvictOne,
     AdmissionOver, Expire, BeginDrain, SendForemost, DeferForemost, DrainOver,
     BeginRound, BeginTurn, SendNext, PassNext, EndTurn, RoundsOver, CloseWindow,
     WriteOff, Done, vars
<1>2. Offered = {incoming}
  BY DEF Offered
<1>3. CASE AdmitOne
  BY <1>2, <1>3 DEF AdmitOne, Admit
<1>4. CASE OverflowOne
  <2>1. ~Fits(incoming) /\ Candidates(incoming) = {}
    BY <1>2, <1>4 DEF OverflowOne
  <2>2. Cells({}) = {}
    BY DEF Cells
  <2>3. Bytes(Candidates(incoming)) = 0
    BY <2>1, <2>2, FS_EmptySet DEF Bytes
  <2>4. Size(incoming) \in Nat /\ MaxQueueBytes \in Nat /\ activeBytes \in Nat
    <3>1. incoming \in Bundles /\ bundles \in BundleLists /\ Waiting \subseteq Bundles
          /\ activeBytes = Bytes(Waiting)
      BY DEF QueueShape, QueueExact, Waiting
    <3> QED
      BY <3>1, BundleFields, BytesFinite DEF CapShape
  <2>5. MaxQueueBytes - activeBytes + 0 >= Size(incoming)
    BY <2>3 DEF RoomShape
  <2> QED
    BY <2>1, <2>4, <2>5 DEF Fits
<1> QED
  BY <1>1, <1>3, <1>4

(* What an eviction takes, and beside what.                                *)
LEMMA EvictionTakes ==
  ASSUME QueueShape, CapShape, QueueExact, [Next]_vars,
         pc = "evict", NEW v \in active, v \notin active'
  PROVE  /\ Rank(v) > Rank(incoming)
         /\ Bytes(Waiting) + Size(incoming) > MaxQueueBytes
         /\ \A u \in active' : Rank(u) <= Rank(v)
         /\ \A u \in active' : Rank(u) = Rank(v) => Ingress(u) <= Ingress(v)
<1>1. EvictOne
  BY DEF Next, Run, Admission, Drain, RoundRobin, AdmitOne, Admit, OverflowOne,
     BeginEviction, AdmissionOver, Expire, BeginDrain, SendForemost, DeferForemost,
     DrainOver, BeginRound, BeginTurn, SendNext, PassNext, EndTurn, RoundsOver,
     CloseWindow, WriteOff, Done, vars, queue
<1>2. v \in Victim(incoming) /\ active' = active \ {v} /\ ~Fits(incoming)
  BY <1>1 DEF EvictOne
<1>3. /\ incoming \in Bundles /\ active \subseteq Bundles /\ bundles \in BundleLists
      /\ activeBytes = Bytes(Waiting) /\ Waiting \subseteq Bundles
  BY DEF QueueShape, QueueExact, Waiting
<1>4. Rank(v) > Rank(incoming)
  BY <1>2 DEF Victim, Candidates
<1>5. Bytes(Waiting) + Size(incoming) > MaxQueueBytes
  <2>1. Bytes(Waiting) \in Nat /\ Size(incoming) \in Nat /\ MaxQueueBytes \in Nat
    BY <1>3, BytesFinite, BundleFields DEF CapShape
  <2> QED
    BY <1>2, <1>3, <2>1 DEF Fits
<1>6. \A u \in active : Rank(u) \in Nat /\ Ingress(u) \in Int
  <2>1. SUFFICES ASSUME NEW u \in active PROVE Rank(u) \in Nat /\ Ingress(u) \in Int
    OBVIOUS
  <2>2. bundles[u] \in BundleIn
    BY <1>3, SchedulerAssumption DEF Bundles, BundleLists
  <2> QED
    BY <1>3, <2>2, RanksAreNumbers DEF BundleIn, Ingress
<1>7. Rank(incoming) \in Nat
  BY <1>3, RanksAreNumbers
<1>8. ASSUME NEW u \in active'
      PROVE  Rank(u) <= Rank(v) /\ (Rank(u) = Rank(v) => Ingress(u) <= Ingress(v))
  <2>1. u \in active /\ u # v
    BY <1>2
  <2>2. CASE u \in Candidates(incoming)
    <3>1. GoesBefore(v, u)
      BY <1>2, <2>1, <2>2 DEF Victim
    <3> QED
      BY <1>6, <2>1, <3>1 DEF GoesBefore
  <2>3. CASE u \notin Candidates(incoming)
    <3>1. ~ (Rank(u) > Rank(incoming))
      BY <2>1, <2>3 DEF Candidates
    <3> QED
      BY <1>4, <1>6, <1>7, <2>1, <3>1
  <2> QED
    BY <2>2, <2>3
<1> QED
  BY <1>4, <1>5, <1>8

(* For every plan, workload, policy, admission rule and cap: an eviction   *)
(* takes the newest bundle of the lowest rank, below the arrival's, only   *)
(* while the arrival does not fit, and the arrival is admitted in the end. *)
THEOREM EvictionPaysAlways == Spec => EvictionPays
<1>1. QueueShape /\ CapShape /\ QueueExact /\ RoomShape /\ [Next]_vars =>
        [ /\ \A v \in active :
               (pc = "evict" /\ v \notin active') =>
                 /\ Rank(v) > Rank(incoming)
                 /\ Bytes(Waiting) + Size(incoming) > MaxQueueBytes
                 /\ \A u \in active' : Rank(u) <= Rank(v)
                 /\ \A u \in active' : Rank(u) = Rank(v) => Ingress(u) <= Ingress(v)
          /\ (pc = "evict" /\ pc' # "evict") => incoming \in active' ]_vars
  BY EvictionTakes, EvictionEnds
<1>2. Spec => []RoomShape
  BY InitStarts, RoomStarts, RoomStep, QueueShapeInvariant, CapShapeInvariant, QueueExactInvariant,
     PTL DEF Spec
<1> QED
  BY <1>1, <1>2, QueueShapeInvariant, CapShapeInvariant, QueueExactInvariant, PTL
     DEF Spec, EvictionPays

-----------------------------------------------------------------------------
(***************************************************************************)
(* The scheduler's walk over its plan and what becomes of the bundles, for *)
(* every plan, workload, policy, admission rule and cap: each window's bit *)
(* budget is kept, every fate agrees with the bundle's deadline, and the   *)
(* drain of a window is greedy in the order of the policy.                 *)
(***************************************************************************)

Serving == pc \in {"drain", "serve"}
Draining == pc \in {"drain", "round", "turn", "serve", "close"}
InWindow == pc = "begin" \/ Draining

(* Where the walk is: a window of the plan, or behind the window that ends *)
(* last, or in a plan without windows.                                     *)
WindowShape ==
  /\ plan \in Plan
  /\ cur \in DOMAIN plan \cup {NoWindow} /\ last \in DOMAIN plan \cup {NoWindow}
  /\ cur = NoWindow /\ last = NoWindow => plan = <<>>
  /\ cur = NoWindow /\ last # NoWindow => \A w \in DOMAIN plan : plan[w].end <= plan[last].end
  /\ pc = "expire" => cur # NoWindow \/ last # NoWindow
  /\ InWindow => cur # NoWindow

(* What is left after expiry lives on, and what a drain loop goes through  *)
(* may be sent in the window.                                              *)
AliveShape ==
  /\ InWindow => \A b \in Waiting : Expiration(b) > plan[cur].start
  /\ pc = "leftover" => \A b \in Waiting, w \in DOMAIN plan : Expiration(b) > plan[w].end
  /\ Serving => todo \subseteq Eligible

FateShape ==
  /\ contact \in [Bundles -> DOMAIN plan \cup {NoWindow}]
  /\ FatesMatchDeadlines

(* The bits sent in the window and those remaining make up its budget;     *)
(* nothing has been sent in a window before its drain.                     *)
BudgetShape ==
  /\ Draining =>
       remaining \in Nat /\ 8 * Bytes(SentIn(cur)) + remaining = Budget(plan[cur])
  /\ cur # NoWindow => \A w \in DOMAIN plan : w > cur => SentIn(w) = {}
  /\ cur # NoWindow /\ ~Draining => SentIn(cur) = {}
  /\ WithinBudget

-----------------------------------------------------------------------------
LEMMA BundleTimes ==
  ASSUME bundles \in BundleLists, NEW b \in Bundles
  PROVE  Ingress(b) \in Int /\ Expiration(b) \in Int
<1>1. bundles[b] \in BundleIn
  BY SchedulerAssumption DEF Bundles, BundleLists
<1> QED
  BY <1>1 DEF BundleIn, Ingress, Expiration

LEMMA WindowTimes ==
  ASSUME WindowShape, NEW w \in DOMAIN plan
  PROVE  plan[w].start \in Int /\ plan[w].end \in Int /\ plan[w].start < plan[w].end
BY PlanParts DEF WindowShape

-----------------------------------------------------------------------------
(* Only the end of a window moves the walk.                                *)
LEMMA WalkKept ==
  [Next]_vars => plan' = plan /\ (~CloseWindow => cur' = cur /\ last' = last)
BY DEF Next, Run, Admission, Drain, RoundRobin, AdmitOne, BeginEviction, EvictOne,
     OverflowOne, AdmissionOver, Expire, BeginDrain, SendForemost, DeferForemost,
     DrainOver, BeginRound, BeginTurn, SendNext, PassNext, EndTurn, RoundsOver,
     CloseWindow, WriteOff, Done, vars, inputs, control

(* How the control point enters expiry and the window.                     *)
LEMMA PcMoves ==
  [Next]_vars =>
    /\ pc' = "expire" => pc = "expire" \/ (AdmissionOver /\ (cur # NoWindow \/ last # NoWindow))
    /\ InWindow' /\ ~InWindow => Expire /\ cur # NoWindow
    /\ Draining' /\ ~Draining => BeginDrain
    /\ CloseWindow => pc = "close" /\ pc' = "admit"
BY DEF Next, Run, Admission, Drain, RoundRobin, AdmitOne, BeginEviction, EvictOne,
     OverflowOne, AdmissionOver, Expire, BeginDrain, SendForemost, DeferForemost,
     DrainOver, BeginRound, BeginTurn, SendNext, PassNext, EndTurn, RoundsOver,
     CloseWindow, WriteOff, Done, vars, InWindow, Draining, Offered

LEMMA WindowStarts == Starting => WindowShape
<1>1. SUFFICES ASSUME Starting PROVE WindowShape
  OBVIOUS
<1>2. plan \in Plan /\ cur = FirstWindow(plan) /\ last = NoWindow /\ pc = "admit"
  BY <1>1, SchedulerAssumption DEF Starting
<1>3. \/ cur = NoWindow /\ plan = <<>>
      \/ cur \in DOMAIN plan /\ cur # NoWindow
  BY <1>2, WalkBegins, PlanParts DEF NoWindow
<1> QED
  BY <1>2, <1>3 DEF WindowShape, InWindow, Draining

LEMMA WindowStep == WindowShape /\ [Next]_vars => WindowShape'
<1>1. SUFFICES ASSUME WindowShape, [Next]_vars PROVE WindowShape'
  OBVIOUS
<1>2. plan' = plan /\ plan \in Plan
  BY <1>1, WalkKept DEF WindowShape
<1>3. CASE CloseWindow
  <2>1. cur \in DOMAIN plan /\ cur # NoWindow /\ pc' = "admit"
    BY <1>1, <1>3, PcMoves DEF WindowShape, InWindow, Draining
  <2>2. last' = cur /\ cur' = NextAfter(plan, plan[cur].end)
    BY <1>3 DEF CloseWindow
  <2>3. \/ cur' = NoWindow /\ \A w \in DOMAIN plan : plan[w].end <= plan[last'].end
        \/ cur' \in DOMAIN plan /\ cur' > cur
    BY <1>2, <2>1, <2>2, WalkGoesOn
  <2>4. cur > 0
    BY <1>2, <2>1, PlanParts
  <2>5. cur' \in DOMAIN plan => cur' # NoWindow
    BY <1>2, PlanParts DEF NoWindow
  <2> QED
    BY <1>2, <2>1, <2>2, <2>3, <2>5 DEF WindowShape, InWindow, Draining
<1>4. CASE ~CloseWindow
  BY <1>1, <1>2, <1>4, WalkKept, PcMoves DEF WindowShape
<1> QED
  BY <1>3, <1>4

-----------------------------------------------------------------------------
(* Within a window no bundle comes to the queue.                           *)
LEMMA OnlyLeaving ==
  ASSUME QueueShape, [Next]_vars, InWindow \/ pc = "leftover"
  PROVE  Waiting' \subseteq Waiting
<1>1. active' \subseteq active
  BY DEF Next, Run, Admission, Drain, RoundRobin, AdmitOne, BeginEviction, EvictOne,
     OverflowOne, AdmissionOver, Expire, BeginDrain, SendForemost, DeferForemost,
     DrainOver, BeginRound, BeginTurn, SendNext, PassNext, EndTurn, RoundsOver,
     CloseWindow, WriteOff, Done, vars, queue, InWindow, Draining, Offered, Waiting
<1>2. \A b \in Bundles : state[b] # "pending" => state'[b] = state[b]
  <2>1. CASE Next
    BY <2>1, StepIsFine DEF StepFine, StateKept
  <2>2. CASE UNCHANGED vars
    BY <2>2 DEF vars, queue
  <2> QED
    BY <2>1, <2>2
<1> QED
  BY <1>1, <1>2 DEF Waiting, QueueShape

LEMMA AliveStarts == Starting => AliveShape
BY DEF Starting, AliveShape, InWindow, Draining, Serving

(* Expiry leaves the bundles that outlive the time it looks at.            *)
LEMMA ExpiryLeaves ==
  ASSUME QueueShape, WindowShape, Expire, NEW b \in Waiting'
  PROVE  /\ cur # NoWindow => Expiration(b) > plan[cur].start
         /\ cur = NoWindow => \A w \in DOMAIN plan : Expiration(b) > plan[w].end
<1>1. /\ pc = "expire" /\ active' = active \ Dead
      /\ state' = Marked(Dead, "ttl_expired")
  BY DEF Expire
<1>2. b \in active /\ b \in Bundles /\ b \notin Dead /\ state[b] = "pending"
      /\ bundles \in BundleLists
  BY <1>1 DEF Waiting, QueueShape, Lasting
<1>3. ~ (Expiration(b) <= ExpiryTime) /\ Expiration(b) \in Int
  BY <1>2, BundleTimes DEF Dead, Waiting
<1>4. CASE cur # NoWindow
  BY <1>3, <1>4, WindowTimes DEF ExpiryTime, WindowShape
<1>5. CASE cur = NoWindow
  <2>1. last \in DOMAIN plan /\ \A w \in DOMAIN plan : plan[w].end <= plan[last].end
    BY <1>1, <1>5 DEF WindowShape
  <2>2. ~ (Expiration(b) <= plan[last].end)
    BY <1>3, <1>5 DEF ExpiryTime
  <2> QED
    BY <1>3, <1>5, <2>1, <2>2, WindowTimes
<1> QED
  BY <1>4, <1>5

(* What the drain loops go through.                                        *)
LEMMA ServingMoves ==
  [Next]_vars =>
    /\ Serving' => BeginDrain \/ BeginTurn \/ (Serving /\ todo' \subseteq todo)
    /\ pc' = "leftover" /\ pc # "leftover" =>
         Expire \/ (AdmissionOver /\ cur = NoWindow /\ last = NoWindow)
BY DEF Next, Run, Admission, Drain, RoundRobin, AdmitOne, BeginEviction, EvictOne,
     OverflowOne, AdmissionOver, Expire, BeginDrain, SendForemost, DeferForemost,
     DrainOver, BeginRound, BeginTurn, SendNext, PassNext, EndTurn, RoundsOver,
     CloseWindow, WriteOff, Done, vars, Serving, Offered

LEMMA AliveStep ==
  QueueShape /\ WindowShape /\ AliveShape /\ [Next]_vars => AliveShape'
<1>1. SUFFICES ASSUME QueueShape, WindowShape, AliveShape, [Next]_vars PROVE AliveShape'
  OBVIOUS
<1>2. plan' = plan /\ bundles' = bundles
  BY <1>1, WalkKept, ConfigKept
<1>3. \A b : Expiration(b)' = Expiration(b) /\ Ingress(b)' = Ingress(b)
  BY <1>2 DEF Expiration, Ingress
<1>4. InWindow' => cur' = cur
  BY <1>1, WalkKept, PcMoves DEF InWindow, Draining
<1>5. InWindow' => \A b \in Waiting' : Expiration(b) > plan[cur].start
  <2>1. CASE InWindow
    BY <1>1, <2>1, OnlyLeaving DEF AliveShape
  <2>2. CASE InWindow' /\ ~InWindow
    BY <1>1, <2>2, PcMoves, ExpiryLeaves
  <2> QED
    BY <2>1, <2>2
<1>6. pc' = "leftover" =>
        \A b \in Waiting', w \in DOMAIN plan : Expiration(b) > plan[w].end
  <2>1. CASE pc = "leftover"
    BY <1>1, <2>1, OnlyLeaving DEF AliveShape
  <2>2. CASE pc # "leftover" /\ AdmissionOver /\ cur = NoWindow /\ last = NoWindow
    <3>1. plan = <<>>
      BY <1>1, <2>2 DEF WindowShape
    <3> QED
      BY <3>1
  <2>3. CASE pc' = "leftover" /\ Expire
    <3>1. cur = NoWindow
      BY <2>3 DEF Expire
    <3> QED
      BY <1>1, <2>3, <3>1, ExpiryLeaves
  <2> QED
    BY <1>1, <2>1, <2>2, <2>3, ServingMoves
<1>7. Serving' => todo' \subseteq Eligible'
  <2>1. SUFFICES ASSUME Serving' PROVE todo' \subseteq Eligible'
    OBVIOUS
  <2>2. cur' = cur
    BY <1>4, <2>1 DEF Serving, InWindow, Draining
  <2>3. CASE BeginDrain \/ BeginTurn
    <3>1. todo' \subseteq Eligible
      BY <2>3 DEF BeginDrain, BeginTurn, Listed, ByClass
    <3>2. Waiting' = Waiting
      BY <2>3 DEF BeginDrain, BeginTurn, queue, Waiting
    <3> QED
      BY <1>2, <1>3, <2>2, <3>1, <3>2 DEF Eligible
  <2>4. CASE Serving /\ todo' \subseteq todo
    <3>1. todo' \subseteq Eligible
      BY <1>1, <2>4 DEF AliveShape
    <3>2. QueueShape'
      BY <1>1, ShapeStep
    <3>3. todo' \subseteq Waiting'
      BY <2>1, <3>2 DEF QueueShape, Serving
    <3> QED
      BY <1>2, <1>3, <2>2, <3>1, <3>3 DEF Eligible
  <2> QED
    BY <1>1, <2>1, <2>3, <2>4, ServingMoves
<1> QED
  BY <1>2, <1>3, <1>4, <1>5, <1>6, <1>7 DEF AliveShape

-----------------------------------------------------------------------------
(* mark() with any state but "delivered".                                  *)
LEMMA MarkedFates ==
  ASSUME QueueShape, FateShape, plan' = plan, bundles' = bundles, contact' = contact,
         NEW S, \A b \in S : state[b] = "pending",
         NEW st \in Terminal \ {"delivered"}, state' = Marked(S, st),
         st = "ttl_expired" =>
           \A b \in S : \E w \in DOMAIN plan : Expiration(b) <= plan[w].end,
         st = "never_scheduled" =>
           \A b \in S : \A w \in DOMAIN plan : Expiration(b) > plan[w].end
  PROVE  FateShape'
<1>1. \A b \in Bundles : state'[b] = IF b \in S THEN st ELSE state[b]
  BY MarkedOnes
<1>2. Bundles' = Bundles
  BY DEF Bundles
<1>3. \A b : Expiration(b)' = Expiration(b) /\ Ingress(b)' = Ingress(b)
  BY DEF Expiration, Ingress
<1>4. SUFFICES ASSUME NEW b \in Bundles
               PROVE  /\ state'[b] = "delivered" <=> contact[b] # NoWindow
                      /\ state'[b] = "delivered" => Expiration(b) > plan[contact[b]].start
                      /\ state'[b] = "delivered" => Ingress(b) < plan[contact[b]].end
                      /\ state'[b] = "ttl_expired" =>
                           \E w \in DOMAIN plan : Expiration(b) <= plan[w].end
                      /\ state'[b] = "never_scheduled" =>
                           \A w \in DOMAIN plan : Expiration(b) > plan[w].end
  BY <1>2, <1>3 DEF FateShape, FatesMatchDeadlines
<1>5. CASE b \in S
  <2>1. contact[b] = NoWindow
    BY <1>5 DEF FateShape, FatesMatchDeadlines
  <2>2. state'[b] = st /\ st # "delivered"
    BY <1>1, <1>5
  <2> QED
    BY <1>5, <2>1, <2>2
<1>6. CASE b \notin S
  BY <1>1, <1>6 DEF FateShape, FatesMatchDeadlines
<1> QED
  BY <1>5, <1>6

(* A bundle that is sent is sent in the window under way.                  *)
Sends ==
  /\ Serving /\ pc' = pc
  /\ UNCHANGED <<plan, bundles, config, cur, arrivals, active>>
  /\ \E b \in todo :
       /\ CanSend(b) /\ Transmit(b) /\ todo' = todo \ {b}

LEMMA SendingSteps ==
  /\ SendForemost => Sends /\ pc = "drain"
  /\ SendNext => Sends /\ pc = "serve"
BY DEF SendForemost, SendNext, Sends, Serving, Foremost, Earliest, Affordable,
     inputs, control

LEMMA SendParts ==
  ASSUME QueueShape, WindowShape, FateShape, Sends
  PROVE  \E b \in todo :
           /\ b \in Bundles /\ b \in Waiting /\ state[b] = "pending" /\ contact[b] = NoWindow
           /\ Bits(b) <= remaining /\ remaining' = remaining - Bits(b)
           /\ todo' = todo \ {b}
           /\ contact' = [contact EXCEPT ![b] = cur]
           /\ \A u \in Bundles : contact'[u] = IF u = b THEN cur ELSE contact[u]
           /\ \A u \in Bundles : state'[u] = IF u = b THEN "delivered" ELSE state[u]
           /\ cur \in DOMAIN plan /\ cur # NoWindow
<1>1. PICK b \in todo : CanSend(b) /\ Transmit(b) /\ todo' = todo \ {b}
  BY DEF Sends
<1>2. b \in Bundles /\ b \in Waiting /\ state[b] = "pending"
  BY DEF Sends, Serving, QueueShape, Waiting
<1>3. contact[b] = NoWindow
  BY <1>2 DEF FateShape, FatesMatchDeadlines
<1>4. \A u \in Bundles : contact'[u] = IF u = b THEN cur ELSE contact[u]
  BY <1>1, <1>2 DEF Transmit, FateShape
<1>5. \A u \in Bundles : state'[u] = IF u = b THEN "delivered" ELSE state[u]
  <2>1. state' = Marked({b}, "delivered") /\ "delivered" \in Terminal
    BY <1>1 DEF Transmit, Terminal
  <2>2. \A u \in {b} : state[u] = "pending"
    BY <1>2
  <2>3. \A u \in Bundles : state'[u] = IF u \in {b} THEN "delivered" ELSE state[u]
    BY <2>1, <2>2, MarkedOnes
  <2> QED
    BY <2>3
<1>6. cur \in DOMAIN plan /\ cur # NoWindow
  BY DEF Sends, Serving, WindowShape, InWindow, Draining
<1> QED
  BY <1>1, <1>2, <1>3, <1>4, <1>5, <1>6 DEF CanSend, Transmit

LEMMA SentFates ==
  ASSUME QueueShape, WindowShape, AliveShape, FateShape, Sends
  PROVE  FateShape'
<1>1. PICK b \in todo :
        /\ b \in Bundles /\ b \in Waiting
        /\ contact' = [contact EXCEPT ![b] = cur]
        /\ \A u \in Bundles : contact'[u] = IF u = b THEN cur ELSE contact[u]
        /\ \A u \in Bundles : state'[u] = IF u = b THEN "delivered" ELSE state[u]
        /\ cur \in DOMAIN plan /\ cur # NoWindow
  BY SendParts
<1>2. Ingress(b) < plan[cur].end /\ Expiration(b) > plan[cur].start
  BY <1>1 DEF Sends, AliveShape, Eligible, InWindow, Draining, Serving
<1>3. plan' = plan /\ bundles' = bundles /\ Bundles' = Bundles
  BY DEF Sends, Bundles
<1>4. \A u : Expiration(u)' = Expiration(u) /\ Ingress(u)' = Ingress(u)
  BY <1>3 DEF Expiration, Ingress
<1>5. contact' \in [Bundles -> DOMAIN plan \cup {NoWindow}]
  BY <1>1 DEF FateShape
<1>6. FatesMatchDeadlines'
  BY <1>1, <1>2, <1>3, <1>4 DEF FateShape, FatesMatchDeadlines
<1> QED
  BY <1>3, <1>5, <1>6 DEF FateShape

(* Every other step leaves the fates alone.                                *)
LEMMA FatesElsewhere ==
  ASSUME [Next]_vars, ~OverflowOne, ~EvictOne, ~Expire, ~WriteOff, ~Sends
  PROVE  state' = state /\ contact' = contact
BY SendingSteps
   DEF Next, Run, Admission, Drain, RoundRobin, AdmitOne, Admit, BeginEviction,
     AdmissionOver, BeginDrain, DeferForemost, DrainOver, BeginRound, BeginTurn,
     PassNext, EndTurn, RoundsOver, CloseWindow, Done, vars, queue

LEMMA FateStarts == Starting => FateShape
BY DEF Starting, FateShape, FatesMatchDeadlines, Bundles

LEMMA FateStep ==
  QueueShape /\ WindowShape /\ AliveShape /\ FateShape /\ [Next]_vars => FateShape'
<1>1. SUFFICES ASSUME QueueShape, WindowShape, AliveShape, FateShape, [Next]_vars
               PROVE  FateShape'
  OBVIOUS
<1>2. plan' = plan /\ bundles' = bundles
  BY <1>1, WalkKept, ConfigKept
<1>3. CASE OverflowOne \/ EvictOne
  <2>1. PICK b \in Bundles :
          /\ state[b] = "pending" /\ state' = Marked({b}, "queue_overflow")
          /\ contact' = contact
    <3>1. CASE OverflowOne
      <4>1. PICK b \in Offered : state' = Marked({b}, "queue_overflow") /\ contact' = contact
        BY <3>1 DEF OverflowOne
      <4> QED
        BY <1>1, <4>1, OfferedArrives
    <3>2. CASE EvictOne
      <4>1. PICK b \in Victim(incoming) : state' = Marked({b}, "queue_overflow")
        BY <3>2 DEF EvictOne
      <4>2. b \in active /\ pc = "evict"
        BY <3>2, <4>1 DEF EvictOne, Victim, Candidates
      <4> QED
        BY <1>1, <3>2, <4>1, <4>2 DEF EvictOne, QueueShape, Lasting
    <3> QED
      BY <1>3, <3>1, <3>2
  <2>2. "queue_overflow" \in Terminal \ {"delivered"}
    BY DEF Terminal
  <2>3. \A u \in {b} : state[u] = "pending"
    BY <2>1
  <2> QED
    BY <1>1, <1>2, <2>1, <2>2, <2>3, MarkedFates
<1>4. CASE Expire
  <2>1. /\ pc = "expire" /\ contact' = contact /\ state' = Marked(Dead, "ttl_expired")
        /\ \A b \in Dead : state[b] = "pending" /\ b \in Bundles
    BY <1>1, <1>4 DEF Expire, Dead, Waiting, QueueShape
  <2>2. "ttl_expired" \in Terminal \ {"delivered"}
    BY DEF Terminal
  <2>3. ASSUME NEW b \in Dead
        PROVE  \E w \in DOMAIN plan : Expiration(b) <= plan[w].end
    <3>1. Expiration(b) <= ExpiryTime /\ Expiration(b) \in Int
      BY <1>1, <2>1, BundleTimes DEF Dead, QueueShape
    <3>2. CASE cur # NoWindow
      <4>1. cur \in DOMAIN plan /\ ExpiryTime = plan[cur].start
        BY <1>1, <3>2 DEF ExpiryTime, WindowShape
      <4> QED
        BY <1>1, <3>1, <4>1, WindowTimes
    <3>3. CASE cur = NoWindow
      BY <1>1, <2>1, <3>1, <3>3 DEF ExpiryTime, WindowShape
    <3> QED
      BY <3>2, <3>3
  <2> QED
    BY <1>1, <1>2, <2>1, <2>2, <2>3, MarkedFates
<1>5. CASE WriteOff
  <2>1. /\ pc = "leftover" /\ contact' = contact
        /\ state' = Marked(Waiting, "never_scheduled")
        /\ \A b \in Waiting : state[b] = "pending"
    BY <1>5 DEF WriteOff, Waiting
  <2>2. "never_scheduled" \in Terminal \ {"delivered"}
    BY DEF Terminal
  <2>3. \A b \in Waiting : \A w \in DOMAIN plan : Expiration(b) > plan[w].end
    BY <1>1, <2>1 DEF AliveShape
  <2> QED
    BY <1>1, <1>2, <2>1, <2>2, <2>3, MarkedFates
<1>6. CASE Sends
  BY <1>1, <1>6, SentFates
<1>7. CASE ~OverflowOne /\ ~EvictOne /\ ~Expire /\ ~WriteOff /\ ~Sends
  <2>1. state' = state /\ contact' = contact
    BY <1>1, <1>7, FatesElsewhere
  <2> QED
    BY <1>1, <1>2, <2>1 DEF FateShape, FatesMatchDeadlines, Bundles, Expiration, Ingress
<1> QED
  BY <1>3, <1>4, <1>5, <1>6, <1>7

-----------------------------------------------------------------------------
(* The bytes sent in each window, before and after a step.                 *)
LEMMA SentSame ==
  ASSUME bundles' = bundles, contact' = contact, NEW w
  PROVE  SentIn(w)' = SentIn(w) /\ Bytes(SentIn(w))' = Bytes(SentIn(w))
BY DEF SentIn, Bundles, Bytes, Cells, Size

LEMMA SentMore ==
  ASSUME QueueShape, WindowShape, FateShape, Sends
  PROVE  \E b \in todo :
           /\ b \in Bundles /\ b \in Waiting /\ todo' = todo \ {b}
           /\ Bits(b) <= remaining /\ remaining' = remaining - Bits(b)
           /\ b \notin SentIn(cur)
           /\ SentIn(cur)' = SentIn(cur) \cup {b}
           /\ Bytes(SentIn(cur))' = Bytes(SentIn(cur)) + Size(b)
           /\ \A w \in DOMAIN plan \ {cur} :
                SentIn(w)' = SentIn(w) /\ Bytes(SentIn(w))' = Bytes(SentIn(w))
<1>1. PICK b \in todo :
        /\ b \in Bundles /\ b \in Waiting /\ contact[b] = NoWindow
        /\ Bits(b) <= remaining /\ remaining' = remaining - Bits(b)
        /\ todo' = todo \ {b}
        /\ \A u \in Bundles : contact'[u] = IF u = b THEN cur ELSE contact[u]
        /\ cur \in DOMAIN plan /\ cur # NoWindow
  BY SendParts
<1>2. bundles' = bundles /\ Bundles' = Bundles /\ cur' = cur /\ bundles \in BundleLists
  BY DEF Sends, Bundles, QueueShape
<1>3. b \notin SentIn(cur)
  BY <1>1 DEF SentIn
<1>4. ASSUME NEW w \in DOMAIN plan \ {cur}
      PROVE  SentIn(w)' = SentIn(w) /\ Bytes(SentIn(w))' = Bytes(SentIn(w))
  <2>1. w # NoWindow /\ w # cur
    BY PlanParts DEF WindowShape, NoWindow
  <2>2. SentIn(w)' = SentIn(w)
    BY <1>1, <1>2, <2>1 DEF SentIn
  <2> QED
    BY <1>2, <2>2 DEF Bytes, Cells, Size
<1>5. SentIn(cur)' = SentIn(cur) \cup {b}
  BY <1>1, <1>2 DEF SentIn
<1>6. Bytes(SentIn(cur))' = Bytes(SentIn(cur) \cup {b})
  BY <1>2, <1>5 DEF Bytes, Cells, Size
<1>7. Bytes(SentIn(cur) \cup {b}) = Bytes(SentIn(cur)) + Size(b)
  <2>1. SentIn(cur) \subseteq Bundles
    BY DEF SentIn
  <2> QED
    BY <1>1, <1>2, <1>3, <2>1, BytesWith
<1> QED
  BY <1>1, <1>3, <1>4, <1>5, <1>6, <1>7

LEMMA NothingSent ==
  ASSUME NEW w, SentIn(w) = {}
  PROVE  Bytes(SentIn(w)) = 0
<1>1. Cells({}) = {}
  BY DEF Cells
<1> QED
  BY <1>1, FS_EmptySet DEF Bytes

-----------------------------------------------------------------------------
LEMMA BudgetStarts == Starting => BudgetShape
<1>1. SUFFICES ASSUME Starting PROVE BudgetShape
  OBVIOUS
<1>2. plan \in Plan /\ pc = "admit" /\ \A b \in Bundles : contact[b] = NoWindow
  BY <1>1, SchedulerAssumption DEF Starting, Bundles
<1>3. \A w : w # NoWindow => SentIn(w) = {}
  BY <1>2 DEF SentIn
<1>4. \A w \in DOMAIN plan : w # NoWindow /\ Budget(plan[w]) \in Nat
  BY <1>2, PlanParts, BudgetIsNat DEF NoWindow
<1>5. WithinBudget
  <2>1. SUFFICES ASSUME NEW w \in DOMAIN plan PROVE 8 * Bytes(SentIn(w)) <= Budget(plan[w])
    BY DEF WithinBudget
  <2>2. Bytes(SentIn(w)) = 0 /\ Budget(plan[w]) \in Nat
    BY <1>3, <1>4, NothingSent
  <2> QED
    BY <2>2
<1> QED
  BY <1>2, <1>3, <1>4, <1>5 DEF BudgetShape, Draining

(* Within a drain only a bundle sent changes what remains.                 *)
LEMMA RemainingKept ==
  [Next]_vars /\ ~BeginDrain /\ ~CloseWindow /\ ~Sends =>
    /\ Draining' <=> Draining
    /\ Draining => remaining' = remaining
BY SendingSteps
   DEF Next, Run, Admission, Drain, RoundRobin, AdmitOne, BeginEviction, EvictOne,
     OverflowOne, AdmissionOver, Expire, DeferForemost,
     DrainOver, BeginRound, BeginTurn, PassNext, EndTurn, RoundsOver,
     WriteOff, Done, vars, Draining, Offered

LEMMA SentBudget ==
  ASSUME QueueShape, WindowShape, FateShape, BudgetShape, Sends
  PROVE  BudgetShape'
<1>1. PICK b \in todo :
        /\ b \in Bundles
        /\ Bits(b) <= remaining /\ remaining' = remaining - Bits(b)
        /\ Bytes(SentIn(cur))' = Bytes(SentIn(cur)) + Size(b)
        /\ \A w \in DOMAIN plan \ {cur} :
             SentIn(w)' = SentIn(w) /\ Bytes(SentIn(w))' = Bytes(SentIn(w))
  BY SentMore
<1>2. /\ plan' = plan /\ cur' = cur /\ pc' = pc /\ Draining /\ Draining'
      /\ cur \in DOMAIN plan /\ cur # NoWindow /\ plan \in Plan /\ bundles \in BundleLists
  BY DEF Sends, Serving, Draining, WindowShape, InWindow, QueueShape
<1>3. Size(b) \in Nat /\ Bits(b) = 8 * Size(b)
  BY <1>1, <1>2, BundleFields DEF Bits
<1>4. SentIn(cur) \subseteq Bundles
  BY DEF SentIn
<1>5. Bytes(SentIn(cur)) \in Nat
  BY <1>2, <1>4, BytesFinite
<1>6. Budget(plan[cur]) \in Nat
  BY <1>2, BudgetIsNat
<1>7. remaining \in Nat /\ 8 * Bytes(SentIn(cur)) + remaining = Budget(plan[cur])
  BY <1>2 DEF BudgetShape
<1>8. remaining' \in Nat /\ 8 * Bytes(SentIn(cur))' + remaining' = Budget(plan[cur])
  BY <1>1, <1>3, <1>5, <1>6, <1>7
<1>9. WithinBudget'
  <2>1. SUFFICES ASSUME NEW w \in DOMAIN plan
                 PROVE  8 * Bytes(SentIn(w))' <= Budget(plan[w])
    BY <1>2 DEF WithinBudget
  <2>2. CASE w = cur
    <3>1. Bytes(SentIn(cur))' \in Nat
      BY <1>1, <1>3, <1>5
    <3> QED
      BY <1>2, <1>6, <1>8, <2>2, <3>1
  <2>3. CASE w # cur
    <3>1. Bytes(SentIn(w))' = Bytes(SentIn(w))
      BY <1>1, <2>3
    <3> QED
      BY <3>1 DEF BudgetShape, WithinBudget
  <2> QED
    BY <2>2, <2>3
<1>10. \A w \in DOMAIN plan : w > cur => SentIn(w)' = {}
  <2>1. cur \in Nat
    BY <1>2, PlanParts
  <2>2. \A w \in DOMAIN plan : w > cur => w # cur
    BY <1>2, <2>1, PlanParts
  <2> QED
    BY <1>1, <1>2, <2>2 DEF BudgetShape
<1> QED
  BY <1>2, <1>8, <1>9, <1>10 DEF BudgetShape

LEMMA BudgetStep ==
  QueueShape /\ WindowShape /\ FateShape /\ BudgetShape /\ [Next]_vars => BudgetShape'
<1>1. SUFFICES ASSUME QueueShape, WindowShape, FateShape, BudgetShape, [Next]_vars
               PROVE  BudgetShape'
  OBVIOUS
<1>2. plan' = plan /\ bundles' = bundles /\ plan \in Plan
  BY <1>1, WalkKept, ConfigKept DEF WindowShape
<1>3. CASE Sends
  BY <1>1, <1>3, SentBudget
<1>4. ASSUME contact' = contact
      PROVE  /\ \A w : SentIn(w)' = SentIn(w)
             /\ \A w : Bytes(SentIn(w))' = Bytes(SentIn(w))
             /\ WithinBudget'
  <2>1. \A w : SentIn(w)' = SentIn(w) /\ Bytes(SentIn(w))' = Bytes(SentIn(w))
    BY <1>2, <1>4, SentSame
  <2> QED
    BY <1>1, <1>2, <2>1 DEF BudgetShape, WithinBudget
<1>5. CASE CloseWindow
  <2>1. contact' = contact /\ pc' = "admit" /\ cur \in DOMAIN plan
        /\ cur' = NextAfter(plan, plan[cur].end) /\ cur # NoWindow
    BY <1>1, <1>5, PcMoves DEF CloseWindow, WindowShape, InWindow, Draining
  <2>2. cur' = NoWindow \/ (cur' \in DOMAIN plan /\ cur' > cur)
    BY <1>2, <2>1, WalkGoesOn
  <2>3. DOMAIN plan \subseteq Nat
    BY <1>2, PlanParts
  <2>4. cur' # NoWindow => \A w \in DOMAIN plan : w >= cur' => SentIn(w) = {}
    <3>1. SUFFICES ASSUME cur' # NoWindow, NEW w \in DOMAIN plan, w >= cur'
                   PROVE  SentIn(w) = {}
      OBVIOUS
    <3>2. w > cur
      BY <2>1, <2>2, <2>3, <3>1
    <3> QED
      BY <1>1, <2>1, <3>2 DEF BudgetShape
  <2>5. cur' # NoWindow =>
          {b \in Bundles' : contact'[b] = cur'} = {}
    <3>1. SUFFICES ASSUME cur' # NoWindow PROVE {b \in Bundles' : contact'[b] = cur'} = {}
      OBVIOUS
    <3>2. cur' \in DOMAIN plan /\ cur' >= cur'
      BY <2>2, <2>3, <3>1
    <3>3. SentIn(cur') = {}
      BY <2>4, <3>1, <3>2
    <3> QED
      BY <1>2, <2>1, <3>3 DEF SentIn, Bundles
  <2>6. cur' # NoWindow => \A w \in DOMAIN plan : w > cur' => SentIn(w)' = {}
    BY <1>4, <2>1, <2>2, <2>3, <2>4
  <2>7. ~Draining'
    BY <2>1 DEF Draining
  <2> QED
    BY <1>2, <1>4, <2>1, <2>5, <2>6, <2>7 DEF BudgetShape, SentIn
<1>6. CASE ~Sends /\ ~CloseWindow
  <2>1. contact' = contact /\ cur' = cur
    <3>1. cur' = cur
      BY <1>1, <1>6, WalkKept
    <3>2. contact' = contact
      BY <1>1, <1>6, FatesElsewhere DEF OverflowOne, EvictOne, Expire, WriteOff
    <3> QED
      BY <3>1, <3>2
  <2>2. SentIn(cur)' = SentIn(cur) /\ Bytes(SentIn(cur))' = Bytes(SentIn(cur))
    BY <1>2, <2>1 DEF SentIn, Bundles, Bytes, Cells, Size
  <2>3. CASE BeginDrain
    <3>1. /\ pc = "begin" /\ pc' = "drain" /\ remaining' = Budget(plan[cur])
          /\ cur \in DOMAIN plan /\ cur # NoWindow
      BY <1>1, <2>3 DEF BeginDrain, WindowShape, InWindow
    <3>2. SentIn(cur) = {} /\ Bytes(SentIn(cur)) = 0
      BY <1>1, <3>1, NothingSent DEF BudgetShape, Draining
    <3>3. Budget(plan[cur]) \in Nat
      BY <1>2, <3>1, BudgetIsNat
    <3> QED
      BY <1>1, <1>2, <1>4, <2>1, <2>2, <3>1, <3>2, <3>3 DEF BudgetShape, Draining
  <2>4. CASE ~BeginDrain
    <3>1. (Draining' <=> Draining) /\ (Draining => remaining' = remaining)
      BY <1>1, <1>6, <2>4, RemainingKept
    <3> QED
      BY <1>1, <1>2, <1>4, <2>1, <2>2, <3>1 DEF BudgetShape
  <2> QED
    BY <2>3, <2>4
<1> QED
  BY <1>3, <1>5, <1>6

-----------------------------------------------------------------------------
LEMMA WindowShapeInvariant == Spec => []WindowShape
  BY InitStarts, WindowStarts, WindowStep, PTL DEF Spec

LEMMA AliveShapeInvariant == Spec => []AliveShape
  BY InitStarts, AliveStarts, AliveStep, QueueShapeInvariant, WindowShapeInvariant, PTL DEF Spec

LEMMA FateShapeInvariant == Spec => []FateShape
  BY InitStarts, FateStarts, FateStep, QueueShapeInvariant, WindowShapeInvariant,
     AliveShapeInvariant, PTL DEF Spec

(* For every plan, workload, policy, admission rule and cap: a bundle is   *)
(* delivered in a window it could be sent in, expired within the plan or   *)
(* outlived it, as its recorded fate says.                                 *)
THEOREM FatesMatchDeadlinesInvariant == Spec => []FatesMatchDeadlines
<1>1. FateShape => FatesMatchDeadlines
  BY DEF FateShape
<1> QED
  BY <1>1, FateShapeInvariant, PTL

LEMMA BudgetShapeInvariant == Spec => []BudgetShape
  BY InitStarts, BudgetStarts, BudgetStep, QueueShapeInvariant, WindowShapeInvariant,
     FateShapeInvariant, PTL DEF Spec

(* For the same: no window carries more than its bit budget.               *)
THEOREM WithinBudgetInvariant == Spec => []WithinBudget
<1>1. BudgetShape => WithinBudget
  BY DEF BudgetShape
<1> QED
  BY <1>1, BudgetShapeInvariant, PTL

-----------------------------------------------------------------------------
(* The drain of a window.                                                  *)

(* What the first loop has sent in the window, and has left behind.        *)
SentFirst ==
  IF config.policy \in Wfq THEN {b \in SentIn(cur) : Cls(b) = "emergency"} ELSE SentIn(cur)
Left == IF pc = "drain" THEN Listed \ todo ELSE Listed

AheadOf(u) == {v \in SentFirst : Before(v, u)}
Crowded(u) == 8 * (Bytes(AheadOf(u)) + Size(u)) > Budget(plan[cur])

(* Only the WFQ policies have rounds, and only their three classes.        *)
TurnShape ==
  /\ pc \in {"round", "turn", "serve"} => config.policy \in Wfq
  /\ turn \in [classes : SUBSET WfqClass, budget : Int, weight : Int]
  /\ pc = "serve" => \A b \in todo : Cls(b) # "emergency"

(* The first loop sends in order, and what it leaves behind did not fit    *)
(* beside what it sent before; FIFO without skip-over stops there.         *)
DrainShape ==
  /\ pc = "drain" =>
       /\ todo \subseteq Listed
       /\ SentIn(cur) = SentFirst
       /\ \A v \in SentFirst, u \in todo : Before(v, u)
  /\ Draining /\ ~StopsOnNonFit => \A u \in Left : Crowded(u)
  /\ Draining /\ StopsOnNonFit =>
       /\ \A u \in Left : AheadOf(u) = SentFirst
       /\ Left # {} => (pc = "drain" => todo = {}) /\ \E u \in Left : Crowded(u)

-----------------------------------------------------------------------------
LEMMA TurnStarts == Starting => TurnShape
BY DEF Starting, TurnShape, NoTurn

LEMMA TurnStep ==
  WindowShape /\ BudgetShape /\ TurnShape /\ [Next]_vars => TurnShape'
<1>1. SUFFICES ASSUME WindowShape, BudgetShape, TurnShape, [Next]_vars PROVE TurnShape'
  OBVIOUS
<1>2. config' = config /\ bundles' = bundles
  BY <1>1, ConfigKept
<1>3. WfqClass = {"telemetry", "science_bulk", "media"}
  BY DEF WfqClass, QueueBudget
<1>4. pc' \in {"round", "turn", "serve"} => config.policy \in Wfq
  BY <1>1 DEF Next, Run, Admission, Drain, RoundRobin, AdmitOne, BeginEviction, EvictOne,
     OverflowOne, AdmissionOver, Expire, BeginDrain, SendForemost, DeferForemost,
     DrainOver, BeginRound, BeginTurn, SendNext, PassNext, EndTurn, RoundsOver,
     CloseWindow, WriteOff, Done, vars, TurnShape
<1>5. turn' \in [classes : SUBSET WfqClass, budget : Int, weight : Int]
  <2>1. CASE BeginRound
    <3>1. turn' = [classes |-> Backlogged, budget |-> remaining, weight |-> WeightTotal]
      BY <2>1 DEF BeginRound
    <3>2. Backlogged \subseteq WfqClass
      BY DEF Backlogged
    <3>3. remaining \in Int
      BY <1>1, <2>1 DEF BeginRound, BudgetShape, Draining
    <3>4. WeightTotal \in Int
      <4>1. QueueBudget["telemetry"] \in Int /\ QueueBudget["science_bulk"] \in Int
            /\ QueueBudget["media"] \in Int
        BY DEF QueueBudget
      <4> QED
        BY <4>1 DEF WeightTotal
    <3> QED
      BY <3>1, <3>2, <3>3, <3>4
  <2>2. CASE EndTurn
    <3>1. PICK c : turn' = [turn EXCEPT !.classes = @ \ {c}]
      BY <2>2 DEF EndTurn
    <3> QED
      BY <1>1, <3>1 DEF TurnShape
  <2>3. CASE CloseWindow
    BY <2>3 DEF CloseWindow, NoTurn
  <2>4. CASE ~BeginRound /\ ~EndTurn /\ ~CloseWindow
    <3>1. turn' = turn
      BY <1>1, <2>4 DEF Next, Run, Admission, Drain, RoundRobin, AdmitOne, BeginEviction,
         EvictOne, OverflowOne, AdmissionOver, Expire, BeginDrain, SendForemost,
         DeferForemost, DrainOver, BeginTurn, SendNext, PassNext, RoundsOver,
         WriteOff, Done, vars, wfq
    <3> QED
      BY <1>1, <3>1 DEF TurnShape
  <2> QED
    BY <2>1, <2>2, <2>3, <2>4
<1>6. pc' = "serve" => \A b \in todo' : Cls(b) # "emergency"
  <2>1. pc' = "serve" => BeginTurn \/ (pc = "serve" /\ todo' \subseteq todo)
    BY <1>1 DEF Next, Run, Admission, Drain, RoundRobin, AdmitOne, BeginEviction, EvictOne,
       OverflowOne, AdmissionOver, Expire, BeginDrain, SendForemost, DeferForemost,
       DrainOver, BeginRound, SendNext, PassNext, EndTurn, RoundsOver,
       CloseWindow, WriteOff, Done, vars
  <2>2. CASE BeginTurn
    <3>1. PICK c \in InTurn : todo' = ByClass(c)
      BY <2>2 DEF BeginTurn
    <3>2. c \in WfqClass
      BY <1>1, <3>1 DEF InTurn, TurnShape
    <3> QED
      BY <1>3, <3>1, <3>2 DEF ByClass
  <2>3. CASE pc = "serve" /\ todo' \subseteq todo
    BY <1>1, <2>3 DEF TurnShape
  <2> QED
    BY <2>1, <2>2, <2>3
<1> QED
  BY <1>2, <1>4, <1>5, <1>6 DEF TurnShape, Cls

-----------------------------------------------------------------------------
(* The order of the policy does not change within a window.                *)
Steady == UNCHANGED <<plan, config, bundles, cur>>

LEMMA OrderSteady ==
  ASSUME Steady
  PROVE  \A a, b : Before(a, b)' <=> Before(a, b)
<1>1. plan' = plan /\ config' = config /\ bundles' = bundles /\ cur' = cur
  BY DEF Steady
<1>2. \A a, b : Earlier(a, b)' <=> Earlier(a, b)
  BY <1>1 DEF Earlier, Ingress
<1>3. \A a, b : Ahead(a, b)' <=> Ahead(a, b)
  BY <1>1 DEF Ahead, AtRisk, Denser, Rank, Cls, Expiration, Ingress, Utility, Size
<1> QED
  BY <1>2, <1>3 DEF Before

(* A step of a drain after which the same is listed, left and sent.        *)
LEMMA QuietStep ==
  ASSUME DrainShape, Steady, Draining, Waiting' = Waiting, contact' = contact,
         pc' # "drain", pc = "drain" => todo = {}
  PROVE  DrainShape'
<1>1. Listed' = Listed /\ (StopsOnNonFit' <=> StopsOnNonFit)
  BY DEF Steady, Listed, ByClass, Eligible, Cls, Ingress, StopsOnNonFit
<1>2. SentFirst' = SentFirst
  BY DEF Steady, SentFirst, SentIn, Bundles, Cls
<1>3. Left' = Left
  BY <1>1 DEF Left
<1>4. \A u : AheadOf(u)' = AheadOf(u)
  BY <1>2, OrderSteady DEF AheadOf
<1>5. \A u : Crowded(u)' <=> Crowded(u)
  BY <1>4 DEF Crowded, Steady, Bytes, Cells, Size
<1> QED
  BY <1>1, <1>2, <1>3, <1>4, <1>5 DEF DrainShape

-----------------------------------------------------------------------------
LEMMA DrainStarts == Starting => DrainShape
BY DEF Starting, DrainShape, Draining

LEMMA DrainBegins ==
  ASSUME QueueShape, WindowShape, BudgetShape, BeginDrain
  PROVE  DrainShape'
<1>1. /\ pc = "begin" /\ pc' = "drain" /\ todo' = Listed /\ Waiting' = Waiting
      /\ Steady /\ contact' = contact
  BY DEF BeginDrain, queue, inputs, control, Waiting, Steady
<1>2. Listed' = Listed
  BY <1>1 DEF Steady, Listed, ByClass, Eligible, Cls, Ingress
<1>3. SentIn(cur) = {}
  BY <1>1 DEF BudgetShape, Draining, WindowShape, InWindow
<1>4. SentIn(cur)' = {} /\ SentFirst' = {}
  BY <1>1, <1>3 DEF SentIn, SentFirst, Steady, Bundles
<1>5. Left' = {}
  BY <1>1, <1>2 DEF Left
<1> QED
  BY <1>1, <1>2, <1>4, <1>5 DEF DrainShape

(* A bundle of the first loop is sent: those left before still did not fit *)
(* beside what comes before them.                                          *)
LEMMA SendKeepsOrder ==
  ASSUME QueueShape, WindowShape, FateShape, DrainShape, SendForemost
  PROVE  DrainShape'
<1>1. PICK b \in Foremost(todo) : Transmit(b) /\ todo' = todo \ {b}
  BY DEF SendForemost
<1>2. /\ pc = "drain" /\ pc' = "drain" /\ Sends /\ Steady /\ active' = active
      /\ b \in todo /\ \A u \in todo \ {b} : Before(b, u)
  BY <1>1, SendingSteps DEF SendForemost, Sends, Foremost, Steady
<1>3. /\ b \in Bundles /\ b \in Waiting
      /\ \A u \in Bundles : contact'[u] = IF u = b THEN cur ELSE contact[u]
      /\ \A u \in Bundles : state'[u] = IF u = b THEN "delivered" ELSE state[u]
      /\ cur # NoWindow /\ contact[b] = NoWindow
  <2>1. PICK d \in todo :
          /\ d \in Bundles /\ d \in Waiting /\ todo' = todo \ {d}
          /\ \A u \in Bundles : contact'[u] = IF u = d THEN cur ELSE contact[u]
          /\ \A u \in Bundles : state'[u] = IF u = d THEN "delivered" ELSE state[u]
          /\ cur # NoWindow /\ contact[d] = NoWindow
    BY <1>2, SendParts
  <2>2. d = b
    BY <1>1, <1>2, <2>1
  <2> QED
    BY <2>1, <2>2
<1>4. Bundles' = Bundles /\ cur' = cur /\ bundles' = bundles /\ config' = config
      /\ plan' = plan /\ bundles \in BundleLists
  BY <1>2 DEF Steady, Bundles, QueueShape
<1>5. Waiting' = Waiting \ {b}
  BY <1>2, <1>3 DEF Waiting, QueueShape
<1>6. Eligible' = Eligible \ {b}
  BY <1>4, <1>5 DEF Eligible, Ingress
<1>7. Listed' = Listed \ {b}
  BY <1>4, <1>6 DEF Listed, ByClass, Cls
<1>8. b \in Listed
  BY <1>2 DEF DrainShape
<1>9. SentIn(cur)' = SentIn(cur) \cup {b}
  BY <1>3, <1>4 DEF SentIn
<1>10. SentFirst' = SentFirst \cup {b} /\ SentIn(cur)' = SentFirst'
  <2>1. SentIn(cur) = SentFirst
    BY <1>2 DEF DrainShape
  <2>2. config.policy \in Wfq => Cls(b) = "emergency"
    BY <1>8 DEF Listed, ByClass
  <2> QED
    BY <1>4, <1>9, <2>1, <2>2 DEF SentFirst, Cls
<1>11. Left' = Left
  BY <1>2, <1>1, <1>7, <1>8 DEF Left
<1>12. \A v \in SentFirst', u \in todo' : Before(v, u)'
  BY <1>1, <1>2, <1>10, OrderSteady DEF DrainShape
<1>13. ASSUME NEW u \in Left, Crowded(u) PROVE Crowded(u)'
  <2>1. AheadOf(u) \subseteq AheadOf(u)'
    BY <1>2, <1>10, OrderSteady DEF AheadOf
  <2>2. AheadOf(u)' \subseteq Bundles /\ u \in Bundles
    BY <1>4, <1>10, <1>3, <1>13 DEF AheadOf, SentFirst, SentIn, Left, Listed, ByClass, Eligible,
       Waiting, QueueShape
  <2> DEFINE more == AheadOf(u)'
  <2>3. Bytes(AheadOf(u)) <= Bytes(more)
    BY <1>4, <2>1, <2>2, BytesMonotone
  <2>4. Bytes(AheadOf(u))' = Bytes(more)
    BY <1>4 DEF Bytes, Cells, Size
  <2>5. Bytes(AheadOf(u)) \in Nat /\ Bytes(more) \in Nat /\ Size(u) \in Nat
    BY <1>4, <2>1, <2>2, BytesFinite, BundleFields
  <2>6. Budget(plan[cur]) \in Nat
    BY <1>2, BudgetIsNat DEF WindowShape, InWindow, Draining
  <2>7. Size(u)' = Size(u) /\ Budget(plan[cur])' = Budget(plan[cur])
    BY <1>4 DEF Size
  <2> HIDE DEF more
  <2>8. 8 * (Bytes(AheadOf(u)) + Size(u)) > Budget(plan[cur])
    BY <1>13 DEF Crowded
  <2>9. 8 * (Bytes(more) + Size(u)) > Budget(plan[cur])
    BY <2>3, <2>5, <2>6, <2>8
  <2> QED
    BY <2>4, <2>7, <2>9 DEF Crowded
<1>14. StopsOnNonFit' <=> StopsOnNonFit
  BY <1>4 DEF StopsOnNonFit
<1>15. StopsOnNonFit => Left = {}
  BY <1>2 DEF DrainShape, Draining
<1>16. ~StopsOnNonFit => \A u \in Left : Crowded(u)
  BY <1>2 DEF DrainShape, Draining
<1>17. todo' \subseteq Listed'
  BY <1>1, <1>2, <1>7 DEF DrainShape
<1> QED
  BY <1>10, <1>11, <1>12, <1>13, <1>14, <1>15, <1>16, <1>17 DEF DrainShape

(* The foremost does not fit beside all that was sent.                     *)
LEMMA DeferKeepsOrder ==
  ASSUME QueueShape, WindowShape, BudgetShape, DrainShape, DeferForemost
  PROVE  DrainShape'
<1>1. PICK b \in Foremost(todo) :
        ~CanSend(b) /\ todo' = IF StopsOnNonFit THEN {} ELSE todo \ {b}
  BY DEF DeferForemost
<1>2. /\ pc = "drain" /\ pc' = "drain" /\ Steady /\ Waiting' = Waiting /\ contact' = contact
      /\ b \in todo /\ remaining' = remaining
  BY <1>1 DEF DeferForemost, Foremost, Steady, inputs, queue, control, Waiting
<1>3. Listed' = Listed /\ (StopsOnNonFit' <=> StopsOnNonFit)
  BY <1>2 DEF Steady, Listed, ByClass, Eligible, Cls, Ingress, StopsOnNonFit
<1>4. SentFirst' = SentFirst /\ SentIn(cur)' = SentIn(cur)
  BY <1>2 DEF Steady, SentFirst, SentIn, Bundles, Cls
<1>5. \A u : AheadOf(u)' = AheadOf(u)
  BY <1>2, <1>4, OrderSteady DEF AheadOf
<1>6. \A u : Crowded(u)' <=> Crowded(u)
  BY <1>2, <1>5 DEF Crowded, Steady, Bytes, Cells, Size
<1>7. /\ todo \subseteq Listed /\ SentIn(cur) = SentFirst
      /\ \A v \in SentFirst, u \in todo : Before(v, u)
  BY <1>2 DEF DrainShape
<1>8. \A u \in todo : AheadOf(u) = SentFirst
  BY <1>7 DEF AheadOf
<1>9. Crowded(b)
  <2>1. b \in Bundles /\ bundles \in BundleLists /\ cur \in DOMAIN plan /\ plan \in Plan
    BY <1>2 DEF QueueShape, Waiting, WindowShape, InWindow, Draining
  <2>2. Bytes(AheadOf(b)) = Bytes(SentIn(cur))
    BY <1>2, <1>7, <1>8
  <2>3. SentIn(cur) \subseteq Bundles
    BY DEF SentIn
  <2>4. Bytes(SentIn(cur)) \in Nat /\ Size(b) \in Nat /\ Budget(plan[cur]) \in Nat
    BY <2>1, <2>3, BytesFinite, BundleFields, BudgetIsNat
  <2>5. remaining \in Nat /\ 8 * Bytes(SentIn(cur)) + remaining = Budget(plan[cur])
    BY <1>2 DEF BudgetShape, Draining
  <2>6. ~ (8 * Size(b) <= remaining)
    BY <1>1 DEF CanSend, Bits
  <2> QED
    BY <2>2, <2>4, <2>5, <2>6 DEF Crowded
<1>10. CASE ~StopsOnNonFit
  <2>1. Left' = Left \cup {b}
    BY <1>1, <1>2, <1>3, <1>7, <1>10 DEF Left
  <2>2. \A u \in Left : Crowded(u)
    BY <1>2, <1>10 DEF DrainShape, Draining
  <2>3. todo' \subseteq todo
    BY <1>1, <1>10
  <2> QED
    BY <1>2, <1>3, <1>4, <1>6, <1>7, <1>9, <1>10, <2>1, <2>2, <2>3, OrderSteady DEF DrainShape
<1>11. CASE StopsOnNonFit
  <2>1. Left = {}
    BY <1>2, <1>11 DEF DrainShape, Draining
  <2>2. todo = Listed /\ todo' = {}
    BY <1>1, <1>2, <1>7, <1>11, <2>1 DEF Left
  <2>3. Left' = todo
    BY <1>2, <1>3, <2>2 DEF Left
  <2> QED
    BY <1>2, <1>3, <1>4, <1>5, <1>6, <1>7, <1>8, <1>9, <1>11, <2>2, <2>3 DEF DrainShape
<1> QED
  BY <1>10, <1>11

(* The rounds send other classes than the first loop.                      *)
LEMMA RoundKeepsOrder ==
  ASSUME QueueShape, WindowShape, FateShape, TurnShape, DrainShape, SendNext
  PROVE  DrainShape'
<1>1. Sends /\ Steady /\ pc = "serve" /\ pc' = "serve" /\ config.policy \in Wfq
      /\ active' = active
  BY SendingSteps DEF Sends, Steady, TurnShape
<1>2. PICK b \in todo :
        /\ b \in Bundles /\ b \in Waiting
        /\ \A u \in Bundles : contact'[u] = IF u = b THEN cur ELSE contact[u]
        /\ \A u \in Bundles : state'[u] = IF u = b THEN "delivered" ELSE state[u]
        /\ cur # NoWindow /\ contact[b] = NoWindow
  BY <1>1, SendParts
<1>3. Cls(b) # "emergency"
  BY <1>1, <1>2 DEF TurnShape
<1>4. Bundles' = Bundles /\ cur' = cur /\ bundles' = bundles /\ config' = config
      /\ plan' = plan
  BY <1>1 DEF Steady, Bundles
<1>5. Waiting' = Waiting \ {b}
  BY <1>1, <1>2 DEF Waiting, QueueShape
<1>6. Listed' = Listed
  BY <1>1, <1>3, <1>4, <1>5 DEF Listed, ByClass, Eligible, Cls, Ingress
<1>7. SentFirst' = SentFirst
  BY <1>1, <1>2, <1>3, <1>4 DEF SentFirst, SentIn, Cls
<1>8. Left' = Left
  BY <1>1, <1>6 DEF Left
<1>9. ~StopsOnNonFit /\ ~StopsOnNonFit'
  BY <1>1, <1>4 DEF StopsOnNonFit, Wfq
<1>10. \A u : AheadOf(u)' = AheadOf(u)
  BY <1>1, <1>7, OrderSteady DEF AheadOf
<1>11. \A u : Crowded(u)' <=> Crowded(u)
  BY <1>4, <1>10 DEF Crowded, Bytes, Cells, Size
<1> QED
  BY <1>1, <1>8, <1>9, <1>11 DEF DrainShape, Draining

-----------------------------------------------------------------------------
LEMMA DrainStep ==
  QueueShape /\ WindowShape /\ FateShape /\ BudgetShape /\ TurnShape /\ DrainShape
    /\ [Next]_vars => DrainShape'
<1>1. SUFFICES ASSUME QueueShape, WindowShape, FateShape, BudgetShape, TurnShape,
                      DrainShape, [Next]_vars
               PROVE  DrainShape'
  OBVIOUS
<1>2. CASE BeginDrain
  BY <1>1, <1>2, DrainBegins
<1>3. CASE SendForemost
  BY <1>1, <1>3, SendKeepsOrder
<1>4. CASE DeferForemost
  BY <1>1, <1>4, DeferKeepsOrder
<1>5. CASE SendNext
  BY <1>1, <1>5, RoundKeepsOrder
<1>6. CASE DrainOver \/ BeginRound \/ BeginTurn \/ PassNext \/ EndTurn \/ RoundsOver
  <2>1. /\ Steady /\ Draining /\ Waiting' = Waiting /\ contact' = contact
        /\ pc' # "drain" /\ (pc = "drain" => todo = {})
    BY <1>6 DEF DrainOver, BeginRound, BeginTurn, PassNext, EndTurn, RoundsOver, Steady,
       Draining, Waiting, inputs, queue, control
  <2> QED
    BY <1>1, <2>1, QuietStep
<1>7. CASE UNCHANGED vars
  <2>1. /\ Steady /\ Waiting' = Waiting /\ contact' = contact /\ pc' = pc /\ todo' = todo
    BY <1>7 DEF vars, inputs, queue, control, Waiting, Steady
  <2>2. CASE ~Draining
    BY <2>1, <2>2 DEF DrainShape, Draining
  <2>3. CASE Draining /\ pc # "drain"
    BY <1>1, <2>1, <2>3, QuietStep
  <2>4. CASE pc = "drain"
    <3>1. Listed' = Listed /\ (StopsOnNonFit' <=> StopsOnNonFit)
      BY <2>1 DEF Steady, Listed, ByClass, Eligible, Cls, Ingress, StopsOnNonFit
    <3>2. SentFirst' = SentFirst /\ SentIn(cur)' = SentIn(cur)
      BY <2>1 DEF Steady, SentFirst, SentIn, Bundles, Cls
    <3>3. Left' = Left
      BY <2>1, <3>1 DEF Left
    <3>4. \A u : AheadOf(u)' = AheadOf(u)
      BY <2>1, <3>2, OrderSteady DEF AheadOf
    <3>5. \A u : Crowded(u)' <=> Crowded(u)
      BY <2>1, <3>4 DEF Crowded, Steady, Bytes, Cells, Size
    <3> QED
      BY <1>1, <2>1, <2>4, <3>1, <3>2, <3>3, <3>4, <3>5, OrderSteady DEF DrainShape, Draining
  <2> QED
    BY <2>2, <2>3, <2>4
<1>8. CASE AdmitOne \/ BeginEviction \/ EvictOne \/ OverflowOne \/ AdmissionOver \/ Expire
             \/ CloseWindow \/ WriteOff
  <2>1. ~Draining'
    BY <1>8 DEF AdmitOne, BeginEviction, EvictOne, OverflowOne, AdmissionOver, Expire,
       CloseWindow, WriteOff, Draining
  <2>2. pc' # "drain"
    BY <2>1 DEF Draining
  <2> QED
    BY <2>1, <2>2 DEF DrainShape
<1> QED
  BY <1>1, <1>2, <1>3, <1>4, <1>5, <1>6, <1>7, <1>8
     DEF Next, Run, Admission, Drain, RoundRobin, Done

-----------------------------------------------------------------------------
LEMMA TurnShapeInvariant == Spec => []TurnShape
  BY InitStarts, TurnStarts, TurnStep, WindowShapeInvariant, BudgetShapeInvariant, PTL DEF Spec

(* For every plan, workload, policy, admission rule and cap: what the      *)
(* first loop of the drain leaves behind in a window did not fit beside    *)
(* what it sent before it in the order of the policy.                      *)
THEOREM GreedyInOrderInvariant == Spec => []GreedyInOrder
<1>1. DrainShape => GreedyInOrder
  <2>1. SUFFICES ASSUME DrainShape, pc = "close" PROVE GreedyInOrder
    BY DEF GreedyInOrder
  <2>2. Left = Listed /\ Draining
    BY <2>1 DEF Left, Draining
  <2>3. CASE StopsOnNonFit
    <3>1. /\ \A u \in Listed : AheadOf(u) = SentFirst
          /\ Listed # {} => \E u \in Listed : Crowded(u)
      BY <2>1, <2>2, <2>3 DEF DrainShape
    <3> QED
      BY <2>3, <3>1 DEF GreedyInOrder, StopsOnNonFit, AheadOf, SentFirst, Crowded
  <2>4. CASE ~StopsOnNonFit
    <3>1. \A u \in Listed : Crowded(u)
      BY <2>1, <2>2, <2>4 DEF DrainShape
    <3> QED
      BY <2>4, <3>1 DEF GreedyInOrder, StopsOnNonFit, AheadOf, SentFirst, Crowded
  <2> QED
    BY <2>3, <2>4
<1>2. Spec => []DrainShape
  BY InitStarts, DrainStarts, DrainStep, QueueShapeInvariant, WindowShapeInvariant, FateShapeInvariant,
     BudgetShapeInvariant, TurnShapeInvariant, PTL DEF Spec
<1> QED
  BY <1>1, <1>2, PTL

-----------------------------------------------------------------------------
(* The deficit round robin of the WFQ policies.  A class that waits gains  *)
(* at least a twelfth of what remains in each round, so it sends at least  *)
(* once in twelve rounds while its head fits.                              *)
Rounding == config.policy \in Wfq /\ pc \in {"round", "turn", "serve", "close"}
UnderWay(c) == pc = "serve" /\ c \in InTurn

(* The turns class c has had in the window, and the bundles it has sent.   *)
Turns(c) ==
  IF pc \in {"turn", "serve"} /\ (c \notin turn.classes \/ UnderWay(c))
    THEN rounds + 1 ELSE rounds
SentOf(c) == {b \in SentIn(cur) : Cls(b) = c}
Owed(c) == Turns(c) - 12 * Cardinality(SentOf(c))

Idle(c) == ByClass(c) = {} => deficit[c] = 0 \/ UnderWay(c)
Grown(c) == ByClass(c) # {} => deficit[c] >= 11 * (Owed(c) * remaining)
Passed(c) ==
  Turns(c) > 0 /\ ~(UnderWay(c) /\ todo # {}) =>
    \A u \in Earliest(ByClass(c)) : ~Affordable(u)
InOrder(c) == \A u \in ByClass(c), v \in SentOf(c) : Earlier(v, u)

DeficitShape ==
  /\ deficit \in [WfqClass -> Nat] /\ rotation \in Nat /\ rounds \in Nat
  /\ pc \in {"turn", "serve"} =>
       turn.budget \in Nat /\ remaining <= turn.budget /\ turn.weight \in 1..12

RobinShape ==
  Rounding =>
    /\ \A c \in WfqClass : Idle(c)
    /\ pc = "serve" =>
         \E c \in InTurn : /\ todo \subseteq ByClass(c)
                           /\ config.policy = "wfq" => todo = ByClass(c) \/ todo = {}
    /\ config.policy = "wfq" => \A c \in WfqClass : Grown(c) /\ Passed(c) /\ InOrder(c)
    /\ pc = "close" => ~RoundUseful

-----------------------------------------------------------------------------
LEMMA SendGrowth ==
  ASSUME NEW n \in Int, NEW r \in Nat, NEW b \in Nat, NEW d \in Nat,
         b <= r, 132 * b <= d, d >= 11 * (n * r)
  PROVE  d - 132 * b >= 11 * ((n - 12) * (r - b))
<1> DEFINE j == n - 12
           s == r - b
<1>1. j \in Int /\ s \in Nat /\ n = j + 12 /\ r = s + b
  OBVIOUS
<1>2. n * r = j * s + j * b + 12 * s + 12 * b
  BY <1>1
<1>3. j * s \in Int /\ j * b \in Int
  BY <1>1
<1>4. CASE j <= 0
  <2>1. j * s <= 0
    BY <1>1, <1>4
  <2> QED
    BY <1>3, <2>1
<1>5. CASE j > 0
  <2>1. j * b >= 0
    BY <1>1, <1>5
  <2> HIDE DEF j, s
  <2>2. PICK js \in Int, jb \in Int : js = j * s /\ jb = j * b
    BY <1>3
  <2>3. d >= 11 * (js + jb + 12 * s + 12 * b) /\ jb >= 0
    BY <1>2, <2>1, <2>2
  <2>4. d - 132 * b >= 11 * js
    BY <1>1, <2>3
  <2>5. j * s = (n - 12) * (r - b)
    BY DEF j, s
  <2> QED
    BY <2>2, <2>4, <2>5
<1> QED
  BY <1>1, <1>4, <1>5

LEMMA LessGrowth ==
  ASSUME NEW n \in Int, NEW r \in Nat, NEW b \in Nat, NEW d \in Nat,
         b <= r, d >= 11 * (n * r)
  PROVE  d >= 11 * (n * (r - b))
<1>1. n * (r - b) = n * r - n * b /\ n * r \in Int /\ n * b \in Int /\ n * (r - b) \in Int
  OBVIOUS
<1>2. CASE n <= 0
  <2>1. r - b \in Nat
    OBVIOUS
  <2>2. PICK s \in Nat : s = r - b
    BY <2>1
  <2>3. n * s <= 0
    BY <1>2
  <2> QED
    BY <2>2, <2>3
<1>3. CASE n > 0
  <2>1. n * b >= 0
    BY <1>3
  <2> QED
    BY <1>1, <2>1
<1> QED
  BY <1>2, <1>3

LEMMA TurnGrowth ==
  ASSUME NEW n \in Int, NEW r \in Nat, NEW g \in Nat, NEW d \in Nat, NEW s \in Nat,
         r <= g, s >= 11 * g, d >= 11 * (n * r)
  PROVE  d + s >= 11 * ((n + 1) * r)
<1>1. (n + 1) * r = n * r + r /\ n * r \in Int
  OBVIOUS
<1> QED
  BY <1>1

LEMMA ShareGrows ==
  ASSUME NEW g \in Nat, NEW w \in 1..12, NEW p \in {1, 10}
  PROVE  (132 * g * p) \div w \in Nat /\ (132 * g * p) \div w >= 11 * g
<1>1. PICK x \in Nat : x = 132 * g * p /\ x >= 132 * g
  <2>1. CASE p = 1
    BY <2>1
  <2>2. CASE p = 10
    BY <2>2
  <2> QED
    BY <2>1, <2>2
<1>2. x \div w \in Nat /\ x \div w >= 11 * g
  <2>1. w = 1 \/ w = 2 \/ w = 3 \/ w = 4 \/ w = 5 \/ w = 6 \/ w = 7 \/ w = 8 \/ w = 9
        \/ w = 10 \/ w = 11 \/ w = 12
    OBVIOUS
  <2> QED
    BY <1>1, <2>1
<1> QED
  BY <1>1, <1>2

LEMMA WfqParts ==
  /\ WfqClass = {"telemetry", "science_bulk", "media"}
  /\ \A c \in WfqClass : QueueBudget[c] \in {1, 10} /\ WfqIndex[c] \in Int
  /\ Scale = 132
BY DEF WfqClass, QueueBudget, WfqIndex, Scale

LEMMA OneInTurn ==
  ASSUME TurnShape, DeficitShape, NEW c \in InTurn, NEW d \in InTurn
  PROVE  c = d /\ c \in turn.classes /\ c \in WfqClass
<1>1. c \in turn.classes /\ d \in turn.classes /\ c \in WfqClass /\ d \in WfqClass
  BY DEF InTurn, TurnShape
<1>2. Place(c) \in Int /\ Place(d) \in Int
  BY <1>1, WfqParts DEF Place, DeficitShape
<1>3. c # d => Place(c) < Place(d) /\ Place(d) < Place(c)
  BY DEF InTurn
<1> QED
  BY <1>1, <1>2, <1>3

LEMMA EarlierOnce ==
  ASSUME bundles \in BundleLists, NEW S, S \subseteq Bundles,
         NEW a \in Earliest(S), NEW b \in Earliest(S)
  PROVE  a = b
<1>1. a \in Bundles /\ b \in Bundles
  BY DEF Earliest
<1>2. Ingress(a) \in Int /\ Ingress(b) \in Int
  BY <1>1, BundleTimes
<1>3. a \in Int /\ b \in Int
  BY <1>1, SchedulerAssumption DEF Bundles, BundleLists
<1>4. a # b => Earlier(a, b) /\ Earlier(b, a)
  BY DEF Earliest
<1> QED
  BY <1>2, <1>3, <1>4 DEF Earlier

LEMMA SentOfFinite ==
  ASSUME bundles \in BundleLists, NEW c
  PROVE  IsFiniteSet(SentOf(c)) /\ Cardinality(SentOf(c)) \in Nat
<1>1. IsFiniteSet(Bundles)
  <2>1. Bundles = 1..Len(bundles) /\ Len(bundles) \in Int
    BY SchedulerAssumption DEF Bundles, BundleLists
  <2> QED
    BY <2>1, FS_Interval
<1>2. SentOf(c) \subseteq Bundles
  BY DEF SentOf, SentIn
<1> QED
  BY <1>1, <1>2, FS_Subset, FS_CardinalityType

-----------------------------------------------------------------------------
LEMMA DeficitStarts == Starting => DeficitShape
BY DEF Starting, DeficitShape

LEMMA WeightFits ==
  ASSUME SomeHeadFits
  PROVE  WeightTotal \in 1..12
<1>1. PICK c \in WfqClass : ByClass(c) # {}
  BY DEF SomeHeadFits, Earliest
<1>2. c \in Backlogged
  BY <1>1 DEF Backlogged
<1> DEFINE weight(k) == IF k \in Backlogged THEN QueueBudget[k] ELSE 0
<1>3. /\ weight("telemetry") \in {0, 10} /\ weight("science_bulk") \in {0, 1}
      /\ weight("media") \in {0, 1}
  BY DEF QueueBudget
<1>4. weight("telemetry") = 10 \/ weight("science_bulk") = 1 \/ weight("media") = 1
  BY <1>1, <1>2, WfqParts DEF QueueBudget
<1>5. WeightTotal = weight("telemetry") + weight("science_bulk") + weight("media")
  BY DEF WeightTotal
<1> HIDE DEF weight
<1> QED
  BY <1>3, <1>4, <1>5

LEMMA ShareFits ==
  ASSUME TurnShape, DeficitShape, pc = "turn", NEW c \in InTurn
  PROVE  Share(c) \in Nat /\ Share(c) >= 11 * turn.budget /\ c \in WfqClass
<1>1. c \in WfqClass /\ QueueBudget[c] \in {1, 10}
  BY OneInTurn, WfqParts
<1>2. turn.budget \in Nat /\ turn.weight \in 1..12
  BY DEF DeficitShape
<1>3. PICK g \in Nat, w \in 1..12, p \in {1, 10} :
        g = turn.budget /\ w = turn.weight /\ p = QueueBudget[c]
  BY <1>1, <1>2
<1>4. Share(c) = (132 * g * p) \div w
  BY <1>3, WfqParts DEF Share
<1>5. (132 * g * p) \div w \in Nat /\ (132 * g * p) \div w >= 11 * g
  BY ShareGrows, Zenon
<1>6. PICK x \in Nat : x = (132 * g * p) \div w /\ x >= 11 * g
  BY <1>5, Zenon
<1> QED
  BY <1>1, <1>3, <1>4, <1>6

LEMMA AffordableFits ==
  ASSUME QueueShape, DeficitShape, TurnShape, SendNext
  PROVE  \E b \in Earliest(todo) :
           /\ b \in Bundles /\ Cls(b) \in WfqClass /\ Bits(b) \in Nat
           /\ 132 * Bits(b) <= deficit[Cls(b)] /\ Bits(b) <= remaining
           /\ deficit' = [deficit EXCEPT ![Cls(b)] = @ - 132 * Bits(b)]
           /\ Transmit(b) /\ todo' = todo \ {b}
<1>1. PICK b \in Earliest(todo) :
        /\ Affordable(b) /\ Transmit(b) /\ todo' = todo \ {b}
        /\ deficit' = [deficit EXCEPT ![Cls(b)] = @ - Scale * Bits(b)]
  BY DEF SendNext
<1>2. b \in todo /\ b \in Bundles /\ pc = "serve" /\ bundles \in BundleLists
  BY <1>1 DEF SendNext, Earliest, QueueShape, Waiting
<1>3. Cls(b) \in Class /\ Cls(b) # "emergency"
  <2>1. bundles[b] \in BundleIn
    BY <1>2, SchedulerAssumption DEF Bundles, BundleLists
  <2> QED
    BY <1>2, <2>1 DEF BundleIn, Cls, TurnShape
<1>4. Cls(b) \in WfqClass
  BY <1>3, WfqParts DEF Class, RANK
<1>5. Bits(b) \in Nat
  BY <1>2, BundleFields DEF Bits
<1> QED
  BY <1>1, <1>2, <1>4, <1>5, WfqParts DEF Affordable, CanSend

LEMMA DeficitStep ==
  QueueShape /\ WindowShape /\ BudgetShape /\ TurnShape /\ DeficitShape /\ [Next]_vars
    => DeficitShape'
<1> SUFFICES ASSUME QueueShape, WindowShape, BudgetShape, TurnShape, DeficitShape, [Next]_vars
             PROVE  DeficitShape'
  OBVIOUS
<1>1. CASE DrainOver
  <2>1. rounds' = 0 /\ rotation' = rotation /\ pc' \notin {"turn", "serve"}
        /\ (deficit' = deficit \/ deficit' = IdleForget)
    BY <1>1 DEF DrainOver
  <2>2. IdleForget \in [WfqClass -> Nat]
    BY DEF IdleForget, DeficitShape
  <2> QED
    BY <2>1, <2>2 DEF DeficitShape
<1>2. CASE BeginRound
  <2>1. turn' = [classes |-> Backlogged, budget |-> remaining, weight |-> WeightTotal]
        /\ UNCHANGED <<deficit, rotation, rounds, remaining>>
    BY <1>2 DEF BeginRound
  <2>2. WeightTotal \in 1..12
    BY <1>2, WeightFits DEF BeginRound, RoundUseful
  <2>3. remaining \in Nat
    BY <1>2 DEF BeginRound, BudgetShape, Draining
  <2> QED
    BY <2>1, <2>2, <2>3 DEF DeficitShape
<1>3. CASE BeginTurn
  <2>1. pc = "turn" /\ UNCHANGED <<rotation, rounds, turn, remaining>>
    BY <1>3 DEF BeginTurn
  <2>2. PICK c \in InTurn : deficit' = [deficit EXCEPT ![c] = @ + Share(c)]
    BY <1>3 DEF BeginTurn
  <2>3. c \in WfqClass /\ deficit[c] + Share(c) \in Nat
    BY <2>1, ShareFits DEF DeficitShape
  <2>4. deficit' \in [WfqClass -> Nat]
    BY <2>2, <2>3 DEF DeficitShape
  <2> QED
    BY <2>1, <2>4 DEF DeficitShape
<1>4. CASE SendNext
  <2>1. pc = "serve" /\ UNCHANGED <<rotation, rounds, turn, pc>>
    BY <1>4 DEF SendNext
  <2>2. PICK b \in Earliest(todo) :
           /\ Cls(b) \in WfqClass /\ Bits(b) \in Nat /\ Bits(b) <= remaining
           /\ 132 * Bits(b) <= deficit[Cls(b)] /\ Transmit(b)
           /\ deficit' = [deficit EXCEPT ![Cls(b)] = @ - 132 * Bits(b)]
    BY <1>4, AffordableFits
  <2>3. deficit[Cls(b)] - 132 * Bits(b) \in Nat
    BY <2>2 DEF DeficitShape
  <2>4. deficit' \in [WfqClass -> Nat]
    BY <2>2, <2>3 DEF DeficitShape
  <2>5. remaining' = remaining - Bits(b) /\ remaining \in Nat
    BY <2>1, <2>2 DEF Transmit, BudgetShape, Draining
  <2>6. remaining' <= remaining
    BY <2>2, <2>5
  <2> QED
    BY <2>1, <2>4, <2>5, <2>6 DEF DeficitShape
<1>5. CASE EndTurn
  <2>1. pc = "serve" /\ UNCHANGED <<rotation, remaining>>
    BY <1>5 DEF EndTurn
  <2>2. PICK c \in InTurn :
          /\ deficit' = [deficit EXCEPT ![c] = AfterTurn(c)]
          /\ turn' = [turn EXCEPT !.classes = @ \ {c}]
          /\ rounds' = rounds + 1 \/ rounds' = rounds
    BY <1>5 DEF EndTurn
  <2>3. c \in WfqClass /\ AfterTurn(c) \in Nat
    BY <2>2, OneInTurn DEF AfterTurn, DeficitShape
  <2>4. turn'.budget = turn.budget /\ turn'.weight = turn.weight
    BY <2>2 DEF TurnShape
  <2>5. deficit' \in [WfqClass -> Nat] /\ rounds' \in Nat
    BY <2>2, <2>3 DEF DeficitShape
  <2> QED
    BY <2>1, <2>4, <2>5 DEF DeficitShape
<1>6. CASE RoundsOver
  <2>1. (rotation + 1) % 3 \in Nat
    BY DEF DeficitShape
  <2> QED
    BY <1>6, <2>1 DEF RoundsOver, DeficitShape
<1>7. CASE PassNext
  BY <1>7 DEF PassNext, wfq, DeficitShape
<1>8. CASE AdmitOne \/ BeginEviction \/ EvictOne \/ OverflowOne \/ AdmissionOver \/ Expire
           \/ CloseWindow \/ WriteOff \/ BeginDrain \/ SendForemost \/ DeferForemost
  <2>1. pc' \notin {"turn", "serve"}
    BY <1>8 DEF AdmitOne, BeginEviction, EvictOne, OverflowOne, AdmissionOver, Expire,
       CloseWindow, WriteOff, BeginDrain, SendForemost, DeferForemost
  <2>2. deficit' = deficit /\ rotation' = rotation /\ (rounds' = rounds \/ rounds' = 0)
    BY <1>8 DEF AdmitOne, BeginEviction, EvictOne, OverflowOne, AdmissionOver, Expire,
       CloseWindow, WriteOff, BeginDrain, SendForemost, DeferForemost, wfq
  <2> QED
    BY <2>1, <2>2 DEF DeficitShape
<1>9. CASE UNCHANGED vars
  BY <1>9 DEF vars, wfq, DeficitShape
<1> QED
  BY <1>1, <1>2, <1>3, <1>4, <1>5, <1>6, <1>7, <1>8, <1>9
     DEF Next, Run, Admission, Drain, RoundRobin, Done

-----------------------------------------------------------------------------
(* A step of the rounds that sends nothing: the classes it does not touch. *)
Quiet ==
  /\ Steady /\ Waiting' = Waiting /\ contact' = contact /\ remaining' = remaining
  /\ Draining

LEMMA QuietClasses ==
  ASSUME Quiet, NEW c
  PROVE  ByClass(c)' = ByClass(c) /\ SentOf(c)' = SentOf(c)
BY DEF Quiet, Steady, ByClass, Eligible, SentOf, SentIn, Bundles, Cls, Ingress

LEMMA QuietEarliest ==
  ASSUME Quiet, NEW c
  PROVE  /\ Earliest(ByClass(c))' = Earliest(ByClass(c))
         /\ \A u, v : Earlier(u, v)' <=> Earlier(u, v)
         /\ \A u : Bits(u)' = Bits(u) /\ Cls(u)' = Cls(u) /\ (CanSend(u)' <=> CanSend(u))
<1>1. \A u, v : Earlier(u, v)' <=> Earlier(u, v)
  BY DEF Quiet, Steady, Earlier, Ingress
<1> QED
  BY <1>1, QuietClasses DEF Quiet, Steady, Earliest, Bits, Size, Cls, CanSend

LEMMA QuietUseful ==
  ASSUME Quiet, rounds' = rounds
  PROVE  RoundUseful' <=> RoundUseful
BY QuietEarliest DEF Quiet, RoundUseful, SomeHeadFits

LEMMA ClassKept ==
  ASSUME Quiet, NEW c \in WfqClass, Grown(c), Passed(c), InOrder(c),
         ByClass(c) # {} =>
           /\ deficit'[c] = deficit[c] /\ Turns(c)' = Turns(c)
           /\ UnderWay(c) /\ todo # {} => (UnderWay(c) /\ todo # {})'
  PROVE  Grown(c)' /\ Passed(c)' /\ InOrder(c)'
<1>1. ByClass(c)' = ByClass(c) /\ SentOf(c)' = SentOf(c)
      /\ Earliest(ByClass(c))' = Earliest(ByClass(c))
  BY QuietClasses, QuietEarliest
<1>2. CASE ByClass(c) = {}
  BY <1>1, <1>2 DEF Grown, Passed, InOrder, Earliest
<1>3. CASE ByClass(c) # {}
  <2>1. Grown(c)'
    BY <1>1, <1>3 DEF Grown, Owed, Quiet
  <2>2. InOrder(c)'
    BY <1>1, QuietEarliest DEF InOrder
  <2>3. \A u \in Earliest(ByClass(c)) : Affordable(u)' <=> Affordable(u)
    <3> TAKE u \in Earliest(ByClass(c))
    <3>1. Cls(u) = c
      BY DEF Earliest, ByClass
    <3> QED
      BY <1>3, <3>1, QuietEarliest DEF Affordable
  <2>4. Passed(c)'
    BY <1>1, <1>3, <2>3 DEF Passed
  <2> QED
    BY <2>1, <2>2, <2>4
<1> QED
  BY <1>2, <1>3

-----------------------------------------------------------------------------
LEMMA NotEmergency ==
  ASSUME NEW c \in WfqClass
  PROVE  c # "emergency"
BY WfqParts

LEMMA RobinBegins ==
  ASSUME QueueShape, BudgetShape, DeficitShape, DrainShape, DrainOver
  PROVE  RobinShape'
<1>1. Quiet /\ pc = "drain" /\ rounds' = 0
  BY DEF DrainOver, Quiet, Steady, Draining, Waiting, queue, inputs, control
<1>2. CASE config.policy \notin Wfq
  BY <1>1, <1>2 DEF Quiet, Steady, RobinShape, Rounding
<1>3. CASE config.policy \in Wfq
  <2>1. pc' = "round" /\ deficit' = IdleForget
    BY <1>3 DEF DrainOver
  <2>2. SUFFICES ASSUME NEW c \in WfqClass
                 PROVE  Idle(c)' /\ Grown(c)' /\ Passed(c)' /\ InOrder(c)'
    BY <2>1 DEF RobinShape
  <2>3. ByClass(c)' = ByClass(c) /\ SentOf(c)' = SentOf(c)
    BY <1>1, QuietClasses
  <2>4. deficit'[c] = (IF ByClass(c) = {} THEN 0 ELSE deficit[c]) /\ deficit'[c] \in Nat
    BY <2>1 DEF IdleForget, DeficitShape
  <2>5. Turns(c)' = 0
    BY <1>1, <2>1 DEF Turns
  <2>6. SentOf(c) = {}
    <3>1. SentIn(cur) = {b \in SentIn(cur) : Cls(b) = "emergency"}
      BY <1>1, <1>3 DEF DrainShape, SentFirst
    <3> QED
      BY <3>1, NotEmergency DEF SentOf
  <2>7. Owed(c)' = 0
    <3>1. Cardinality(SentOf(c)') = 0
      BY <2>3, <2>6, FS_EmptySet
    <3> QED
      BY <2>5, <3>1 DEF Owed
  <2>8. Grown(c)'
    <3>1. remaining' \in Nat
      BY <1>1 DEF Quiet, BudgetShape
    <3> QED
      BY <2>4, <2>7, <3>1 DEF Grown
  <2>9. Idle(c)' /\ Passed(c)' /\ InOrder(c)'
    BY <2>3, <2>4, <2>5, <2>6 DEF Idle, Passed, InOrder
  <2> QED
    BY <2>8, <2>9
<1> QED
  BY <1>2, <1>3

LEMMA RoundBegins ==
  ASSUME QueueShape, TurnShape, DeficitShape, RobinShape, BeginRound
  PROVE  RobinShape'
<1>1. Quiet /\ pc = "round" /\ pc' = "turn" /\ UNCHANGED <<deficit, rounds, rotation>>
      /\ turn'.classes = Backlogged /\ Rounding
  BY DEF BeginRound, Quiet, Steady, Draining, Waiting, queue, inputs, control, Rounding, TurnShape
<1>2. \A c \in WfqClass : Idle(c)'
  BY <1>1, QuietClasses DEF RobinShape, Idle, UnderWay
<1>3. ASSUME config.policy = "wfq", NEW c \in WfqClass
      PROVE  Grown(c)' /\ Passed(c)' /\ InOrder(c)'
  <2>1. Grown(c) /\ Passed(c) /\ InOrder(c)
    BY <1>1, <1>3 DEF RobinShape
  <2>2. ByClass(c) # {} => Turns(c)' = Turns(c)
    BY <1>1 DEF Turns, Backlogged, UnderWay
  <2> QED
    BY <1>1, <2>1, <2>2, ClassKept DEF UnderWay
<1> QED
  BY <1>1, <1>2, <1>3 DEF RobinShape, Quiet, Steady

LEMMA RoundsEnd ==
  ASSUME QueueShape, TurnShape, DeficitShape, RobinShape, RoundsOver
  PROVE  RobinShape'
<1>1. Quiet /\ pc = "round" /\ pc' = "close" /\ UNCHANGED <<deficit, rounds>> /\ Rounding
      /\ ~RoundUseful
  BY DEF RoundsOver, Quiet, Steady, Draining, Waiting, queue, inputs, control, Rounding, TurnShape
<1>2. \A c \in WfqClass : Idle(c)'
  BY <1>1, QuietClasses DEF RobinShape, Idle, UnderWay
<1>3. ASSUME config.policy = "wfq", NEW c \in WfqClass
      PROVE  Grown(c)' /\ Passed(c)' /\ InOrder(c)'
  <2>1. Grown(c) /\ Passed(c) /\ InOrder(c)
    BY <1>1, <1>3 DEF RobinShape
  <2>2. Turns(c)' = Turns(c)
    BY <1>1 DEF Turns
  <2> QED
    BY <1>1, <2>1, <2>2, ClassKept DEF UnderWay
<1>4. ~RoundUseful'
  BY <1>1, QuietUseful
<1> QED
  BY <1>1, <1>2, <1>3, <1>4 DEF RobinShape, Quiet, Steady

LEMMA TurnBegins ==
  ASSUME QueueShape, BudgetShape, TurnShape, DeficitShape, RobinShape, BeginTurn
  PROVE  RobinShape'
<1>1. Quiet /\ pc = "turn" /\ pc' = "serve" /\ UNCHANGED <<rounds, rotation, turn>> /\ Rounding
  BY DEF BeginTurn, Quiet, Steady, Draining, Waiting, queue, inputs, control, Rounding, TurnShape
<1>2. PICK c \in InTurn : deficit' = [deficit EXCEPT ![c] = @ + Share(c)] /\ todo' = ByClass(c)
  BY DEF BeginTurn
<1>3. /\ c \in WfqClass /\ c \in turn.classes /\ \A d \in InTurn : d = c
      /\ Share(c) \in Nat /\ Share(c) >= 11 * turn.budget
  BY <1>1, <1>2, OneInTurn, ShareFits
<1>4. InTurn' = InTurn
  BY <1>1 DEF InTurn, Place
<1>5. /\ deficit'[c] = deficit[c] + Share(c)
      /\ \A d \in WfqClass \ {c} : deficit'[d] = deficit[d]
  BY <1>2, <1>3 DEF DeficitShape
<1>6. UnderWay(c)' /\ \A d \in WfqClass \ {c} : ~UnderWay(d) /\ ~UnderWay(d)'
  BY <1>1, <1>2, <1>3, <1>4 DEF UnderWay
<1>7. \A d \in WfqClass : Idle(d)'
  BY <1>1, <1>5, <1>6, QuietClasses DEF RobinShape, Idle, UnderWay
<1>8. ASSUME config.policy = "wfq", NEW d \in WfqClass
      PROVE  Grown(d)' /\ Passed(d)' /\ InOrder(d)'
  <2>1. Grown(d) /\ Passed(d) /\ InOrder(d)
    BY <1>1, <1>8 DEF RobinShape
  <2>2. CASE d # c
    <3>1. Turns(d)' = Turns(d)
      BY <1>1, <1>6, <2>2 DEF Turns
    <3> QED
      BY <1>1, <1>5, <1>6, <2>1, <2>2, <3>1, ClassKept
  <2>3. CASE d = c
    <3>1. Turns(c) = rounds /\ Turns(c)' = rounds + 1
      BY <1>1, <1>3, <1>6 DEF Turns, UnderWay
    <3>2. ByClass(c)' = ByClass(c) /\ SentOf(c)' = SentOf(c)
      BY <1>1, QuietClasses
    <3>3. Owed(c)' = Owed(c) + 1 /\ Owed(c) \in Int
      <4>1. Cardinality(SentOf(c)) \in Nat /\ rounds \in Nat
        BY SentOfFinite DEF QueueShape, DeficitShape
      <4> QED
        BY <3>1, <3>2, <4>1 DEF Owed
    <3>4. Grown(c)'
      <4>1. SUFFICES ASSUME ByClass(c) # {}
                     PROVE  deficit'[c] >= 11 * ((Owed(c) + 1) * remaining)
        BY <1>1, <3>2, <3>3 DEF Grown, Quiet
      <4>2. deficit[c] >= 11 * (Owed(c) * remaining) /\ deficit[c] \in Nat
        BY <1>3, <2>1, <2>3, <4>1 DEF Grown, DeficitShape
      <4>3. remaining \in Nat /\ turn.budget \in Nat /\ remaining <= turn.budget
        BY <1>1 DEF DeficitShape, BudgetShape, Draining
      <4>4. deficit[c] + Share(c) >= 11 * ((Owed(c) + 1) * remaining)
        BY <1>3, <3>3, <4>2, <4>3, TurnGrowth
      <4> QED
        BY <1>5, <4>4
    <3>5. Passed(c)'
      BY <1>2, <1>6, <3>2 DEF Passed, Earliest
    <3>6. InOrder(c)'
      BY <1>1, <2>1, <2>3, <3>2, QuietEarliest DEF InOrder
    <3> QED
      BY <2>3, <3>4, <3>5, <3>6
  <2> QED
    BY <2>2, <2>3
<1>9. c \in InTurn' /\ todo' = ByClass(c)'
  BY <1>1, <1>2, <1>4, QuietClasses
<1> QED
  BY <1>1, <1>7, <1>8, <1>9 DEF RobinShape, Quiet, Steady

LEMMA TurnPasses ==
  ASSUME QueueShape, TurnShape, DeficitShape, RobinShape, PassNext
  PROVE  RobinShape'
<1>1. Quiet /\ pc = "serve" /\ pc' = "serve" /\ UNCHANGED <<deficit, rounds, rotation, turn>>
      /\ Rounding
  BY DEF PassNext, Quiet, Steady, Draining, Waiting, queue, inputs, control, wfq, Rounding,
         TurnShape
<1>2. PICK b \in Earliest(todo) :
        ~Affordable(b) /\ todo' = IF config.policy = "wfq_skip_over" THEN todo \ {b} ELSE {}
  BY DEF PassNext
<1>3. InTurn' = InTurn /\ \A d : UnderWay(d)' <=> UnderWay(d)
  BY <1>1 DEF InTurn, Place, UnderWay
<1>4. PICK c \in InTurn : todo \subseteq ByClass(c)
                          /\ (config.policy = "wfq" => todo = ByClass(c) \/ todo = {})
  BY <1>1 DEF RobinShape
<1>5. c \in WfqClass /\ \A d \in InTurn : d = c
  BY <1>4, OneInTurn
<1>6. \A d \in WfqClass : Idle(d)'
  BY <1>1, <1>3, QuietClasses DEF RobinShape, Idle
<1>7. ASSUME config.policy = "wfq", NEW d \in WfqClass
      PROVE  Grown(d)' /\ Passed(d)' /\ InOrder(d)'
  <2>1. Grown(d) /\ Passed(d) /\ InOrder(d)
    BY <1>1, <1>7 DEF RobinShape
  <2>2. Turns(d)' = Turns(d)
    BY <1>1, <1>3 DEF Turns
  <2>3. CASE d # c
    BY <1>1, <1>3, <1>5, <2>1, <2>2, <2>3, ClassKept DEF UnderWay
  <2>4. CASE d = c
    <3>1. ByClass(c)' = ByClass(c) /\ SentOf(c)' = SentOf(c)
          /\ Earliest(ByClass(c))' = Earliest(ByClass(c))
      BY <1>1, QuietClasses, QuietEarliest
    <3>2. b \in todo
      BY <1>2 DEF Earliest
    <3>3. todo = ByClass(c)
      BY <1>4, <1>7, <3>2
    <3>4. \A u \in Earliest(ByClass(c)) : u = b
      <4>1. ByClass(c) \subseteq Bundles
        BY DEF ByClass, Eligible, Waiting, QueueShape
      <4> QED
        BY <1>2, <3>3, <4>1, EarlierOnce DEF QueueShape
    <3>5. Affordable(b)' <=> Affordable(b)
      BY <1>1, QuietEarliest DEF Affordable
    <3>6. Passed(c)'
      BY <1>2, <3>1, <3>4, <3>5 DEF Passed
    <3>7. Grown(c)'
      BY <1>1, <2>1, <2>2, <2>4, <3>1 DEF Grown, Owed, Quiet
    <3>8. InOrder(c)'
      BY <1>1, <2>1, <2>4, <3>1, QuietEarliest DEF InOrder
    <3> QED
      BY <2>4, <3>6, <3>7, <3>8
  <2> QED
    BY <2>3, <2>4
<1>8. c \in InTurn' /\ todo' \subseteq ByClass(c)'
      /\ (config.policy = "wfq" => todo' = {})
  BY <1>1, <1>2, <1>3, <1>4, QuietClasses
<1> QED
  BY <1>1, <1>6, <1>7, <1>8 DEF RobinShape, Quiet, Steady

LEMMA TurnEnds ==
  ASSUME QueueShape, TurnShape, DeficitShape, RobinShape, EndTurn
  PROVE  RobinShape'
<1>1. Quiet /\ pc = "serve" /\ UNCHANGED rotation /\ Rounding /\ todo = {}
  BY DEF EndTurn, Quiet, Steady, Draining, Waiting, queue, inputs, control, Rounding, TurnShape
<1>2. PICK c \in InTurn :
        /\ deficit' = [deficit EXCEPT ![c] = AfterTurn(c)]
        /\ turn' = [turn EXCEPT !.classes = @ \ {c}]
        /\ IF turn.classes = {c}
             THEN pc' = "round" /\ rounds' = rounds + 1
             ELSE pc' = "turn" /\ UNCHANGED rounds
  BY DEF EndTurn
<1>3. c \in WfqClass /\ c \in turn.classes /\ \A d \in InTurn : d = c
  BY <1>2, OneInTurn
<1>4. turn'.classes = turn.classes \ {c}
  BY <1>2 DEF TurnShape
<1>5. /\ deficit'[c] = (IF ByClass(c) = {} THEN 0 ELSE deficit[c])
      /\ \A d \in WfqClass \ {c} : deficit'[d] = deficit[d]
  BY <1>2, <1>3 DEF DeficitShape, AfterTurn, Backlogged
<1>6. \A d : ~UnderWay(d)' /\ (UnderWay(d) <=> d = c)
  BY <1>1, <1>2, <1>3 DEF UnderWay
<1>7. \A d \in WfqClass : Idle(d)'
  BY <1>1, <1>5, <1>6, QuietClasses DEF RobinShape, Idle
<1>8. ASSUME config.policy = "wfq", NEW d \in WfqClass
      PROVE  Grown(d)' /\ Passed(d)' /\ InOrder(d)'
  <2>1. Grown(d) /\ Passed(d) /\ InOrder(d)
    BY <1>1, <1>8 DEF RobinShape
  <2>2. Turns(d)' = Turns(d)
    BY <1>1, <1>2, <1>3, <1>4, <1>6 DEF Turns
  <2>3. ByClass(d) # {} => deficit'[d] = deficit[d]
    BY <1>5
  <2> QED
    BY <1>1, <2>1, <2>2, <2>3, ClassKept
<1>9. pc' = "round" \/ pc' = "turn"
  BY <1>2
<1> QED
  BY <1>1, <1>7, <1>8, <1>9 DEF RobinShape, Quiet, Steady

LEMMA TurnSends ==
  ASSUME QueueShape, WindowShape, FateShape, BudgetShape, TurnShape, DeficitShape, RobinShape,
         SendNext
  PROVE  RobinShape'
<1>1. /\ pc = "serve" /\ pc' = "serve" /\ UNCHANGED <<rounds, rotation, turn, active>>
      /\ plan' = plan /\ config' = config /\ bundles' = bundles /\ cur' = cur
      /\ Rounding /\ bundles \in BundleLists
  BY DEF SendNext, Rounding, TurnShape, QueueShape, inputs, control
<1>2. PICK b \in Earliest(todo) :
        /\ b \in Bundles /\ Cls(b) \in WfqClass /\ Bits(b) \in Nat
        /\ 132 * Bits(b) <= deficit[Cls(b)] /\ Bits(b) <= remaining
        /\ deficit' = [deficit EXCEPT ![Cls(b)] = @ - 132 * Bits(b)]
        /\ Transmit(b) /\ todo' = todo \ {b}
  BY AffordableFits
<1>3. b \in todo /\ b \in Waiting /\ state[b] = "pending" /\ contact[b] = NoWindow
  <2>1. b \in todo /\ b \in Waiting
    BY <1>1, <1>2 DEF Earliest, QueueShape
  <2> QED
    BY <1>2, <2>1 DEF Waiting, FateShape, FatesMatchDeadlines
<1>4. /\ remaining' = remaining - Bits(b) /\ remaining \in Nat /\ remaining' \in Nat
      /\ contact' = [contact EXCEPT ![b] = cur] /\ state' = Marked({b}, "delivered")
  BY <1>1, <1>2 DEF Transmit, BudgetShape, Draining
<1>5. \A u \in Bundles : contact'[u] = IF u = b THEN cur ELSE contact[u]
  BY <1>4 DEF FateShape
<1>6. Waiting' = Waiting \ {b}
  <2>1. \A u \in Bundles : state'[u] = IF u \in {b} THEN "delivered" ELSE state[u]
    <3>1. "delivered" \in Terminal /\ \A u \in {b} : state[u] = "pending"
      BY <1>3 DEF Terminal
    <3> QED
      BY <1>2, <1>4, <3>1, MarkedOnes
  <2> QED
    BY <1>1, <1>2, <2>1 DEF Waiting, QueueShape
<1>7. cur # NoWindow
  BY <1>1 DEF WindowShape, InWindow, Draining
<1>8. PICK c \in InTurn : todo \subseteq ByClass(c)
                          /\ (config.policy = "wfq" => todo = ByClass(c) \/ todo = {})
  BY <1>1 DEF RobinShape
<1>9. c \in WfqClass /\ Cls(b) = c /\ \A d \in InTurn : d = c
  BY <1>3, <1>8, OneInTurn DEF ByClass
<1>10. InTurn' = InTurn /\ \A d : UnderWay(d)' <=> UnderWay(d)
  BY <1>1 DEF InTurn, Place, UnderWay
<1>11. \A d : UnderWay(d) <=> d = c
  BY <1>1, <1>8, <1>9 DEF UnderWay
<1>12. \A d : ByClass(d)' = ByClass(d) \ {b}
  BY <1>1, <1>6 DEF ByClass, Eligible, Cls, Ingress
<1>13. \A d : d # c => ByClass(d)' = ByClass(d)
  BY <1>9, <1>12 DEF ByClass
<1>14. /\ SentOf(c)' = SentOf(c) \cup {b} /\ b \notin SentOf(c)
       /\ \A d : d # c => SentOf(d)' = SentOf(d)
  <2>1. SentIn(cur)' = SentIn(cur) \cup {b} /\ b \notin SentIn(cur)
    BY <1>1, <1>2, <1>3, <1>5, <1>7 DEF SentIn, Bundles
  <2> QED
    BY <1>1, <1>9, <2>1 DEF SentOf, Cls
<1>15. /\ deficit'[c] = deficit[c] - 132 * Bits(b)
       /\ \A d \in WfqClass \ {c} : deficit'[d] = deficit[d]
  BY <1>2, <1>9 DEF DeficitShape
<1>16. /\ \A u, v : Earlier(u, v)' <=> Earlier(u, v)
       /\ \A u : Cls(u)' = Cls(u) /\ Bits(u)' = Bits(u)
  BY <1>1 DEF Earlier, Ingress, Cls, Bits, Size
<1>17. \A d \in WfqClass : Idle(d)'
  BY <1>1, <1>10, <1>11, <1>13, <1>15 DEF RobinShape, Idle
<1>18. ASSUME config.policy = "wfq", NEW d \in WfqClass
       PROVE  Grown(d)' /\ Passed(d)' /\ InOrder(d)'
  <2>1. Grown(d) /\ Passed(d) /\ InOrder(d)
    BY <1>1, <1>18 DEF RobinShape
  <2>2. Turns(d)' = Turns(d)
    BY <1>1, <1>10 DEF Turns
  <2>3. Owed(d) \in Int /\ Cardinality(SentOf(d)) \in Nat /\ Turns(d) \in Nat
    <3>1. Cardinality(SentOf(d)) \in Nat
      BY <1>1, SentOfFinite
    <3>2. Turns(d) \in Nat
      BY DEF Turns, DeficitShape
    <3> QED
      BY <3>1, <3>2 DEF Owed
  <2>4. CASE d # c
    <3>1. ByClass(d)' = ByClass(d) /\ SentOf(d)' = SentOf(d) /\ deficit'[d] = deficit[d]
          /\ Earliest(ByClass(d))' = Earliest(ByClass(d))
      BY <1>13, <1>14, <1>15, <1>16, <2>4 DEF Earliest
    <3>2. Owed(d)' = Owed(d)
      BY <2>2, <3>1 DEF Owed
    <3>3. Grown(d)'
      <4>1. SUFFICES ASSUME ByClass(d) # {}
                     PROVE  deficit[d] >= 11 * (Owed(d) * (remaining - Bits(b)))
        BY <1>4, <3>1, <3>2 DEF Grown
      <4>2. deficit[d] >= 11 * (Owed(d) * remaining) /\ deficit[d] \in Nat
        BY <2>1, <4>1 DEF Grown, DeficitShape
      <4> QED
        BY <1>2, <1>4, <2>3, <4>2, LessGrowth
    <3>4. \A u \in Earliest(ByClass(d)) : Affordable(u)' => Affordable(u)
      <4> TAKE u \in Earliest(ByClass(d))
      <4>1. Cls(u) = d /\ u \in Bundles
        BY DEF Earliest, ByClass, Eligible, Waiting, QueueShape
      <4>2. Bits(u) \in Nat
        BY <1>1, <4>1, BundleFields DEF Bits
      <4>3. CanSend(u)' => CanSend(u)
        BY <1>2, <1>4, <1>16, <4>2 DEF CanSend
      <4> QED
        BY <1>16, <3>1, <4>1, <4>3 DEF Affordable
    <3>5. Passed(d)'
      BY <1>10, <1>11, <2>1, <2>2, <2>4, <3>1, <3>4 DEF Passed
    <3>6. InOrder(d)'
      BY <1>16, <2>1, <3>1 DEF InOrder
    <3> QED
      BY <3>3, <3>5, <3>6
  <2>5. CASE d = c
    <3>1. todo = ByClass(c) /\ todo' = ByClass(c)'
      BY <1>2, <1>3, <1>8, <1>12, <1>18
    <3>2. Cardinality(SentOf(c)') = Cardinality(SentOf(c)) + 1
      BY <1>1, <1>14, SentOfFinite, FS_AddElement
    <3>3. Owed(c)' = Owed(c) - 12
      BY <2>2, <2>3, <2>5, <3>2 DEF Owed
    <3>4. Grown(c)'
      <4>1. deficit[c] >= 11 * (Owed(c) * remaining) /\ deficit[c] \in Nat
        BY <1>3, <1>9, <2>1, <2>5, <3>1 DEF Grown, DeficitShape
      <4>2. deficit[c] - 132 * Bits(b) >= 11 * ((Owed(c) - 12) * (remaining - Bits(b)))
        BY <1>2, <1>4, <1>9, <2>3, <2>5, <4>1, SendGrowth
      <4> QED
        BY <1>4, <1>15, <3>3, <4>2 DEF Grown
    <3>5. Passed(c)'
      BY <1>10, <1>11, <3>1 DEF Passed, Earliest
    <3>6. InOrder(c)'
      <4>1. \A u \in ByClass(c) \ {b} : Earlier(b, u)
        BY <1>2, <3>1 DEF Earliest
      <4> QED
        BY <1>12, <1>14, <1>16, <2>1, <2>5, <4>1 DEF InOrder
    <3> QED
      BY <2>5, <3>4, <3>5, <3>6
  <2> QED
    BY <2>4, <2>5
<1>19. c \in InTurn' /\ todo' \subseteq ByClass(c)'
       /\ (config.policy = "wfq" => todo' = ByClass(c)' \/ todo' = {})
  BY <1>2, <1>3, <1>8, <1>10, <1>12
<1> QED
  BY <1>1, <1>17, <1>18, <1>19 DEF RobinShape

LEMMA RobinStarts == Starting => RobinShape
BY DEF Starting, RobinShape, Rounding

LEMMA RobinStep ==
  QueueShape /\ WindowShape /\ FateShape /\ BudgetShape /\ TurnShape /\ DrainShape
    /\ DeficitShape /\ RobinShape /\ [Next]_vars => RobinShape'
<1> SUFFICES ASSUME QueueShape, WindowShape, FateShape, BudgetShape, TurnShape, DrainShape,
                    DeficitShape, RobinShape, [Next]_vars
             PROVE  RobinShape'
  OBVIOUS
<1>1. CASE DrainOver
  BY <1>1, RobinBegins
<1>2. CASE BeginRound
  BY <1>2, RoundBegins
<1>3. CASE BeginTurn
  BY <1>3, TurnBegins
<1>4. CASE SendNext
  BY <1>4, TurnSends
<1>5. CASE PassNext
  BY <1>5, TurnPasses
<1>6. CASE EndTurn
  BY <1>6, TurnEnds
<1>7. CASE RoundsOver
  BY <1>7, RoundsEnd
<1>8. CASE AdmitOne \/ BeginEviction \/ EvictOne \/ OverflowOne \/ AdmissionOver \/ Expire
           \/ CloseWindow \/ WriteOff \/ BeginDrain \/ SendForemost \/ DeferForemost
  <2>1. ~Rounding'
    BY <1>8 DEF AdmitOne, BeginEviction, EvictOne, OverflowOne, AdmissionOver, Expire,
       CloseWindow, WriteOff, BeginDrain, SendForemost, DeferForemost, Rounding
  <2> QED
    BY <2>1 DEF RobinShape
<1>9. CASE UNCHANGED vars
  <2>1. CASE ~Rounding
    BY <1>9, <2>1 DEF vars, inputs, RobinShape, Rounding
  <2>2. CASE Rounding
    <3>1. Quiet /\ UNCHANGED <<pc, config, deficit, rounds, rotation, turn, todo>>
      BY <1>9, <2>2 DEF vars, inputs, queue, wfq, control, Waiting, Steady, Quiet, Rounding,
                        Draining
    <3>2. InTurn' = InTurn /\ \A d : UnderWay(d)' <=> UnderWay(d)
      BY <3>1 DEF InTurn, Place, UnderWay
    <3>3. \A d : Turns(d)' = Turns(d)
      BY <3>1, <3>2 DEF Turns
    <3>4. config.policy = "wfq" => \A d \in WfqClass : (Grown(d) /\ Passed(d) /\ InOrder(d))'
      <4> SUFFICES ASSUME config.policy = "wfq", NEW d \in WfqClass
                   PROVE  Grown(d)' /\ Passed(d)' /\ InOrder(d)'
        OBVIOUS
      <4>1. Grown(d) /\ Passed(d) /\ InOrder(d)
        BY <2>2 DEF RobinShape
      <4> QED
        BY <3>1, <3>2, <3>3, <4>1, ClassKept
    <3>5. \A d \in WfqClass : Idle(d)'
      BY <2>2, <3>1, <3>2, QuietClasses DEF RobinShape, Idle
    <3>6. RoundUseful' <=> RoundUseful
      BY <3>1, QuietUseful
    <3> QED
      BY <2>2, <3>1, <3>2, <3>4, <3>5, <3>6, QuietClasses DEF RobinShape
  <2> QED
    BY <2>1, <2>2
<1> QED
  BY <1>1, <1>2, <1>3, <1>4, <1>5, <1>6, <1>7, <1>8, <1>9
     DEF Next, Run, Admission, Drain, RoundRobin, Done

-----------------------------------------------------------------------------
LEMMA RobinShapeInvariant == Spec => [](DeficitShape /\ RobinShape)
<1>1. Starting => DeficitShape /\ RobinShape
  BY DeficitStarts, RobinStarts
<1>2. QueueShape /\ WindowShape /\ FateShape /\ BudgetShape /\ TurnShape /\ DrainShape
        /\ (DeficitShape /\ RobinShape) /\ [Next]_vars => (DeficitShape /\ RobinShape)'
  BY DeficitStep, RobinStep
<1>3. Spec => []DrainShape
  BY InitStarts, DrainStarts, DrainStep, QueueShapeInvariant, WindowShapeInvariant, FateShapeInvariant,
     BudgetShapeInvariant, TurnShapeInvariant, PTL DEF Spec
<1> QED
  BY InitStarts, <1>1, <1>2, <1>3, QueueShapeInvariant, WindowShapeInvariant,
     FateShapeInvariant, BudgetShapeInvariant, TurnShapeInvariant, PTL DEF Spec

(* The bound on the rounds of a window is out of reach when it is twelve   *)
(* times the bundles of each class: with the code's 10000, of workloads    *)
(* with up to 833 bundles of a class (scheduler.py:649).               *)
RoundsSuffice ==
  \A c \in WfqClass : 12 * Cardinality({b \in Bundles : Cls(b) = c}) <= MaxRounds

LEMMA HeadTooBig ==
  ASSUME QueueShape, WindowShape, FateShape, BudgetShape, DeficitShape, RobinShape, RoundsSuffice,
         pc = "close", config.policy = "wfq",
         NEW c \in WfqClass, NEW u \in Earliest(ByClass(c))
  PROVE  ~CanSend(u)
<1> SUFFICES ASSUME CanSend(u) PROVE FALSE
  OBVIOUS
<1>1. u \in ByClass(c) /\ u \in Bundles /\ Cls(u) = c /\ state[u] = "pending"
      /\ bundles \in BundleLists
  BY DEF Earliest, ByClass, Eligible, Waiting, QueueShape
<1>2. Bits(u) \in Nat /\ Bits(u) > 0 /\ Bits(u) <= remaining /\ remaining \in Nat
  BY <1>1, BundleFields DEF Bits, CanSend, BudgetShape, Draining
<1>3. Rounding /\ Grown(c) /\ Passed(c) /\ ~RoundUseful
  BY DEF Rounding, RobinShape, Wfq
<1>4. rounds > MaxRounds /\ rounds \in Nat /\ MaxRounds \in Nat
  <2>1. SomeHeadFits
    BY DEF SomeHeadFits
  <2>2. rounds \in Nat /\ MaxRounds \in Nat
    BY SchedulerAssumption DEF DeficitShape
  <2> QED
    BY <1>2, <1>3, <2>1, <2>2 DEF RoundUseful
<1>5. Turns(c) = rounds /\ ~UnderWay(c)
  BY DEF Turns, UnderWay
<1>6. deficit[c] < 132 * Bits(u) /\ deficit[c] \in Nat
  <2>1. ~Affordable(u)
    BY <1>3, <1>4, <1>5 DEF Passed
  <2>2. deficit[c] \in Nat
    BY DEF DeficitShape
  <2> QED
    BY <1>1, <1>2, <2>1, <2>2, WfqParts DEF Affordable
<1>7. Owed(c) \in Int /\ Owed(c) >= 12
  <2> DEFINE all == {b \in Bundles : Cls(b) = c}
  <2>1. IsFiniteSet(SentOf(c)) /\ Cardinality(SentOf(c)) \in Nat
    BY <1>1, SentOfFinite
  <2>2. IsFiniteSet(all)
    <3>1. Bundles = 1..Len(bundles) /\ Len(bundles) \in Int
      BY <1>1, SchedulerAssumption DEF Bundles, BundleLists
    <3> QED
      BY <3>1, FS_Interval, FS_Subset
  <2>3. u \notin SentOf(c) /\ SentOf(c) \cup {u} \subseteq all
    <3>1. contact[u] = NoWindow /\ cur # NoWindow
      BY <1>1 DEF FateShape, FatesMatchDeadlines, WindowShape, InWindow, Draining
    <3> QED
      BY <1>1, <3>1 DEF SentOf, SentIn
  <2>4. Cardinality(SentOf(c) \cup {u}) = Cardinality(SentOf(c)) + 1
    BY <2>1, <2>3, FS_AddElement
  <2>5. Cardinality(SentOf(c) \cup {u}) <= Cardinality(all)
    BY <2>2, <2>3, FS_Subset
  <2>6. Cardinality(all) \in Nat /\ 12 * Cardinality(all) <= MaxRounds
    BY <2>2, FS_CardinalityType DEF RoundsSuffice
  <2> QED
    BY <1>4, <1>5, <2>1, <2>4, <2>5, <2>6 DEF Owed
<1>8. deficit[c] >= 11 * (Owed(c) * remaining)
  BY <1>1, <1>3 DEF Grown
<1>9. Owed(c) * remaining >= 12 * remaining /\ Owed(c) * remaining \in Int
  <2>1. PICK m \in Nat : Owed(c) = 12 + m
    <3>1. Owed(c) - 12 \in Nat /\ Owed(c) = 12 + (Owed(c) - 12)
      BY <1>7
    <3> QED
      BY <3>1
  <2>2. (12 + m) * remaining = 12 * remaining + m * remaining /\ m * remaining \in Nat
    BY <1>2, <2>1
  <2> QED
    BY <1>2, <2>1, <2>2
<1> QED
  BY <1>2, <1>6, <1>8, <1>9

LEMMA HeadsFollow ==
  QueueShape /\ WindowShape /\ FateShape /\ BudgetShape /\ (DeficitShape /\ RobinShape)
    => (RoundsSuffice => HeadsServed)
<1> SUFFICES ASSUME QueueShape, WindowShape, FateShape, BudgetShape, DeficitShape, RobinShape,
                    RoundsSuffice, pc = "close", config.policy \in Wfq, NEW c \in WfqClass
             PROVE  /\ ByClass(c) = {} => deficit[c] = 0
                    /\ config.policy = "wfq" =>
                         /\ \A u \in Earliest(ByClass(c)) : ~CanSend(u)
                         /\ \A u \in ByClass(c), v \in SentIn(cur) : Cls(v) = c => Earlier(v, u)
  BY DEF HeadsServed
<1>1. Rounding /\ ~UnderWay(c)
  BY DEF Rounding, UnderWay
<1>2. ByClass(c) = {} => deficit[c] = 0
  BY <1>1 DEF RobinShape, Idle
<1>3. ASSUME config.policy = "wfq"
      PROVE  \A u \in ByClass(c), v \in SentIn(cur) : Cls(v) = c => Earlier(v, u)
  BY <1>1, <1>3 DEF RobinShape, InOrder, SentOf
<1> QED
  BY <1>2, <1>3, HeadTooBig

(* For every plan, workload, policy, admission rule and cap: while the     *)
(* bound on the rounds is out of reach, DRR stops only when no head fits,  *)
(* serves each class in order, and leaves no deficit to an idle class      *)
(* (scheduler.py:575-651).                                                 *)
THEOREM HeadsServedInvariant == Spec => [](RoundsSuffice => HeadsServed)
  BY HeadsFollow, QueueShapeInvariant, WindowShapeInvariant, FateShapeInvariant,
     BudgetShapeInvariant, RobinShapeInvariant, PTL
-----------------------------------------------------------------------------
(* A pending bundle has still to arrive or is queued, and none is pending  *)
(* when run() returns.                                                     *)
HomeShape ==
  /\ \A b \in Bundles : state[b] = "pending" => b \in arrivals \cup active
  /\ pc \in {"expire", "leftover", "done"} /\ cur = NoWindow => arrivals = {}
  /\ pc \in {"leftover", "done"} => cur = NoWindow
  /\ pc = "done" => \A b \in Bundles : state[b] \in Terminal

LEMMA HomeStarts == Starting => HomeShape
BY DEF Starting, HomeShape, Bundles

LEMMA HomeStep == QueueShape /\ WindowShape /\ HomeShape /\ [Next]_vars => HomeShape'
<1> SUFFICES ASSUME QueueShape, WindowShape, HomeShape, [Next]_vars PROVE HomeShape'
  OBVIOUS
<1>1. bundles' = bundles /\ Bundles' = Bundles
  BY ConfigKept DEF Bundles
<1>2. CASE AdmitOne \/ BeginEviction \/ AdmissionOver \/ BeginDrain \/ DeferForemost
           \/ DrainOver \/ BeginRound \/ BeginTurn \/ PassNext \/ EndTurn \/ RoundsOver
           \/ Done \/ UNCHANGED vars
  BY <1>1, <1>2
     DEF AdmitOne, Admit, BeginEviction, AdmissionOver, BeginDrain, DeferForemost, DrainOver,
         BeginRound, BeginTurn, PassNext, EndTurn, RoundsOver, Done, vars, queue, control,
         HomeShape, Ready, WindowShape
<1>3. CASE OverflowOne
  <2>1. PICK b \in Offered :
          arrivals' = arrivals \ {b} /\ state' = Marked({b}, "queue_overflow") /\ pc' = "admit"
          /\ active' = active
    BY <1>3 DEF OverflowOne
  <2>2. b \in Bundles /\ state[b] = "pending"
    BY <2>1, OfferedArrives
  <2>3. \A u \in Bundles : state'[u] = IF u \in {b} THEN "queue_overflow" ELSE state[u]
    BY <2>1, <2>2, MarkedOnes DEF Terminal
  <2> QED
    BY <1>1, <2>1, <2>3 DEF HomeShape
<1>4. CASE EvictOne
  <2>1. PICK v \in Victim(incoming) :
          active' = active \ {v} /\ state' = Marked({v}, "queue_overflow")
    BY <1>4 DEF EvictOne
  <2>2. pc = "evict" /\ pc' = pc /\ arrivals' = arrivals
    BY <1>4 DEF EvictOne
  <2>3. v \in Bundles /\ state[v] = "pending"
    BY <2>1, <2>2 DEF Victim, Candidates, QueueShape, Lasting
  <2>4. \A u \in Bundles : state'[u] = IF u \in {v} THEN "queue_overflow" ELSE state[u]
    BY <2>1, <2>3, MarkedOnes DEF Terminal
  <2> QED
    BY <1>1, <2>1, <2>2, <2>4 DEF HomeShape
<1>5. CASE Expire
  <2>1. /\ pc = "expire" /\ state' = Marked(Dead, "ttl_expired") /\ active' = active \ Dead
        /\ arrivals' = arrivals /\ cur' = cur
        /\ pc' = IF cur = NoWindow THEN "leftover" ELSE "begin"
    BY <1>5 DEF Expire, control
  <2>2. \A b \in Dead : state[b] = "pending"
    BY DEF Dead, Waiting
  <2>3. \A u \in Bundles : state'[u] = IF u \in Dead THEN "ttl_expired" ELSE state[u]
    BY <2>1, <2>2, MarkedOnes DEF Terminal
  <2> QED
    BY <1>1, <2>1, <2>3 DEF HomeShape
<1>6. CASE SendForemost \/ SendNext
  <2>1. \E b : state' = Marked({b}, "delivered") /\ b \in todo
    BY <1>6 DEF SendForemost, SendNext, Transmit, Foremost, Earliest
  <2>2. /\ pc \in {"drain", "serve"} /\ pc' = pc /\ arrivals' = arrivals /\ active' = active
    BY <1>6 DEF SendForemost, SendNext
  <2>3. PICK b \in todo : state' = Marked({b}, "delivered")
    BY <2>1
  <2>4. b \in Bundles /\ state[b] = "pending"
    BY <2>2 DEF QueueShape, Waiting
  <2>5. \A u \in Bundles : state'[u] = IF u \in {b} THEN "delivered" ELSE state[u]
    BY <2>3, <2>4, MarkedOnes DEF Terminal
  <2> QED
    BY <1>1, <2>2, <2>5 DEF HomeShape
<1>7. CASE CloseWindow
  BY <1>1, <1>7 DEF CloseWindow, HomeShape, Waiting
<1>8. CASE WriteOff
  <2>1. /\ pc = "leftover" /\ pc' = "done" /\ state' = Marked(Waiting, "never_scheduled")
        /\ active' = {} /\ arrivals' = arrivals /\ cur' = cur
    BY <1>8 DEF WriteOff, control
  <2>2. \A b \in Waiting : state[b] = "pending"
    BY DEF Waiting
  <2>3. \A u \in Bundles : state'[u] = IF u \in Waiting THEN "never_scheduled" ELSE state[u]
    BY <2>1, <2>2, MarkedOnes DEF Terminal
  <2>4. \A u \in Bundles : state[u] = "pending" => u \in Waiting
    BY <2>1 DEF HomeShape, Waiting
  <2>5. \A u \in Bundles : state'[u] \in Terminal
    BY <2>3, <2>4 DEF QueueShape, Terminal
  <2>6. \A u \in Bundles : state'[u] # "pending"
    BY <2>5 DEF Terminal
  <2> QED
    BY <1>1, <2>1, <2>5, <2>6 DEF HomeShape
<1> QED
  BY <1>2, <1>3, <1>4, <1>5, <1>6, <1>7, <1>8 DEF Next, Run, Admission, Drain, RoundRobin

-----------------------------------------------------------------------------
(* Emergencies, where they are sent first and admission is aware of        *)
(* priorities.  What becomes of one depends on those that came before it   *)
(* only: over a list l of bundles, with fates f and windows s, it is       *)
(* refused if they fill the buffer at its admission, and goes in the first *)
(* window with room beside them.                                           *)
UrgentRun == config.policy \in {"strict_priority"} \cup Wfq /\ PriorityAware

Urgent(l) == {b \in DOMAIN l : l[b].cls = "emergency"}
Sooner(l, a, b) == l[a].ingress < l[b].ingress \/ (l[a].ingress = l[b].ingress /\ a < b)
Weight(l, S) == Cardinality({x \in S \X (1..MaxSize) : x[2] <= l[x[1]].size})
Dies(l, b) == l[b].ingress + l[b].ttl

(* The walk is at window cur, or behind the last one.                      *)
Places == 1..(Len(plan) + 1)
Pos == IF cur = NoWindow THEN Len(plan) + 1 ELSE cur

(* At the admission before window w: is b decided, does b arrive, which of *)
(* the earlier ones are queued, and do they leave no room for b?           *)
Gone(l, f, s, b, w) ==
  \/ f[b] = "queue_overflow"
  \/ s[b] # NoWindow /\ s[b] < w
  \/ w > 1 /\ l[b].ingress <= plan[w - 1].end /\ Dies(l, b) <= plan[w - 1].start
ComesAt(l, b, w) ==
  /\ w \in DOMAIN plan => l[b].ingress <= plan[w].end
  /\ w > 1 => l[b].ingress > plan[w - 1].end
Holding(l, f, s, b, w) == {a \in Urgent(l) : Sooner(l, a, b) /\ ~Gone(l, f, s, a, w)}
NoRoom(l, f, s, b, w) == Weight(l, Holding(l, f, s, b, w)) + l[b].size > MaxQueueBytes

(* May b go in window w, beside the earlier ones that go in it?            *)
SentBefore(l, s, b, w) == {a \in Urgent(l) : s[a] = w /\ Sooner(l, a, b)}
MayGo(l, s, b, w) ==
  /\ l[b].ingress < plan[w].end /\ Dies(l, b) > plan[w].start
  /\ 8 * (Weight(l, SentBefore(l, s, b, w)) + l[b].size) <= Budget(plan[w])

(* Bundles are offered in order; those to come are behind the windows done.*)
ArrivalShape ==
  /\ \A a \in Bundles \ arrivals, r \in arrivals : Earlier(a, r)
  /\ \A r \in arrivals, w \in DOMAIN plan :
       w < Pos \/ (w = cur /\ pc \notin {"admit", "evict"}) => Ingress(r) > plan[w].end
  /\ \A a \in Bundles \ arrivals : cur # NoWindow => Ingress(a) <= plan[cur].end
  /\ pc = "evict" => incoming \in Earliest(Ready)

RefusedRight(b) ==
  b \notin arrivals =>
    \A w \in Places : ComesAt(bundles, b, w) =>
      (state[b] = "queue_overflow" <=> NoRoom(bundles, state, contact, b, w))
PendingRight(b) ==
  /\ pc \in {"admit", "evict", "expire"} /\ b \notin arrivals =>
       (state[b] = "pending" <=> ~Gone(bundles, state, contact, b, Pos))
  /\ InWindow /\ b \notin arrivals =>
       (state[b] = "pending" <=> /\ ~Gone(bundles, state, contact, b, cur)
                                 /\ Dies(bundles, b) > plan[cur].start /\ contact[b] # cur)
PassedRight(b) ==
  \A w \in DOMAIN plan :
    w < Pos /\ state[b] # "queue_overflow" /\ contact[b] \notin 1..w
      => ~MayGo(bundles, contact, b, w)
UrgentShape ==
  UrgentRun =>
    \A b \in Urgent(bundles) : RefusedRight(b) /\ PendingRight(b) /\ PassedRight(b)

-----------------------------------------------------------------------------
LEMMA PosParts ==
  ASSUME WindowShape
  PROVE  /\ Len(plan) \in Nat /\ DOMAIN plan = 1..Len(plan) /\ Pos \in Places /\ Pos \in Int
         /\ cur # NoWindow => cur \in DOMAIN plan /\ Pos = cur
         /\ \A w \in DOMAIN plan : w \in Int /\ plan[w].start \in Int /\ plan[w].end \in Int
                                   /\ plan[w].start < plan[w].end
         /\ \A v, w \in DOMAIN plan : v < w => plan[v].end <= plan[w].start
<1>1. plan \in Plan /\ cur \in DOMAIN plan \cup {NoWindow}
  BY DEF WindowShape
<1>2. Len(plan) \in Nat /\ DOMAIN plan = 1..Len(plan)
  BY <1>1, PlanParts
<1>3. \A w \in DOMAIN plan : plan[w].start \in Int /\ plan[w].end \in Int
                             /\ plan[w].start < plan[w].end
  BY <1>1, PlanParts
<1>4. \A v, w \in DOMAIN plan : v < w => plan[v].end <= plan[w].start
  BY <1>1, <1>2, PlanDisjoint
<1> QED
  BY <1>1, <1>2, <1>3, <1>4 DEF Pos, Places, NoWindow

(* Closing a window moves the walk on by one.                              *)
LEMMA PosMoves ==
  ASSUME WindowShape, CloseWindow
  PROVE  /\ plan' = plan /\ cur \in DOMAIN plan /\ cur # NoWindow
         /\ Pos' = cur + 1 /\ (cur' # NoWindow => cur' = cur + 1 /\ cur' \in DOMAIN plan)
<1>1. /\ pc = "close" /\ plan' = plan /\ cur' = NextAfter(plan, plan[cur].end)
      /\ cur \in DOMAIN plan /\ cur # NoWindow /\ plan \in Plan
  BY DEF CloseWindow, inputs, WindowShape, InWindow, Draining
<1>2. cur' = IF cur < Len(plan) THEN cur + 1 ELSE NoWindow
  BY <1>1, GoesToNext
<1>3. Len(plan) \in Nat /\ DOMAIN plan = 1..Len(plan)
  BY PosParts
<1> QED
  BY <1>1, <1>2, <1>3 DEF Pos, NoWindow

LEMMA PosStarts == Starting => Pos = 1
<1> SUFFICES ASSUME Starting PROVE Pos = 1
  OBVIOUS
<1>1. plan \in Plan /\ cur = FirstWindow(plan)
  BY DEF Starting
<1>2. cur = IF plan = <<>> THEN NoWindow ELSE 1
  BY <1>1, WalkFirst
<1> QED
  BY <1>2 DEF Pos, NoWindow

-----------------------------------------------------------------------------
LEMMA ArrivalStarts == Starting => ArrivalShape
<1> SUFFICES ASSUME Starting PROVE ArrivalShape
  OBVIOUS
<1>1. arrivals = Bundles /\ pc = "admit" /\ Pos = 1
  BY PosStarts DEF Starting, Bundles
<1>2. DOMAIN plan = 1..Len(plan) /\ Len(plan) \in Nat
  BY PlanParts DEF Starting
<1> QED
  BY <1>1, <1>2 DEF ArrivalShape

LEMMA OfferedFirst ==
  ASSUME QueueShape, ArrivalShape, NEW b \in Offered
  PROVE  b \in Earliest(Ready) /\ b \in Ready
<1>1. CASE pc = "admit"
  BY <1>1 DEF Offered, Earliest
<1>2. CASE pc = "evict"
  BY <1>2 DEF Offered, ArrivalShape, Earliest
<1> QED
  BY <1>1, <1>2 DEF Offered

(* One arrival fewer: admitted or refused.                                 *)
LEMMA OneArrives ==
  ASSUME QueueShape, WindowShape, ArrivalShape, NEW b \in Offered,
         arrivals' = arrivals \ {b}, pc' = "admit", bundles' = bundles, plan' = plan, cur' = cur
  PROVE  ArrivalShape'
<1>1. b \in arrivals /\ b \in Bundles /\ (cur # NoWindow => Ingress(b) <= plan[cur].end)
      /\ \A r \in Ready \ {b} : Earlier(b, r)
  BY OfferedFirst, OfferedArrives DEF Ready, Earliest
<1>2. Bundles' = Bundles /\ Pos' = Pos /\ \A u : Ingress(u)' = Ingress(u)
      /\ arrivals \subseteq Bundles /\ bundles \in BundleLists
  BY DEF Bundles, Pos, Ingress, QueueShape
<1>3. \A a, r : Earlier(a, r)' <=> Earlier(a, r)
  BY <1>2 DEF Earlier
<1>4. \A r \in arrivals \ {b} : Earlier(b, r)
  <2> TAKE r \in arrivals \ {b}
  <2>1. CASE r \in Ready
    BY <1>1, <2>1
  <2>2. CASE r \notin Ready
    <3>1. cur # NoWindow /\ ~(Ingress(r) <= plan[cur].end)
      BY <2>2 DEF Ready
    <3>2. Ingress(r) \in Int /\ Ingress(b) \in Int /\ plan[cur].end \in Int
      BY <1>1, <1>2, <3>1, PosParts, BundleTimes
    <3> QED
      BY <1>1, <3>1, <3>2 DEF Earlier
  <2> QED
    BY <2>1, <2>2
<1> QED
  BY <1>1, <1>2, <1>3, <1>4 DEF ArrivalShape

LEMMA ArrivalStep == QueueShape /\ WindowShape /\ ArrivalShape /\ [Next]_vars => ArrivalShape'
<1> SUFFICES ASSUME QueueShape, WindowShape, ArrivalShape, [Next]_vars PROVE ArrivalShape'
  OBVIOUS
<1>1. /\ bundles' = bundles /\ Bundles' = Bundles /\ plan' = plan
      /\ \A u : Ingress(u)' = Ingress(u)
      /\ \A a, r : Earlier(a, r)' <=> Earlier(a, r)
  BY ConfigKept, WalkKept DEF Bundles, Ingress, Earlier
<1>2. CASE AdmitOne
  <2>1. PICK b \in Offered : arrivals' = arrivals \ {b} /\ pc' = "admit" /\ cur' = cur
    BY <1>2 DEF AdmitOne, Admit
  <2> QED
    BY <1>1, <2>1, OneArrives
<1>3. CASE OverflowOne
  <2>1. PICK b \in Offered : arrivals' = arrivals \ {b} /\ pc' = "admit" /\ cur' = cur
    BY <1>3 DEF OverflowOne
  <2> QED
    BY <1>1, <2>1, OneArrives
<1>4. CASE BeginEviction
  <2>1. /\ arrivals' = arrivals /\ cur' = cur /\ pc' = "evict" /\ pc = "admit"
        /\ incoming' \in Earliest(Ready)
    BY <1>4 DEF BeginEviction, queue, Offered
  <2>2. Ready' = Ready /\ Pos' = Pos
    BY <1>1, <2>1 DEF Ready, Pos
  <2>3. Earliest(Ready)' = Earliest(Ready)
    BY <1>1, <2>2 DEF Earliest
  <2> QED
    BY <1>1, <2>1, <2>2, <2>3 DEF ArrivalShape
<1>5. CASE EvictOne
  <2>1. /\ arrivals' = arrivals /\ cur' = cur /\ pc' = "evict" /\ pc = "evict"
        /\ incoming' = incoming
    BY <1>5 DEF EvictOne, control
  <2>2. Ready' = Ready /\ Pos' = Pos
    BY <1>1, <2>1 DEF Ready, Pos
  <2>3. Earliest(Ready)' = Earliest(Ready)
    BY <1>1, <2>2 DEF Earliest
  <2> QED
    BY <1>1, <2>1, <2>2, <2>3 DEF ArrivalShape
<1>6. CASE AdmissionOver
  <2>1. /\ arrivals' = arrivals /\ cur' = cur /\ pc' \notin {"admit", "evict"} /\ Ready = {}
    BY <1>6 DEF AdmissionOver, queue, control
  <2>2. \A r \in arrivals : cur # NoWindow => Ingress(r) > plan[cur].end
    <3> TAKE r \in arrivals
    <3>1. cur # NoWindow => ~(Ingress(r) <= plan[cur].end)
      BY <2>1 DEF Ready
    <3>2. Ingress(r) \in Int /\ (cur # NoWindow => plan[cur].end \in Int)
      BY BundleTimes, PosParts DEF QueueShape
    <3> QED
      BY <3>1, <3>2
  <2>3. \A w \in DOMAIN plan : w # NoWindow
    BY PosParts DEF NoWindow
  <2>4. Pos' = Pos
    BY <1>1, <2>1 DEF Pos
  <2> QED
    BY <1>1, <2>1, <2>2, <2>3, <2>4 DEF ArrivalShape
<1>7. CASE CloseWindow
  <2>1. /\ arrivals' = arrivals /\ pc = "close" /\ pc' = "admit"
    BY <1>7 DEF CloseWindow
  <2>2. /\ cur \in DOMAIN plan /\ cur # NoWindow
        /\ Pos' = cur + 1 /\ (cur' # NoWindow => cur' = cur + 1 /\ cur' \in DOMAIN plan)
    BY <1>7, PosMoves
  <2>3. \A w \in DOMAIN plan : w < Pos' => w < Pos \/ w = cur
    BY <2>2, PosParts
  <2>4. \A r \in arrivals, w \in DOMAIN plan : w < Pos' => Ingress(r) > plan[w].end
    BY <2>1, <2>3 DEF ArrivalShape
  <2>5. \A a \in Bundles \ arrivals : cur' # NoWindow => Ingress(a) <= plan[cur'].end
    <3> SUFFICES ASSUME NEW a \in Bundles \ arrivals, cur' # NoWindow
                 PROVE  Ingress(a) <= plan[cur'].end
      OBVIOUS
    <3>1. Ingress(a) <= plan[cur].end /\ Ingress(a) \in Int
      BY <2>2, BundleTimes DEF ArrivalShape, QueueShape
    <3>2. plan[cur].end <= plan[cur'].start /\ plan[cur'].start < plan[cur'].end
          /\ plan[cur].end \in Int /\ plan[cur'].start \in Int /\ plan[cur'].end \in Int
      BY <2>2, PosParts
    <3> QED
      BY <3>1, <3>2
  <2>6. \A w \in DOMAIN plan : ~(w = cur' /\ pc' \notin {"admit", "evict"})
    BY <2>1
  <2> QED
    BY <1>1, <2>1, <2>4, <2>5, <2>6 DEF ArrivalShape
<1>8. CASE Expire \/ BeginDrain \/ SendForemost \/ DeferForemost \/ DrainOver \/ BeginRound
           \/ BeginTurn \/ SendNext \/ PassNext \/ EndTurn \/ RoundsOver \/ WriteOff
           \/ Done \/ UNCHANGED vars
  <2>1. /\ arrivals' = arrivals /\ cur' = cur
        /\ pc' \in {"admit", "evict"} <=> pc \in {"admit", "evict"}
        /\ pc' = "evict" => pc = "evict" /\ incoming' = incoming
    BY <1>8 DEF Expire, BeginDrain, SendForemost, DeferForemost, DrainOver, BeginRound,
         BeginTurn, SendNext, PassNext, EndTurn, RoundsOver, WriteOff, Done, vars, queue, control
  <2>2. Ready' = Ready /\ Pos' = Pos
    BY <1>1, <2>1 DEF Ready, Pos
  <2>3. Earliest(Ready)' = Earliest(Ready)
    BY <1>1, <2>2 DEF Earliest
  <2> QED
    BY <1>1, <2>1, <2>2, <2>3 DEF ArrivalShape
<1> QED
  BY <1>2, <1>3, <1>4, <1>5, <1>6, <1>7, <1>8 DEF Next, Run, Admission, Drain, RoundRobin

-----------------------------------------------------------------------------
(* The list of a run in its own terms.                                     *)
LEMMA ListTerms ==
  /\ Urgent(bundles) = {b \in Bundles : Cls(b) = "emergency"}
  /\ \A a, b : Sooner(bundles, a, b) <=> Earlier(a, b)
  /\ \A S : Weight(bundles, S) = Bytes(S)
  /\ \A b : Dies(bundles, b) = Expiration(b)
BY DEF Urgent, Bundles, Cls, Sooner, Earlier, Ingress, Weight, Bytes, Cells, Size, Dies,
       Expiration

LEMMA UrgentNumbers ==
  ASSUME QueueShape, WindowShape, FateShape, NEW b \in Urgent(bundles)
  PROVE  /\ b \in Bundles /\ b \in Int
         /\ bundles[b].ingress \in Int /\ Dies(bundles, b) \in Int /\ bundles[b].size \in Nat
         /\ contact[b] \in DOMAIN plan \cup {NoWindow} /\ contact[b] \in Int
         /\ bundles[b].ingress = Ingress(b) /\ bundles[b].size = Size(b)
<1>1. b \in Bundles /\ bundles \in Seq(BundleIn)
  BY DEF Urgent, Bundles, QueueShape, BundleLists
<1>2. bundles[b] \in BundleIn /\ b \in Int
  BY <1>1 DEF Bundles
<1>3. contact[b] \in DOMAIN plan \cup {NoWindow}
  BY <1>1 DEF FateShape
<1>4. contact[b] \in Int
  BY <1>3, PosParts DEF NoWindow
<1> QED
  BY <1>1, <1>2, <1>3, <1>4 DEF BundleIn, Dies, Ingress, Size

(* Who came before window w is behind its admission.                       *)
LEMMA CameBy ==
  ASSUME QueueShape, WindowShape, FateShape, ArrivalShape, NEW b \in Urgent(bundles),
         b \notin arrivals, NEW w \in Places, ComesAt(bundles, b, w)
  PROVE  w <= Pos
<1>1. CASE cur = NoWindow
  BY <1>1, PosParts DEF Pos, Places
<1>2. CASE cur # NoWindow
  <2>1. bundles[b].ingress <= plan[cur].end /\ bundles[b].ingress \in Int
    BY <1>2, UrgentNumbers DEF ArrivalShape
  <2>2. SUFFICES ASSUME w > cur PROVE FALSE
    BY <1>2, PosParts DEF Places
  <2>3. w - 1 \in DOMAIN plan /\ w > 1 /\ w - 1 >= cur /\ cur \in DOMAIN plan
    BY <1>2, <2>2, PosParts DEF Places
  <2>4. bundles[b].ingress > plan[w - 1].end
    BY <2>3 DEF ComesAt
  <2>5. plan[w - 1].end >= plan[cur].end /\ plan[w - 1].end \in Int /\ plan[cur].end \in Int
    <3>1. PICK v \in DOMAIN plan : v = w - 1
      BY <2>3
    <3>2. v = cur \/ (v > cur /\ v \in Int /\ cur \in Int)
      BY <2>3, <3>1, PosParts
    <3>3. v > cur => plan[cur].end <= plan[v].start
      BY <2>3, PosParts
    <3>4. plan[v].start < plan[v].end /\ plan[v].start \in Int /\ plan[v].end \in Int
          /\ plan[cur].end \in Int
      BY <2>3, PosParts
    <3> QED
      BY <3>1, <3>2, <3>3, <3>4
  <2> QED
    BY <2>1, <2>4, <2>5
<1> QED
  BY <1>1, <1>2

(* What is past stays as it is while only bundles go in window cur.        *)
OnlyNow ==
  /\ bundles' = bundles /\ plan' = plan /\ config' = config
  /\ \A a \in Urgent(bundles) :
       /\ a \notin arrivals => (state'[a] = "queue_overflow" <=> state[a] = "queue_overflow")
       /\ contact'[a] = contact[a] \/ (contact[a] = NoWindow /\ contact'[a] = Pos)

LEMMA SoonerCame ==
  ASSUME QueueShape, WindowShape, FateShape, ArrivalShape,
         NEW a \in Urgent(bundles), NEW b \in Urgent(bundles), b \notin arrivals,
         Sooner(bundles, a, b)
  PROVE  a \notin arrivals
<1>1. ~Sooner(bundles, b, a)
  BY UrgentNumbers DEF Sooner
<1>2. a \in arrivals => Earlier(b, a)
  BY UrgentNumbers DEF ArrivalShape
<1> QED
  BY <1>1, <1>2, ListTerms

LEMMA PastKept ==
  ASSUME QueueShape, WindowShape, FateShape, ArrivalShape, OnlyNow,
         NEW a \in Urgent(bundles), a \notin arrivals, NEW w \in Places, w <= Pos
  PROVE  /\ Gone(bundles, state, contact, a, w)' <=> Gone(bundles, state, contact, a, w)
         /\ NoRoom(bundles, state, contact, a, w)' <=> NoRoom(bundles, state, contact, a, w)
<1>1. bundles' = bundles /\ plan' = plan /\ MaxQueueBytes' = MaxQueueBytes
  BY DEF OnlyNow, MaxQueueBytes
<1>2. \A d \in Urgent(bundles) : d \notin arrivals =>
        (Gone(bundles, state, contact, d, w)' <=> Gone(bundles, state, contact, d, w))
  <2> SUFFICES ASSUME NEW d \in Urgent(bundles), d \notin arrivals
               PROVE  Gone(bundles, state, contact, d, w)' <=> Gone(bundles, state, contact, d, w)
    OBVIOUS
  <2>1. /\ state'[d] = "queue_overflow" <=> state[d] = "queue_overflow"
        /\ contact'[d] = contact[d] \/ (contact[d] = NoWindow /\ contact'[d] = Pos)
    BY DEF OnlyNow
  <2>2. Pos \in Int /\ w \in Int /\ ~(Pos < w)
    BY PosParts DEF Places
  <2>3. (contact'[d] # NoWindow /\ contact'[d] < w) <=> (contact[d] # NoWindow /\ contact[d] < w)
    BY <2>1, <2>2
  <2> QED
    BY <1>1, <2>1, <2>3 DEF Gone, Dies
<1>3. \A d \in Urgent(bundles) : Sooner(bundles, d, a) => d \notin arrivals
  BY SoonerCame
<1>4. Holding(bundles, state, contact, a, w)' = Holding(bundles, state, contact, a, w)
  BY <1>1, <1>2, <1>3 DEF Holding, Urgent, Sooner
<1>5. NoRoom(bundles, state, contact, a, w)' <=> NoRoom(bundles, state, contact, a, w)
  BY <1>1, <1>4 DEF NoRoom, Weight
<1> QED
  BY <1>2, <1>5

LEMMA MayGoKept ==
  ASSUME bundles' = bundles, plan' = plan, NEW w,
         \A a \in Urgent(bundles) : contact'[a] = w <=> contact[a] = w
  PROVE  \A b : MayGo(bundles, contact, b, w)' <=> MayGo(bundles, contact, b, w)
<1>1. \A b : SentBefore(bundles, contact, b, w)' = SentBefore(bundles, contact, b, w)
  BY DEF SentBefore, Urgent, Sooner
<1> QED
  BY <1>1 DEF MayGo, Weight, Dies

(* Refusals and windows passed over stay explained.                        *)
LEMMA RefusedStays ==
  ASSUME QueueShape, WindowShape, FateShape, ArrivalShape, OnlyNow,
         NEW b \in Urgent(bundles), b \notin arrivals, RefusedRight(b), Places' = Places
  PROVE  RefusedRight(b)'
<1> SUFFICES ASSUME NEW w \in Places, ComesAt(bundles, b, w)'
             PROVE  (state[b] = "queue_overflow" <=> NoRoom(bundles, state, contact, b, w))'
  BY DEF RefusedRight
<1>1. ComesAt(bundles, b, w)
  BY DEF ComesAt, OnlyNow
<1>2. w <= Pos
  BY <1>1, CameBy
<1>3. state[b] = "queue_overflow" <=> NoRoom(bundles, state, contact, b, w)
  BY <1>1 DEF RefusedRight
<1>4. NoRoom(bundles, state, contact, b, w)' <=> NoRoom(bundles, state, contact, b, w)
  BY <1>2, PastKept
<1>5. state'[b] = "queue_overflow" <=> state[b] = "queue_overflow"
  BY DEF OnlyNow
<1> QED
  BY <1>3, <1>4, <1>5

LEMMA PassedStays ==
  ASSUME QueueShape, WindowShape, FateShape, OnlyNow, NEW b \in Urgent(bundles),
         PassedRight(b), Pos' = Pos
  PROVE  PassedRight(b)'
<1> SUFFICES ASSUME NEW w \in DOMAIN plan, w < Pos, state'[b] # "queue_overflow",
                    contact'[b] \notin 1..w
             PROVE  ~MayGo(bundles, contact, b, w)'
  BY DEF PassedRight, OnlyNow
<1>1. state[b] # "queue_overflow"
  BY DEF OnlyNow, QueueShape
<1>2. contact[b] \notin 1..w
  BY DEF OnlyNow, NoWindow
<1>3. ~MayGo(bundles, contact, b, w)
  BY <1>1, <1>2 DEF PassedRight
<1>4. \A a \in Urgent(bundles) : contact'[a] = w <=> contact[a] = w
  <2> TAKE a \in Urgent(bundles)
  <2>1. w # NoWindow /\ w # Pos
    BY PosParts DEF NoWindow
  <2> QED
    BY <2>1 DEF OnlyNow
<1> QED
  BY <1>3, <1>4, MayGoKept DEF OnlyNow

(* What is known where the shape of the arrivals is.                       *)
UrgentKnown ==
  /\ QueueShape /\ CapShape /\ QueueExact /\ WindowShape /\ AliveShape /\ FateShape
  /\ BudgetShape /\ TurnShape /\ DrainShape /\ HomeShape /\ ArrivalShape

LEMMA UrgentHolds ==
  ASSUME UrgentKnown, UrgentRun, UrgentShape, OnlyNow, cur' = cur,
         \A b \in Urgent(bundles) :
           /\ PendingRight(b)'
           /\ b \notin arrivals' => b \notin arrivals \/ RefusedRight(b)'
  PROVE  UrgentShape'
<1>1. Pos' = Pos /\ Places' = Places /\ Urgent(bundles)' = Urgent(bundles)
  BY DEF Pos, Places, Urgent, OnlyNow
<1> SUFFICES ASSUME NEW b \in Urgent(bundles)
             PROVE  RefusedRight(b)' /\ PendingRight(b)' /\ PassedRight(b)'
  BY <1>1 DEF UrgentShape
<1>2. RefusedRight(b) /\ PassedRight(b)
  BY DEF UrgentShape
<1>3. PassedRight(b)'
  BY <1>1, <1>2, PassedStays DEF UrgentKnown
<1>4. b \in arrivals' => RefusedRight(b)'
  BY DEF RefusedRight
<1>5. b \notin arrivals => RefusedRight(b)'
  BY <1>1, <1>2, RefusedStays DEF UrgentKnown
<1> QED
  BY <1>3, <1>4, <1>5

AtAdmission == pc \in {"admit", "evict", "expire"}

LEMMA PendingSame ==
  ASSUME UrgentKnown, UrgentRun, UrgentShape, OnlyNow, cur' = cur,
         AtAdmission' => AtAdmission, InWindow' => InWindow,
         NEW b \in Urgent(bundles), state'[b] = state[b], contact'[b] = contact[b],
         b \in arrivals' <=> b \in arrivals
  PROVE  PendingRight(b)'
<1>1. Pos' = Pos /\ plan' = plan /\ bundles' = bundles
  BY DEF Pos, OnlyNow
<1>2. CASE b \in arrivals
  BY <1>2 DEF PendingRight
<1>3. CASE b \notin arrivals
  <2>1. PendingRight(b)
    BY DEF UrgentShape
  <2>2. Pos \in Places /\ Pos <= Pos /\ (InWindow => cur = Pos)
    BY PosParts DEF UrgentKnown, WindowShape
  <2>3. Gone(bundles, state, contact, b, Pos)' <=> Gone(bundles, state, contact, b, Pos)
    <3>1. PICK w \in Places : w = Pos /\ w <= Pos
      BY <2>2
    <3>2. Gone(bundles, state, contact, b, w)' <=> Gone(bundles, state, contact, b, w)
      BY <1>3, <3>1, PastKept DEF UrgentKnown
    <3> QED
      BY <1>1, <3>1, <3>2
  <2>4. InWindow => (Gone(bundles, state, contact, b, cur)' <=> Gone(bundles, state, contact, b, cur))
    BY <1>1, <2>2, <2>3
  <2>5. Dies(bundles, b)' = Dies(bundles, b)
    BY <1>1 DEF Dies
  <2>6. AtAdmission' =>
          (state'[b] = "pending" <=> ~Gone(bundles, state, contact, b, Pos)')
    BY <1>3, <2>1, <2>3 DEF PendingRight, AtAdmission
  <2>7. InWindow' =>
          (state'[b] = "pending" <=> /\ ~Gone(bundles, state, contact, b, cur)'
                                     /\ Dies(bundles, b)' > plan'[cur'].start /\ contact'[b] # cur')
    BY <1>1, <1>3, <2>1, <2>4, <2>5 DEF PendingRight
  <2> QED
    BY <2>6, <2>7 DEF PendingRight, AtAdmission
<1> QED
  BY <1>2, <1>3

(* Steps that leave the emergencies alone.                                 *)
LEMMA UrgentAlone ==
  ASSUME UrgentKnown, UrgentRun, UrgentShape, bundles' = bundles, plan' = plan, config' = config,
         cur' = cur, AtAdmission' => AtAdmission, InWindow' => InWindow,
         \A b \in Urgent(bundles) : state'[b] = state[b] /\ contact'[b] = contact[b]
                                    /\ (b \in arrivals' <=> b \in arrivals)
  PROVE  UrgentShape'
<1>1. OnlyNow
  BY DEF OnlyNow
<1>2. \A b \in Urgent(bundles) : PendingRight(b)'
  BY <1>1, PendingSame
<1> QED
  BY <1>1, <1>2, UrgentHolds

-----------------------------------------------------------------------------
(* At its admission an emergency meets the emergencies queued.             *)
LEMMA HoldingIs ==
  ASSUME UrgentKnown, UrgentRun, UrgentShape, NEW b \in Offered, b \in Urgent(bundles)
  PROVE  /\ Holding(bundles, state, contact, b, Pos) = {a \in Waiting : Cls(a) = "emergency"}
         /\ ~Gone(bundles, state, contact, b, Pos)
         /\ \A w \in Places : ComesAt(bundles, b, w) => w = Pos
<1>1. /\ b \in arrivals /\ b \in Bundles /\ state[b] = "pending" /\ AtAdmission
      /\ b \in Ready /\ \A r \in Ready \ {b} : Earlier(b, r)
  BY OfferedArrives, OfferedFirst DEF UrgentKnown, Earliest, AtAdmission, Offered
<1>2. /\ b \in Int /\ bundles[b].ingress \in Int /\ bundles[b].ingress = Ingress(b)
      /\ \A a \in Urgent(bundles) : a \in Int /\ bundles[a].ingress \in Int
                                    /\ bundles[a].ingress = Ingress(a)
  BY UrgentNumbers DEF UrgentKnown
<1>3. \A w \in DOMAIN plan : w < Pos => Ingress(b) > plan[w].end
  BY <1>1 DEF UrgentKnown, ArrivalShape
<1>4. Pos \in Places /\ Pos \in Int /\ Len(plan) \in Nat /\ DOMAIN plan = 1..Len(plan)
      /\ (cur # NoWindow => cur = Pos) /\ \A w \in DOMAIN plan : plan[w].end \in Int
  BY PosParts DEF UrgentKnown
<1>5. contact[b] = NoWindow
  BY <1>1 DEF UrgentKnown, FateShape, FatesMatchDeadlines
<1>6. ~Gone(bundles, state, contact, b, Pos)
  <2>1. Pos > 1 => Pos - 1 \in DOMAIN plan /\ Pos - 1 < Pos
    BY <1>4 DEF Places
  <2>2. Pos > 1 => ~(Ingress(b) <= plan[Pos - 1].end)
    BY <1>2, <1>3, <1>4, <2>1
  <2> QED
    BY <1>1, <1>2, <1>5, <2>2 DEF Gone
<1>7. \A w \in Places : ComesAt(bundles, b, w) => w = Pos
  <2> SUFFICES ASSUME NEW w \in Places, ComesAt(bundles, b, w), w # Pos PROVE FALSE
    OBVIOUS
  <2>1. w < Pos \/ w > Pos
    BY <1>4 DEF Places
  <2>2. CASE w < Pos
    <3>1. w \in DOMAIN plan /\ plan[w].end \in Int
      BY <1>4, <2>2 DEF Places
    <3>2. Ingress(b) > plan[w].end /\ Ingress(b) <= plan[w].end
      BY <1>2, <1>3, <2>2, <3>1 DEF ComesAt
    <3> QED
      BY <1>2, <3>1, <3>2
  <2>3. CASE w > Pos
    <3>1. cur # NoWindow /\ cur \in DOMAIN plan
      BY <1>4, <2>3, PosParts DEF Places, Pos, UrgentKnown
    <3>2. Ingress(b) <= plan[cur].end
      BY <1>1, <3>1 DEF Ready
    <3>3. PICK v \in DOMAIN plan : v = w - 1 /\ w > 1 /\ v >= cur
      BY <1>4, <2>3, <3>1 DEF Places
    <3>4. Ingress(b) > plan[v].end
      BY <1>2, <3>3 DEF ComesAt
    <3>5. v = cur \/ v > cur
      BY <1>4, <3>1, <3>3
    <3>6. v > cur => plan[cur].end <= plan[v].start /\ plan[v].start < plan[v].end
                     /\ plan[v].start \in Int
      BY <3>1, PosParts DEF UrgentKnown
    <3> QED
      BY <1>2, <1>4, <3>1, <3>2, <3>4, <3>5, <3>6
  <2> QED
    BY <2>1, <2>2, <2>3
<1>8. ASSUME NEW a \in Urgent(bundles), Sooner(bundles, a, b), ~Gone(bundles, state, contact, a, Pos)
      PROVE  a \in Waiting
  <2>1. a \notin arrivals
    <3> SUFFICES ASSUME a \in arrivals PROVE FALSE
      OBVIOUS
    <3>1. Ingress(a) <= Ingress(b)
      BY <1>2, <1>8 DEF Sooner
    <3>2. cur # NoWindow => Ingress(b) <= plan[cur].end /\ plan[cur].end \in Int
      BY <1>1, PosParts DEF Ready, UrgentKnown
    <3>3. a \in Ready
      BY <1>2, <3>1, <3>2 DEF Ready
    <3>4. a # b
      BY <1>2, <1>8 DEF Sooner
    <3> QED
      BY <1>1, <1>2, <1>8, <3>3, <3>4 DEF Earlier, Sooner
  <2>2. state[a] = "pending"
    BY <1>1, <1>8, <2>1 DEF UrgentShape, PendingRight, AtAdmission
  <2> QED
    BY <2>1, <2>2, ListTerms DEF UrgentKnown, HomeShape, Waiting
<1>9. ASSUME NEW a \in Waiting, Cls(a) = "emergency"
      PROVE  a \in Holding(bundles, state, contact, b, Pos)
  <2>1. a \in Urgent(bundles) /\ a \notin arrivals /\ a \in Bundles
    BY <1>9, ListTerms DEF UrgentKnown, QueueShape, Waiting
  <2>2. Sooner(bundles, a, b)
    BY <1>1, <2>1, ListTerms DEF UrgentKnown, ArrivalShape
  <2>3. ~Gone(bundles, state, contact, a, Pos)
    BY <1>1, <1>9, <2>1 DEF UrgentShape, PendingRight, AtAdmission, Waiting
  <2> QED
    BY <2>1, <2>2, <2>3 DEF Holding
<1>10. \A a \in Urgent(bundles) : Cls(a) = "emergency"
  BY ListTerms
<1> QED
  BY <1>6, <1>7, <1>8, <1>9, <1>10 DEF Holding

LEMMA UrgentRanks ==
  ASSUME bundles \in BundleLists, NEW b \in Bundles
  PROVE  /\ Rank(b) \in Nat /\ (Rank(b) = 0 <=> Cls(b) = "emergency")
         /\ b \in Urgent(bundles) <=> Cls(b) = "emergency"
<1>1. bundles[b] \in BundleIn
  BY DEF Bundles, BundleLists
<1>2. Cls(b) \in Class
  BY <1>1 DEF BundleIn, Cls
<1>3. Cls(b) \in {"emergency", "telemetry", "science_bulk", "media"}
  BY <1>2 DEF Class, RANK
<1>4. /\ RANK["emergency"] = 0 /\ RANK["telemetry"] = 1 /\ RANK["science_bulk"] = 2
      /\ RANK["media"] = 3
  BY DEF RANK
<1>5. Rank(b) = RANK[Cls(b)]
  BY DEF Rank
<1> QED
  BY <1>3, <1>4, <1>5, ListTerms

(* The room an emergency finds is what the other emergencies leave.        *)
LEMMA RoomForUrgent ==
  ASSUME UrgentKnown, UrgentRun, UrgentShape, NEW b \in Offered, b \in Urgent(bundles)
  PROVE  /\ Fits(b) => ~NoRoom(bundles, state, contact, b, Pos)
         /\ ~Fits(b) /\ (Candidates(b) = {} \/ ~Feasible(b))
              => NoRoom(bundles, state, contact, b, Pos)
<1> DEFINE E == {a \in Waiting : Cls(a) = "emergency"}
<1>1. Holding(bundles, state, contact, b, Pos) = E
  BY HoldingIs
<1>2. b \in Bundles /\ Lasting /\ bundles \in BundleLists /\ b \in arrivals
  BY OfferedArrives DEF UrgentKnown, QueueShape
<1>3. Waiting = active /\ active \subseteq Bundles /\ E \subseteq Waiting
  BY <1>2 DEF UrgentKnown, QueueShape, Waiting
<1>4. activeBytes = Bytes(Waiting) /\ MaxQueueBytes \in Nat
  BY <1>2 DEF UrgentKnown, QueueExact, CapShape, Lasting
<1>5. Size(b) \in Nat /\ Bytes(E) \in Nat /\ Bytes(Waiting) \in Nat /\ Bytes(E) <= Bytes(Waiting)
  BY <1>2, <1>3, BundleFields, BytesFinite, BytesMonotone
<1>6. NoRoom(bundles, state, contact, b, Pos) <=> Bytes(E) + Size(b) > MaxQueueBytes
  <2> HIDE DEF E
  <2> QED
    BY <1>1, ListTerms DEF NoRoom, Size
<1>7. Candidates(b) = Waiting \ E
  <2>1. Rank(b) = 0
    BY <1>2, UrgentRanks
  <2>2. \A v \in Waiting : Rank(v) > 0 <=> Cls(v) # "emergency"
    BY <1>2, <1>3, UrgentRanks
  <2> QED
    BY <1>3, <2>1, <2>2 DEF Candidates
<1>8. Bytes(Waiting \ E) = Bytes(Waiting) - Bytes(E)
  BY <1>2, <1>3, BytesDifference
<1> HIDE DEF E
<1>9. Waiting \ E = {} => Bytes(E) = Bytes(Waiting)
  <2>1. Waiting \ E = {} => E = Waiting
    BY <1>3
  <2> QED
    BY <2>1
<1>10. Fits(b) <=> Bytes(Waiting) + Size(b) <= MaxQueueBytes
  BY <1>4 DEF Fits
<1>11. Candidates(b) # {} /\ ~Feasible(b) => Bytes(E) + Size(b) > MaxQueueBytes
  BY <1>4, <1>5, <1>7, <1>8 DEF Feasible
<1> QED
  BY <1>4, <1>5, <1>6, <1>7, <1>9, <1>10, <1>11

LEMMA UrgentAdmitted ==
  ASSUME UrgentKnown, UrgentRun, UrgentShape, AdmitOne
  PROVE  UrgentShape'
<1>1. PICK b \in Offered :
        /\ Fits(b) /\ arrivals' = arrivals \ {b} /\ state' = state /\ contact' = contact
        /\ pc' = "admit" /\ cur' = cur
        /\ bundles' = bundles /\ plan' = plan /\ config' = config
  BY DEF AdmitOne, Admit, inputs
<1>2. AtAdmission /\ AtAdmission' /\ ~InWindow' /\ b \in arrivals
  BY <1>1, OfferedArrives DEF Offered, AtAdmission, InWindow, Draining, UrgentKnown
<1>3. OnlyNow /\ Pos' = Pos /\ Places' = Places
  BY <1>1 DEF OnlyNow, Pos, Places
<1>4. \A u \in Urgent(bundles) : u # b => PendingRight(u)' /\ (u \in arrivals' <=> u \in arrivals)
  BY <1>1, <1>2, <1>3, PendingSame
<1>5. ASSUME b \in Urgent(bundles) PROVE PendingRight(b)' /\ RefusedRight(b)'
  <2>1. ~Gone(bundles, state, contact, b, Pos) /\ state[b] = "pending"
        /\ ~NoRoom(bundles, state, contact, b, Pos)
        /\ \A w \in Places : ComesAt(bundles, b, w) => w = Pos
    BY <1>1, <1>5, HoldingIs, RoomForUrgent, OfferedArrives DEF UrgentKnown
  <2>2. Gone(bundles, state, contact, b, Pos)' <=> Gone(bundles, state, contact, b, Pos)
    BY <1>1, <1>3 DEF Gone, Dies
  <2>3. \A w : NoRoom(bundles, state, contact, b, w)' <=> NoRoom(bundles, state, contact, b, w)
    BY <1>1 DEF NoRoom, Weight, Holding, Urgent, Sooner, Gone, Dies, MaxQueueBytes
  <2>4. \A w : ComesAt(bundles, b, w)' <=> ComesAt(bundles, b, w)
    BY <1>1 DEF ComesAt
  <2>5. RefusedRight(b)'
    <3> SUFFICES ASSUME NEW w \in Places, ComesAt(bundles, b, w)'
                 PROVE  (state[b] = "queue_overflow" <=> NoRoom(bundles, state, contact, b, w))'
      BY <1>3 DEF RefusedRight
    <3>1. w = Pos
      BY <2>1, <2>4
    <3> QED
      BY <1>1, <2>1, <2>3, <3>1
  <2>6. PendingRight(b)'
    BY <1>1, <1>2, <2>1, <2>2 DEF PendingRight
  <2> QED
    BY <2>5, <2>6
<1>6. \A u \in Urgent(bundles) :
        PendingRight(u)' /\ (u \notin arrivals' => u \notin arrivals \/ RefusedRight(u)')
  BY <1>4, <1>5
<1> QED
  BY <1>1, <1>3, <1>6, UrgentHolds

LEMMA UrgentRefused ==
  ASSUME UrgentKnown, UrgentRun, UrgentShape, OverflowOne
  PROVE  UrgentShape'
<1>1. PICK b \in Offered :
        /\ ~Fits(b) /\ (Candidates(b) = {} \/ ~(PriorityAware /\ Feasible(b)))
        /\ arrivals' = arrivals \ {b} /\ state' = Marked({b}, "queue_overflow")
        /\ contact' = contact /\ pc' = "admit" /\ cur' = cur
        /\ bundles' = bundles /\ plan' = plan /\ config' = config
  BY DEF OverflowOne, inputs
<1>2. AtAdmission /\ AtAdmission' /\ ~InWindow' /\ b \in arrivals /\ b \in Bundles
      /\ state[b] = "pending"
  BY <1>1, OfferedArrives DEF Offered, AtAdmission, InWindow, Draining, UrgentKnown
<1>3. \A u \in Bundles : state'[u] = IF u \in {b} THEN "queue_overflow" ELSE state[u]
  BY <1>1, <1>2, MarkedOnes DEF Terminal, UrgentKnown
<1>4. \A u \in Urgent(bundles) : u \in Bundles /\ u \in Int /\ bundles[u].ingress \in Int
  BY UrgentNumbers DEF UrgentKnown
<1>5. OnlyNow /\ Pos' = Pos /\ Places' = Places
  BY <1>1, <1>2, <1>3, <1>4 DEF OnlyNow, Pos, Places
<1>6. \A u \in Urgent(bundles) : u # b => PendingRight(u)' /\ (u \in arrivals' <=> u \in arrivals)
  BY <1>1, <1>2, <1>3, <1>4, <1>5, PendingSame
<1>7. ASSUME b \in Urgent(bundles) PROVE PendingRight(b)' /\ RefusedRight(b)'
  <2>1. NoRoom(bundles, state, contact, b, Pos)
        /\ \A w \in Places : ComesAt(bundles, b, w) => w = Pos
    BY <1>1, <1>7, HoldingIs, RoomForUrgent DEF UrgentRun
  <2>2. \A w : \A u \in Urgent(bundles) :
          u # b => (Gone(bundles, state, contact, u, w)' <=> Gone(bundles, state, contact, u, w))
    BY <1>1, <1>3, <1>4 DEF Gone, Dies
  <2>3. ~Sooner(bundles, b, b)
    BY <1>4, <1>7 DEF Sooner
  <2>4. \A w : Holding(bundles, state, contact, b, w)' = Holding(bundles, state, contact, b, w)
    BY <1>1, <2>2, <2>3 DEF Holding, Urgent, Sooner
  <2>5. \A w : NoRoom(bundles, state, contact, b, w)' <=> NoRoom(bundles, state, contact, b, w)
    BY <1>1, <2>4 DEF NoRoom, Weight, MaxQueueBytes
  <2>6. \A w : ComesAt(bundles, b, w)' <=> ComesAt(bundles, b, w)
    BY <1>1 DEF ComesAt
  <2>7. RefusedRight(b)'
    <3> SUFFICES ASSUME NEW w \in Places, ComesAt(bundles, b, w)'
                 PROVE  (state[b] = "queue_overflow" <=> NoRoom(bundles, state, contact, b, w))'
      BY <1>5 DEF RefusedRight
    <3>1. w = Pos
      BY <2>1, <2>6
    <3> QED
      BY <1>2, <1>3, <2>1, <2>5, <3>1
  <2>8. state'[b] # "pending" /\ Gone(bundles, state, contact, b, Pos)'
    BY <1>2, <1>3 DEF Gone
  <2>9. PendingRight(b)'
    BY <1>2, <2>8 DEF PendingRight
  <2> QED
    BY <2>7, <2>9
<1>8. \A u \in Urgent(bundles) :
        PendingRight(u)' /\ (u \notin arrivals' => u \notin arrivals \/ RefusedRight(u)')
  BY <1>6, <1>7
<1> QED
  BY <1>1, <1>5, <1>8, UrgentHolds

LEMMA UrgentExpires ==
  ASSUME UrgentKnown, UrgentRun, UrgentShape, Expire
  PROVE  UrgentShape'
<1>1. /\ pc = "expire" /\ state' = Marked(Dead, "ttl_expired") /\ contact' = contact
      /\ arrivals' = arrivals /\ cur' = cur /\ pc' = IF cur = NoWindow THEN "leftover" ELSE "begin"
      /\ bundles' = bundles /\ plan' = plan /\ config' = config
  BY DEF Expire, inputs, control
<1>2. \A b \in Dead : state[b] = "pending"
  BY DEF Dead, Waiting
<1>3. \A u \in Bundles : state'[u] = IF u \in Dead THEN "ttl_expired" ELSE state[u]
  BY <1>1, <1>2, MarkedOnes DEF Terminal, UrgentKnown
<1>4. \A u \in Urgent(bundles) : u \in Bundles
  BY ListTerms
<1>5. OnlyNow
  BY <1>1, <1>2, <1>3, <1>4 DEF OnlyNow
<1>6. ASSUME NEW b \in Urgent(bundles) PROVE PendingRight(b)'
  <2>1. CASE cur = NoWindow \/ b \in arrivals
    BY <1>1, <2>1 DEF PendingRight, InWindow, Draining
  <2>2. CASE cur # NoWindow /\ b \notin arrivals
    <3>1. b \in Bundles /\ cur \in DOMAIN plan /\ Pos = cur
      BY <1>4, <2>2, PosParts DEF UrgentKnown
    <3>2. state[b] = "pending" <=> ~Gone(bundles, state, contact, b, cur)
      BY <1>1, <2>2, <3>1 DEF UrgentShape, PendingRight
    <3>3. contact[b] # cur
      BY <1>1, <2>2, <3>1 DEF UrgentKnown, BudgetShape, SentIn, Draining
    <3>4. state[b] = "pending" => b \in Waiting
      BY <2>2, <3>1 DEF UrgentKnown, HomeShape, Waiting
    <3>5. Expiration(b) \in Int /\ plan[cur].start \in Int
      BY <3>1, BundleTimes, PosParts DEF UrgentKnown, QueueShape
    <3>6. b \in Dead <=> b \in Waiting /\ Expiration(b) <= plan[cur].start
      BY <2>2 DEF Dead, ExpiryTime
    <3>7. Gone(bundles, state, contact, b, cur)' <=> Gone(bundles, state, contact, b, cur)
      BY <1>1, <1>2, <1>3, <3>1 DEF Gone, Dies
    <3>8. state'[b] = "pending" <=> state[b] = "pending" /\ b \notin Dead
      BY <1>3, <3>1
    <3>9. Dies(bundles, b)' = Expiration(b)
      BY <1>1 DEF Dies, Expiration, Ingress
    <3>10. state'[b] = "pending" <=>
             /\ ~Gone(bundles, state, contact, b, cur)'
             /\ Dies(bundles, b)' > plan'[cur'].start /\ contact'[b] # cur'
      BY <1>1, <3>2, <3>3, <3>4, <3>5, <3>6, <3>7, <3>8, <3>9
    <3>11. pc' = "begin"
      BY <1>1, <2>2
    <3> QED
      BY <3>10, <3>11 DEF PendingRight
  <2> QED
    BY <2>1, <2>2
<1> QED
  BY <1>1, <1>5, <1>6, UrgentHolds

LEMMA UrgentSent ==
  ASSUME UrgentKnown, UrgentRun, UrgentShape, SendForemost
  PROVE  UrgentShape'
<1>1. /\ Sends /\ pc = "drain" /\ pc' = "drain"
      /\ arrivals' = arrivals /\ cur' = cur
      /\ bundles' = bundles /\ plan' = plan /\ config' = config
  BY SendingSteps DEF SendForemost, Sends
<1>2. PICK b \in todo :
        /\ b \in Bundles /\ state[b] = "pending" /\ contact[b] = NoWindow
        /\ \A u \in Bundles : contact'[u] = IF u = b THEN cur ELSE contact[u]
        /\ \A u \in Bundles : state'[u] = IF u = b THEN "delivered" ELSE state[u]
        /\ cur \in DOMAIN plan /\ cur # NoWindow
  BY <1>1, SendParts DEF UrgentKnown
<1>3. Pos = cur /\ \A u \in Urgent(bundles) : u \in Bundles
  BY <1>2, ListTerms DEF Pos
<1>4. OnlyNow
  BY <1>1, <1>2, <1>3 DEF OnlyNow
<1>5. InWindow /\ InWindow' /\ ~AtAdmission'
  BY <1>1 DEF InWindow, Draining, AtAdmission
<1>6. \A u \in Urgent(bundles) : u # b => PendingRight(u)'
  BY <1>1, <1>2, <1>3, <1>4, <1>5, PendingSame
<1>7. ASSUME b \in Urgent(bundles) PROVE PendingRight(b)'
  <2>1. state'[b] # "pending" /\ contact'[b] = cur'
    BY <1>1, <1>2
  <2> QED
    BY <1>5, <2>1 DEF PendingRight, AtAdmission
<1> QED
  BY <1>1, <1>4, <1>6, <1>7, UrgentHolds

(* In round robin no emergency goes.                                       *)
LEMMA UrgentNotInRounds ==
  ASSUME UrgentKnown, UrgentRun, UrgentShape, SendNext
  PROVE  UrgentShape'
<1>1. /\ Sends /\ pc = "serve" /\ pc' = "serve"
      /\ arrivals' = arrivals /\ cur' = cur
      /\ bundles' = bundles /\ plan' = plan /\ config' = config
  BY SendingSteps DEF SendNext, Sends
<1>2. PICK b \in todo :
        /\ \A u \in Bundles : contact'[u] = IF u = b THEN cur ELSE contact[u]
        /\ \A u \in Bundles : state'[u] = IF u = b THEN "delivered" ELSE state[u]
  BY <1>1, SendParts DEF UrgentKnown
<1>3. Cls(b) # "emergency"
  BY <1>1 DEF UrgentKnown, TurnShape
<1>4. \A u \in Urgent(bundles) : u \in Bundles /\ u # b
  BY <1>3, ListTerms
<1>5. InWindow /\ ~AtAdmission'
  BY <1>1 DEF InWindow, Draining, AtAdmission
<1> QED
  BY <1>1, <1>2, <1>4, <1>5, UrgentAlone

LEMMA UrgentEvicts ==
  ASSUME UrgentKnown, UrgentRun, UrgentShape, EvictOne
  PROVE  UrgentShape'
<1>1. PICK v \in Victim(incoming) : state' = Marked({v}, "queue_overflow")
  BY DEF EvictOne
<1>2. /\ pc = "evict" /\ pc' = pc /\ arrivals' = arrivals /\ cur' = cur /\ contact' = contact
      /\ bundles' = bundles /\ plan' = plan /\ config' = config
  BY DEF EvictOne, inputs, control
<1>3. /\ v \in Bundles /\ state[v] = "pending" /\ Rank(v) > Rank(incoming) /\ incoming \in Bundles
  BY <1>1, <1>2 DEF Victim, Candidates, UrgentKnown, QueueShape, Lasting
<1>4. \A u \in Bundles : state'[u] = IF u \in {v} THEN "queue_overflow" ELSE state[u]
  BY <1>1, <1>3, MarkedOnes DEF Terminal, UrgentKnown
<1>5. \A u \in Urgent(bundles) : u \in Bundles /\ u # v
  <2>1. Rank(v) # 0
    BY <1>3, UrgentRanks DEF UrgentKnown, QueueShape
  <2> QED
    BY <1>3, <2>1, UrgentRanks, ListTerms DEF UrgentKnown, QueueShape
<1>6. AtAdmission /\ ~InWindow'
  BY <1>2 DEF InWindow, Draining, AtAdmission
<1> QED
  BY <1>2, <1>4, <1>5, <1>6, UrgentAlone

LEMMA UrgentWrittenOff ==
  ASSUME UrgentKnown, UrgentRun, UrgentShape, WriteOff
  PROVE  UrgentShape'
<1>1. /\ pc' = "done" /\ state' = Marked(Waiting, "never_scheduled") /\ contact' = contact
      /\ arrivals' = arrivals /\ cur' = cur
      /\ bundles' = bundles /\ plan' = plan /\ config' = config
  BY DEF WriteOff, inputs, control
<1>2. \A b \in Waiting : state[b] = "pending"
  BY DEF Waiting
<1>3. \A u \in Bundles : state'[u] = IF u \in Waiting THEN "never_scheduled" ELSE state[u]
  BY <1>1, <1>2, MarkedOnes DEF Terminal, UrgentKnown
<1>4. \A u \in Urgent(bundles) : u \in Bundles
  BY ListTerms
<1>5. OnlyNow
  BY <1>1, <1>2, <1>3, <1>4 DEF OnlyNow
<1>6. \A b : PendingRight(b)'
  BY <1>1 DEF PendingRight, InWindow, Draining
<1> QED
  BY <1>1, <1>5, <1>6, UrgentHolds

-----------------------------------------------------------------------------
(* A window is over: what was left did not fit beside the emergencies      *)
(* before it.                                                              *)
LEMMA AheadAreUrgent ==
  ASSUME QueueShape, UrgentRun, NEW b \in Urgent(bundles)
  PROVE  /\ AheadOf(b) = SentBefore(bundles, contact, b, cur)
         /\ ~StopsOnNonFit /\ (b \in Eligible => b \in Listed)
<1>1. b \in Bundles /\ Cls(b) = "emergency" /\ Rank(b) = 0 /\ bundles \in BundleLists
  BY UrgentRanks, ListTerms DEF QueueShape
<1>2. config.policy = "strict_priority" \/ config.policy \in Wfq
  BY DEF UrgentRun
<1>3. CASE config.policy = "strict_priority"
  <2>1. config.policy \notin Wfq
    BY <1>3 DEF Wfq
  <2>2. SentFirst = SentIn(cur)
    BY <2>1 DEF SentFirst
  <2>3. \A v \in Bundles : Before(v, b) <=> Cls(v) = "emergency" /\ Earlier(v, b)
    <3> TAKE v \in Bundles
    <3>1. Rank(v) \in Nat /\ (Rank(v) = 0 <=> Cls(v) = "emergency")
      BY <1>1, UrgentRanks
    <3>2. (Ahead(v, b) <=> Rank(v) < Rank(b)) /\ (Ahead(b, v) <=> Rank(b) < Rank(v))
      BY <1>3 DEF Ahead
    <3> QED
      BY <1>1, <3>1, <3>2 DEF Before
  <2>4. SentIn(cur) \subseteq Bundles
    BY DEF SentIn
  <2>5. AheadOf(b) = SentBefore(bundles, contact, b, cur)
    BY <2>2, <2>3, <2>4, ListTerms DEF AheadOf, SentBefore, SentIn
  <2>6. ~StopsOnNonFit /\ Listed = Eligible
    BY <1>3, <2>1 DEF StopsOnNonFit, Listed
  <2> QED
    BY <2>5, <2>6
<1>4. CASE config.policy \in Wfq
  <2>1. config.policy \notin {"strict_priority", "deadline_aware", "utility_pure", "utility_aware",
                              "fifo"}
    BY <1>4 DEF Wfq
  <2>2. \A v : ~Ahead(v, b) /\ ~Ahead(b, v)
    BY <2>1 DEF Ahead
  <2>3. \A v : Before(v, b) <=> Earlier(v, b)
    BY <2>2 DEF Before
  <2>4. SentFirst = {v \in SentIn(cur) : Cls(v) = "emergency"}
    BY <1>4 DEF SentFirst
  <2>5. AheadOf(b) = SentBefore(bundles, contact, b, cur)
    BY <2>3, <2>4, ListTerms DEF AheadOf, SentBefore, SentIn
  <2>6. ~StopsOnNonFit /\ Listed = ByClass("emergency")
    BY <1>4, <2>1 DEF StopsOnNonFit, Listed
  <2> QED
    BY <1>1, <2>5, <2>6 DEF ByClass
<1> QED
  BY <1>2, <1>3, <1>4

LEMMA LeftDidNotFit ==
  ASSUME UrgentKnown, UrgentRun, UrgentShape, pc = "close", NEW b \in Urgent(bundles),
         state[b] # "queue_overflow", contact[b] \notin 1..cur
  PROVE  ~MayGo(bundles, contact, b, cur)
<1> SUFFICES ASSUME MayGo(bundles, contact, b, cur) PROVE FALSE
  OBVIOUS
<1>1. cur \in DOMAIN plan /\ cur # NoWindow /\ Pos = cur /\ InWindow /\ Draining /\ cur \in Int
  BY PosParts DEF UrgentKnown, WindowShape, InWindow, Draining
<1>2. /\ b \in Bundles /\ bundles[b].ingress \in Int /\ bundles[b].ingress = Ingress(b)
      /\ Dies(bundles, b) \in Int /\ bundles[b].size = Size(b) /\ Size(b) \in Nat
      /\ contact[b] \in DOMAIN plan \cup {NoWindow}
  BY UrgentNumbers DEF UrgentKnown
<1>3. /\ Len(plan) \in Nat /\ DOMAIN plan = 1..Len(plan)
      /\ \A w \in DOMAIN plan : w \in Int /\ plan[w].start \in Int /\ plan[w].end \in Int
                                /\ plan[w].start < plan[w].end
      /\ \A v, w \in DOMAIN plan : v < w => plan[v].end <= plan[w].start
  BY PosParts DEF UrgentKnown
<1>4. /\ Ingress(b) < plan[cur].end /\ Dies(bundles, b) > plan[cur].start
      /\ 8 * (Weight(bundles, SentBefore(bundles, contact, b, cur)) + Size(b)) <= Budget(plan[cur])
  BY <1>2 DEF MayGo
<1>5. b \notin arrivals
  BY <1>1, <1>2, <1>3, <1>4 DEF UrgentKnown, ArrivalShape
<1>6. contact[b] = NoWindow
  <2> SUFFICES ASSUME contact[b] # NoWindow PROVE FALSE
    OBVIOUS
  <2>1. contact[b] \in DOMAIN plan /\ contact[b] > cur
    BY <1>1, <1>2, <1>3
  <2>2. SentIn(contact[b]) = {}
    BY <1>1, <2>1 DEF UrgentKnown, BudgetShape
  <2> QED
    BY <1>2, <2>2 DEF SentIn
<1>7. ~Gone(bundles, state, contact, b, cur)
  <2>1. ~(cur > 1 /\ bundles[b].ingress <= plan[cur - 1].end
            /\ Dies(bundles, b) <= plan[cur - 1].start)
    <3> SUFFICES ASSUME cur > 1, Dies(bundles, b) <= plan[cur - 1].start PROVE FALSE
      OBVIOUS
    <3>1. PICK v \in DOMAIN plan : v = cur - 1 /\ v < cur
      BY <1>1, <1>3
    <3>2. plan[v].start < plan[v].end /\ plan[v].end <= plan[cur].start
          /\ plan[v].start \in Int /\ plan[v].end \in Int /\ plan[cur].start \in Int
      BY <1>1, <1>3, <3>1
    <3> QED
      BY <1>2, <1>4, <3>1, <3>2
  <2> QED
    BY <1>6, <2>1 DEF Gone
<1>8. state[b] = "pending"
  BY <1>1, <1>4, <1>5, <1>6, <1>7 DEF UrgentShape, PendingRight
<1>9. b \in Eligible
  BY <1>2, <1>4, <1>5, <1>8 DEF UrgentKnown, HomeShape, Waiting, Eligible
<1>10. b \in Left /\ ~StopsOnNonFit /\ AheadOf(b) = SentBefore(bundles, contact, b, cur)
  BY <1>9, AheadAreUrgent DEF Left, UrgentKnown
<1>11. 8 * (Bytes(AheadOf(b)) + Size(b)) > Budget(plan[cur])
  BY <1>1, <1>10 DEF UrgentKnown, DrainShape, Crowded
<1>12. Weight(bundles, AheadOf(b)) = Bytes(AheadOf(b))
  BY ListTerms
<1>13. Bytes(AheadOf(b)) \in Nat /\ Budget(plan[cur]) \in Nat
  <2>1. AheadOf(b) \subseteq Bundles
    BY <1>10, ListTerms DEF SentBefore
  <2> QED
    BY <1>1, <2>1, BytesFinite, BudgetIsNat DEF UrgentKnown, QueueShape, WindowShape
<1> QED
  BY <1>2, <1>4, <1>10, <1>11, <1>12, <1>13

LEMMA UrgentCloses ==
  ASSUME UrgentKnown, UrgentRun, UrgentShape, CloseWindow
  PROVE  UrgentShape'
<1>1. /\ pc = "close" /\ pc' = "admit" /\ arrivals' = arrivals /\ state' = state
      /\ contact' = contact /\ bundles' = bundles /\ plan' = plan /\ config' = config
  BY DEF CloseWindow, inputs
<1>2. /\ cur \in DOMAIN plan /\ cur # NoWindow /\ Pos' = cur + 1 /\ Pos = cur
      /\ Places' = Places /\ InWindow
  BY <1>1, PosMoves DEF Pos, Places, UrgentKnown, InWindow, Draining
<1>3. /\ Len(plan) \in Nat /\ DOMAIN plan = 1..Len(plan) /\ cur \in Int
      /\ \A w \in DOMAIN plan : w \in Int /\ plan[w].start \in Int /\ plan[w].end \in Int
                                /\ plan[w].start < plan[w].end
      /\ \A v, w \in DOMAIN plan : v < w => plan[v].end <= plan[w].start
  BY <1>2, PosParts DEF UrgentKnown
<1> SUFFICES ASSUME NEW b \in Urgent(bundles)
             PROVE  RefusedRight(b)' /\ PendingRight(b)' /\ PassedRight(b)'
  BY <1>1 DEF UrgentShape, Urgent
<1>4. RefusedRight(b) /\ PendingRight(b) /\ PassedRight(b)
  BY DEF UrgentShape
<1>5. \A w : /\ Gone(bundles, state, contact, b, w)' <=> Gone(bundles, state, contact, b, w)
             /\ NoRoom(bundles, state, contact, b, w)' <=> NoRoom(bundles, state, contact, b, w)
             /\ ComesAt(bundles, b, w)' <=> ComesAt(bundles, b, w)
             /\ MayGo(bundles, contact, b, w)' <=> MayGo(bundles, contact, b, w)
  <2> TAKE w
  <2>1. Holding(bundles, state, contact, b, w)' = Holding(bundles, state, contact, b, w)
    BY <1>1 DEF Holding, Gone, Dies, Urgent, Sooner
  <2>2. SentBefore(bundles, contact, b, w)' = SentBefore(bundles, contact, b, w)
    BY <1>1 DEF SentBefore, Urgent, Sooner
  <2>3. Gone(bundles, state, contact, b, w)' <=> Gone(bundles, state, contact, b, w)
    BY <1>1 DEF Gone, Dies
  <2>4. NoRoom(bundles, state, contact, b, w)' <=> NoRoom(bundles, state, contact, b, w)
    BY <1>1, <2>1 DEF NoRoom, Weight, MaxQueueBytes
  <2>5. ComesAt(bundles, b, w)' <=> ComesAt(bundles, b, w)
    BY <1>1 DEF ComesAt
  <2>6. MayGo(bundles, contact, b, w)' <=> MayGo(bundles, contact, b, w)
    BY <1>1, <2>2 DEF MayGo, Weight, Dies
  <2> QED
    BY <2>3, <2>4, <2>5, <2>6
<1>6. RefusedRight(b)'
  BY <1>1, <1>2, <1>4, <1>5 DEF RefusedRight
<1>7. PassedRight(b)'
  <2> SUFFICES ASSUME NEW w \in DOMAIN plan, w < Pos', state[b] # "queue_overflow",
                      contact[b] \notin 1..w
               PROVE  ~MayGo(bundles, contact, b, w)'
    BY <1>1 DEF PassedRight
  <2>1. w < Pos \/ w = cur
    BY <1>2, <1>3
  <2>2. w = cur => ~MayGo(bundles, contact, b, w)
    BY <1>1, LeftDidNotFit
  <2>3. w < Pos => ~MayGo(bundles, contact, b, w)
    BY <1>4 DEF PassedRight
  <2> QED
    BY <1>5, <2>1, <2>2, <2>3
<1>8. PendingRight(b)'
  <2>1. CASE b \in arrivals
    BY <1>1, <2>1 DEF PendingRight
  <2>2. CASE b \notin arrivals
    <3>1. /\ bundles[b].ingress \in Int /\ bundles[b].ingress = Ingress(b)
          /\ Dies(bundles, b) \in Int /\ contact[b] \in Int /\ b \in Bundles
      BY UrgentNumbers DEF UrgentKnown
    <3>2. bundles[b].ingress <= plan[cur].end
      BY <1>2, <2>2, <3>1 DEF UrgentKnown, ArrivalShape
    <3>3. state[b] = "pending" <=> /\ ~Gone(bundles, state, contact, b, cur)
                                   /\ Dies(bundles, b) > plan[cur].start /\ contact[b] # cur
      BY <1>2, <1>4, <2>2 DEF PendingRight
    <3>4. cur > 1 /\ Dies(bundles, b) <= plan[cur - 1].start
            => ~(Dies(bundles, b) > plan[cur].start)
      <4> SUFFICES ASSUME cur > 1, Dies(bundles, b) <= plan[cur - 1].start
                   PROVE  ~(Dies(bundles, b) > plan[cur].start)
        OBVIOUS
      <4>1. PICK v \in DOMAIN plan : v = cur - 1 /\ v < cur
        BY <1>2, <1>3
      <4>2. plan[v].start < plan[v].end /\ plan[v].end <= plan[cur].start
            /\ plan[v].start \in Int /\ plan[v].end \in Int /\ plan[cur].start \in Int
        BY <1>2, <1>3, <4>1
      <4> QED
        BY <3>1, <4>1, <4>2
    <3>5. PICK v \in Int : v = cur + 1 /\ v > 1 /\ v - 1 = cur
      BY <1>2, <1>3
    <3>6. (contact[b] # NoWindow /\ contact[b] < v)
            <=> (contact[b] # NoWindow /\ contact[b] < cur) \/ contact[b] = cur
      BY <1>2, <1>3, <3>1, <3>5
    <3>7. plan[cur].start \in Int
      BY <1>2, <1>3
    <3>8. state[b] = "pending" <=> ~Gone(bundles, state, contact, b, v)
      BY <3>1, <3>2, <3>3, <3>4, <3>5, <3>6, <3>7 DEF Gone
    <3>9. ~InWindow'
      BY <1>1 DEF InWindow, Draining
    <3>10. Gone(bundles, state, contact, b, v)' <=> Gone(bundles, state, contact, b, v)
      BY <1>5
    <3>11. Pos' = v
      BY <1>2, <3>5
    <3> QED
      BY <1>1, <3>8, <3>9, <3>10, <3>11 DEF PendingRight
  <2> QED
    BY <2>1, <2>2
<1> QED
  BY <1>6, <1>7, <1>8

LEMMA UrgentStep ==
  UrgentKnown /\ UrgentShape /\ [Next]_vars => UrgentShape'
<1> SUFFICES ASSUME UrgentKnown, UrgentShape, [Next]_vars, UrgentRun' PROVE UrgentShape'
  BY DEF UrgentShape
<1>1. bundles' = bundles /\ plan' = plan /\ config' = config
  BY ConfigKept, WalkKept
<1>2. UrgentRun
  BY <1>1 DEF UrgentRun, PriorityAware
<1>3. CASE BeginEviction \/ AdmissionOver \/ BeginDrain \/ DeferForemost \/ DrainOver \/ BeginRound
           \/ BeginTurn \/ PassNext \/ EndTurn \/ RoundsOver \/ Done \/ UNCHANGED vars
  <2>1. /\ state' = state /\ contact' = contact /\ arrivals' = arrivals /\ cur' = cur
        /\ (AtAdmission' => AtAdmission) /\ (InWindow' => InWindow)
    BY <1>3 DEF BeginEviction, AdmissionOver, BeginDrain, DeferForemost, DrainOver, BeginRound,
       BeginTurn, PassNext, EndTurn, RoundsOver, Done, vars, queue, control, AtAdmission,
       InWindow, Draining
  <2> QED
    BY <1>1, <1>2, <2>1, UrgentAlone
<1> QED
  BY <1>2, <1>3, UrgentAdmitted, UrgentRefused, UrgentEvicts, UrgentExpires, UrgentSent,
     UrgentNotInRounds, UrgentWrittenOff, UrgentCloses
     DEF Next, Run, Admission, Drain, RoundRobin

LEMMA UrgentStarts == Starting => UrgentShape
<1> SUFFICES ASSUME Starting, NEW b \in Urgent(bundles)
             PROVE  RefusedRight(b) /\ PendingRight(b) /\ PassedRight(b)
  BY DEF UrgentShape
<1>1. arrivals = Bundles /\ b \in arrivals /\ Pos = 1
  BY PosStarts DEF Starting, Bundles, Urgent
<1>2. \A w \in DOMAIN plan : ~(w < 1)
  BY PlanParts DEF Starting
<1> QED
  BY <1>1, <1>2 DEF RefusedRight, PendingRight, PassedRight
-----------------------------------------------------------------------------
(* The outcome of a run is settled, as far as emergencies go, by what came *)
(* before each of them.                                                    *)
Settled(l, f, s) ==
  \A b \in Urgent(l) :
    /\ f[b] \in Terminal
    /\ s[b] \in DOMAIN plan \cup {NoWindow}
    /\ f[b] = "delivered" <=> s[b] # NoWindow
    /\ \A w \in Places : ComesAt(l, b, w) => (f[b] = "queue_overflow" <=> NoRoom(l, f, s, b, w))
    /\ s[b] # NoWindow => MayGo(l, s, b, s[b])
    /\ \A w \in DOMAIN plan :
         f[b] # "queue_overflow" /\ s[b] \notin 1..w => ~MayGo(l, s, b, w)
    /\ f[b] = "ttl_expired" => \E w \in DOMAIN plan : Dies(l, b) <= plan[w].end
    /\ f[b] = "never_scheduled" => \A w \in DOMAIN plan : Dies(l, b) > plan[w].end

LEMMA RunSettles ==
  ASSUME UrgentKnown, UrgentRun, UrgentShape, pc = "done"
  PROVE  Settled(bundles, state, contact)
<1>1. cur = NoWindow /\ arrivals = {}
  BY DEF UrgentKnown, HomeShape
<1>2. /\ Len(plan) \in Nat /\ DOMAIN plan = 1..Len(plan) /\ Pos = Len(plan) + 1
      /\ \A w \in DOMAIN plan : w \in Int
  BY <1>1, PosParts DEF UrgentKnown, Pos
<1> SUFFICES ASSUME NEW b \in Urgent(bundles)
             PROVE  /\ state[b] \in Terminal
                    /\ contact[b] \in DOMAIN plan \cup {NoWindow}
                    /\ state[b] = "delivered" <=> contact[b] # NoWindow
                    /\ \A w \in Places : ComesAt(bundles, b, w) =>
                         (state[b] = "queue_overflow" <=> NoRoom(bundles, state, contact, b, w))
                    /\ contact[b] # NoWindow => MayGo(bundles, contact, b, contact[b])
                    /\ \A w \in DOMAIN plan :
                         state[b] # "queue_overflow" /\ contact[b] \notin 1..w
                           => ~MayGo(bundles, contact, b, w)
                    /\ state[b] = "ttl_expired" =>
                         \E w \in DOMAIN plan : Dies(bundles, b) <= plan[w].end
                    /\ state[b] = "never_scheduled" =>
                         \A w \in DOMAIN plan : Dies(bundles, b) > plan[w].end
  BY DEF Settled
<1>3. b \in Bundles /\ Dies(bundles, b) = Expiration(b) /\ bundles[b].ingress = Ingress(b)
      /\ bundles[b].size = Size(b) /\ Size(b) \in Nat
      /\ contact[b] \in DOMAIN plan \cup {NoWindow}
  BY UrgentNumbers, ListTerms DEF UrgentKnown
<1>4. state[b] \in Terminal
  BY <1>3 DEF UrgentKnown, HomeShape
<1>5. RefusedRight(b) /\ PassedRight(b)
  BY DEF UrgentShape
<1>6. \A w \in DOMAIN plan : w < Pos
  BY <1>2
<1>7. FatesMatchDeadlines
  BY DEF UrgentKnown, FateShape
<1>8. ASSUME contact[b] # NoWindow PROVE MayGo(bundles, contact, b, contact[b])
  <2>1. PICK w \in DOMAIN plan : w = contact[b]
    BY <1>3, <1>8
  <2>2. Expiration(b) > plan[w].start /\ Ingress(b) < plan[w].end
    BY <1>3, <1>7, <1>8, <2>1 DEF FatesMatchDeadlines
  <2> DEFINE S == SentBefore(bundles, contact, b, w)
  <2>3. S \subseteq Bundles /\ b \notin S /\ S \cup {b} \subseteq SentIn(w)
        /\ SentIn(w) \subseteq Bundles
    <3>1. ~Sooner(bundles, b, b)
      BY UrgentNumbers DEF Sooner, UrgentKnown
    <3>2. S \subseteq SentIn(w)
      BY ListTerms DEF SentBefore, SentIn
    <3>3. b \in SentIn(w) /\ SentIn(w) \subseteq Bundles
      BY <1>3, <2>1 DEF SentIn
    <3>4. b \notin S
      BY <3>1 DEF SentBefore
    <3> QED
      BY <3>2, <3>3, <3>4
  <2> HIDE DEF S
  <2>4. bundles \in BundleLists
    BY DEF UrgentKnown, QueueShape
  <2>5. Bytes(S \cup {b}) = Bytes(S) + Size(b) /\ Bytes(S \cup {b}) <= Bytes(SentIn(w))
    BY <1>3, <2>3, <2>4, BytesWith, BytesMonotone
  <2>6. Bytes(S) \in Nat /\ Bytes(SentIn(w)) \in Nat
    BY <2>3, <2>4, BytesFinite
  <2>7. 8 * Bytes(SentIn(w)) <= Budget(plan[w]) /\ Budget(plan[w]) \in Nat
    BY BudgetIsNat DEF UrgentKnown, BudgetShape, WithinBudget, WindowShape
  <2>8. 8 * (Bytes(S) + Size(b)) <= Budget(plan[w])
    BY <1>3, <2>5, <2>6, <2>7
  <2>9. Weight(bundles, S) = Bytes(S)
    BY ListTerms
  <2> QED
    BY <1>3, <2>1, <2>2, <2>8, <2>9 DEF MayGo, S
<1>9. \A w \in Places : ComesAt(bundles, b, w) =>
        (state[b] = "queue_overflow" <=> NoRoom(bundles, state, contact, b, w))
  BY <1>1, <1>5 DEF RefusedRight
<1>10. \A w \in DOMAIN plan : state[b] # "queue_overflow" /\ contact[b] \notin 1..w
         => ~MayGo(bundles, contact, b, w)
  BY <1>5, <1>6 DEF PassedRight
<1>11. /\ state[b] = "delivered" <=> contact[b] # NoWindow
       /\ state[b] = "ttl_expired" => \E w \in DOMAIN plan : Dies(bundles, b) <= plan[w].end
       /\ state[b] = "never_scheduled" => \A w \in DOMAIN plan : Dies(bundles, b) > plan[w].end
  BY <1>3, <1>7 DEF FatesMatchDeadlines
<1> QED
  BY <1>3, <1>4, <1>8, <1>9, <1>10, <1>11

-----------------------------------------------------------------------------
(* Two lists with the same emergencies, and otherwise what they like.      *)
Alike(l, m) ==
  /\ l \in BundleLists /\ m \in BundleLists
  /\ Urgent(l) = Urgent(m)
  /\ \A b \in Urgent(l) :
       l[b].size = m[b].size /\ l[b].ingress = m[b].ingress /\ l[b].ttl = m[b].ttl

Agrees(f, s, g, t, b) == f[b] = g[b] /\ s[b] = t[b]

LEMMA AlikeParts ==
  ASSUME NEW l, NEW m, Alike(l, m), NEW b \in Urgent(l)
  PROVE  /\ b \in Int /\ l[b].ingress \in Int /\ l[b].size \in Nat /\ l[b].ttl \in Nat
         /\ Dies(l, b) = Dies(m, b) /\ Dies(l, b) \in Int
         /\ l[b].ingress = m[b].ingress /\ l[b].size = m[b].size
<1>1. l \in Seq(BundleIn) /\ b \in DOMAIN l
  BY DEF Alike, BundleLists, Urgent
<1>2. l[b] \in BundleIn /\ b \in Int
  BY <1>1
<1>3. l[b].ingress = m[b].ingress /\ l[b].size = m[b].size /\ l[b].ttl = m[b].ttl
  BY DEF Alike
<1> QED
  BY <1>2, <1>3 DEF BundleIn, Dies

LEMMA AlikeTerms ==
  ASSUME NEW l, NEW m, Alike(l, m)
  PROVE  /\ Alike(m, l)
         /\ \A a, b \in Urgent(l) : Sooner(l, a, b) <=> Sooner(m, a, b)
         /\ \A S : S \subseteq Urgent(l) => Weight(l, S) = Weight(m, S)
<1>1. \A b \in Urgent(l) :
        l[b].size = m[b].size /\ l[b].ingress = m[b].ingress /\ l[b].ttl = m[b].ttl
  BY DEF Alike
<1>2. Alike(m, l)
  BY <1>1 DEF Alike
<1>3. ASSUME NEW S, S \subseteq Urgent(l) PROVE Weight(l, S) = Weight(m, S)
  <2>1. \A x \in S \X (1..MaxSize) : x[1] \in Urgent(l)
    BY <1>3
  <2>2. {x \in S \X (1..MaxSize) : x[2] <= l[x[1]].size}
          = {x \in S \X (1..MaxSize) : x[2] <= m[x[1]].size}
    BY <1>1, <2>1
  <2> QED
    BY <2>2 DEF Weight
<1> QED
  BY <1>1, <1>2, <1>3 DEF Sooner

(* Every bundle has the admission that it comes to.                        *)
LEMMA ComesSomewhere ==
  ASSUME plan \in Plan, NEW l, NEW b, l[b].ingress \in Int
  PROVE  \E w \in Places : ComesAt(l, b, w)
<1>1. Len(plan) \in Nat /\ DOMAIN plan = 1..Len(plan)
      /\ \A w \in DOMAIN plan : plan[w].end \in Int
  BY PlanParts
<1> DEFINE T == {w \in Places : w \in DOMAIN plan => l[b].ingress <= plan[w].end}
<1>2. T \in SUBSET Nat
  BY DEF Places
<1>3. Len(plan) + 1 \in T
  BY <1>1 DEF Places
<1>4. PICK w \in T : \A n \in T : w <= n
  BY <1>2, <1>3, LeastNatural
<1>5. w \in Places /\ w \in Nat
  BY DEF Places
<1>6. ASSUME w > 1 PROVE l[b].ingress > plan[w - 1].end
  <2>1. PICK v \in Nat : v = w - 1 /\ v \in DOMAIN plan /\ v \in Places /\ ~(w <= v)
    BY <1>1, <1>5, <1>6 DEF Places
  <2>2. v \notin T
    BY <1>4, <2>1
  <2>3. ~(l[b].ingress <= plan[v].end)
    BY <2>1, <2>2
  <2> QED
    BY <1>1, <2>1, <2>3
<1> QED
  BY <1>5, <1>6 DEF ComesAt

(* An emergency fares alike where all before it do.                        *)
LEMMA OneAgrees ==
  ASSUME plan \in Plan, NEW l, NEW f, NEW s, NEW m, NEW g, NEW t,
         Alike(l, m), Settled(l, f, s), Settled(m, g, t), NEW b \in Urgent(l),
         \A a \in Urgent(l) : Sooner(l, a, b) => Agrees(f, s, g, t, a)
  PROVE  Agrees(f, s, g, t, b)
<1>1. /\ b \in Urgent(m) /\ Urgent(m) = Urgent(l)
      /\ l[b].ingress \in Int /\ l[b].ingress = m[b].ingress /\ l[b].size = m[b].size
      /\ Dies(l, b) = Dies(m, b) /\ Dies(l, b) \in Int
  BY AlikeParts DEF Alike
<1>2. /\ DOMAIN plan = 1..Len(plan) /\ Len(plan) \in Nat
      /\ \A w \in DOMAIN plan : plan[w].end \in Int
  BY PlanParts
<1>3. /\ f[b] \in Terminal /\ g[b] \in Terminal
      /\ s[b] \in DOMAIN plan \cup {NoWindow} /\ t[b] \in DOMAIN plan \cup {NoWindow}
      /\ f[b] = "delivered" <=> s[b] # NoWindow
      /\ g[b] = "delivered" <=> t[b] # NoWindow
      /\ s[b] # NoWindow => MayGo(l, s, b, s[b])
      /\ t[b] # NoWindow => MayGo(m, t, b, t[b])
      /\ \A w \in DOMAIN plan : f[b] # "queue_overflow" /\ s[b] \notin 1..w => ~MayGo(l, s, b, w)
      /\ \A w \in DOMAIN plan : g[b] # "queue_overflow" /\ t[b] \notin 1..w => ~MayGo(m, t, b, w)
      /\ f[b] = "ttl_expired" => \E w \in DOMAIN plan : Dies(l, b) <= plan[w].end
      /\ f[b] = "never_scheduled" => \A w \in DOMAIN plan : Dies(l, b) > plan[w].end
      /\ g[b] = "ttl_expired" => \E w \in DOMAIN plan : Dies(m, b) <= plan[w].end
      /\ g[b] = "never_scheduled" => \A w \in DOMAIN plan : Dies(m, b) > plan[w].end
  BY <1>1 DEF Settled
<1>4. \A a \in Urgent(l) : Sooner(l, a, b) => /\ f[a] = g[a] /\ s[a] = t[a] /\ Sooner(m, a, b)
                                               /\ Dies(l, a) = Dies(m, a)
                                               /\ l[a].ingress = m[a].ingress
  BY <1>1, AlikeParts, AlikeTerms DEF Agrees
<1>5. \A a \in Urgent(l) : Sooner(m, a, b) => Sooner(l, a, b)
  BY AlikeTerms
<1>6. f[b] = "queue_overflow" <=> g[b] = "queue_overflow"
  <2>1. PICK w \in Places : ComesAt(l, b, w)
    BY <1>1, ComesSomewhere
  <2>2. ComesAt(m, b, w)
    BY <1>1, <2>1 DEF ComesAt
  <2>3. \A a \in Urgent(l) : Sooner(l, a, b) => (Gone(l, f, s, a, w) <=> Gone(m, g, t, a, w))
    BY <1>4 DEF Gone
  <2>4. Holding(l, f, s, b, w) = Holding(m, g, t, b, w)
    BY <1>1, <1>4, <1>5, <2>3 DEF Holding
  <2>5. Holding(l, f, s, b, w) \subseteq Urgent(l)
    BY DEF Holding
  <2>6. Weight(l, Holding(l, f, s, b, w)) = Weight(m, Holding(m, g, t, b, w))
    BY <2>4, <2>5, AlikeTerms
  <2>7. NoRoom(l, f, s, b, w) <=> NoRoom(m, g, t, b, w)
    BY <1>1, <2>6 DEF NoRoom
  <2> QED
    BY <1>1, <2>1, <2>2, <2>7 DEF Settled
<1>7. \A w : MayGo(l, s, b, w) <=> MayGo(m, t, b, w)
  <2> TAKE w
  <2>1. SentBefore(l, s, b, w) = SentBefore(m, t, b, w)
    BY <1>1, <1>4, <1>5 DEF SentBefore
  <2>2. SentBefore(l, s, b, w) \subseteq Urgent(l)
    BY DEF SentBefore
  <2>3. Weight(l, SentBefore(l, s, b, w)) = Weight(m, SentBefore(m, t, b, w))
    BY <2>1, <2>2, AlikeTerms
  <2> QED
    BY <1>1, <2>3 DEF MayGo
<1>8. s[b] = t[b]
  <2>1. \A w \in DOMAIN plan : w # NoWindow /\ w \in Int
    BY <1>2 DEF NoWindow
  <2>2. ASSUME s[b] # NoWindow PROVE t[b] \in 1..s[b]
    <3>1. PICK w \in DOMAIN plan : w = s[b]
      BY <1>3, <2>2
    <3>2. MayGo(m, t, b, w)
      BY <1>3, <1>7, <2>2, <3>1
    <3>3. g[b] # "queue_overflow"
      BY <1>3, <1>6, <2>2
    <3> QED
      BY <1>3, <3>1, <3>2, <3>3
  <2>3. ASSUME t[b] # NoWindow PROVE s[b] \in 1..t[b]
    <3>1. PICK w \in DOMAIN plan : w = t[b]
      BY <1>3, <2>3
    <3>2. MayGo(l, s, b, w)
      BY <1>3, <1>7, <2>3, <3>1
    <3>3. f[b] # "queue_overflow"
      BY <1>3, <1>6, <2>3
    <3> QED
      BY <1>3, <3>1, <3>2, <3>3
  <2>4. NoWindow \notin 1..s[b] /\ NoWindow \notin 1..t[b] /\ s[b] \in Int /\ t[b] \in Int
    BY <1>3, <2>1 DEF NoWindow
  <2> QED
    BY <2>2, <2>3, <2>4
<1>9. f[b] = g[b]
  <2>1. f[b] = "delivered" <=> g[b] = "delivered"
    BY <1>3, <1>8
  <2>2. ~(f[b] = "ttl_expired" /\ g[b] = "never_scheduled")
    BY <1>1, <1>2, <1>3
  <2>3. ~(f[b] = "never_scheduled" /\ g[b] = "ttl_expired")
    BY <1>1, <1>2, <1>3
  <2> QED
    BY <1>3, <1>6, <2>1, <2>2, <2>3 DEF Terminal
<1> QED
  BY <1>8, <1>9 DEF Agrees

(* Hence all of them do: what becomes of emergencies is the same in any    *)
(* two runs that settle them, over lists with the same emergencies.        *)
LEMMA EmergenciesAgree ==
  ASSUME plan \in Plan, NEW l, NEW f, NEW s, NEW m, NEW g, NEW t,
         Alike(l, m), Settled(l, f, s), Settled(m, g, t), NEW b \in Urgent(l)
  PROVE  Agrees(f, s, g, t, b)
<1> DEFINE before(a) == {d \in Urgent(l) : Sooner(l, d, a)}
           D == {a \in Urgent(l) : ~Agrees(f, s, g, t, a)}
           T == {Cardinality(before(a)) : a \in D}
<1> SUFFICES ASSUME D # {} PROVE FALSE
  OBVIOUS
<1>1. IsFiniteSet(Urgent(l))
  <2>1. l \in Seq(BundleIn)
    BY DEF Alike, BundleLists
  <2>2. Urgent(l) \subseteq 1..Len(l) /\ Len(l) \in Int
    BY <2>1 DEF Urgent
  <2> QED
    BY <2>2, FS_Interval, FS_Subset
<1>2. \A a : IsFiniteSet(before(a)) /\ Cardinality(before(a)) \in Nat
  <2> TAKE a
  <2>1. before(a) \subseteq Urgent(l)
    OBVIOUS
  <2> QED
    BY <1>1, <2>1, FS_Subset, FS_CardinalityType
<1>3. \A a, d \in Urgent(l) : Sooner(l, d, a) => before(d) \subseteq before(a) /\ d \notin before(d)
  <2>1. \A a \in Urgent(l) : a \in Int /\ l[a].ingress \in Int
    BY AlikeParts
  <2> QED
    BY <2>1 DEF Sooner
<1>4. T \in SUBSET Nat /\ T # {}
  BY <1>2
<1>5. PICK n \in T : \A k \in T : n <= k
  BY <1>4, LeastNatural
<1>6. PICK a \in D : n = Cardinality(before(a))
  BY <1>5
<1>7. ASSUME NEW d \in Urgent(l), Sooner(l, d, a) PROVE Agrees(f, s, g, t, d)
  <2> SUFFICES ASSUME d \in D PROVE FALSE
    OBVIOUS
  <2>1. Cardinality(before(d)) \in T
    OBVIOUS
  <2>2. n <= Cardinality(before(d))
    BY <1>5, <2>1
  <2>3. before(d) \subseteq before(a) /\ d \in before(a) /\ d \notin before(d)
    BY <1>3, <1>6, <1>7
  <2>4. before(d) # before(a)
    BY <2>3
  <2> HIDE DEF before
  <2>5. Cardinality(before(d)) < Cardinality(before(a))
    <3>1. Cardinality(before(d)) <= Cardinality(before(a))
          /\ (Cardinality(before(d)) = Cardinality(before(a)) => before(d) = before(a))
      BY <1>2, <2>3, FS_Subset
    <3> QED
      BY <1>2, <2>4, <3>1
  <2> QED
    BY <1>2, <1>6, <2>2, <2>5
<1>8. Agrees(f, s, g, t, a)
  BY <1>6, <1>7, OneAgrees
<1> QED
  BY <1>6, <1>8
-----------------------------------------------------------------------------
(* All that is known of a run, from wherever it starts.                    *)
RunShape ==
  /\ QueueShape /\ CapShape /\ QueueExact /\ UrgentKeepRoom /\ RoomShape /\ WindowShape
  /\ AliveShape /\ FateShape /\ BudgetShape /\ TurnShape /\ DrainShape
  /\ DeficitShape /\ RobinShape /\ HomeShape /\ ArrivalShape /\ UrgentShape

LEMMA RunStarts == Starting => RunShape
BY CapStarts, ShapeStarts, KeepRoomStarts, RoomStarts, WindowStarts, AliveStarts, FateStarts,
   BudgetStarts, TurnStarts, DrainStarts, DeficitStarts, RobinStarts, HomeStarts,
   ArrivalStarts, UrgentStarts, Zenon
   DEF RunShape

LEMMA RunStep == RunShape /\ [Next]_vars => RunShape'
<1> SUFFICES ASSUME RunShape, [Next]_vars PROVE RunShape'
  OBVIOUS
<1>1. QueueShape' /\ CapShape' /\ QueueExact' /\ UrgentKeepRoom' /\ RoomShape'
  BY ShapeStep, CapStep, ExactStep, KeepRoomStep, RoomStep DEF RunShape
<1>2. WindowShape' /\ AliveShape' /\ FateShape' /\ BudgetShape'
  BY WindowStep, AliveStep, FateStep, BudgetStep DEF RunShape
<1>3. TurnShape' /\ DrainShape' /\ DeficitShape' /\ RobinShape' /\ HomeShape'
  BY TurnStep, DrainStep, DeficitStep, RobinStep, HomeStep DEF RunShape
<1>4. ArrivalShape' /\ UrgentShape'
  BY ArrivalStep, UrgentStep DEF RunShape, UrgentKnown
<1> QED
  BY <1>1, <1>2, <1>3, <1>4 DEF RunShape

-----------------------------------------------------------------------------
(* The run ends: what is left of it, the outer loops first.                *)
StagesLeft ==
  [admit |-> 7, evict |-> 7, expire |-> 6, begin |-> 5, drain |-> 4, round |-> 3, turn |-> 3,
   serve |-> 3, close |-> 2, leftover |-> 1, done |-> 0]
Admitting == pc \in {"admit", "evict"}
InRounds == pc \in {"round", "turn", "serve"}
LoopsLeft ==
  IF Admitting THEN 2 * Cardinality(arrivals) + (IF pc = "admit" THEN 1 ELSE 0)
  ELSE IF InRounds THEN MaxRounds + 1 - rounds ELSE 0
TurnsLeft ==
  IF pc = "round" THEN 8
  ELSE IF pc = "turn" THEN 2 * Cardinality(turn.classes) + 1
  ELSE IF pc = "serve" THEN 2 * Cardinality(turn.classes) ELSE 0
ItemsLeft ==
  IF pc = "evict" THEN Cardinality(active) ELSE IF Serving THEN Cardinality(todo) ELSE 0

Measure == <<Len(plan) + 1 - Pos, StagesLeft[pc], LoopsLeft, TurnsLeft, ItemsLeft>>
Lower(m, n) == \E i \in 1..5 : m[i] < n[i] /\ \A j \in 1..(i - 1) : m[j] = n[j]

RunCountsDown == [][Run => Lower(Measure', Measure)]_vars

(* A round begins within the bound, with a class to serve.                 *)
RoundsShape ==
  /\ pc = "round" => rounds <= MaxRounds + 1
  /\ pc \in {"turn", "serve"} => rounds <= MaxRounds /\ turn.classes # {}

-----------------------------------------------------------------------------
LEMMA LowerBy ==
  ASSUME NEW m, NEW n, NEW i \in 1..5, m[i] < n[i], \A j \in 1..(i - 1) : m[j] = n[j]
  PROVE  Lower(m, n)
BY DEF Lower

LEMMA Lowers ==
  ASSUME NEW a, NEW b, NEW c, NEW d, NEW e, NEW v, NEW w, NEW x, NEW y, NEW z,
         \/ a < v
         \/ a = v /\ b < w
         \/ a = v /\ b = w /\ c < x
         \/ a = v /\ b = w /\ c = x /\ d < y
         \/ a = v /\ b = w /\ c = x /\ d = y /\ e < z
  PROVE  Lower(<<a, b, c, d, e>>, <<v, w, x, y, z>>)
<1> DEFINE m == <<a, b, c, d, e>>
           n == <<v, w, x, y, z>>
<1>1. /\ m[1] = a /\ m[2] = b /\ m[3] = c /\ m[4] = d /\ m[5] = e
      /\ n[1] = v /\ n[2] = w /\ n[3] = x /\ n[4] = y /\ n[5] = z
  OBVIOUS
<1> SUFFICES Lower(m, n)
  OBVIOUS
<1> HIDE DEF m, n
<1>2. /\ \A j \in 1..(1 - 1) : FALSE
      /\ \A j \in 1..(2 - 1) : j = 1
      /\ \A j \in 1..(3 - 1) : j = 1 \/ j = 2
      /\ \A j \in 1..(4 - 1) : j = 1 \/ j = 2 \/ j = 3
      /\ \A j \in 1..(5 - 1) : j = 1 \/ j = 2 \/ j = 3 \/ j = 4
      /\ 1 \in 1..5 /\ 2 \in 1..5 /\ 3 \in 1..5 /\ 4 \in 1..5 /\ 5 \in 1..5
  OBVIOUS
<1>3. CASE a < v
  BY <1>1, <1>2, <1>3, LowerBy
<1>4. CASE a = v /\ b < w
  BY <1>1, <1>2, <1>4, LowerBy
<1>5. CASE a = v /\ b = w /\ c < x
  BY <1>1, <1>2, <1>5, LowerBy
<1>6. CASE a = v /\ b = w /\ c = x /\ d < y
  BY <1>1, <1>2, <1>6, LowerBy
<1>7. CASE a = v /\ b = w /\ c = x /\ d = y /\ e < z
  BY <1>1, <1>2, <1>7, LowerBy
<1> QED
  BY <1>3, <1>4, <1>5, <1>6, <1>7

LEMMA OneTaken ==
  ASSUME NEW S, IsFiniteSet(S), NEW x \in S
  PROVE  Cardinality(S \ {x}) < Cardinality(S)
<1>1. Cardinality(S \ {x}) = Cardinality(S) - 1 /\ Cardinality(S) \in Nat
  BY FS_RemoveElement, FS_CardinalityType
<1> QED
  BY <1>1

LEMMA ThreeClasses == IsFiniteSet(WfqClass) /\ Cardinality(WfqClass) = 3
<1>1. WfqClass = {"telemetry", "science_bulk"} \cup {"media"}
      /\ "media" \notin {"telemetry", "science_bulk"}
  BY WfqParts
<1>2. /\ IsFiniteSet({"telemetry", "science_bulk"})
      /\ Cardinality({"telemetry", "science_bulk"}) = 2
  <2>1. {"telemetry", "science_bulk"} = {"telemetry"} \cup {"science_bulk"}
        /\ "science_bulk" \notin {"telemetry"}
    OBVIOUS
  <2>2. IsFiniteSet({"telemetry"}) /\ Cardinality({"telemetry"}) = 1
    BY FS_Singleton
  <2> QED
    BY <2>1, <2>2, FS_AddElement
<1> QED
  BY <1>1, <1>2, FS_AddElement

LEMMA FiniteLists ==
  ASSUME QueueShape, TurnShape
  PROVE  /\ IsFiniteSet(Bundles) /\ IsFiniteSet(arrivals) /\ IsFiniteSet(active)
         /\ Serving => IsFiniteSet(todo) /\ Cardinality(todo) \in Nat
         /\ IsFiniteSet(turn.classes) /\ Cardinality(turn.classes) \in 0..3
         /\ Cardinality(arrivals) \in Nat /\ Cardinality(active) \in Nat
<1>1. IsFiniteSet(Bundles)
  <2>1. Bundles = 1..Len(bundles) /\ Len(bundles) \in Int
    BY SchedulerAssumption DEF QueueShape, Bundles, BundleLists
  <2> QED
    BY <2>1, FS_Interval
<1>2. arrivals \in SUBSET Bundles /\ active \in SUBSET Bundles
  BY DEF QueueShape
<1>3. Serving => todo \in SUBSET Bundles
  BY <1>2 DEF QueueShape, Serving, Waiting
<1>4. IsFiniteSet(WfqClass) /\ Cardinality(WfqClass) = 3
  BY ThreeClasses
<1>5. turn.classes \in SUBSET WfqClass
  BY DEF TurnShape
<1>6. /\ IsFiniteSet(turn.classes) /\ Cardinality(turn.classes) \in Nat
      /\ Cardinality(turn.classes) <= 3
  BY <1>4, <1>5, FS_Subset, FS_CardinalityType
<1> QED
  BY <1>1, <1>2, <1>3, <1>6, FS_Subset, FS_CardinalityType

LEMMA RoundsStep ==
  QueueShape /\ TurnShape /\ DeficitShape /\ RoundsShape /\ [Next]_vars => RoundsShape'
<1> SUFFICES ASSUME QueueShape, TurnShape, DeficitShape, RoundsShape, [Next]_vars PROVE RoundsShape'
  OBVIOUS
<1>1. rounds \in Nat /\ MaxRounds \in Nat
  BY SchedulerAssumption DEF DeficitShape
<1>2. CASE BeginRound
  <2>1. /\ pc' = "turn" /\ rounds' = rounds /\ RoundUseful /\ turn'.classes = Backlogged
    BY <1>2 DEF BeginRound
  <2>2. Backlogged # {} /\ rounds <= MaxRounds
    BY <2>1 DEF RoundUseful, SomeHeadFits, Backlogged, Earliest
  <2> QED
    BY <2>1, <2>2 DEF RoundsShape
<1>3. CASE EndTurn
  <2>1. PICK c \in InTurn :
          /\ turn' = [turn EXCEPT !.classes = @ \ {c}]
          /\ IF turn.classes = {c} THEN pc' = "round" /\ rounds' = rounds + 1
                                   ELSE pc' = "turn" /\ rounds' = rounds
    BY <1>3 DEF EndTurn
  <2>2. turn'.classes = turn.classes \ {c} /\ c \in turn.classes
    BY <2>1 DEF InTurn, TurnShape
  <2>3. pc = "serve" /\ rounds <= MaxRounds
    BY <1>3 DEF EndTurn, RoundsShape
  <2> QED
    BY <1>1, <2>1, <2>2, <2>3 DEF RoundsShape
<1>4. CASE DrainOver
  <2>1. rounds' = 0 /\ pc' \in {"round", "close"}
    BY <1>4 DEF DrainOver
  <2> QED
    BY <1>1, <2>1 DEF RoundsShape
<1>5. CASE BeginTurn \/ SendNext \/ PassNext
  BY <1>5 DEF BeginTurn, SendNext, PassNext, RoundsShape, wfq
<1>6. CASE pc' \notin {"round", "turn", "serve"}
  BY <1>6 DEF RoundsShape
<1>7. CASE UNCHANGED vars
  BY <1>7 DEF vars, wfq, RoundsShape
<1>8. ASSUME Run, ~BeginRound, ~EndTurn, ~DrainOver, ~(BeginTurn \/ SendNext \/ PassNext)
      PROVE pc' \notin {"round", "turn", "serve"}
  <2>1. CASE Admission
    BY <2>1 DEF Admission, AdmitOne, BeginEviction, EvictOne, OverflowOne, AdmissionOver
  <2>2. CASE BeginDrain \/ SendForemost \/ DeferForemost
    BY <2>2 DEF BeginDrain, SendForemost, DeferForemost
  <2>3. CASE Expire \/ RoundsOver \/ CloseWindow \/ WriteOff
    BY <2>3 DEF Expire, RoundsOver, CloseWindow, WriteOff
  <2> QED
    BY <1>8, <2>1, <2>2, <2>3 DEF Run, Drain, RoundRobin
<1> QED
  BY <1>2, <1>3, <1>4, <1>5, <1>6, <1>7, <1>8 DEF Next, Done

LEMMA MeasureIsNat ==
  ASSUME QueueShape, TurnShape, WindowShape, DeficitShape, RoundsShape
  PROVE  /\ Len(plan) + 1 - Pos \in Nat /\ StagesLeft[pc] \in 0..7 /\ LoopsLeft \in Nat
         /\ TurnsLeft \in Nat /\ ItemsLeft \in Nat
<1>1. Len(plan) + 1 - Pos \in Nat
  BY PosParts DEF Places
<1>2. StagesLeft[pc] \in 0..7
  BY DEF StagesLeft, QueueShape, Pcs
<1>3. LoopsLeft \in Nat
  <2>1. rounds \in Nat /\ MaxRounds \in Nat /\ Cardinality(arrivals) \in Nat
    BY SchedulerAssumption, FiniteLists DEF DeficitShape
  <2>2. InRounds => rounds <= MaxRounds + 1
    BY <2>1 DEF InRounds, RoundsShape
  <2> QED
    BY <2>1, <2>2 DEF LoopsLeft
<1>4. TurnsLeft \in Nat
  BY FiniteLists DEF TurnsLeft
<1>5. ItemsLeft \in Nat
  BY FiniteLists DEF ItemsLeft
<1> QED
  BY <1>1, <1>2, <1>3, <1>4, <1>5

(* What falls, action by action.                                           *)
Falls ==
  \/ Len(plan') + 1 - Pos' < Len(plan) + 1 - Pos
  \/ Len(plan') + 1 - Pos' = Len(plan) + 1 - Pos /\ StagesLeft[pc'] < StagesLeft[pc]
  \/ /\ Len(plan') + 1 - Pos' = Len(plan) + 1 - Pos /\ StagesLeft[pc'] = StagesLeft[pc]
     /\ \/ LoopsLeft' < LoopsLeft
        \/ LoopsLeft' = LoopsLeft /\ TurnsLeft' < TurnsLeft
        \/ LoopsLeft' = LoopsLeft /\ TurnsLeft' = TurnsLeft /\ ItemsLeft' < ItemsLeft

LEMMA AdmissionFalls ==
  ASSUME QueueShape, TurnShape, WindowShape, Admission
  PROVE  Falls
<1>1. plan' = plan /\ cur' = cur /\ Pos' = Pos /\ Pos \in Int /\ Len(plan) \in Int
  <2>1. plan' = plan /\ cur' = cur
    BY DEF Admission, AdmitOne, BeginEviction, EvictOne, OverflowOne, AdmissionOver, inputs,
           control
  <2> QED
    BY <2>1, PosParts DEF Pos
<1>2. /\ Cardinality(arrivals) \in Nat /\ \A b \in arrivals : Cardinality(arrivals \ {b}) < Cardinality(arrivals)
      /\ \A b \in arrivals : Cardinality(arrivals \ {b}) \in Nat
      /\ \A b \in active : Cardinality(active \ {b}) < Cardinality(active)
  <2>1. \A b \in arrivals : IsFiniteSet(arrivals \ {b})
    BY FiniteLists, FS_Subset
  <2> QED
    BY <2>1, FiniteLists, OneTaken, FS_CardinalityType
<1>3. CASE AdmitOne \/ OverflowOne
  <2>1. PICK b \in Offered : arrivals' = arrivals \ {b} /\ pc' = "admit"
    BY <1>3 DEF AdmitOne, OverflowOne, Admit
  <2>2. b \in arrivals /\ pc \in {"admit", "evict"}
    BY <2>1, OfferedArrives DEF Offered
  <2>3. StagesLeft[pc'] = StagesLeft[pc]
    BY <2>1, <2>2 DEF StagesLeft
  <2>4. LoopsLeft' = 2 * Cardinality(arrivals \ {b}) + 1 /\ LoopsLeft >= 2 * Cardinality(arrivals)
    BY <1>2, <2>1, <2>2 DEF LoopsLeft, Admitting
  <2>5. LoopsLeft' < LoopsLeft
    BY <1>2, <2>2, <2>4 DEF LoopsLeft, Admitting
  <2> QED
    BY <1>1, <2>3, <2>5 DEF Falls
<1>4. CASE BeginEviction
  <2>1. pc = "admit" /\ pc' = "evict" /\ arrivals' = arrivals
    BY <1>4 DEF BeginEviction, queue
  <2>2. StagesLeft[pc'] = StagesLeft[pc] /\ LoopsLeft' < LoopsLeft
    BY <1>2, <2>1 DEF StagesLeft, LoopsLeft, Admitting
  <2> QED
    BY <1>1, <2>2 DEF Falls
<1>5. CASE EvictOne
  <2>1. PICK v \in Victim(incoming) : active' = active \ {v}
    BY <1>5 DEF EvictOne
  <2>2. pc = "evict" /\ pc' = "evict" /\ arrivals' = arrivals /\ v \in active
    BY <1>5, <2>1 DEF EvictOne, Victim, Candidates
  <2>3. /\ StagesLeft[pc'] = StagesLeft[pc] /\ LoopsLeft' = LoopsLeft /\ TurnsLeft' = TurnsLeft
        /\ ItemsLeft' < ItemsLeft
    BY <1>2, <2>1, <2>2 DEF StagesLeft, LoopsLeft, TurnsLeft, ItemsLeft, Admitting, InRounds
  <2> QED
    BY <1>1, <2>3 DEF Falls
<1>6. CASE AdmissionOver
  <2>1. pc = "admit" /\ pc' \in {"leftover", "expire"}
    BY <1>6 DEF AdmissionOver
  <2>2. StagesLeft[pc'] < StagesLeft[pc]
    BY <2>1 DEF StagesLeft
  <2> QED
    BY <1>1, <2>2 DEF Falls
<1> QED
  BY <1>3, <1>4, <1>5, <1>6 DEF Admission

(* A step that goes on to a later stage of the same window.                *)
LEMMA StageFalls ==
  ASSUME WindowShape, plan' = plan, cur' = cur, StagesLeft[pc'] < StagesLeft[pc]
  PROVE  Falls
<1>1. Pos' = Pos /\ Pos \in Int /\ Len(plan) \in Int
  BY PosParts DEF Pos
<1> QED
  BY <1>1 DEF Falls

LEMMA DrainFalls ==
  ASSUME QueueShape, TurnShape, WindowShape, Drain
  PROVE  Falls
<1>1. plan' = plan /\ cur' = cur /\ Pos' = Pos /\ Pos \in Int /\ Len(plan) \in Int
  <2>1. plan' = plan /\ cur' = cur
    BY DEF Drain, BeginDrain, SendForemost, DeferForemost, DrainOver, inputs, control
  <2> QED
    BY <2>1, PosParts DEF Pos
<1>2. CASE BeginDrain \/ DrainOver
  <2>1. \/ pc = "begin" /\ pc' = "drain"
        \/ pc = "drain" /\ pc' \in {"round", "close"}
    BY <1>2 DEF BeginDrain, DrainOver
  <2>2. StagesLeft[pc'] < StagesLeft[pc]
    BY <2>1 DEF StagesLeft
  <2> QED
    BY <1>1, <2>2, StageFalls
<1>3. CASE SendForemost \/ DeferForemost
  <2>1. PICK b \in Foremost(todo) : todo' = todo \ {b} \/ todo' = {}
    BY <1>3 DEF SendForemost, DeferForemost
  <2>2. pc = "drain" /\ pc' = "drain" /\ b \in todo
    BY <1>3 DEF SendForemost, DeferForemost, Foremost
  <2>3. Cardinality(todo') < Cardinality(todo)
    <3>1. IsFiniteSet(todo) /\ Cardinality(todo) \in Nat
      BY <2>2, FiniteLists DEF Serving
    <3>2. Cardinality(todo \ {b}) < Cardinality(todo)
      BY <2>2, <3>1, OneTaken
    <3>3. Cardinality({}) = 0 /\ Cardinality(todo) # 0
      BY <2>2, <3>1, FS_EmptySet
    <3> QED
      BY <2>1, <3>1, <3>2, <3>3
  <2>4. /\ StagesLeft[pc'] = StagesLeft[pc] /\ LoopsLeft' = LoopsLeft /\ TurnsLeft' = TurnsLeft
        /\ ItemsLeft' < ItemsLeft
    BY <2>2, <2>3 DEF StagesLeft, LoopsLeft, TurnsLeft, ItemsLeft, Admitting, InRounds, Serving
  <2> QED
    BY <1>1, <2>4 DEF Falls
<1> QED
  BY <1>2, <1>3 DEF Drain

LEMMA RoundFalls ==
  ASSUME QueueShape, TurnShape, WindowShape, DeficitShape, RoundsShape, RoundRobin
  PROVE  Falls
<1>1. plan' = plan /\ cur' = cur /\ Pos' = Pos /\ Pos \in Int /\ Len(plan) \in Int
  <2>1. plan' = plan /\ cur' = cur
    BY DEF RoundRobin, BeginRound, BeginTurn, SendNext, PassNext, EndTurn, RoundsOver, inputs,
           control
  <2> QED
    BY <2>1, PosParts DEF Pos
<1>2. rounds \in Nat /\ MaxRounds \in Nat /\ Cardinality(turn.classes) \in 0..3
  BY SchedulerAssumption, FiniteLists DEF DeficitShape
<1>3. CASE BeginRound
  <2>1. /\ pc = "round" /\ pc' = "turn" /\ rounds' = rounds /\ turn'.classes = Backlogged
    BY <1>3 DEF BeginRound
  <2>2. Cardinality(Backlogged) \in 0..3
    <3>1. /\ IsFiniteSet(WfqClass) /\ Cardinality(WfqClass) = 3 /\ Backlogged \in SUBSET WfqClass
      BY ThreeClasses DEF Backlogged
    <3>2. /\ IsFiniteSet(Backlogged) /\ Cardinality(Backlogged) <= 3
      BY <3>1, FS_Subset
    <3> QED
      BY <3>2, FS_CardinalityType
  <2>3. /\ StagesLeft[pc'] = StagesLeft[pc] /\ LoopsLeft' = LoopsLeft /\ TurnsLeft' < TurnsLeft
    BY <2>1, <2>2 DEF StagesLeft, LoopsLeft, TurnsLeft, Admitting, InRounds
  <2> QED
    BY <1>1, <2>3 DEF Falls
<1>4. CASE BeginTurn
  <2>1. pc = "turn" /\ pc' = "serve" /\ rounds' = rounds /\ turn' = turn
    BY <1>4 DEF BeginTurn
  <2>2. /\ StagesLeft[pc'] = StagesLeft[pc] /\ LoopsLeft' = LoopsLeft /\ TurnsLeft' < TurnsLeft
    BY <1>2, <2>1 DEF StagesLeft, LoopsLeft, TurnsLeft, Admitting, InRounds
  <2> QED
    BY <1>1, <2>2 DEF Falls
<1>5. CASE SendNext \/ PassNext
  <2>1. PICK b \in Earliest(todo) : todo' = todo \ {b} \/ todo' = {}
    BY <1>5 DEF SendNext, PassNext
  <2>2. /\ pc = "serve" /\ pc' = "serve" /\ b \in todo /\ rounds' = rounds /\ turn' = turn
    BY <1>5 DEF SendNext, PassNext, Earliest, wfq
  <2>3. Cardinality(todo') < Cardinality(todo)
    <3>1. IsFiniteSet(todo) /\ Cardinality(todo) \in Nat
      BY <2>2, FiniteLists DEF Serving
    <3>2. Cardinality(todo \ {b}) < Cardinality(todo)
      BY <2>2, <3>1, OneTaken
    <3>3. Cardinality({}) = 0 /\ Cardinality(todo) # 0
      BY <2>2, <3>1, FS_EmptySet
    <3> QED
      BY <2>1, <3>1, <3>2, <3>3
  <2>4. /\ StagesLeft[pc'] = StagesLeft[pc] /\ LoopsLeft' = LoopsLeft /\ TurnsLeft' = TurnsLeft
        /\ ItemsLeft' < ItemsLeft
    BY <2>2, <2>3 DEF StagesLeft, LoopsLeft, TurnsLeft, ItemsLeft, Admitting, InRounds, Serving
  <2> QED
    BY <1>1, <2>4 DEF Falls
<1>6. CASE EndTurn
  <2>1. PICK c \in InTurn :
          /\ turn' = [turn EXCEPT !.classes = @ \ {c}]
          /\ IF turn.classes = {c} THEN pc' = "round" /\ rounds' = rounds + 1
                                   ELSE pc' = "turn" /\ rounds' = rounds
    BY <1>6 DEF EndTurn
  <2>2. pc = "serve" /\ c \in turn.classes /\ turn'.classes = turn.classes \ {c}
    BY <1>6, <2>1 DEF EndTurn, InTurn, TurnShape
  <2>3. rounds <= MaxRounds /\ StagesLeft[pc'] = StagesLeft[pc]
    BY <2>1, <2>2 DEF RoundsShape, StagesLeft
  <2>4. CASE turn.classes = {c}
    <3>1. pc' = "round" /\ rounds' = rounds + 1
      BY <2>1, <2>4
    <3>2. LoopsLeft' < LoopsLeft
      BY <1>2, <2>2, <3>1 DEF LoopsLeft, Admitting, InRounds
    <3> QED
      BY <1>1, <2>3, <3>2 DEF Falls
  <2>5. CASE turn.classes # {c}
    <3>1. pc' = "turn" /\ rounds' = rounds
      BY <2>1, <2>5
    <3>2. /\ Cardinality(turn'.classes) = Cardinality(turn.classes) - 1
      BY <2>2, FiniteLists, FS_RemoveElement
    <3>3. LoopsLeft' = LoopsLeft /\ TurnsLeft' < TurnsLeft
      BY <1>2, <2>2, <3>1, <3>2 DEF LoopsLeft, TurnsLeft, Admitting, InRounds
    <3> QED
      BY <1>1, <2>3, <3>3 DEF Falls
  <2> QED
    BY <2>4, <2>5
<1>7. CASE RoundsOver
  <2>1. StagesLeft[pc'] < StagesLeft[pc]
    BY <1>7 DEF RoundsOver, StagesLeft
  <2> QED
    BY <1>1, <2>1, StageFalls
<1> QED
  BY <1>3, <1>4, <1>5, <1>6, <1>7 DEF RoundRobin

LEMMA RunFalls ==
  ASSUME QueueShape, TurnShape, WindowShape, DeficitShape, RoundsShape, Run
  PROVE  Falls
<1>1. CASE Expire \/ WriteOff
  <2>1. plan' = plan /\ cur' = cur
    BY <1>1 DEF Expire, WriteOff, inputs, control
  <2>2. StagesLeft[pc'] < StagesLeft[pc]
    BY <1>1 DEF Expire, WriteOff, StagesLeft
  <2> QED
    BY <2>1, <2>2, StageFalls
<1>2. CASE CloseWindow
  <2>1. plan' = plan /\ Pos' = cur + 1 /\ Pos = cur /\ cur \in Int /\ Len(plan) \in Int
    BY <1>2, PosMoves, PosParts
  <2> QED
    BY <2>1 DEF Falls
<1> QED
  BY <1>1, <1>2, AdmissionFalls, DrainFalls, RoundFalls DEF Run

RunMeasured == RunShape /\ RoundsShape

LEMMA MeasuredStep == RunMeasured /\ [Next]_vars => RunMeasured'
BY RunStep, RoundsStep DEF RunMeasured, RunShape

LEMMA MeasureFalls ==
  ASSUME RunMeasured, [Next]_vars, Run PROVE Lower(Measure', Measure)
<1>1. Falls
  BY RunFalls DEF RunMeasured, RunShape
<1>2. Measure' = <<Len(plan') + 1 - Pos', StagesLeft[pc'], LoopsLeft', TurnsLeft', ItemsLeft'>>
  BY DEF Measure, StagesLeft
<1>3. /\ Measure = <<Len(plan) + 1 - Pos, StagesLeft[pc], LoopsLeft, TurnsLeft, ItemsLeft>>
  BY DEF Measure
<1>4. Lower(<<Len(plan') + 1 - Pos', StagesLeft[pc'], LoopsLeft', TurnsLeft', ItemsLeft'>>,
            <<Len(plan) + 1 - Pos, StagesLeft[pc], LoopsLeft, TurnsLeft, ItemsLeft>>)
  BY <1>1, Lowers DEF Falls
<1> QED
  BY <1>2, <1>3, <1>4

-----------------------------------------------------------------------------
(* Every choice of a run has one answer: the next to admit or to evict,    *)
(* the first of a sorted list, the class whose turn it is.                 *)
OneOf(S) == \E b \in S : S = {b}
ChoicesMade ==
  /\ pc = "admit" /\ Ready # {} => OneOf(Earliest(Ready))
  /\ pc = "evict" /\ Candidates(incoming) # {} => OneOf(Victim(incoming))
  /\ pc = "drain" /\ todo # {} => OneOf(Foremost(todo))
  /\ pc \in {"turn", "serve"} => OneOf(InTurn)
  /\ pc = "serve" /\ todo # {} => OneOf(Earliest(todo))

(* A total order on a finite set, as a set of pairs, has a first element.  *)
LEMMA FirstInOrder ==
  ASSUME NEW S, IsFiniteSet(S), S # {}, NEW R,
         \A a, b \in S : a # b => (<<a, b>> \in R <=> <<b, a>> \notin R),
         \A a, b, c \in S : <<a, b>> \in R /\ <<b, c>> \in R /\ a # c => <<a, c>> \in R
  PROVE  OneOf({a \in S : \A b \in S \ {a} : <<a, b>> \in R})
<1> DEFINE pre(a) == {x \in S : x # a /\ <<x, a>> \in R}
           T == {n \in Nat : \E a \in S : n = Cardinality(pre(a))}
<1>1. \A a \in S : pre(a) \in SUBSET S /\ IsFiniteSet(pre(a)) /\ Cardinality(pre(a)) \in Nat
  <2> TAKE a \in S
  <2>1. pre(a) \in SUBSET S
    OBVIOUS
  <2> HIDE DEF pre
  <2> QED
    BY <2>1, FS_Subset, FS_CardinalityType
<1>2. T \in SUBSET Nat /\ T # {}
  <2>1. PICK a \in S : TRUE
    OBVIOUS
  <2>2. Cardinality(pre(a)) \in T
    BY <1>1, <2>1
  <2> QED
    BY <2>2
<1>3. PICK m \in T : \A n \in T : m <= n
  BY <1>2, LeastNatural
<1>4. PICK a \in S : m = Cardinality(pre(a))
  BY <1>3
<1>5. ASSUME NEW b \in S \ {a}, <<a, b>> \notin R PROVE FALSE
  <2>1. <<b, a>> \in R /\ b # a /\ b \in pre(a) /\ b \notin pre(b) /\ a \notin pre(b)
    BY <1>5
  <2>2. pre(b) \subseteq pre(a) \ {b}
    <3> SUFFICES ASSUME NEW x \in pre(b) PROVE x \in pre(a) \ {b}
      OBVIOUS
    <3>1. x \in S /\ x # b /\ <<x, b>> \in R /\ x # a
      BY <2>1
    <3>2. <<x, a>> \in R
      BY <2>1, <3>1
    <3> QED
      BY <3>1, <3>2
  <2>3. Cardinality(pre(b)) \in T
    BY <1>1
  <2> HIDE DEF pre, T
  <2>4. IsFiniteSet(pre(a)) /\ Cardinality(pre(a)) \in Nat /\ Cardinality(pre(b)) \in Nat
    BY <1>1
  <2>5. IsFiniteSet(pre(a) \ {b}) /\ Cardinality(pre(a) \ {b}) = Cardinality(pre(a)) - 1
    BY <2>1, <2>4, FS_RemoveElement, FS_Subset
  <2>6. Cardinality(pre(b)) <= Cardinality(pre(a) \ {b})
    BY <2>2, <2>5, FS_Subset
  <2> QED
    BY <1>3, <1>4, <2>3, <2>4, <2>5, <2>6
<1>6. \A c \in S : (\A b \in S \ {c} : <<c, b>> \in R) => c = a
  BY <1>5
<1>7. {c \in S : \A b \in S \ {c} : <<c, b>> \in R} = {a}
  BY <1>5, <1>6
<1> QED
  BY <1>7 DEF OneOf

-----------------------------------------------------------------------------
LEMMA BundleNumbers ==
  ASSUME bundles \in BundleLists, NEW b \in Bundles
  PROVE  /\ b \in Int /\ Ingress(b) \in Int /\ Expiration(b) \in Int /\ Rank(b) \in Int
         /\ Utility(b) \in Nat /\ Size(b) \in Nat /\ Size(b) > 0
<1>1. b \in Int /\ bundles[b] \in BundleIn
  BY SchedulerAssumption DEF Bundles, BundleLists
<1>2. Ingress(b) \in Int /\ Expiration(b) \in Int /\ Size(b) \in Nat /\ Size(b) > 0
  BY BundleTimes, BundleFields
<1>3. Cls(b) \in {"emergency", "telemetry", "science_bulk", "media"}
  BY <1>1 DEF BundleIn, Cls, Class, RANK
<1>4. Rank(b) \in Int /\ Utility(b) \in Nat
  BY <1>3 DEF Rank, RANK, Utility, UtilityWeight
<1> QED
  BY <1>1, <1>2, <1>4

LEMMA OneEarliest ==
  ASSUME bundles \in BundleLists, NEW S, S \subseteq Bundles, S # {}, IsFiniteSet(S)
  PROVE  OneOf(Earliest(S))
<1> DEFINE R == {p \in Bundles \X Bundles : Earlier(p[1], p[2])}
<1>1. \A a, b \in Bundles : <<a, b>> \in R <=> Earlier(a, b)
  OBVIOUS
<1>2. \A a, b \in S : a # b => (<<a, b>> \in R <=> <<b, a>> \notin R)
  BY <1>1, BundleNumbers DEF Earlier
<1>3. \A a, b, c \in S : <<a, b>> \in R /\ <<b, c>> \in R /\ a # c => <<a, c>> \in R
  BY <1>1, BundleNumbers DEF Earlier
<1>4. Earliest(S) = {a \in S : \A b \in S \ {a} : <<a, b>> \in R}
  BY <1>1 DEF Earliest
<1> HIDE DEF R
<1> QED
  BY <1>2, <1>3, <1>4, FirstInOrder

LEMMA OneVictim ==
  ASSUME bundles \in BundleLists, active \subseteq Bundles, IsFiniteSet(active), NEW x,
         Candidates(x) # {}
  PROVE  OneOf(Victim(x))
<1> DEFINE S == Candidates(x)
           R == {p \in Bundles \X Bundles : GoesBefore(p[1], p[2])}
<1>1. \A a, b \in Bundles : <<a, b>> \in R <=> GoesBefore(a, b)
  OBVIOUS
<1>5. S \in SUBSET Bundles /\ S \in SUBSET active
  BY DEF Candidates
<1>2. \A a, b \in S : a # b => (<<a, b>> \in R <=> <<b, a>> \notin R)
  BY <1>1, <1>5, BundleNumbers DEF GoesBefore
<1>3. \A a, b, c \in S : <<a, b>> \in R /\ <<b, c>> \in R /\ a # c => <<a, c>> \in R
  BY <1>1, <1>5, BundleNumbers DEF GoesBefore
<1>4. Victim(x) = {a \in S : \A b \in S \ {a} : <<a, b>> \in R}
  BY <1>1, <1>5 DEF Victim
<1>6. IsFiniteSet(S) /\ S # {}
  BY <1>5, FS_Subset
<1> HIDE DEF R, S
<1> QED
  BY <1>2, <1>3, <1>4, <1>6, FirstInOrder

-----------------------------------------------------------------------------
(* The sort keys: whoever comes before c also comes before, or not after,  *)
(* anyone else; so the order of the list decides between equals only.      *)
LEMMA ScaledUp ==
  ASSUME NEW x \in Nat, NEW y \in Nat, NEW n \in Nat, x <= y
  PROVE  x * n <= y * n
<1>1. y - x \in Nat /\ y = x + (y - x)
  OBVIOUS
<1>2. PICK d \in Nat : y = x + d
  BY <1>1
<1>3. y * n = x * n + d * n /\ x * n \in Nat /\ d * n \in Nat
  BY <1>2
<1> QED
  BY <1>3

LEMMA DensityOrders ==
  ASSUME NEW u \in Nat, NEW v \in Nat, NEW w \in Nat,
         NEW p \in Nat, NEW q \in Nat, NEW r \in Nat, q > 0,
         u * q <= v * p, v * r <= w * q
  PROVE  u * r <= w * p
<1>1. (u * q) * r <= (v * p) * r
  <2>1. u * q \in Nat /\ v * p \in Nat
    OBVIOUS
  <2> QED
    BY <2>1, ScaledUp
<1>2. (v * r) * p <= (w * q) * p
  <2>1. v * r \in Nat /\ w * q \in Nat
    OBVIOUS
  <2> QED
    BY <2>1, ScaledUp
<1>3. (u * q) * r = q * (u * r) /\ (v * p) * r = (v * r) * p /\ (w * q) * p = q * (w * p)
  OBVIOUS
<1>4. q * (u * r) <= q * (w * p)
  BY <1>1, <1>2, <1>3
<1>5. u * r \in Nat /\ w * p \in Nat
  OBVIOUS
<1>6. CASE u * r > w * p
  <2>1. PICK d \in Nat : u * r = w * p + 1 + d
    <3>1. u * r - w * p - 1 \in Nat /\ u * r = w * p + 1 + (u * r - w * p - 1)
      BY <1>5, <1>6
    <3> QED
      BY <3>1
  <2>2. q * (u * r) = q * (w * p) + q + q * d /\ q * d \in Nat /\ q * (w * p) \in Nat
    <3> DEFINE z == w * p
    <3>1. z \in Nat /\ u * r = z + 1 + d
      BY <1>5, <2>1
    <3> HIDE DEF z
    <3>2. q * (z + 1 + d) = q * z + q + q * d /\ q * d \in Nat /\ q * z \in Nat
      BY <3>1
    <3> QED
      BY <3>1, <3>2 DEF z
  <2> QED
    BY <1>4, <2>2
<1> QED
  BY <1>5, <1>6

LEMMA AheadOrders ==
  ASSUME bundles \in BundleLists, NEW a \in Bundles, NEW b \in Bundles, NEW c \in Bundles
  PROVE  /\ Ahead(a, b) => ~Ahead(b, a)
         /\ Ahead(a, c) => Ahead(a, b) \/ Ahead(b, c)
<1>1. CASE config.policy = "strict_priority"
  BY <1>1, BundleNumbers DEF Ahead
<1>2. CASE config.policy = "deadline_aware"
  BY <1>2, BundleNumbers DEF Ahead
<1>3. /\ Denser(a, b) => ~Denser(b, a)
      /\ Denser(a, c) => Denser(a, b) \/ Denser(b, c)
  <2>1. /\ Utility(a) \in Nat /\ Utility(b) \in Nat /\ Utility(c) \in Nat
        /\ Size(a) \in Nat /\ Size(b) \in Nat /\ Size(c) \in Nat /\ Size(b) > 0
    BY BundleNumbers
  <2>2. /\ Utility(a) * Size(b) \in Nat /\ Utility(b) * Size(a) \in Nat
        /\ Utility(b) * Size(c) \in Nat /\ Utility(c) * Size(b) \in Nat
        /\ Utility(a) * Size(c) \in Nat /\ Utility(c) * Size(a) \in Nat
    BY <2>1
  <2>3. /\ Utility(a) * Size(b) <= Utility(b) * Size(a)
        /\ Utility(b) * Size(c) <= Utility(c) * Size(b)
        => Utility(a) * Size(c) <= Utility(c) * Size(a)
    BY <2>1, DensityOrders
  <2> QED
    BY <2>2, <2>3 DEF Denser
<1>4. CASE config.policy = "utility_pure"
  BY <1>3, <1>4 DEF Ahead
<1>5. CASE config.policy = "utility_aware"
  <2>1. \A x, y : Ahead(x, y) <=> \/ AtRisk(x) /\ ~AtRisk(y)
                                  \/ AtRisk(x) /\ AtRisk(y) /\ Utility(x) > Utility(y)
                                  \/ ~AtRisk(x) /\ ~AtRisk(y) /\ Denser(x, y)
    BY <1>5 DEF Ahead
  <2>2. Utility(a) \in Int /\ Utility(b) \in Int /\ Utility(c) \in Int
    BY BundleNumbers
  <2>3. /\ Utility(a) > Utility(b) => ~(Utility(b) > Utility(a))
        /\ Utility(a) > Utility(c) => Utility(a) > Utility(b) \/ Utility(b) > Utility(c)
    BY <2>2
  <2> QED
    BY <1>3, <2>1, <2>3, Zenon
<1>6. CASE config.policy \notin {"strict_priority", "deadline_aware", "utility_pure", "utility_aware"}
  BY <1>6 DEF Ahead
<1> QED
  BY <1>1, <1>2, <1>4, <1>5, <1>6

LEMMA OneForemost ==
  ASSUME bundles \in BundleLists, NEW S, S \subseteq Bundles, S # {}, IsFiniteSet(S)
  PROVE  OneOf(Foremost(S))
<1> DEFINE R == {p \in Bundles \X Bundles : Before(p[1], p[2])}
<1>1. \A a, b \in Bundles : <<a, b>> \in R <=> Before(a, b)
  OBVIOUS
<1>2. \A a, b \in Bundles : a # b => (Earlier(a, b) <=> ~Earlier(b, a))
  BY BundleNumbers DEF Earlier
<1>3. \A a, b, c \in Bundles : Earlier(a, b) /\ Earlier(b, c) => Earlier(a, c)
  BY BundleNumbers DEF Earlier
<1>4. \A a, b \in Bundles : Ahead(a, b) => ~Ahead(b, a)
  BY AheadOrders
<1>5. \A a, b, c \in Bundles : Ahead(a, c) => Ahead(a, b) \/ Ahead(b, c)
  BY AheadOrders
<1>6. ASSUME NEW a \in Bundles, NEW b \in Bundles, a # b PROVE Before(a, b) <=> ~Before(b, a)
  BY <1>2, <1>4, <1>6, Zenon DEF Before
<1>7. ASSUME NEW a \in Bundles, NEW b \in Bundles, NEW c \in Bundles, Before(a, b), Before(b, c)
      PROVE  Before(a, c)
  BY <1>3, <1>4, <1>5, <1>7, Zenon DEF Before
<1>8. \A a, b \in S : a # b => (<<a, b>> \in R <=> <<b, a>> \notin R)
  BY <1>1, <1>6
<1>9. \A a, b, c \in S : <<a, b>> \in R /\ <<b, c>> \in R /\ a # c => <<a, c>> \in R
  BY <1>1, <1>7
<1>10. Foremost(S) = {a \in S : \A b \in S \ {a} : <<a, b>> \in R}
  BY <1>1 DEF Foremost
<1> HIDE DEF R
<1> QED
  BY <1>8, <1>9, <1>10, FirstInOrder

LEMMA OneTurn ==
  ASSUME QueueShape, TurnShape, DeficitShape, turn.classes # {}
  PROVE  OneOf(InTurn)
<1> DEFINE S == turn.classes
           R == {p \in WfqClass \X WfqClass : Place(p[1]) < Place(p[2])}
<1>1. \A a, b \in WfqClass : <<a, b>> \in R <=> Place(a) < Place(b)
  OBVIOUS
<1>2. S \in SUBSET WfqClass /\ IsFiniteSet(S)
  BY FiniteLists DEF TurnShape
<1>3. \A a \in WfqClass : Place(a) \in Int
  BY WfqParts DEF Place, DeficitShape
<1>4. \A a, b \in WfqClass : a # b => Place(a) # Place(b)
  <2>1. rotation \in Nat
    BY DEF DeficitShape
  <2>2. /\ (0 - rotation) % 3 # (1 - rotation) % 3 /\ (0 - rotation) % 3 # (2 - rotation) % 3
        /\ (1 - rotation) % 3 # (2 - rotation) % 3
    BY <2>1
  <2> QED
    BY <2>2 DEF Place, WfqClass, QueueBudget, WfqIndex
<1>5. \A a, b \in S : a # b => (<<a, b>> \in R <=> <<b, a>> \notin R)
  BY <1>1, <1>2, <1>3, <1>4
<1>6. \A a, b, c \in S : <<a, b>> \in R /\ <<b, c>> \in R /\ a # c => <<a, c>> \in R
  BY <1>1, <1>2, <1>3
<1>7. InTurn = {a \in S : \A b \in S \ {a} : <<a, b>> \in R}
  BY <1>1, <1>2 DEF InTurn
<1> HIDE DEF R
<1> QED
  BY <1>2, <1>5, <1>6, <1>7, FirstInOrder

LEMMA ChoicesFollow == RunMeasured => ChoicesMade
<1> SUFFICES ASSUME RunMeasured PROVE ChoicesMade
  OBVIOUS
<1>1. /\ QueueShape /\ TurnShape /\ DeficitShape /\ bundles \in BundleLists
      /\ arrivals \subseteq Bundles /\ active \subseteq Bundles
  BY DEF RunMeasured, RunShape, QueueShape
<1>2. Ready \in SUBSET arrivals /\ IsFiniteSet(Ready)
  BY <1>1, FiniteLists, FS_Subset DEF Ready
<1>3. Serving => todo \subseteq Bundles /\ IsFiniteSet(todo)
  BY <1>1, FiniteLists DEF QueueShape, Waiting, Serving
<1>4. IsFiniteSet(active)
  BY <1>1, FiniteLists
<1>5. pc \in {"turn", "serve"} => turn.classes # {}
  BY DEF RunMeasured, RoundsShape
<1>6. Ready # {} => OneOf(Earliest(Ready))
  BY <1>1, <1>2, OneEarliest
<1>7. Candidates(incoming) # {} => OneOf(Victim(incoming))
  BY <1>1, <1>4, OneVictim
<1>8. pc = "drain" /\ todo # {} => OneOf(Foremost(todo))
  BY <1>1, <1>3, OneForemost DEF Serving
<1>9. pc = "serve" /\ todo # {} => OneOf(Earliest(todo))
  BY <1>1, <1>3, OneEarliest DEF Serving
<1>10. pc \in {"turn", "serve"} => OneOf(InTurn)
  BY <1>1, <1>5, OneTurn
<1> QED
  BY <1>6, <1>7, <1>8, <1>9, <1>10 DEF ChoicesMade

LEMMA RunMeasuredInvariant == Spec => []RunMeasured
<1>1. Init => RunMeasured
  BY InitStarts, RunStarts DEF RunMeasured, RoundsShape, Starting
<1> QED
  BY <1>1, MeasuredStep, PTL DEF Spec

(* For every plan, workload, policy, admission rule and cap: the next      *)
(* arrival, the victim of an eviction, the next bundle of a drain and the  *)
(* class whose turn it is are always one: no sort leaves a tie, and no     *)
(* loop has something to do and nobody to do it with (scheduler.py:333,    *)
(* 369, 446-500, 523-573).                                                 *)
THEOREM ChoicesMadeInvariant == Spec => []ChoicesMade
  BY RunMeasuredInvariant, ChoicesFollow, PTL

(* For every plan, workload, policy, admission rule and cap: each step of  *)
(* a run leaves less of it to do, in the order of its nested loops, and    *)
(* there is no less than nothing left.  So every run returns, whatever     *)
(* does not fit and whoever is passed over (scheduler.py:369, 336, 575,    *)
(* 678-696).                                                               *)
THEOREM RunCountsDownAlways ==
  Spec => [](Measure \in Nat \X Nat \X Nat \X Nat \X Nat) /\ RunCountsDown
<1>1. RunMeasured => Measure \in Nat \X Nat \X Nat \X Nat \X Nat
  BY MeasureIsNat DEF RunMeasured, RunShape, Measure
<1>2. RunMeasured /\ [Next]_vars => [Run => Lower(Measure', Measure)]_vars
  BY MeasureFalls
<1> QED
  BY <1>1, <1>2, RunMeasuredInvariant, PTL DEF Spec, RunCountsDown
=============================================================================
