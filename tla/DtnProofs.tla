------------------------------ MODULE DtnProofs ------------------------------
(***************************************************************************)
(* The DTN segment, whatever the plan, the lifetimes and the lateness of   *)
(* its processes: what is sent in a contact arrives within the light time, *)
(* predict_one forecasts what arrives and what does not, and the closed    *)
(* form is close to what it counts.                                        *)
(***************************************************************************)
EXTENDS DtnProperties, BasicProofs, SequenceTheorems

-----------------------------------------------------------------------------
(* The compressed plan.                                                    *)
PlanShape ==
  /\ Len(W) \in Nat /\ Len(W) > 1 /\ DOMAIN W = 1..Len(W)
  /\ \A i \in Windows : W[i].from \in Int /\ W[i].to \in Int /\ W[i].from < W[i].to
  /\ \A i \in 2..Len(W) : W[i - 1].to + 1 <= W[i].from
  /\ W[1].from = 0

LEMMA RoundedInt ==
  ASSUME NEW n \in Int
  PROVE  Rounded(n) \in Int
<1>1. n \div K \in Int
  BY SegmentAssumption
<1>2. QED
  BY <1>1 DEF Rounded

LEMMA RoundedZero == Rounded(0) = 0
<1>1. 0 \div K = 0 /\ 0 % K = 0
  BY SegmentAssumption
<1>2. 2 * 0 < K
  BY SegmentAssumption
<1>3. QED
  BY <1>1, <1>2 DEF Rounded

LEMMA PlanInit == Init => PlanShape
<1> SUFFICES ASSUME Init PROVE PlanShape
  OBVIOUS
<1>1. PICK raw \in RawPlans : W = Compressed(raw)
  BY DEF Init
<1>2. /\ raw \in Seq([start : Int, end : Int])
      /\ Len(W) > 1
      /\ \A i \in DOMAIN W : W[i].from < W[i].to
      /\ \A i \in 2..Len(W) : W[i - 1].to + 1 <= W[i].from
  BY <1>1, SegmentAssumption
<1>3. Len(raw) \in Nat /\ DOMAIN raw = 1..Len(raw)
  BY <1>2, LenProperties
<1>4. \A i \in 1..Len(raw) : raw[i].start \in Int /\ raw[i].end \in Int
  <2>1. \A i \in 1..Len(raw) : raw[i] \in [start : Int, end : Int]
    BY <1>2, ElementOfSeq
  <2>2. QED
    BY <2>1
<1>5. DOMAIN W = 1..Len(raw) /\ Len(W) = Len(raw)
  BY <1>1, <1>3 DEF Compressed
<1>6. 1 \in 1..Len(raw)
  BY <1>2, <1>3, <1>5
<1>7. \A i \in 1..Len(raw) :
        /\ W[i].from = Rounded(raw[i].start - raw[1].start)
        /\ W[i].to = Rounded(raw[i].end - raw[1].start)
  BY <1>1, <1>3 DEF Compressed
<1>8. \A i \in 1..Len(raw) : W[i].from \in Int /\ W[i].to \in Int
  <2>1. \A i \in 1..Len(raw) : /\ raw[i].start - raw[1].start \in Int
                               /\ raw[i].end - raw[1].start \in Int
    BY <1>4, <1>6
  <2>2. QED
    BY <1>7, <2>1, RoundedInt
<1>9. W[1].from = 0
  <2>1. raw[1].start - raw[1].start = 0
    BY <1>4, <1>6
  <2>2. QED
    BY <1>6, <1>7, <2>1, RoundedZero
<1>10. QED
  BY <1>2, <1>3, <1>5, <1>8, <1>9 DEF PlanShape, Windows

LEMMA SecondsApart ==
  ASSUME NEW a \in Int, NEW b \in Int, a + 1 <= b
  PROVE  /\ Second * a \in Int /\ Second * b \in Int
         /\ Second * a + Second <= Second * b
<1> DEFINE d == b - a - 1
<1>1. Second \in Nat \ {0}
  BY SegmentAssumption
<1>2. d \in Nat /\ b = a + 1 + d
  OBVIOUS
<1> HIDE DEF d
<1>3. Second * (a + 1 + d) = Second * a + Second + Second * d
  BY <1>1, <1>2
<1>4. Second * d \in Nat /\ Second * a \in Int /\ Second * b \in Int
  BY <1>1, <1>2
<1>5. QED
  BY <1>1, <1>2, <1>3, <1>4

LEMMA WindowTimes ==
  ASSUME PlanShape
  PROVE  /\ \A i \in Windows : /\ From(i) \in Int /\ To(i) \in Int
                               /\ From(i) + Second <= To(i)
         /\ \A i \in 2..Len(W) : To(i - 1) + Second <= From(i)
         /\ From(1) = 0
<1>1. ASSUME NEW i \in Windows
      PROVE  From(i) \in Int /\ To(i) \in Int /\ From(i) + Second <= To(i)
  <2>1. W[i].from \in Int /\ W[i].to \in Int /\ W[i].from + 1 <= W[i].to
    BY DEF PlanShape
  <2>2. QED
    BY <2>1, SecondsApart DEF From, To
<1>2. ASSUME NEW i \in 2..Len(W)
      PROVE  To(i - 1) + Second <= From(i)
  <2>1. i \in Windows /\ i - 1 \in Windows
    BY DEF PlanShape, Windows
  <2>2. W[i].from \in Int /\ W[i - 1].to \in Int /\ W[i - 1].to + 1 <= W[i].from
    BY <2>1 DEF PlanShape
  <2>3. QED
    BY <2>2, SecondsApart DEF From, To
<1>3. From(1) = 0
  BY SegmentAssumption DEF PlanShape, From
<1>4. QED
  BY <1>1, <1>2, <1>3

(* Contacts follow one another, at least a second apart.                   *)
LEMMA WindowOrder ==
  ASSUME PlanShape, NEW i \in Windows, NEW j \in Windows, i < j
  PROVE  To(i) + Second <= From(j)
<1> DEFINE Bad == {k \in Windows : i < k /\ ~(To(i) + Second <= From(k))}
<1> SUFFICES ASSUME Bad # {} PROVE FALSE
  OBVIOUS
<1>1. Windows = 1..Len(W) /\ Len(W) \in Nat
  BY DEF PlanShape, Windows
<1>2. Bad \in SUBSET Nat
  BY <1>1
<1>3. PICK k \in Bad : \A n \in Bad : k <= n
  BY <1>2, LeastNatural
<1>4. k \in 2..Len(W) /\ k - 1 \in Windows /\ i <= k - 1 /\ k - 1 \notin Bad
  BY <1>1, <1>3
<1>5. /\ To(k - 1) + Second <= From(k)
      /\ From(k - 1) + Second <= To(k - 1)
      /\ From(k) \in Int /\ To(k - 1) \in Int /\ From(k - 1) \in Int /\ To(i) \in Int
  BY <1>3, <1>4, WindowTimes
<1>6. CASE i = k - 1
  BY <1>3, <1>5, <1>6
<1>7. CASE i < k - 1
  <2>1. To(i) + Second <= From(k - 1)
    BY <1>4, <1>7
  <2>2. Second \in Nat \ {0}
    BY SegmentAssumption
  <2>3. To(i) + Second <= From(k)
    BY <1>5, <2>1, <2>2
  <2>4. QED
    BY <1>3, <2>3
<1>8. QED
  BY <1>1, <1>4, <1>6, <1>7

(* A time is in one contact at most, and that contact began last.          *)
LEMMA OneContact ==
  ASSUME PlanShape, clock \in Int, NEW i \in Windows, From(i) <= clock, clock < To(i)
  PROVE  InContact = {i} /\ ContactStart = From(i)
<1>1. InContact = {i}
  <2>1. ASSUME NEW j \in Windows, From(j) <= clock, clock < To(j)
        PROVE  j = i
    <3>1. /\ From(i) \in Int /\ To(i) \in Int /\ From(j) \in Int /\ To(j) \in Int
          /\ Second \in Nat
      BY WindowTimes, SegmentAssumption
    <3>2. i \in Nat /\ j \in Nat
      BY DEF PlanShape, Windows
    <3>3. CASE i < j
      BY <2>1, <3>1, <3>3, WindowOrder
    <3>4. CASE j < i
      BY <2>1, <3>1, <3>4, WindowOrder
    <3>5. QED
      BY <3>2, <3>3, <3>4
  <2>2. QED
    BY <2>1 DEF InContact
<1>2. {From(k) : k \in {i}} = {From(i)}
  OBVIOUS
<1>3. From(i) \in Int
  BY WindowTimes
<1>4. Max({From(i)}) = From(i)
  BY <1>3 DEF Max
<1>5. QED
  BY <1>1, <1>2, <1>4 DEF ContactStart

LEMMA MaxOfTwo ==
  ASSUME NEW a \in Int, NEW b \in Int
  PROVE  Max({a, b}) = IF a <= b THEN b ELSE a
BY DEF Max

(* A lifetime is a second at least.                                        *)
LEMMA TtlShape ==
  ASSUME NEW i \in Nodes, mode \in {"pilot", "bridge"}
  PROVE  Ttl(i) \in Nat /\ Second <= Ttl(i)
<1>1. Lifetime(i) \in Nat \ {0}
  <2>1. CASE mode = "pilot"
    BY <2>1, SegmentAssumption, ElementOfSeq, LenProperties DEF Lifetime, Nodes
  <2>2. CASE mode # "pilot"
    <3>1. PlanLifetimes[i] \in Int
      BY SegmentAssumption, ElementOfSeq, LenProperties DEF Nodes
    <3>2. PICK r \in Int : r = Rounded(PlanLifetimes[i])
      BY <3>1, RoundedInt
    <3>3. Max({1, r}) = IF 1 <= r THEN r ELSE 1
      BY MaxOfTwo
    <3>4. QED
      BY <2>2, <3>2, <3>3 DEF Lifetime
  <2>3. QED
    BY <2>1, <2>2
<1>2. PICK n \in Nat \ {0} : n = Lifetime(i)
  BY <1>1
<1>3. Second * 0 + Second <= Second * n
  BY SecondsApart
<1>4. Second \in Nat \ {0}
  BY SegmentAssumption
<1>5. Second * n \in Nat
  BY <1>4
<1>6. QED
  BY <1>2, <1>3, <1>4, <1>5 DEF Ttl

-----------------------------------------------------------------------------
(* The state of the segment.                                               *)
Bundle == [node : Nodes, seq : Nat, t : Int, born : Int]

SegmentShape ==
  /\ mode \in {"pilot", "bridge"} /\ PlanShape
  /\ clock \in Int /\ tog \in Nat /\ tog <= Switches
  /\ mpc \in {"run", "drain", "analysed"} /\ killAt \in Int
  /\ seq \in Nat /\ now \in Int /\ sending \subseteq Nodes
  /\ held \subseteq Bundle
  /\ flight \subseteq [b : Bundle, at : Int]

LEMMA FirstClient ==
  ASSUME NEW S \in SUBSET Nodes, S # {}
  PROVE  Min(S) \in S
<1>1. S \in SUBSET Nat
  BY SegmentAssumption, LenProperties DEF Nodes
<1>2. PICK m \in S : \A n \in S : m <= n
  BY <1>1, LeastNatural
<1>3. QED
  BY <1>2 DEF Min

LEMMA ShapeInit == Init => SegmentShape
<1> SUFFICES ASSUME Init PROVE SegmentShape
  OBVIOUS
<1>1. mode \in {"pilot", "bridge"}
  BY SegmentAssumption DEF Init
<1>2. clock \in Int
  <2>1. PICK j \in 0..(Second - 1) : clock = j - Lead * Second
    BY DEF Init
  <2>2. Lead * Second \in Nat
    BY SegmentAssumption
  <2>3. QED
    BY <2>1, <2>2
<1>3. Switches \in Nat
  BY PlanInit DEF PlanShape, Switches
<1>4. QED
  BY <1>1, <1>2, <1>3, PlanInit DEF Init, SegmentShape

LEMMA ShapeStep ==
  ASSUME SegmentShape, [Next]_vars
  PROVE  SegmentShape'
<1>0. /\ Switches \in Nat
      /\ Nodes' = Nodes /\ Bundle' = Bundle
      /\ UNCHANGED W => PlanShape' /\ Switches' = Switches
  <2>1. PlanShape
    BY DEF SegmentShape
  <2>2. UNCHANGED W => PlanShape' /\ Switches' = Switches
    BY <2>1 DEF PlanShape, Windows, Switches
  <2>3. Switches \in Nat
    BY <2>1 DEF PlanShape, Switches
  <2>4. Nodes' = Nodes
    BY DEF Nodes
  <2>5. Bundle' = Bundle
    BY DEF Bundle, Nodes
  <2>6. QED
    BY <2>2, <2>3, <2>4, <2>5
<1>1. CASE Tick \/ UNCHANGED vars
  BY <1>0, <1>1 DEF Tick, vars, worker, SegmentShape
<1>2. CASE Toggle
  BY <1>0, <1>2 DEF Toggle, worker, SegmentShape
<1>3. CASE BeginRound \/ \E i \in Nodes : TakePacket(i)
  BY <1>0, <1>3 DEF BeginRound, TakePacket, Clients, worker, SegmentShape
<1>4. CASE SendNext
  <2> DEFINE i == Min(sending)
             new == [node |-> i, seq |-> seq, t |-> now, born |-> clock]
  <2>1. i \in Nodes
    BY <1>4, FirstClient DEF SendNext, SegmentShape
  <2>2. new \in Bundle
    BY <2>1 DEF SegmentShape, Bundle
  <2>3. held' = held \cup {new} /\ sending' = sending \ {i} /\ seq' \in {seq, seq + 1}
        /\ now' \in {now, 0} /\ UNCHANGED <<mode, W, clock, tog, mpc, killAt, flight>>
    BY <1>4 DEF SendNext, AfterSend
  <2> HIDE DEF new, i
  <2>4. QED
    BY <1>0, <2>2, <2>3 DEF SegmentShape
<1>5. CASE WorkerExit
  <2>1. killAt' \in Int
    BY <1>5, SegmentAssumption DEF WorkerExit, DrainOver, SegmentShape
  <2>2. QED
    BY <1>0, <1>5, <2>1 DEF WorkerExit, worker, SegmentShape
<1>6. CASE Analyse
  BY <1>0, <1>6 DEF Analyse, worker, SegmentShape
<1>7. CASE \E b \in held : Forward(b)
  <2>1. PICK b \in held : Forward(b)
    BY <1>7
  <2>2. /\ held' = held \ {b} /\ flight' = flight \cup {[b |-> b, at |-> clock]}
        /\ UNCHANGED <<mode, W, clock, tog, mpc, killAt, worker>>
    BY <2>1 DEF Forward
  <2>3. [b |-> b, at |-> clock] \in [b : Bundle, at : Int]
    BY DEF SegmentShape
  <2>4. QED
    BY <1>0, <2>2, <2>3 DEF worker, SegmentShape
<1>8. CASE \E b \in held : Expire(b)
  BY <1>0, <1>8 DEF Expire, worker, SegmentShape
<1>9. CASE \E f \in flight : Arrive(f)
  BY <1>0, <1>9 DEF Arrive, worker, SegmentShape
<1>10. QED
  BY <1>1, <1>2, <1>3, <1>4, <1>5, <1>6, <1>7, <1>8, <1>9 DEF Next, Work, Net

LEMMA ShapeInvariant == Spec => []SegmentShape
BY ShapeInit, ShapeStep, PTL DEF Spec

-----------------------------------------------------------------------------
(* The toggler: it is never more than Late behind its next switch, or the  *)
(* program has only begun, and never ahead of one.                         *)
SwitchTimes ==
  /\ tog < Switches => clock <= TogDue(tog) + Late \/ (tog = 0 /\ clock < Second)
  /\ tog > 0 => TogDue(tog - 1) <= clock

LEMMA SwitchDue ==
  ASSUME NEW j \in Nat
  PROVE  /\ TogDue(2 * j) = From(j + 1) - Guard
         /\ TogDue(2 * j + 1) = To(j + 1) + Guard
<1>1. /\ (2 * j) % 2 = 0 /\ (2 * j) \div 2 = j
      /\ (2 * j + 1) % 2 = 1 /\ (2 * j + 1) \div 2 = j
  OBVIOUS
<1>2. QED
  BY <1>1 DEF TogDue

(* The state of the link between two switches.                             *)
LEMMA LinkPhase ==
  ASSUME NEW n \in Nat
  PROVE  \E j \in Nat : n = 2 * j \/ n = 2 * j + 1
<1>1. n \div 2 \in Nat /\ (n = 2 * (n \div 2) \/ n = 2 * (n \div 2) + 1)
  OBVIOUS
<1>2. QED
  BY <1>1

(* A switch is due no earlier than Late after the one before it.           *)
LEMMA SwitchesApart ==
  ASSUME PlanShape, NEW n \in Nat, n + 1 < Switches
  PROVE  /\ TogDue(n) \in Int /\ TogDue(n + 1) \in Int
         /\ TogDue(n) <= TogDue(n + 1)
         /\ n = 0 => Second <= TogDue(n + 1)
<1>0. /\ Second \in Nat \ {0} /\ Guard \in Nat /\ 2 * Guard <= Second
      /\ Windows = 1..Len(W) /\ Len(W) \in Nat /\ Switches = 2 * Len(W)
  BY SegmentAssumption DEF PlanShape, Windows, Switches
<1>1. PICK j \in Nat : n = 2 * j \/ n = 2 * j + 1
  BY LinkPhase
<1>2. j + 1 \in Windows
  BY <1>0, <1>1
<1>3. From(j + 1) \in Int /\ To(j + 1) \in Int /\ From(j + 1) + Second <= To(j + 1)
  BY <1>2, WindowTimes
<1>4. CASE n = 2 * j
  <2>1. TogDue(n) = From(j + 1) - Guard /\ TogDue(n + 1) = To(j + 1) + Guard
    BY <1>4, SwitchDue
  <2>2. n = 0 => From(j + 1) = 0
    BY <1>4, WindowTimes
  <2>3. PICK f \in Int, t \in Int : f = From(j + 1) /\ t = To(j + 1) /\ f + Second <= t
    BY <1>3
  <2>4. TogDue(n) = f - Guard /\ TogDue(n + 1) = t + Guard /\ (n = 0 => f = 0)
    BY <2>1, <2>2, <2>3
  <2>5. /\ f - Guard \in Int /\ t + Guard \in Int /\ f - Guard <= t + Guard
        /\ f = 0 => Second <= t + Guard
    BY <1>0, <2>3
  <2>6. QED
    BY <2>4, <2>5
<1>5. CASE n = 2 * j + 1
  <2>1. j + 2 \in 2..Len(W) /\ (j + 2) - 1 = j + 1 /\ n + 1 = 2 * (j + 1)
        /\ j + 1 + 1 = j + 2 /\ j + 1 \in Nat
    BY <1>0, <1>1, <1>5
  <2>2. To(j + 1) + Second <= From(j + 2) /\ From(j + 2) \in Int
    BY <1>0, <2>1, WindowTimes
  <2>3. TogDue(n) = To(j + 1) + Guard
    BY <1>5, SwitchDue
  <2>4. TogDue(n + 1) = From(j + 2) - Guard
    BY <2>1, SwitchDue
  <2>5. PICK f \in Int, t \in Int : f = From(j + 2) /\ t = To(j + 1) /\ t + Second <= f
    BY <1>3, <2>2
  <2>6. /\ f - Guard \in Int /\ t + Guard \in Int /\ t + Guard <= f - Guard
    BY <1>0, <2>5
  <2>7. n # 0
    BY <1>1, <1>5
  <2>8. QED
    BY <2>3, <2>4, <2>5, <2>6, <2>7
<1>6. QED
  BY <1>1, <1>4, <1>5

LEMMA SwitchesInit == Init => SwitchTimes
<1> SUFFICES ASSUME Init PROVE SwitchTimes
  OBVIOUS
<1>1. PICK j \in 0..(Second - 1) : clock = j - Lead * Second
  BY DEF Init
<1>2. Lead * Second \in Nat /\ Second \in Nat
  BY SegmentAssumption
<1>3. QED
  BY <1>1, <1>2 DEF Init, SwitchTimes

LEMMA DueShape ==
  ASSUME PlanShape, NEW n \in Nat, n < Switches
  PROVE  TogDue(n) \in Int
<1>1. PICK j \in Nat : n = 2 * j \/ n = 2 * j + 1
  BY LinkPhase
<1>2. j + 1 \in Windows
  BY <1>1 DEF PlanShape, Windows, Switches
<1>3. From(j + 1) - Guard \in Int /\ To(j + 1) + Guard \in Int
  BY <1>2, WindowTimes, SegmentAssumption
<1>4. QED
  BY <1>1, <1>3, SwitchDue

LEMMA SwitchesStep ==
  ASSUME SegmentShape, SwitchTimes, [Next]_vars
  PROVE  SwitchTimes'
<1>0. /\ PlanShape /\ clock \in Int /\ tog \in Nat /\ tog <= Switches
      /\ Late \in Nat /\ Switches \in Nat
      /\ W' = W
  BY SegmentAssumption DEF SegmentShape, PlanShape, Switches, Next, Tick, Work, WorkerExit,
     Analyse, Net, Toggle, BeginRound, TakePacket, SendNext, Forward, Expire, Arrive, vars
<1>1. \A n : TogDue(n)' = TogDue(n)
  BY <1>0 DEF TogDue, From, To
<1>2. Switches' = Switches
  BY <1>0 DEF Switches
<1>3. CASE Tick
  <2>1. clock' = clock + 1 /\ tog' = tog /\ (tog < Switches => ~(clock >= TogDue(tog) + Late))
    BY <1>3 DEF Tick, Overdue
  <2>2. tog < Switches => TogDue(tog) \in Int
    BY <1>0, DueShape
  <2>3. tog > 0 => tog - 1 \in Nat /\ tog - 1 < Switches
    BY <1>0
  <2>4. tog > 0 => TogDue(tog - 1) \in Int
    BY <1>0, <2>3, DueShape
  <2>5. tog' < Switches => clock' <= TogDue(tog') + Late
    BY <1>0, <2>1, <2>2
  <2>6. tog' > 0 => TogDue(tog' - 1) <= clock'
    BY <1>0, <2>1, <2>4 DEF SwitchTimes
  <2>7. QED
    BY <1>1, <1>2, <2>5, <2>6 DEF SwitchTimes
<1>4. CASE Toggle
  <2>1. tog < Switches /\ clock >= TogDue(tog) /\ tog' = tog + 1 /\ clock' = clock
    BY <1>4 DEF Toggle
  <2>2. TogDue(tog) \in Int
    BY <1>0, <2>1, DueShape
  <2>3. tog' < Switches => clock <= TogDue(tog') + Late
    <3> SUFFICES ASSUME tog' < Switches PROVE clock <= TogDue(tog') + Late
      OBVIOUS
    <3>1. /\ TogDue(tog + 1) \in Int /\ TogDue(tog) <= TogDue(tog + 1)
          /\ tog = 0 => Second <= TogDue(tog + 1)
      BY <1>0, <2>1, SwitchesApart
    <3>2. QED
      BY <1>0, <2>1, <2>2, <3>1, SegmentAssumption DEF SwitchTimes
  <2>4. tog' - 1 = tog
    BY <1>0, <2>1
  <2>5. QED
    BY <1>1, <1>2, <2>1, <2>3, <2>4 DEF SwitchTimes
<1>5. CASE UNCHANGED <<tog, clock>>
  BY <1>1, <1>2, <1>5 DEF SwitchTimes
<1>6. QED
  BY <1>3, <1>4, <1>5 DEF Next, Work, WorkerExit, Analyse, Net, BeginRound, TakePacket, SendNext,
     Forward, Expire, Arrive, vars

-----------------------------------------------------------------------------
(* The worker: a round is sent within Late of its clock read, and not      *)
(* before it is due; the drain of the pilot begins no sooner than an       *)
(* interval before the last contact ends.                                  *)
WorkerTimes ==
  /\ sending # {} => mpc = "run" /\ now <= clock /\ clock <= now + Late
  /\ mode = "pilot" /\ sending # {} => seq * Dt <= clock
  /\ mode = "pilot" /\ seq > 0 => (seq - 1) * Dt <= clock
  /\ mode = "pilot" /\ mpc # "run" => TEnd - Dt + Drain <= killAt

(* A bundle is born within Late of the time it is logged with.  One on the *)
(* link left its node alive and in a contact, and no more than the light   *)
(* time ago.                                                               *)
Born(b) == b.t <= b.born /\ b.born <= b.t + Late /\ b.born <= clock
InWindow(t) == \E i \in Windows : From(i) <= t /\ t < To(i)
Rides(f) ==
  /\ Born(f.b) /\ InWindow(f.at)
  /\ f.b.born <= f.at /\ f.at < f.b.born + Ttl(f.b.node)
  /\ f.at <= clock /\ clock <= f.at + Owlt

(* A bundle that lives on until Late after a contact began, or Late after  *)
(* it came itself, has left its node by then.                              *)
Later(a, b) == IF a <= b THEN b ELSE a
Timely(b) ==
  \A i \in Windows :
    LET m == Later(b.born, From(i))
    IN  m + Late < To(i) /\ m + Late < b.born + Ttl(b.node) => clock <= m + Late

BundleTimes ==
  /\ \A b \in held : Born(b) /\ Timely(b)
  /\ \A f \in flight : Rides(f)

SegmentTimes == SwitchTimes /\ WorkerTimes /\ BundleTimes

LEMMA WorkerInit == Init => WorkerTimes /\ BundleTimes
BY DEF Init, WorkerTimes, BundleTimes

(* When the link is dark, no contact is less than a light time old.        *)
LEMMA LitForRides ==
  ASSUME SegmentShape, SwitchTimes, ~Overdue, mpc # "analysed",
         NEW a \in Int, InWindow(a), a <= clock, clock <= a + Owlt
  PROVE  Lit
<1> SUFFICES ASSUME ~Lit PROVE FALSE
  OBVIOUS
<1>0. /\ PlanShape /\ clock \in Int /\ tog \in Nat /\ tog <= Switches
      /\ Windows = 1..Len(W) /\ Len(W) \in Nat /\ Len(W) > 1 /\ Switches = 2 * Len(W)
      /\ Late \in Nat /\ Owlt \in Nat /\ Guard \in Nat /\ Late <= Guard /\ Owlt <= Guard
      /\ Second \in Nat
  BY SegmentAssumption DEF SegmentShape, PlanShape, Windows, Switches
<1>1. PICK i \in Windows : From(i) <= a /\ a < To(i)
  BY DEF InWindow
<1>2. PICK j \in Nat : tog = 2 * j
  BY <1>0, LinkPhase DEF Lit
<1>3. \A k \in Windows : From(k) \in Int /\ To(k) \in Int
  BY <1>0, WindowTimes
<1>4. ASSUME j \in Windows, NEW k \in Windows, k <= j
      PROVE  To(k) <= a
  <2>1. tog > 0 /\ tog - 1 = 2 * (j - 1) + 1 /\ j - 1 \in Nat /\ (j - 1) + 1 = j
    BY <1>0, <1>2, <1>4
  <2>2. To(j) + Guard <= clock
    BY <1>3, <1>4, <2>1, SwitchDue DEF SwitchTimes
  <2>3. To(k) <= To(j)
    <3>1. CASE k = j
      BY <1>3, <3>1
    <3>2. CASE k < j
      <4>1. To(k) + Second <= From(j) /\ From(j) + Second <= To(j)
        BY <1>0, <1>4, <3>2, WindowOrder, WindowTimes
      <4>2. QED
        BY <1>0, <1>3, <1>4, <4>1
    <3>3. QED
      BY <1>0, <1>4, <3>1, <3>2
  <2>4. QED
    BY <1>0, <1>3, <1>4, <2>2, <2>3
<1>5. ASSUME j + 1 \in Windows, NEW k \in Windows, j + 1 <= k
      PROVE  a < From(k)
  <2>1. tog < Switches
    BY <1>0, <1>2, <1>5
  <2>2. ~(clock >= From(j + 1) - Guard + Late)
    BY <1>2, <2>1, SwitchDue DEF Overdue
  <2>3. From(j + 1) <= From(k)
    <3>1. CASE k = j + 1
      BY <1>3, <3>1
    <3>2. CASE j + 1 < k
      <4>1. To(j + 1) + Second <= From(k) /\ From(j + 1) + Second <= To(j + 1)
        BY <1>0, <1>5, <3>2, WindowOrder, WindowTimes
      <4>2. QED
        BY <1>0, <1>3, <1>5, <4>1
    <3>3. QED
      BY <1>0, <1>5, <3>1, <3>2
  <2>4. From(j + 1) \in Int /\ From(k) \in Int
    BY <1>3, <1>5
  <2>5. QED
    BY <1>0, <2>2, <2>3, <2>4
<1>6. CASE i <= j
  <2>1. j \in Windows
    BY <1>0, <1>2, <1>6
  <2>2. QED
    BY <1>1, <1>3, <1>4, <1>6, <2>1
<1>7. CASE j + 1 <= i
  <2>1. j + 1 \in Windows
    BY <1>0, <1>2, <1>7
  <2>2. QED
    BY <1>1, <1>3, <1>5, <1>7, <2>1
<1>8. QED
  BY <1>0, <1>6, <1>7

LEMMA BornKept ==
  ASSUME NEW b, b.t \in Int, b.born \in Int, Born(b), clock \in Int,
         clock' = clock \/ clock' = clock + 1
  PROVE  Born(b)'
BY DEF Born

LEMMA WorkerStep ==
  ASSUME SegmentShape, WorkerTimes, [Next]_vars
  PROVE  WorkerTimes'
<1>0. /\ clock \in Int /\ now \in Int /\ seq \in Nat /\ Dt \in Nat \ {0} /\ Late \in Nat
      /\ Drain \in Nat /\ TEnd \in Int /\ killAt \in Int
  <2>1. Len(W) \in Windows
    BY DEF SegmentShape, PlanShape, Windows
  <2>2. TEnd \in Int
    BY <2>1, WindowTimes DEF SegmentShape, TEnd
  <2>3. QED
    BY <2>2, SegmentAssumption DEF SegmentShape
<1>1. mode' = mode /\ TEnd' = TEnd
  BY DEF Next, Tick, Work, WorkerExit, Analyse, Net, Toggle, BeginRound, TakePacket, SendNext,
     Forward, Expire, Arrive, vars, TEnd, To
<1>2. seq * Dt \in Nat /\ (seq - 1) * Dt \in Int /\ seq * Dt = (seq - 1) * Dt + Dt
  BY <1>0
<1>3. CASE Tick
  <2>1. /\ clock' = clock + 1 /\ UNCHANGED <<mpc, killAt, seq, now, sending>>
        /\ sending # {} => ~(clock >= now + Late)
    BY <1>3 DEF Tick, Overdue, worker
  <2>2. QED
    BY <1>0, <1>1, <1>2, <2>1 DEF WorkerTimes
<1>4. CASE BeginRound
  <2>1. /\ clock >= seq * Dt /\ mode = "pilot" /\ mpc = "run" /\ now' = clock
        /\ UNCHANGED <<clock, mpc, killAt, seq>>
    BY <1>4 DEF BeginRound, RoundDue, Working
  <2>2. QED
    BY <1>0, <1>1, <1>2, <2>1 DEF WorkerTimes
<1>5. CASE \E i \in Nodes : TakePacket(i)
  <2>1. mode = "bridge" /\ mpc = "run" /\ now' = clock /\ UNCHANGED <<clock, mpc, killAt, seq>>
    BY <1>5 DEF TakePacket, Working
  <2>2. QED
    BY <1>0, <1>1, <2>1 DEF WorkerTimes
<1>6. CASE SendNext
  <2>1. /\ sending # {} /\ UNCHANGED <<clock, mpc, killAt>>
        /\ \/ sending' = {} /\ seq' = seq + 1
           \/ sending' # {} /\ seq' = seq /\ now' = now
    BY <1>6 DEF SendNext, AfterSend
  <2>2. seq + 1 - 1 = seq
    BY <1>0
  <2>3. QED
    BY <1>0, <1>1, <2>1, <2>2 DEF WorkerTimes
<1>7. CASE WorkerExit
  <2>1. /\ sending = {} /\ mpc' = "drain" /\ killAt' = clock + Drain /\ mpc = "run"
        /\ mode = "pilot" => seq * Dt >= TEnd
        /\ UNCHANGED <<clock, seq, sending>>
    BY <1>7 DEF WorkerExit, RoundDue, DrainOver, Working, worker
  <2>2. TEnd > 0
    <3>1. /\ PlanShape /\ Len(W) \in Windows /\ 1 \in Windows /\ 1 < Len(W)
      BY DEF SegmentShape, PlanShape, Windows
    <3>2. /\ From(1) = 0 /\ To(1) \in Int /\ From(1) + Second <= To(1)
          /\ From(Len(W)) \in Int /\ To(Len(W)) \in Int /\ From(Len(W)) + Second <= To(Len(W))
      BY <3>1, WindowTimes
    <3>3. To(1) + Second <= From(Len(W))
      BY <3>1, WindowOrder
    <3>4. Second \in Nat \ {0}
      BY SegmentAssumption
    <3>5. QED
      BY <3>1, <3>2, <3>3, <3>4 DEF TEnd
  <2>3. mode = "pilot" => seq > 0
    BY <1>0, <2>1, <2>2
  <2>4. mode = "pilot" => TEnd - Dt + Drain <= killAt'
    BY <1>0, <1>2, <2>1, <2>3 DEF WorkerTimes
  <2>5. QED
    BY <1>1, <2>1, <2>4 DEF WorkerTimes
<1>8. CASE Analyse
  BY <1>1, <1>8 DEF Analyse, worker, WorkerTimes
<1>9. CASE Net \/ UNCHANGED vars
  <2>1. UNCHANGED <<clock, mpc, killAt, worker>>
    BY <1>9 DEF Net, Toggle, Forward, Expire, Arrive, vars
  <2>2. QED
    BY <1>1, <2>1 DEF worker, WorkerTimes
<1>10. QED
  BY <1>3, <1>4, <1>5, <1>6, <1>7, <1>8, <1>9 DEF Next, Work

(* What a tick does to the bundles: none that could have gone is older     *)
(* than Late in its contact.                                               *)
LEMMA TimelyTick ==
  ASSUME SegmentShape, Tick, NEW b \in held, Timely(b)
  PROVE  Timely(b)'
<1> DEFINE m(i) == Later(b.born, From(i))
<1>1. clock' = clock + 1 /\ W' = W /\ mode' = mode /\ ~Overdue
  BY DEF Tick
<1>2. b.born \in Int /\ b.node \in Nodes /\ clock \in Int /\ Late \in Nat
  BY SegmentAssumption DEF SegmentShape, Bundle
<1>3. Ttl(b.node) \in Nat
  BY <1>2, TtlShape DEF SegmentShape
<1>4. \A i \in Windows : From(i) \in Int /\ To(i) \in Int
  BY WindowTimes DEF SegmentShape
<1>5. ASSUME NEW i \in Windows, m(i) + Late < To(i), m(i) + Late < b.born + Ttl(b.node)
      PROVE  clock + 1 <= m(i) + Late
  <2>1. clock <= m(i) + Late
    BY <1>5 DEF Timely
  <2>2. m(i) \in Int /\ b.born <= m(i) /\ From(i) <= m(i)
    BY <1>2, <1>4 DEF Later
  <2>3. ASSUME clock = m(i) + Late PROVE FALSE
    <3>1. From(i) <= clock /\ clock < To(i)
      BY <1>2, <1>4, <1>5, <2>2, <2>3
    <3>2. InContact = {i} /\ ContactStart = From(i)
      BY <3>1, OneContact DEF SegmentShape
    <3>3. Forwardable(b)
      BY <1>2, <1>3, <1>5, <2>3, <3>2 DEF Forwardable, Expired
    <3>4. Max({b.born, ContactStart}) = m(i)
      BY <1>2, <1>4, <3>2, MaxOfTwo DEF Later
    <3>5. clock >= Max({b.born, ContactStart}) + Late
      BY <1>2, <2>2, <2>3, <3>4
    <3>6. Overdue
      BY <3>3, <3>5 DEF Overdue
    <3>7. QED
      BY <1>1, <3>6
  <2>4. QED
    BY <1>2, <2>1, <2>2, <2>3
<1>6. \A i : From(i)' = From(i) /\ To(i)' = To(i) /\ Ttl(i)' = Ttl(i)
  BY <1>1 DEF From, To, Ttl, Lifetime
<1>7. Windows' = Windows
  BY <1>1 DEF Windows
<1>8. QED
  BY <1>1, <1>5, <1>6, <1>7 DEF Timely

LEMMA RidesTick ==
  ASSUME SegmentShape, SwitchTimes, Tick, NEW f \in flight, Rides(f)
  PROVE  Rides(f)'
<1>1. clock' = clock + 1 /\ W' = W /\ mode' = mode /\ mpc # "analysed" /\ ~Overdue
  BY DEF Tick
<1>2. f.at \in Int /\ f.b.born \in Int /\ f.b.t \in Int /\ clock \in Int /\ Owlt \in Nat
  BY SegmentAssumption DEF SegmentShape, Bundle
<1>3. clock + 1 <= f.at + Owlt
  <2>1. ASSUME clock = f.at + Owlt PROVE FALSE
    <3>1. Lit
      BY <1>1, <1>2, LitForRides DEF Rides
    <3>2. QED
      BY <1>1, <1>2, <2>1, <3>1 DEF Overdue
  <2>2. QED
    BY <1>2, <2>1 DEF Rides
<1>4. \A i : From(i)' = From(i) /\ To(i)' = To(i) /\ Ttl(i)' = Ttl(i)
  BY <1>1 DEF From, To, Ttl, Lifetime
<1>5. Windows' = Windows
  BY <1>1 DEF Windows
<1>6. Born(f.b)' /\ InWindow(f.at)' /\ f.b.born <= f.at /\ (f.at < f.b.born + Ttl(f.b.node))'
  BY <1>1, <1>2, <1>4, <1>5 DEF Rides, Born, InWindow
<1>7. QED
  BY <1>1, <1>2, <1>3, <1>6 DEF Rides

LEMMA BundlesStep ==
  ASSUME SegmentShape, SwitchTimes, WorkerTimes, BundleTimes, [Next]_vars
  PROVE  BundleTimes'
<1>1. CASE Tick
  <2>1. held' = held /\ flight' = flight /\ clock' = clock + 1
    BY <1>1 DEF Tick
  <2>2. \A b \in held : b.t \in Int /\ b.born \in Int /\ clock \in Int
    BY DEF SegmentShape, Bundle
  <2>3. \A b \in held : Born(b)' /\ Timely(b)'
    BY <1>1, <2>1, <2>2, BornKept, TimelyTick DEF BundleTimes
  <2>4. \A f \in flight : Rides(f)'
    BY <1>1, RidesTick DEF BundleTimes
  <2>5. QED
    BY <2>1, <2>3, <2>4 DEF BundleTimes
<1>2. CASE ~Tick
  <2>1. UNCHANGED <<mode, W, clock>>
    BY <1>2 DEF Next, Work, WorkerExit, Analyse, Net, Toggle, BeginRound, TakePacket, SendNext,
       Forward, Expire, Arrive, vars
  <2>2. \A b, f : /\ Born(b)' <=> Born(b)
                  /\ Timely(b)' <=> Timely(b)
                  /\ Rides(f)' <=> Rides(f)
    <3>1. \A i : From(i)' = From(i) /\ To(i)' = To(i) /\ Ttl(i)' = Ttl(i)
      BY <2>1 DEF From, To, Ttl, Lifetime
    <3>2. Windows' = Windows
      BY <2>1 DEF Windows
    <3>3. QED
      BY <2>1, <3>1, <3>2 DEF Born, Timely, Rides, InWindow
  <2>3. CASE SendNext
    <3> DEFINE new == [node |-> Min(sending), seq |-> seq, t |-> now, born |-> clock]
    <3>1. held' = held \cup {new} /\ flight' = flight /\ sending # {}
      BY <2>3 DEF SendNext
    <3>2. clock \in Int /\ Late \in Nat /\ PlanShape
      BY SegmentAssumption DEF SegmentShape
    <3>3. Born(new)
      BY <3>1, <3>2 DEF WorkerTimes, Born
    <3>4. Timely(new)
      <4>1. \A i \in Windows : clock <= Later(clock, From(i)) + Late
        BY <3>2, WindowTimes DEF Later
      <4>2. QED
        BY <4>1 DEF Timely
    <3> HIDE DEF new
    <3>5. QED
      BY <2>2, <3>1, <3>3, <3>4 DEF BundleTimes
  <2>4. CASE \E b \in held : Forward(b)
    <3>1. PICK b \in held : Forward(b)
      BY <2>4
    <3> DEFINE new == [b |-> b, at |-> clock]
    <3>2. /\ held' = held \ {b} /\ flight' = flight \cup {new}
          /\ InContact # {} /\ ~Expired(b)
      BY <3>1 DEF Forward, Forwardable
    <3>3. Rides(new)
      <4>1. b.born \in Int /\ Ttl(b.node) \in Int /\ clock \in Int /\ Owlt \in Nat
        BY TtlShape, SegmentAssumption DEF SegmentShape, Bundle
      <4>2. InWindow(clock)
        BY <3>2 DEF InContact, InWindow
      <4>3. Born(b) /\ clock < b.born + Ttl(b.node)
        BY <3>2, <4>1 DEF BundleTimes, Expired
      <4>4. QED
        BY <4>1, <4>2, <4>3 DEF Rides, Born
    <3> HIDE DEF new
    <3>4. QED
      BY <2>2, <3>2, <3>3 DEF BundleTimes
  <2>5. CASE held' \subseteq held /\ flight' \subseteq flight
    BY <2>2, <2>5 DEF BundleTimes
  <2>6. QED
    BY <1>2, <2>3, <2>4, <2>5 DEF Next, Work, WorkerExit, Analyse, Net, Toggle, BeginRound,
       TakePacket, Expire, Arrive, vars
<1>3. QED
  BY <1>1, <1>2

LEMMA TimesInvariant == Spec => [](SegmentShape /\ SegmentTimes)
<1>1. Init => SegmentTimes
  BY SwitchesInit, WorkerInit DEF SegmentTimes
<1>2. SegmentShape /\ SegmentTimes /\ [Next]_vars => SegmentTimes'
  BY SwitchesStep, WorkerStep, BundlesStep DEF SegmentTimes
<1>3. QED
  BY <1>1, <1>2, ShapeInvariant, PTL DEF Spec

(* No bundle rides a TCP retransmission across a blackout, whatever the    *)
(* plan and the lateness of the processes, as long as the guard band       *)
(* outlasts both the lateness and the light time (ceiling_pilot.py:207-213).*)
THEOREM NoRetransmitRideInvariant == Spec => []NoRetransmitRide
<1>1. SegmentTimes => NoRetransmitRide
  BY DEF SegmentTimes, BundleTimes, Rides, NoRetransmitRide
<1>2. QED
  BY <1>1, TimesInvariant, PTL

-----------------------------------------------------------------------------
(* What predict_one says.                                                  *)
LEMMA FirstOpen ==
  ASSUME PlanShape, NEW t \in Int, NEW i \in Windows, t < To(i)
  PROVE  \E k \in Windows : /\ k <= i /\ t < To(k)
                            /\ \A j \in 1..(k - 1) : t >= To(j)
<1> DEFINE Open == {k \in Windows : t < To(k)}
<1>1. Windows = 1..Len(W) /\ Len(W) \in Nat
  BY DEF PlanShape, Windows
<1>2. Open \in SUBSET Nat /\ i \in Open
  BY <1>1
<1>3. PICK k \in Open : \A n \in Open : k <= n
  BY <1>2, LeastNatural
<1>4. \A j \in 1..(k - 1) : j \in Windows /\ ~(t < To(j))
  BY <1>1, <1>3
<1>5. \A j \in 1..(k - 1) : t >= To(j)
  BY <1>4, WindowTimes
<1>6. QED
  BY <1>2, <1>3, <1>5

LEMMA ContactsBegin ==
  ASSUME PlanShape, NEW i \in Windows, NEW j \in Windows, i <= j
  PROVE  From(i) <= From(j) /\ To(i) <= To(j)
<1>1. /\ From(i) \in Int /\ To(i) \in Int /\ From(i) + Second <= To(i)
      /\ From(j) \in Int /\ To(j) \in Int /\ From(j) + Second <= To(j)
  BY WindowTimes
<1>2. i < j => To(i) + Second <= From(j)
  BY WindowOrder
<1>3. i \in Nat /\ j \in Nat /\ Second \in Nat
  BY SegmentAssumption DEF PlanShape, Windows
<1>4. CASE i = j
  BY <1>1, <1>4
<1>5. CASE i < j
  BY <1>1, <1>2, <1>3, <1>5
<1>6. QED
  BY <1>3, <1>4, <1>5

(* What leaves its node in a contact within its lifetime was forecast from *)
(* the logged time, which is no more than Late before the lifetime began.  *)
LEMMA RideForecast ==
  ASSUME SegmentShape, NEW f \in flight, Rides(f)
  PROVE  PredictOne(f.b.t, Ttl(f.b.node) + Late)
<1> DEFINE t == f.b.t
<1>1. /\ t \in Int /\ f.b.born \in Int /\ f.at \in Int /\ Late \in Nat
      /\ Ttl(f.b.node) \in Nat /\ PlanShape
  BY TtlShape, SegmentAssumption DEF SegmentShape, Bundle
<1>2. PICK i \in Windows : From(i) <= f.at /\ f.at < To(i)
  BY DEF Rides, InWindow
<1>3. t <= f.b.born /\ f.b.born <= t + Late /\ f.b.born <= f.at /\ f.at < f.b.born + Ttl(f.b.node)
  BY DEF Rides, Born
<1>4. From(i) \in Int /\ To(i) \in Int
  BY <1>1, WindowTimes
<1>5. t < To(i)
  BY <1>1, <1>2, <1>3, <1>4
<1>6. PICK k \in Windows : /\ k <= i /\ t < To(k)
                           /\ \A j \in 1..(k - 1) : t >= To(j)
  BY <1>1, <1>5, FirstOpen
<1>7. From(k) <= From(i) /\ From(k) \in Int
  BY <1>1, <1>6, ContactsBegin, WindowTimes
<1>8. From(k) - t < Ttl(f.b.node) + Late
  BY <1>1, <1>2, <1>3, <1>4, <1>7
<1>9. QED
  BY <1>6, <1>8 DEF PredictOne

(* What arrives was forecast (ceiling_pilot.py:75-85, 134-137, 236).       *)
THEOREM PredictionSoundAlways == Spec => PredictionSound
<1>1. SegmentShape /\ SegmentTimes
      => \A f \in flight \ flight' : PredictOne(f.b.t, Ttl(f.b.node) + Late)
  BY RideForecast DEF SegmentTimes, BundleTimes
<1>2. QED
  BY <1>1, TimesInvariant, PTL DEF PredictionSound

(* A bundle forecast with the slack of two delays has a contact in which   *)
(* Timely makes it leave, with lifetime to spare.                          *)
LEMMA SureContact ==
  ASSUME SegmentShape, NEW b \in Bundle, Born(b), SurelyDelivered(b)
  PROVE  \E i \in Windows : LET m == Later(b.born, From(i))
                            IN  m + Late < To(i) /\ m + Late < b.born + Ttl(b.node)
<1> DEFINE ttl == Ttl(b.node)
<1>1. /\ b.t \in Int /\ b.born \in Int /\ Late \in Nat /\ Guard \in Nat /\ Late <= Guard
      /\ Second \in Nat \ {0} /\ 2 * Guard <= Second
      /\ ttl \in Nat /\ Second <= ttl /\ PlanShape
  BY TtlShape, SegmentAssumption DEF SegmentShape, Bundle
<1>2. b.t <= b.born /\ b.born <= b.t + Late
  BY DEF Born
<1>3. \A d \in 0..(2 * Late) : PredictOne(b.t + d, ttl - 2 * Late)
  BY DEF SurelyDelivered, Slack
<1>4. PredictOne(b.born, ttl - 2 * Late) /\ PredictOne(b.born + Late, ttl - 2 * Late)
  <2>1. b.born - b.t \in 0..(2 * Late) /\ b.born - b.t + Late \in 0..(2 * Late)
    BY <1>1, <1>2
  <2>2. b.t + (b.born - b.t) = b.born /\ b.t + (b.born - b.t + Late) = b.born + Late
    BY <1>1
  <2>3. QED
    BY <1>3, <2>1, <2>2
<1> HIDE DEF ttl
<1>5. PICK i \in Windows : /\ \A j \in 1..(i - 1) : b.born + Late >= To(j)
                           /\ b.born + Late < To(i)
                           /\ b.born + Late < From(i) => From(i) - (b.born + Late) < ttl - 2 * Late
  BY <1>4 DEF PredictOne
<1>6. PICK k \in Windows : /\ b.born < To(k)
                           /\ b.born < From(k) => From(k) - b.born < ttl - 2 * Late
                           /\ \A j \in 1..(k - 1) : b.born >= To(j)
  BY <1>4 DEF PredictOne
<1>7. /\ From(i) \in Int /\ To(i) \in Int /\ From(i) + Second <= To(i)
      /\ From(k) \in Int /\ To(k) \in Int /\ From(k) + Second <= To(k)
      /\ i \in Nat /\ k \in Nat
  BY <1>1, WindowTimes DEF PlanShape, Windows
<1> DEFINE m == Later(b.born, From(i))
<1>8. CASE From(i) <= b.born
  <2>1. m = b.born
    BY <1>1, <1>7, <1>8 DEF Later
  <2>2. b.born + Late < b.born + ttl
    BY <1>1
  <2>3. QED
    BY <1>5, <2>1, <2>2 DEF ttl
<1>9. CASE b.born < From(i)
  <2>1. m = From(i)
    BY <1>1, <1>7, <1>9 DEF Later
  <2>2. From(i) + Late < To(i)
    BY <1>1, <1>7
  <2>3. CASE b.born + Late < From(i)
    <3>1. From(i) + Late < b.born + ttl
      BY <1>1, <1>5, <1>7, <2>3
    <3>2. QED
      BY <2>1, <2>2, <3>1 DEF ttl
  <2>4. CASE From(i) <= b.born + Late
    <3>1. ~(k < i)
      <4> SUFFICES ASSUME k < i PROVE FALSE
        OBVIOUS
      <4>1. To(k) + Second <= From(i)
        BY <1>1, WindowOrder
      <4>2. QED
        BY <1>1, <1>6, <1>7, <2>4, <4>1
    <3>2. ~(i < k)
      <4> SUFFICES ASSUME i < k PROVE FALSE
        OBVIOUS
      <4>1. i \in 1..(k - 1)
        BY <1>1, <1>7 DEF PlanShape, Windows
      <4>2. b.born >= To(i)
        BY <1>6, <4>1
      <4>3. QED
        BY <1>1, <1>7, <1>9, <4>2
    <3>3. From(i) - b.born < ttl - 2 * Late
      BY <1>6, <1>7, <1>9, <3>1, <3>2
    <3>4. From(i) + Late < b.born + ttl
      BY <1>1, <1>7, <3>3
    <3>5. QED
      BY <2>1, <2>2, <3>4 DEF ttl
  <2>5. QED
    BY <1>1, <1>7, <2>3, <2>4
<1>10. QED
  BY <1>1, <1>7, <1>8, <1>9

(* Neither the end of its lifetime nor the end of the plan finds such a    *)
(* bundle on its node.                                                     *)
LEMMA SureLeaves ==
  ASSUME SegmentShape, NEW b \in held, Born(b), Timely(b), SurelyDelivered(b)
  PROVE  clock < b.born + Ttl(b.node) /\ clock < TEnd
<1>1. PICK i \in Windows : LET m == Later(b.born, From(i))
                           IN  m + Late < To(i) /\ m + Late < b.born + Ttl(b.node)
  BY SureContact DEF SegmentShape
<1> DEFINE m == Later(b.born, From(i))
<1>2. /\ b.born \in Int /\ Ttl(b.node) \in Int /\ clock \in Int /\ Late \in Nat
      /\ PlanShape
  BY TtlShape, SegmentAssumption DEF SegmentShape, Bundle
<1>3. From(i) \in Int /\ To(i) \in Int /\ m \in Int
  BY <1>2, WindowTimes DEF Later
<1>4. clock <= m + Late
  BY <1>1 DEF Timely
<1>5. To(i) <= TEnd /\ TEnd \in Int
  <2>1. Len(W) \in Windows /\ i <= Len(W)
    BY <1>2 DEF PlanShape, Windows
  <2>2. QED
    BY <1>2, <2>1, ContactsBegin, WindowTimes DEF TEnd
<1> HIDE DEF m
<1>6. m + Late < To(i) /\ m + Late < b.born + Ttl(b.node)
  BY <1>1 DEF m
<1>7. QED
  BY <1>2, <1>3, <1>4, <1>5, <1>6

(* What was forecast with slack arrives before the receiver is killed      *)
(* (ceiling_pilot.py:131-141, 217-220, 244-252, n6_bridge.py:162-166,      *)
(* 348-352).                                                               *)
THEOREM PredictionCompleteAlways == Spec => PredictionComplete
<1>1. ASSUME SegmentShape, SegmentTimes, [Next]_vars, NEW b \in held \ held'
      PROVE  b \in {f.b : f \in flight'} \/ ~SurelyDelivered(b)
  <2>1. (\E c \in held : Forward(c)) \/ (\E c \in held : Expire(c))
    BY <1>1 DEF Next, Tick, Work, WorkerExit, Analyse, Net, Toggle, BeginRound, TakePacket,
       SendNext, Arrive, vars
  <2>2. CASE \E c \in held : Forward(c)
    <3>1. PICK c \in held : Forward(c)
      BY <2>2
    <3>2. b = c /\ [b |-> c, at |-> clock] \in flight'
      BY <1>1, <3>1 DEF Forward
    <3>3. QED
      BY <3>2
  <2>3. CASE \E c \in held : Expire(c)
    <3>1. Expired(b)
      BY <1>1, <2>3 DEF Expire
    <3>2. b.born \in Int /\ Ttl(b.node) \in Int /\ clock \in Int /\ Born(b) /\ Timely(b)
      BY <1>1, TtlShape DEF SegmentShape, Bundle, SegmentTimes, BundleTimes
    <3>3. QED
      BY <1>1, <3>1, <3>2, SureLeaves DEF Expired
  <2>4. QED
    BY <2>1, <2>2, <2>3
<1>2. ASSUME SegmentShape, SegmentTimes, [Next]_vars, mpc' = "analysed", mpc # "analysed",
             mode = "pilot" \/ killAt >= TEnd + Drain,
             NEW b \in held \cup {f.b : f \in flight}
      PROVE  ~SurelyDelivered(b)
  <2>0. /\ clock \in Int /\ killAt \in Int /\ Drain \in Nat /\ Dt \in Nat /\ Owlt \in Nat
        /\ Dt + Owlt <= Drain /\ PlanShape
    BY <1>2, SegmentAssumption, DrainAssumption DEF SegmentShape
  <2>1. mpc = "drain" /\ killAt <= clock
    BY <1>2 DEF Next, Tick, Work, WorkerExit, Analyse, Net, Toggle, BeginRound, TakePacket,
       SendNext, Forward, Expire, Arrive, vars, SegmentShape
  <2>2. TEnd \in Int
    <3>1. Len(W) \in Windows
      BY <2>0 DEF PlanShape, Windows
    <3>2. QED
      BY <2>0, <3>1, WindowTimes DEF TEnd
  <2>3. TEnd + Owlt <= clock
    <3>1. mode = "pilot" => TEnd - Dt + Drain <= killAt
      BY <1>2, <2>1 DEF SegmentTimes, WorkerTimes
    <3>2. QED
      BY <1>2, <2>0, <2>1, <2>2, <3>1
  <2>4. CASE b \in held
    <3>1. Born(b) /\ Timely(b)
      BY <1>2, <2>4 DEF SegmentTimes, BundleTimes
    <3>2. QED
      BY <1>2, <2>0, <2>2, <2>3, <2>4, <3>1, SureLeaves
  <2>5. CASE b \in {f.b : f \in flight}
    <3>1. PICK f \in flight : b = f.b
      BY <2>5
    <3>2. Rides(f) /\ f.at \in Int
      BY <1>2 DEF SegmentTimes, BundleTimes, SegmentShape
    <3>3. PICK i \in Windows : f.at < To(i)
      BY <3>2 DEF Rides, InWindow
    <3>4. To(i) <= TEnd /\ To(i) \in Int
      <4>1. Len(W) \in Windows /\ i <= Len(W)
        BY <2>0 DEF PlanShape, Windows
      <4>2. QED
        BY <2>0, <4>1, ContactsBegin, WindowTimes DEF TEnd
    <3>5. clock <= f.at + Owlt
      BY <3>2 DEF Rides
    <3>6. QED
      BY <2>0, <2>2, <2>3, <3>2, <3>3, <3>4, <3>5
  <2>6. QED
    BY <1>2, <2>4, <2>5
<1>3. Next /\ mpc' = "analysed" => mpc # "analysed"
  BY DEF Next, Tick, Work, WorkerExit, Analyse, Net, Toggle, BeginRound, TakePacket, SendNext,
     Forward, Expire, Arrive, Working
<1> DEFINE Step ==
      /\ \A b \in held \ held' :
           b \in {f.b : f \in flight'} \/ ~SurelyDelivered(b)
      /\ mpc' = "analysed" /\ (mode = "pilot" \/ killAt >= TEnd + Drain)
           => \A b \in held \cup {f.b : f \in flight} : ~SurelyDelivered(b)
<1>4. SegmentShape /\ SegmentTimes /\ [Next]_vars => [Step]_vars
  BY <1>1, <1>2, <1>3
<1>5. QED
  BY <1>4, TimesInvariant, PTL DEF Spec, PredictionComplete

LEMMA MinOfTwo ==
  ASSUME NEW a \in Int, NEW b \in Int
  PROVE  Min({a, b}) = IF a <= b THEN a ELSE b
BY DEF Min
-----------------------------------------------------------------------------
(* The closed form.  With an injection every second, round s of the pilot  *)
(* reads the clock in second s.  A send of round s may be      *)
(* forecast if the contact it would leave in opens at most l seconds       *)
(* later, and must be if it opens in less.                                 *)
LeavesIn(s, i) == s < W[i].to /\ (i > 1 => W[i - 1].to <= s)
Might(l) == {s \in Nat : \E i \in Windows : LeavesIn(s, i) /\ W[i].from <= s + l}
Must(l) == {s \in Nat : \E i \in Windows : LeavesIn(s, i) /\ W[i].from < s + l}

LEMMA SecondsCompare ==
  ASSUME NEW a \in Int, NEW b \in Int
  PROVE  /\ Second * a \in Int
         /\ Second * (a + b) = Second * a + Second * b
         /\ Second * a < Second * b + Second => a <= b
<1>1. Second \in Nat \ {0}
  BY SegmentAssumption
<1>2. Second * a \in Int /\ Second * b \in Int /\ Second * (a + b) = Second * a + Second * b
  BY <1>1
<1>3. CASE a <= b
  BY <1>2, <1>3
<1>4. CASE b + 1 <= a
  <2>1. Second * b + Second <= Second * a
    BY <1>4, SecondsApart
  <2>2. QED
    BY <1>1, <1>2, <2>1
<1>5. QED
  BY <1>3, <1>4

LEMMA RoundForecast ==
  ASSUME PlanShape, NEW s \in Nat, NEW t \in Int, NEW l \in Nat \ {0},
         Second * s <= t, t < Second * s + Second
  PROVE  /\ PredictOne(t, Second * l) => s \in Might(l)
         /\ s \in Must(l) => PredictOne(t, Second * l)
<1>0. /\ Second \in Nat \ {0}
      /\ Windows = 1..Len(W) /\ Len(W) \in Nat
      /\ \A i \in Windows : W[i].from \in Int /\ W[i].to \in Int
  BY SegmentAssumption DEF PlanShape, Windows
<1>i. \A i \in Windows : From(i) \in Int /\ To(i) \in Int
  BY WindowTimes
<1>a. PICK a \in Int : a = Second * s
  BY SecondsCompare
<1>b. PICK b \in Int : b = Second * l
  BY SecondsCompare
<1>c. Second * (s + l) = a + b
  BY <1>a, <1>b, SecondsCompare
<1>t. a <= t /\ t < a + Second
  BY <1>a
<1>1. ASSUME PredictOne(t, b)
      PROVE  s \in Might(l)
  <2>1. PICK i \in Windows : /\ \A j \in 1..(i - 1) : t >= To(j)
                             /\ t < To(i)
                             /\ t < From(i) => From(i) - t < b
    BY <1>1 DEF PredictOne
  <2>i. i \in Windows /\ W[i].from \in Int /\ W[i].to \in Int /\ From(i) \in Int /\ To(i) \in Int
    BY <1>0, <1>i
  <2>2. s < W[i].to
    <3>1. CASE W[i].to = s
      BY <1>a, <1>t, <2>1, <3>1 DEF To
    <3>2. CASE W[i].to + 1 <= s
      <4>1. To(i) + Second <= a
        BY <1>a, <2>i, <3>2, SecondsApart DEF To
      <4>2. QED
        BY <1>0, <1>t, <2>1, <2>i, <4>1
    <3>3. QED
      BY <2>i, <3>1, <3>2
  <2>3. ASSUME i > 1
        PROVE  W[i - 1].to <= s
    <3>1. i - 1 \in Windows /\ i - 1 \in 1..(i - 1)
      BY <1>0, <2>3
    <3>2. t >= To(i - 1) /\ To(i - 1) \in Int /\ W[i - 1].to \in Int
      BY <1>0, <1>i, <2>1, <3>1
    <3>3. To(i - 1) < a + Second
      BY <1>0, <1>t, <3>2
    <3>4. Second * W[i - 1].to < Second * s + Second
      BY <1>a, <3>3 DEF To
    <3>5. s \in Int
      OBVIOUS
    <3>6. QED
      BY <3>2, <3>4, <3>5, SecondsCompare
  <2>4. W[i].from <= s + l
    <3>1. From(i) < a + b + Second
      <4>1. Second * 0 + Second <= b
        BY <1>b, SecondsApart
      <4>2. Second * 0 = 0
        BY <1>0
      <4>3. CASE t < From(i)
        BY <1>0, <1>b, <1>t, <2>1, <2>i, <4>3
      <4>4. CASE From(i) <= t
        BY <1>0, <1>t, <2>i, <4>1, <4>2, <4>4
      <4>5. QED
        BY <2>i, <4>3, <4>4
    <3>2. Second * W[i].from < Second * (s + l) + Second
      BY <1>c, <3>1 DEF From
    <3>3. s + l \in Int
      OBVIOUS
    <3>4. QED
      BY <2>i, <3>2, <3>3, SecondsCompare
  <2>5. QED
    BY <2>2, <2>3, <2>4 DEF Might, LeavesIn
<1>2. ASSUME s \in Must(l)
      PROVE  PredictOne(t, b)
  <2>1. PICK i \in Windows : LeavesIn(s, i) /\ W[i].from < s + l
    BY <1>2 DEF Must
  <2>i. i \in Windows /\ W[i].from \in Int /\ W[i].to \in Int /\ From(i) \in Int /\ To(i) \in Int
    BY <1>0, <1>i
  <2>2. a + Second <= To(i)
    <3>1. s + 1 <= W[i].to
      BY <2>1, <2>i DEF LeavesIn
    <3>2. QED
      BY <1>a, <2>i, <3>1, SecondsApart DEF To
  <2>3. ASSUME NEW j \in 1..(i - 1)
        PROVE  t >= To(j)
    <3>1. i > 1 /\ i - 1 \in Windows /\ j \in Windows /\ j <= i - 1
      BY <1>0
    <3>2. W[i - 1].to <= s /\ W[i - 1].to \in Int /\ To(i - 1) \in Int /\ To(j) \in Int
      BY <1>0, <1>i, <2>1, <3>1 DEF LeavesIn
    <3>3. To(i - 1) <= a
      <4>1. CASE W[i - 1].to = s
        BY <1>a, <4>1 DEF To
      <4>2. CASE W[i - 1].to + 1 <= s
        <5>1. To(i - 1) + Second <= a
          BY <1>a, <3>2, <4>2, SecondsApart DEF To
        <5>2. QED
          BY <1>0, <3>2, <5>1
      <4>3. QED
        BY <3>2, <4>1, <4>2
    <3>4. To(j) <= To(i - 1)
      BY <3>1, ContactsBegin
    <3>5. QED
      BY <1>t, <3>2, <3>3, <3>4
  <2>4. From(i) + Second <= a + b
    <3>1. s + l \in Int /\ W[i].from + 1 <= s + l
      BY <2>1, <2>i
    <3>2. Second * W[i].from + Second <= Second * (s + l)
      BY <2>i, <3>1, SecondsApart
    <3>3. QED
      BY <1>c, <3>2 DEF From
  <2>5. From(i) - t < b
    BY <1>0, <1>b, <1>t, <2>i, <2>4
  <2>6. t < To(i)
    BY <1>0, <1>t, <2>i, <2>2
  <2>7. QED
    BY <2>3, <2>5, <2>6 DEF PredictOne
<1>3. QED
  BY <1>b, <1>1, <1>2

(* Rounds come one after another, a second each; the first may be late if  *)
(* the program starts with the contact.                                    *)
LastSecond == W[Len(W)].to
RoundTimes ==
  mode = "pilot" /\ Dt = Second =>
    /\ seq <= LastSecond
    /\ mpc # "run" => seq = LastSecond
    /\ sending # {} => /\ mpc = "run" /\ seq < LastSecond
                       /\ Second * seq <= now /\ now < Second * seq + Second
                       /\ now <= Second * seq + Late \/ seq = 0
                       /\ now <= clock /\ clock <= now + Late
    /\ mpc = "run" /\ sending = {} /\ seq < LastSecond =>
         clock <= Second * seq + Late \/ (seq = 0 /\ clock < Second)

(* What a node has been sent, this round included.                         *)
Done(i) == IF sending # {} /\ i \notin sending THEN seq + 1 ELSE seq
Before(S, n) == Cardinality(S \cap 0..(n - 1))
PredictedShape ==
  mode = "pilot" /\ Dt = Second =>
    /\ predicted \in [Nodes -> Nat]
    /\ \A i \in Nodes : /\ Before(Must(Lifetimes[i]), Done(i)) <= predicted[i]
                        /\ predicted[i] <= Before(Might(Lifetimes[i]), Done(i))

LEMMA RoundsLeft ==
  ASSUME PlanShape, seq \in Nat, Dt = Second
  PROVE  /\ LastSecond \in Nat /\ LastSecond > 0
         /\ RoundDue = Second * seq
         /\ RoundDue < TEnd <=> seq < LastSecond
<1>1. /\ Len(W) \in Windows /\ 1 \in Windows /\ 1 < Len(W)
      /\ W[Len(W)].from \in Int /\ W[Len(W)].to \in Int /\ W[Len(W)].from < W[Len(W)].to
      /\ W[1].from = 0 /\ W[1].to \in Int /\ W[1].from < W[1].to
  BY DEF PlanShape, Windows
<1>2. Second \in Nat \ {0}
  BY SegmentAssumption
<1>3. W[1].to <= W[Len(W)].from
  <2>1. To(1) + Second <= From(Len(W))
    BY <1>1, WindowOrder
  <2>2. PICK a \in Int : a = Second * W[1].to
    BY <1>1, SecondsCompare
  <2>3. PICK b \in Int : b = Second * W[Len(W)].from
    BY <1>1, SecondsCompare
  <2>4. a < b + Second
    BY <1>2, <2>1, <2>2, <2>3 DEF From, To
  <2>5. Second * W[1].to < Second * W[Len(W)].from + Second
    BY <2>2, <2>3, <2>4
  <2>6. QED
    BY <1>1, <2>5, SecondsCompare
<1>4. LastSecond \in Nat /\ LastSecond > 0
  BY <1>1, <1>3 DEF LastSecond
<1>5. RoundDue = Second * seq /\ TEnd = Second * LastSecond
  BY <1>2 DEF RoundDue, TEnd, To, LastSecond
<1>6. ASSUME seq < LastSecond
      PROVE  Second * seq < Second * LastSecond
  <2>1. seq + 1 <= LastSecond /\ seq \in Int /\ LastSecond \in Int
    BY <1>4, <1>6
  <2>2. Second * seq + Second <= Second * LastSecond /\ Second * seq \in Int
    BY <2>1, SecondsApart
  <2>3. PICK a \in Int : a = Second * seq
    BY <2>2
  <2>4. PICK b \in Int : b = Second * LastSecond
    BY <2>1, SecondsApart
  <2>5. QED
    BY <1>2, <2>2, <2>3, <2>4
<1>7. ASSUME LastSecond <= seq
      PROVE  ~(Second * seq < Second * LastSecond)
  <2>1. CASE LastSecond = seq
    <3>1. Second * seq \in Int
      BY SecondsCompare
    <3>2. QED
      BY <2>1, <3>1
  <2>2. CASE LastSecond + 1 <= seq
    <3>1. Second * LastSecond + Second <= Second * seq
      BY <1>4, <2>2, SecondsApart
    <3>2. PICK a \in Int : a = Second * seq
      BY SecondsCompare
    <3>3. PICK b \in Int : b = Second * LastSecond
      BY <1>4, SecondsCompare
    <3>4. QED
      BY <1>2, <3>1, <3>2, <3>3
  <2>3. QED
    BY <1>4, <1>7, <2>1, <2>2
<1>8. QED
  BY <1>4, <1>5, <1>6, <1>7

LEMMA NoneBefore ==
  ASSUME NEW S
  PROVE  Before(S, 0) = 0
<1>1. S \cap 0..(0 - 1) = {}
  OBVIOUS
<1>2. QED
  BY <1>1, FS_EmptySet DEF Before

LEMMA OneMoreBefore ==
  ASSUME NEW S, NEW n \in Nat
  PROVE  /\ Before(S, n) \in Nat
         /\ Before(S, n + 1) = Before(S, n) + (IF n \in S THEN 1 ELSE 0)
<1>1. IsFiniteSet(0..(n - 1))
  BY FS_Interval
<1>2. IsFiniteSet(S \cap 0..(n - 1))
  BY <1>1, FS_Subset
<1>3. Before(S, n) \in Nat
  BY <1>2, FS_CardinalityType DEF Before
<1>4. (n + 1) - 1 = n /\ 0..n = 0..(n - 1) \cup {n} /\ n \notin 0..(n - 1)
  OBVIOUS
<1>5. CASE n \in S
  <2>1. S \cap 0..n = (S \cap 0..(n - 1)) \cup {n} /\ n \notin S \cap 0..(n - 1)
    BY <1>4, <1>5
  <2>2. Cardinality((S \cap 0..(n - 1)) \cup {n}) = Cardinality(S \cap 0..(n - 1)) + 1
    BY <1>2, <2>1, FS_AddElement
  <2>3. QED
    BY <1>3, <1>4, <1>5, <2>1, <2>2 DEF Before
<1>6. CASE n \notin S
  <2>1. S \cap 0..n = S \cap 0..(n - 1)
    BY <1>4, <1>6
  <2>2. Before(S, n + 1) = Before(S, n)
    BY <1>4, <2>1 DEF Before
  <2>3. QED
    BY <1>3, <1>6, <2>2
<1>7. QED
  BY <1>5, <1>6

LEMMA PilotLife ==
  ASSUME mode = "pilot", NEW i \in Nodes
  PROVE  /\ Lifetimes[i] \in Nat \ {0} /\ Lifetime(i) = Lifetimes[i]
         /\ Ttl(i) = Second * Lifetimes[i]
<1>1. Lifetimes[i] \in Nat \ {0}
  BY SegmentAssumption, ElementOfSeq, LenProperties DEF Nodes
<1>2. QED
  BY <1>1 DEF Lifetime, Ttl

LEMMA RoundsInit == Init => RoundTimes /\ PredictedShape
<1> SUFFICES ASSUME Init, mode = "pilot", Dt = Second PROVE RoundTimes /\ PredictedShape
  BY DEF RoundTimes, PredictedShape
<1>1. PICK j \in 0..(Second - 1) : clock = j - Lead * Second
  BY DEF Init
<1>2. PlanShape /\ seq = 0 /\ sending = {} /\ mpc = "run" /\ predicted = [i \in Nodes |-> 0]
  BY PlanInit DEF Init
<1>3. /\ LastSecond \in Nat /\ Second \in Nat /\ Lead * Second \in Nat /\ Second * seq = 0
      /\ Late \in Nat /\ Lead \in Nat /\ Second # 0
  BY <1>2, RoundsLeft, SegmentAssumption
<1>4. clock < Second
  BY <1>1, <1>3
<1>5. RoundTimes
  BY <1>2, <1>3, <1>4 DEF RoundTimes
<1>6. PredictedShape
  <2>1. ASSUME NEW i \in Nodes
        PROVE  Done(i) = 0 /\ predicted[i] = 0
    BY <1>2 DEF Done
  <2>2. QED
    BY <1>2, <2>1, NoneBefore DEF PredictedShape
<1>7. QED
  BY <1>5, <1>6

LEMMA RoundsStep ==
  ASSUME SegmentShape, RoundTimes, [Next]_vars
  PROVE  RoundTimes'
<1> SUFFICES ASSUME mode = "pilot", mode' = "pilot", Dt = Second PROVE RoundTimes'
  <2>1. mode' = mode
    BY DEF Next, Tick, Work, WorkerExit, Analyse, Net, Toggle, BeginRound, TakePacket, SendNext,
       Forward, Expire, Arrive, vars
  <2>2. QED
    BY <2>1 DEF RoundTimes
<1>0. /\ PlanShape /\ seq \in Nat /\ clock \in Int /\ now \in Int /\ Second \in Nat \ {0}
      /\ Late \in Nat /\ 2 * Late <= Second
      /\ LastSecond \in Nat /\ LastSecond > 0
      /\ RoundDue = Second * seq /\ (RoundDue < TEnd <=> seq < LastSecond)
  BY RoundsLeft, SegmentAssumption DEF SegmentShape
<1>1. LastSecond' = LastSecond /\ TEnd' = TEnd
  BY DEF Next, Tick, Work, WorkerExit, Analyse, Net, Toggle, BeginRound, TakePacket, SendNext,
     Forward, Expire, Arrive, vars, TEnd, To, LastSecond
<1>2. PICK N \in Int : N = Second * seq
  BY SecondsCompare, <1>0
<1>3. Second * (seq + 1) = N + Second /\ (seq = 0 => N = 0)
  BY <1>0, <1>2
<1>4. /\ seq <= LastSecond
      /\ mpc # "run" => seq = LastSecond
      /\ sending # {} => /\ mpc = "run" /\ seq < LastSecond
                         /\ N <= now /\ now < N + Second
                         /\ now <= N + Late \/ seq = 0
                         /\ now <= clock /\ clock <= now + Late
      /\ mpc = "run" /\ sending = {} /\ seq < LastSecond =>
           clock <= N + Late \/ (seq = 0 /\ clock < Second)
  BY <1>2 DEF RoundTimes
<1>5. ASSUME seq' = seq,
             mpc' # "run" => seq = LastSecond,
             sending' # {} => /\ mpc' = "run" /\ seq < LastSecond
                              /\ N <= now' /\ now' < N + Second
                              /\ now' <= N + Late \/ seq = 0
                              /\ now' <= clock' /\ clock' <= now' + Late,
             mpc' = "run" /\ sending' = {} /\ seq < LastSecond =>
               clock' <= N + Late \/ (seq = 0 /\ clock' < Second)
      PROVE  RoundTimes'
  BY <1>1, <1>2, <1>4, <1>5 DEF RoundTimes
<1>6. CASE Tick
  <2>1. /\ clock' = clock + 1 /\ UNCHANGED <<mpc, seq, now, sending>>
        /\ sending # {} => ~(clock >= now + Late)
        /\ mpc = "run" /\ sending = {} => ~(clock >= RoundDue + Late)
    BY <1>6 DEF Tick, Overdue, worker, Working
  <2>2. QED
    BY <1>0, <1>2, <1>4, <1>5, <2>1
<1>7. CASE BeginRound
  <2>1. /\ mpc = "run" /\ sending = {} /\ seq < LastSecond /\ clock >= N
        /\ now' = clock /\ UNCHANGED <<clock, mpc, seq>>
    BY <1>0, <1>2, <1>7 DEF BeginRound, Working
  <2>2. QED
    BY <1>0, <1>3, <1>4, <1>5, <2>1
<1>8. CASE SendNext
  <2>1. /\ sending # {} /\ UNCHANGED <<clock, mpc>>
        /\ \/ sending' = {} /\ seq' = seq + 1
           \/ sending' # {} /\ seq' = seq /\ now' = now
    BY <1>8 DEF SendNext, AfterSend
  <2>2. CASE sending' # {} /\ seq' = seq /\ now' = now
    BY <1>4, <1>5, <2>1, <2>2
  <2>3. CASE sending' = {} /\ seq' = seq + 1
    <3>1. seq + 1 <= LastSecond /\ mpc' = "run" /\ clock' <= N + Second + Late
      BY <1>0, <1>3, <1>4, <2>1
    <3>2. clock' <= Second * (seq + 1) + Late
      BY <1>3, <3>1
    <3>3. QED
      BY <1>1, <2>3, <3>1, <3>2 DEF RoundTimes
  <2>4. QED
    BY <2>1, <2>2, <2>3
<1>9. CASE WorkerExit
  <2>1. sending = {} /\ RoundDue >= TEnd /\ mpc' = "drain" /\ UNCHANGED <<clock, worker>>
    BY <1>9 DEF WorkerExit
  <2>2. seq = LastSecond
    <3>1. TEnd \in Int /\ RoundDue \in Int
      <4>1. Len(W) \in Windows
        BY <1>0 DEF PlanShape, Windows
      <4>2. QED
        BY <1>0, <1>2, <4>1, WindowTimes DEF TEnd
    <3>2. ~(seq < LastSecond)
      BY <1>0, <2>1, <3>1
    <3>3. QED
      BY <1>0, <1>4, <3>2
  <2>3. QED
    BY <1>5, <2>1, <2>2 DEF worker
<1>10. CASE Analyse
  BY <1>4, <1>5, <1>10 DEF Analyse, worker
<1>11. CASE Net \/ UNCHANGED vars
  <2>1. UNCHANGED <<clock, mpc, worker>>
    BY <1>11 DEF Net, Toggle, Forward, Expire, Arrive, vars
  <2>2. QED
    BY <1>4, <1>5, <2>1 DEF worker
<1>12. CASE \E i \in Nodes : TakePacket(i)
  BY <1>12 DEF TakePacket
<1>13. QED
  BY <1>6, <1>7, <1>8, <1>9, <1>10, <1>11, <1>12 DEF Next, Work

LEMMA PredictedStep ==
  ASSUME SegmentShape, RoundTimes, PredictedShape, [Next]_vars
  PROVE  PredictedShape'
<1> SUFFICES ASSUME mode = "pilot", mode' = "pilot", Dt = Second PROVE PredictedShape'
  <2>1. mode' = mode
    BY DEF Next, Tick, Work, WorkerExit, Analyse, Net, Toggle, BeginRound, TakePacket, SendNext,
       Forward, Expire, Arrive, vars
  <2>2. QED
    BY <2>1 DEF PredictedShape
<1>0. W' = W /\ Nodes' = Nodes
  BY DEF Next, Tick, Work, WorkerExit, Analyse, Net, Toggle, BeginRound, TakePacket, SendNext,
     Forward, Expire, Arrive, vars, Nodes
<1>1. \A l : Must(l)' = Must(l) /\ Might(l)' = Might(l)
  BY <1>0 DEF Must, Might, LeavesIn, Windows
<1>2. /\ predicted \in [Nodes -> Nat]
      /\ \A i \in Nodes : /\ Before(Must(Lifetimes[i]), Done(i)) <= predicted[i]
                          /\ predicted[i] <= Before(Might(Lifetimes[i]), Done(i))
  BY DEF PredictedShape
<1>3. ASSUME predicted' = predicted, \A i \in Nodes : Done(i)' = Done(i)
      PROVE  PredictedShape'
  <2>1. ASSUME NEW i \in Nodes
        PROVE  /\ Before(Must(Lifetimes[i])', Done(i)') <= predicted'[i]
               /\ predicted'[i] <= Before(Might(Lifetimes[i])', Done(i)')
    BY <1>1, <1>2, <1>3
  <2>2. QED
    BY <1>0, <1>2, <1>3, <2>1 DEF PredictedShape, Before
<1>4. CASE SendNext
  <2>1. PICK i \in Nodes :
          i = Min(sending) /\ i \in sending /\ sending # {} /\ sending \subseteq Nodes
    BY <1>4, FirstClient DEF SendNext, SegmentShape
  <2>2. /\ predicted' = [predicted EXCEPT ![i] = @ + IF PredictOne(now, Ttl(i)) THEN 1 ELSE 0]
        /\ sending' = sending \ {i}
        /\ seq' = IF sending \ {i} = {} THEN seq + 1 ELSE seq
    BY <1>4, <2>1 DEF SendNext, AfterSend
  <2>3. Done(i) = seq /\ Done(i)' = seq + 1
    BY <2>1, <2>2 DEF Done
  <2>4. ASSUME NEW j \in Nodes, j # i
        PROVE  Done(j)' = Done(j)
    <3>1. CASE j \in sending
      <4>1. j \in sending \ {i}
        BY <2>4, <3>1
      <4>2. j \in sending' /\ seq' = seq
        BY <2>2, <4>1
      <4>3. QED
        BY <3>1, <4>2 DEF Done
    <3>2. CASE j \notin sending
      <4>1. Done(j) = seq + 1 /\ j \notin sending'
        BY <2>1, <2>2, <3>2 DEF Done
      <4>2. CASE sending' = {}
        <5>1. seq' = seq + 1
          BY <2>2, <4>2
        <5>2. QED
          BY <4>1, <4>2, <5>1 DEF Done
      <4>3. CASE sending' # {}
        <5>1. seq' = seq
          BY <2>2, <4>3
        <5>2. QED
          BY <4>1, <4>3, <5>1 DEF Done
      <4>4. QED
        BY <4>2, <4>3
    <3>3. QED
      BY <3>1, <3>2
  <2>5. /\ PredictOne(now, Ttl(i)) => seq \in Might(Lifetimes[i])
        /\ seq \in Must(Lifetimes[i]) => PredictOne(now, Ttl(i))
    <3>1. /\ PlanShape /\ seq \in Nat /\ now \in Int
          /\ Second * seq <= now /\ now < Second * seq + Second
      BY <2>1 DEF RoundTimes, SegmentShape
    <3>2. PICK l \in Nat \ {0} : l = Lifetimes[i] /\ Ttl(i) = Second * l
      BY <2>1, PilotLife
    <3>3. QED
      BY <3>1, <3>2, RoundForecast
  <2>6. predicted'[i] = predicted[i] + IF PredictOne(now, Ttl(i)) THEN 1 ELSE 0
    BY <1>2, <2>1, <2>2
  <2>7. /\ Before(Must(Lifetimes[i]), seq + 1) <= predicted'[i]
        /\ predicted'[i] <= Before(Might(Lifetimes[i]), seq + 1)
    <3>1. /\ Before(Must(Lifetimes[i]), seq) \in Nat
          /\ Before(Must(Lifetimes[i]), seq + 1)
               = Before(Must(Lifetimes[i]), seq) + (IF seq \in Must(Lifetimes[i]) THEN 1 ELSE 0)
          /\ Before(Might(Lifetimes[i]), seq) \in Nat
          /\ Before(Might(Lifetimes[i]), seq + 1)
               = Before(Might(Lifetimes[i]), seq) + (IF seq \in Might(Lifetimes[i]) THEN 1 ELSE 0)
      BY OneMoreBefore DEF SegmentShape
    <3>2. /\ Before(Must(Lifetimes[i]), seq) <= predicted[i]
          /\ predicted[i] <= Before(Might(Lifetimes[i]), seq)
          /\ predicted[i] \in Nat
      BY <1>2, <2>1, <2>3
    <3>3. QED
      BY <2>5, <2>6, <3>1, <3>2
  <2>8. ASSUME NEW j \in Nodes
        PROVE  /\ Before(Must(Lifetimes[j])', Done(j)') <= predicted'[j]
               /\ predicted'[j] <= Before(Might(Lifetimes[j])', Done(j)')
    <3>1. CASE j = i
      <4>1. Done(j)' = seq + 1 /\ predicted'[j] = predicted'[i] /\ Lifetimes[j] = Lifetimes[i]
        BY <2>3, <3>1
      <4>2. QED
        BY <1>1, <2>7, <4>1
    <3>2. CASE j # i
      <4>1. predicted'[j] = predicted[j]
        BY <1>2, <2>2, <3>2
      <4>2. Done(j)' = Done(j)
        BY <2>4, <3>2
      <4>3. QED
        BY <1>1, <1>2, <4>1, <4>2
    <3>3. QED
      BY <3>1, <3>2
  <2>9. predicted' \in [Nodes -> Nat]
    <3>1. PICK d \in {0, 1} : d = IF PredictOne(now, Ttl(i)) THEN 1 ELSE 0
      OBVIOUS
    <3>2. predicted' = [predicted EXCEPT ![i] = predicted[i] + d]
      BY <2>2, <3>1
    <3>3. predicted[i] + d \in Nat
      BY <1>2, <2>1
    <3>4. QED
      BY <1>2, <3>2, <3>3
  <2>10. QED
    BY <1>0, <2>8, <2>9 DEF PredictedShape, Before
<1>5. CASE BeginRound
  <2>1. sending = {} /\ sending' = Nodes /\ seq' = seq /\ predicted' = predicted
    BY <1>5 DEF BeginRound, Clients
  <2>2. \A i \in Nodes : Done(i)' = Done(i)
    BY <2>1 DEF Done
  <2>3. QED
    BY <1>3, <2>1, <2>2
<1>6. CASE Tick \/ WorkerExit \/ Analyse \/ Net \/ UNCHANGED vars
  <2>1. UNCHANGED <<predicted, worker>>
    BY <1>6 DEF Tick, WorkerExit, Analyse, Net, Toggle, Forward, Expire, Arrive, vars
  <2>2. \A i \in Nodes : Done(i)' = Done(i)
    BY <2>1 DEF Done, worker
  <2>3. QED
    BY <1>3, <2>1, <2>2
<1>7. CASE \E i \in Nodes : TakePacket(i)
  BY <1>7 DEF TakePacket
<1>8. QED
  BY <1>4, <1>5, <1>6, <1>7 DEF Next, Work

(* Counting the seconds up to the end of a contact, contact by contact.    *)
LEMMA SecondsOrder ==
  ASSUME PlanShape, NEW i \in Windows, NEW j \in Windows, i < j
  PROVE  W[i].to <= W[j].from /\ W[i].to < W[j].to
<1>1. /\ W[i].to \in Int /\ W[j].from \in Int /\ W[j].to \in Int /\ W[j].from < W[j].to
      /\ Second \in Nat \ {0}
  BY SegmentAssumption DEF PlanShape
<1>2. To(i) + Second <= From(j)
  BY WindowOrder
<1>3. PICK a \in Int : a = Second * W[i].to
  BY <1>1, SecondsCompare
<1>4. PICK b \in Int : b = Second * W[j].from
  BY <1>1, SecondsCompare
<1>5. a < b + Second
  BY <1>1, <1>2, <1>3, <1>4 DEF From, To
<1>6. W[i].to <= W[j].from
  BY <1>1, <1>3, <1>4, <1>5, SecondsCompare
<1>7. QED
  BY <1>1, <1>6

LEMMA PartsCount ==
  ASSUME NEW S, NEW a \in Nat, NEW m \in Nat, NEW b \in Nat, a <= m, m <= b,
         \A s \in Nat : a <= s /\ s < b => (s \in S <=> m <= s)
  PROVE  Before(S, a) \in Nat /\ Before(S, b) = Before(S, a) + (b - m)
<1> DEFINE A == S \cap 0..(a - 1)
           B == m..(b - 1)
<1>1. IsFiniteSet(0..(a - 1))
  BY FS_Interval
<1>2. IsFiniteSet(A) /\ Cardinality(A) \in Nat
  BY <1>1, FS_Subset, FS_CardinalityType
<1>3. IsFiniteSet(B) /\ Cardinality(B) = b - m
  <2>1. m \in Int /\ b - 1 \in Int
    OBVIOUS
  <2>2. /\ IsFiniteSet(m..(b - 1))
        /\ Cardinality(m..(b - 1)) = IF m > b - 1 THEN 0 ELSE (b - 1) - m + 1
    BY <2>1, FS_Interval
  <2>3. QED
    BY <2>2
<1>4. A \cap B = {}
  OBVIOUS
<1>5. S \cap 0..(b - 1) = A \cup B
  <2>1. ASSUME NEW s \in S \cap 0..(b - 1)
        PROVE  s \in A \cup B
    OBVIOUS
  <2>2. ASSUME NEW s \in A \cup B
        PROVE  s \in S \cap 0..(b - 1)
    OBVIOUS
  <2>3. QED
    BY <2>1, <2>2
<1>6. Cardinality(A \cup B) = Cardinality(A) + Cardinality(B) - Cardinality(A \cap B)
  BY <1>2, <1>3, FS_Union
<1>7. Cardinality(A \cap B) = 0
  BY <1>4, FS_EmptySet
<1>8. Before(S, a) = Cardinality(A) /\ Before(S, b) = Cardinality(A \cup B)
  BY <1>5 DEF Before
<1> HIDE DEF A, B
<1>9. QED
  BY <1>2, <1>3, <1>6, <1>7, <1>8

(* Between the ends of contacts i and i + 1, the seconds counted are those *)
(* from some second of the gap on.                                         *)
LEMMA SecondsCounted ==
  ASSUME PlanShape, NEW l \in Nat \ {0}, NEW i \in Windows, i > 1, NEW s \in Nat,
         W[i - 1].to <= s, s < W[i].to
  PROVE  /\ s \in Might(l) <=> W[i].from - l <= s
         /\ s \in Must(l) <=> W[i].from - l + 1 <= s
<1>0. /\ Windows = 1..Len(W) /\ Len(W) \in Nat
      /\ \A j \in Windows : W[j].from \in Int /\ W[j].to \in Int
  BY DEF PlanShape, Windows
<1>1. ASSUME NEW j \in Windows, LeavesIn(s, j)
      PROVE  j = i
  <2>1. i - 1 \in Windows
    BY <1>0
  <2>2. CASE j < i
    <3>1. W[j].to <= W[i - 1].to
      <4>1. CASE j = i - 1
        BY <1>0, <4>1
      <4>2. CASE j < i - 1
        BY <1>0, <2>1, <4>2, SecondsOrder
      <4>3. QED
        BY <1>0, <2>2, <4>1, <4>2
    <3>2. QED
      BY <1>0, <1>1, <2>1, <3>1 DEF LeavesIn
  <2>3. CASE i < j
    <3>1. j - 1 \in Windows /\ j > 1
      BY <1>0, <2>3
    <3>2. W[i].to <= W[j - 1].to
      <4>1. CASE i = j - 1
        BY <1>0, <4>1
      <4>2. CASE i < j - 1
        BY <1>0, <3>1, <4>2, SecondsOrder
      <4>3. QED
        BY <1>0, <2>3, <4>1, <4>2
    <3>3. QED
      BY <1>0, <1>1, <3>1, <3>2 DEF LeavesIn
  <2>4. QED
    BY <1>0, <2>2, <2>3
<1>2. LeavesIn(s, i) /\ W[i].from \in Int
  BY <1>0 DEF LeavesIn
<1>3. s \in Might(l) <=> W[i].from <= s + l
  BY <1>1, <1>2 DEF Might
<1>4. s \in Must(l) <=> W[i].from < s + l
  BY <1>1, <1>2 DEF Must
<1>5. /\ W[i].from <= s + l <=> W[i].from - l <= s
      /\ W[i].from < s + l <=> W[i].from - l + 1 <= s
  BY <1>2
<1>6. QED
  BY <1>3, <1>4, <1>5, Zenon

(* The sums of the closed form, contact by contact.                        *)
LEMMA SumsGrow ==
  ASSUME NEW v, NEW n \in Nat, \A i \in 1..(n + 1) : v[i] \in Int
  PROVE  /\ SumOf(v, 1..n) \in Int
         /\ SumOf(v, 1..(n + 1)) = SumOf(v, 1..n) + v[n + 1]
<1>1. IsFiniteSet(1..(n + 1)) /\ IsFiniteSet(1..n)
  BY FS_Interval
<1>2. n + 1 \in 1..(n + 1) /\ (1..(n + 1)) \ {n + 1} = 1..n /\ \A i \in 1..n : i \in 1..(n + 1)
  OBVIOUS
<1>3. SumOf(v, 1..n) \in Int
  BY <1>1, <1>2, SumRemove
<1>4. SumOf(v, 1..(n + 1)) = v[n + 1] + SumOf(v, (1..(n + 1)) \ {n + 1})
  BY <1>1, <1>2, SumRemove
<1>5. SumOf(v, 1..(n + 1)) = v[n + 1] + SumOf(v, 1..n)
  BY <1>2, <1>4
<1>6. v[n + 1] \in Int
  BY <1>2
<1>7. QED
  BY <1>3, <1>5, <1>6

ClosedUpTo(l, i) == SumOf(Length, 1..i) + SumOf(Saved(l), 1..(i - 1))

LEMMA ClosedGrows ==
  ASSUME PlanShape, NEW l \in Nat \ {0}
  PROVE  /\ ClosedUpTo(l, 1) = W[1].to
         /\ \A i \in Gaps : /\ ClosedUpTo(l, i) \in Int
                            /\ ClosedUpTo(l, i + 1) = ClosedUpTo(l, i)
                                 + (W[i + 1].to - W[i + 1].from)
                                 + (IF l <= Gap(i) THEN l ELSE Gap(i))
         /\ ClosedForm(l) = ClosedUpTo(l, Len(W))
<1>0. /\ Windows = 1..Len(W) /\ Len(W) \in Nat /\ Len(W) > 1 /\ Gaps = 1..(Len(W) - 1)
      /\ \A j \in Windows : W[j].from \in Int /\ W[j].to \in Int
      /\ W[1].from = 0
  BY DEF PlanShape, Windows, Gaps
<1>1. \A i \in Windows : Length[i] = W[i].to - W[i].from /\ Length[i] \in Int
  BY <1>0 DEF Length
<1>2. \A i \in Gaps : /\ Gap(i) \in Int /\ Saved(l)[i] \in Int
                      /\ Saved(l)[i] = IF l <= Gap(i) THEN l ELSE Gap(i)
  <2> TAKE i \in Gaps
  <2>1. i \in Windows /\ i + 1 \in Windows
    BY <1>0
  <2>2. Gap(i) \in Int
    BY <1>0, <2>1 DEF Gap
  <2>3. Saved(l)[i] = Min({l, Gap(i)})
    BY DEF Saved
  <2>4. Min({l, Gap(i)}) = IF l <= Gap(i) THEN l ELSE Gap(i)
    BY <2>2, MinOfTwo
  <2>5. QED
    BY <2>2, <2>3, <2>4
<1>3. ClosedUpTo(l, 1) = W[1].to
  <2>1. 1..0 = {} /\ 1 - 1 = 0 /\ 0 + 1 = 1 /\ 1 \in Windows
    BY <1>0
  <2>2. SumOf(Length, 1..0) = 0 /\ SumOf(Saved(l), 1..0) = 0
    BY <2>1, SumEmpty
  <2>3. SumOf(Length, 1..1) = SumOf(Length, 1..0) + Length[1]
    <3>1. \A i \in 1..(0 + 1) : Length[i] \in Int
      BY <1>0, <1>1
    <3>2. SumOf(Length, 1..(0 + 1)) = SumOf(Length, 1..0) + Length[0 + 1]
      BY <3>1, SumsGrow
    <3>3. QED
      BY <2>1, <3>2
  <2>4. Length[1] = W[1].to
    BY <1>0, <1>1, <2>1
  <2>5. QED
    BY <1>0, <2>1, <2>2, <2>3, <2>4 DEF ClosedUpTo
<1>4. ASSUME NEW i \in Gaps
      PROVE  /\ ClosedUpTo(l, i) \in Int
             /\ ClosedUpTo(l, i + 1) = ClosedUpTo(l, i)
                  + (W[i + 1].to - W[i + 1].from)
                  + (IF l <= Gap(i) THEN l ELSE Gap(i))
  <2>1. /\ i \in Nat /\ i - 1 \in Nat /\ (i - 1) + 1 = i /\ (i + 1) - 1 = i /\ i + 1 \in Windows
        /\ 1..(i + 1) \subseteq Windows /\ 1..((i - 1) + 1) \subseteq Gaps
    BY <1>0
  <2>2. /\ SumOf(Length, 1..i) \in Int
        /\ SumOf(Length, 1..(i + 1)) = SumOf(Length, 1..i) + Length[i + 1]
    BY <1>1, <2>1, SumsGrow
  <2>3. /\ SumOf(Saved(l), 1..(i - 1)) \in Int
        /\ SumOf(Saved(l), 1..((i - 1) + 1)) = SumOf(Saved(l), 1..(i - 1)) + Saved(l)[(i - 1) + 1]
    BY <1>2, <2>1, SumsGrow
  <2>4. /\ Length[i + 1] = W[i + 1].to - W[i + 1].from /\ Length[i + 1] \in Int
        /\ Saved(l)[i] = (IF l <= Gap(i) THEN l ELSE Gap(i)) /\ Saved(l)[i] \in Int
    BY <1>1, <1>2, <2>1
  <2>5. /\ ClosedUpTo(l, i) = SumOf(Length, 1..i) + SumOf(Saved(l), 1..(i - 1))
        /\ ClosedUpTo(l, i + 1) = SumOf(Length, 1..(i + 1)) + SumOf(Saved(l), 1..i)
    BY <2>1 DEF ClosedUpTo
  <2>6. SumOf(Saved(l), 1..i) = SumOf(Saved(l), 1..(i - 1)) + Saved(l)[i]
    BY <2>1, <2>3
  <2>7. ClosedUpTo(l, i + 1) = ClosedUpTo(l, i) + Length[i + 1] + Saved(l)[i]
    BY <2>2, <2>3, <2>4, <2>5, <2>6
  <2>8. QED
    BY <2>2, <2>3, <2>4, <2>5, <2>7
<1>5. ClosedForm(l) = ClosedUpTo(l, Len(W))
  BY <1>0, Zenon DEF ClosedForm, ContactTime, ClosedUpTo, SumOf
<1>6. QED
  BY <1>3, <1>4, <1>5

LEMMA GapCounted ==
  ASSUME PlanShape, NEW l \in Nat \ {0}, NEW i \in Gaps,
         W[i].to \in Nat,
         Before(Might(l), W[i].to) = ClosedUpTo(l, i),
         Before(Must(l), W[i].to) >= ClosedUpTo(l, i) - (i - 1)
  PROVE  /\ W[i + 1].to \in Nat
         /\ Before(Might(l), W[i + 1].to) = ClosedUpTo(l, i + 1)
         /\ Before(Must(l), W[i + 1].to) >= ClosedUpTo(l, i + 1) - i
<1>0. /\ i \in Windows /\ i + 1 \in Windows /\ i + 1 > 1 /\ (i + 1) - 1 = i /\ i \in Nat
      /\ W[i].to \in Nat /\ W[i + 1].from \in Int /\ W[i + 1].to \in Int
      /\ W[i + 1].from < W[i + 1].to /\ i < i + 1
  <2>1. Len(W) \in Nat /\ i \in 1..(Len(W) - 1) /\ Windows = 1..Len(W)
    BY DEF PlanShape, Windows, Gaps
  <2>2. i \in Windows /\ i + 1 \in Windows /\ i + 1 > 1 /\ (i + 1) - 1 = i /\ i \in Nat /\ i < i + 1
    BY <2>1
  <2>3. QED
    BY <2>2 DEF PlanShape
<1>1. W[i].to <= W[i + 1].from
  BY <1>0, SecondsOrder
<1>2. PICK a \in Nat : a = W[i].to
  OBVIOUS
<1>3. PICK f \in Nat : f = W[i + 1].from /\ a <= f
  BY <1>0, <1>1, <1>2
<1>4. PICK b \in Nat : b = W[i + 1].to /\ f < b
  BY <1>0, <1>3
<1>5. \A s \in Nat : a <= s /\ s < b =>
        /\ s \in Might(l) <=> f - l <= s
        /\ s \in Must(l) <=> f - l + 1 <= s
  <2> TAKE s \in Nat
  <2>1. SUFFICES ASSUME a <= s, s < b
                 PROVE  /\ s \in Might(l) <=> f - l <= s
                        /\ s \in Must(l) <=> f - l + 1 <= s
    OBVIOUS
  <2>2. W[(i + 1) - 1].to <= s /\ s < W[i + 1].to
    BY <1>0, <1>2, <1>4, <2>1
  <2>3. QED
    BY <1>0, <1>3, <2>2, SecondsCounted
<1>d. PICK d \in Nat : d = IF l <= f - a THEN l ELSE f - a
  BY <1>3
<1>6. /\ Before(Might(l), a) \in Nat
      /\ Before(Might(l), b) = Before(Might(l), a) + (b - f) + d
  <2>1. CASE l <= f - a
    <3>0. PICK m \in Nat : m = f - l
      BY <2>1
    <3>b. a <= m /\ m <= b
      BY <1>4, <2>1, <3>0
    <3>1. \A s \in Nat : a <= s /\ s < b => (s \in Might(l) <=> m <= s)
      BY <1>5, <3>0
    <3>2. Before(Might(l), a) \in Nat /\ Before(Might(l), b) = Before(Might(l), a) + (b - m)
      BY <3>b, <3>1, PartsCount
    <3>3. QED
      BY <1>d, <2>1, <3>0, <3>2
  <2>2. CASE ~(l <= f - a)
    <3>1. \A s \in Nat : a <= s /\ s < b => (s \in Might(l) <=> a <= s)
      <4>1. \A s \in Nat : a <= s => f - l <= s
        BY <2>2
      <4>2. QED
        BY <1>5, <4>1
    <3>2. Before(Might(l), a) \in Nat /\ Before(Might(l), b) = Before(Might(l), a) + (b - a)
      BY <1>3, <1>4, <3>1, PartsCount
    <3>3. QED
      BY <1>d, <2>2, <3>2
  <2>3. QED
    BY <2>1, <2>2
<1>7. /\ Before(Must(l), a) \in Nat /\ Before(Must(l), b) \in Int
      /\ Before(Must(l), b) + 1 >= Before(Must(l), a) + (b - f) + d
  <2>1. CASE l <= f - a
    <3>0. PICK m \in Nat : m = f - l + 1
      BY <2>1
    <3>b. a <= m /\ m <= b
      BY <1>4, <2>1, <3>0
    <3>1. \A s \in Nat : a <= s /\ s < b => (s \in Must(l) <=> m <= s)
      BY <1>5, <3>0
    <3>2. Before(Must(l), a) \in Nat /\ Before(Must(l), b) = Before(Must(l), a) + (b - m)
      BY <3>b, <3>1, PartsCount
    <3>3. QED
      BY <1>d, <2>1, <3>0, <3>2
  <2>2. CASE ~(l <= f - a)
    <3>1. \A s \in Nat : a <= s /\ s < b => (s \in Must(l) <=> a <= s)
      <4>1. \A s \in Nat : a <= s => f - l + 1 <= s
        BY <2>2
      <4>2. QED
        BY <1>5, <4>1
    <3>2. Before(Must(l), a) \in Nat /\ Before(Must(l), b) = Before(Must(l), a) + (b - a)
      BY <1>3, <1>4, <3>1, PartsCount
    <3>3. QED
      BY <1>d, <2>2, <3>2
  <2>3. QED
    BY <2>1, <2>2
<1>8. /\ ClosedUpTo(l, i) \in Int
      /\ ClosedUpTo(l, i + 1) = ClosedUpTo(l, i) + (b - f) + d
  BY <1>2, <1>3, <1>4, <1>d, ClosedGrows DEF Gap
<1>9. /\ Before(Might(l), a) = ClosedUpTo(l, i)
      /\ Before(Must(l), a) >= ClosedUpTo(l, i) - (i - 1)
  BY <1>2
<1>10. PICK n \in Nat : n = i
  BY <1>0
<1>11. /\ Before(Might(l), b) = ClosedUpTo(l, i + 1)
       /\ Before(Must(l), b) >= ClosedUpTo(l, i + 1) - n
  BY <1>6, <1>7, <1>8, <1>9, <1>10
<1>12. QED
  BY <1>4, <1>10, <1>11

LEMMA AllCounted ==
  ASSUME PlanShape, NEW l \in Nat \ {0}
  PROVE  /\ Before(Might(l), LastSecond) = ClosedForm(l)
         /\ Before(Must(l), LastSecond) >= ClosedForm(l) - (Len(W) - 1)
<1> DEFINE Good(i) == /\ W[i].to \in Nat
                      /\ Before(Might(l), W[i].to) = ClosedUpTo(l, i)
                      /\ Before(Must(l), W[i].to) >= ClosedUpTo(l, i) - (i - 1)
           Bad == {i \in Windows : ~Good(i)}
<1>0. /\ Windows = 1..Len(W) /\ Len(W) \in Nat /\ Len(W) > 1 /\ Gaps = 1..(Len(W) - 1)
      /\ W[1].from = 0 /\ W[1].to \in Int /\ W[1].from < W[1].to
  BY DEF PlanShape, Windows, Gaps
<1>1. Good(1)
  <2>1. PICK b \in Nat : b = W[1].to
    BY <1>0
  <2>2. ASSUME NEW s \in Nat, s < b
        PROVE  s \in Might(l) /\ s \in Must(l)
    BY <1>0, <2>1, <2>2 DEF Might, Must, LeavesIn
  <2>3. \A s \in Nat : 0 <= s /\ s < b =>
          /\ s \in Might(l) <=> 0 <= s
          /\ s \in Must(l) <=> 0 <= s
    BY <2>2
  <2>4. Before(Might(l), b) = Before(Might(l), 0) + (b - 0)
    BY <2>3, PartsCount
  <2>5. Before(Must(l), b) = Before(Must(l), 0) + (b - 0)
    BY <2>3, PartsCount
  <2>6. ClosedUpTo(l, 1) = b
    BY <2>1, ClosedGrows
  <2>7. QED
    BY <2>1, <2>4, <2>5, <2>6, NoneBefore
<1>2. Bad = {}
  <2>1. SUFFICES ASSUME Bad # {} PROVE FALSE
    OBVIOUS
  <2>2. Bad \in SUBSET Nat
    BY <1>0
  <2>3. PICK k \in Bad : \A n \in Bad : k <= n
    BY <2>1, <2>2, LeastNatural
  <2>4. k # 1 /\ k \in Windows
    BY <1>1, <2>3
  <2>5. k - 1 \in Gaps /\ k - 1 \in Windows /\ k - 1 \notin Bad /\ (k - 1) + 1 = k
    BY <1>0, <2>3, <2>4
  <2>6. PICK g \in Gaps : g = k - 1
    BY <2>5
  <2>7. Good(g)
    BY <2>5, <2>6
  <2>8. Good(g + 1)
    <3>1. /\ W[g + 1].to \in Nat
          /\ Before(Might(l), W[g + 1].to) = ClosedUpTo(l, g + 1)
          /\ Before(Must(l), W[g + 1].to) >= ClosedUpTo(l, g + 1) - g
      BY <2>7, GapCounted
    <3>2. (g + 1) - 1 = g
      BY <1>0
    <3>3. QED
      BY <3>1, <3>2
  <2>9. QED
    BY <2>3, <2>5, <2>6, <2>8
<1>3. Good(Len(W))
  BY <1>0, <1>2
<1>4. QED
  BY <1>3, ClosedGrows DEF LastSecond

LEMMA RoundsInvariant == Spec => [](SegmentShape /\ RoundTimes /\ PredictedShape)
<1>1. SegmentShape /\ RoundTimes /\ PredictedShape /\ [Next]_vars
        => SegmentShape' /\ RoundTimes' /\ PredictedShape'
  BY ShapeStep, RoundsStep, PredictedStep
<1>2. QED
  BY <1>1, ShapeInit, RoundsInit, PTL DEF Spec

(* The bundles predict_one counts differ from the closed form by no more   *)
(* than one per gap, whatever the plan, the lifetimes and the lateness     *)
(* (ceiling_pilot.py:68-85, 130-138, 236-241).                             *)
THEOREM ClosedFormCloseInvariant == Spec => []ClosedFormClose
<1>1. ASSUME SegmentShape, RoundTimes, PredictedShape
      PROVE  ClosedFormClose
  <2>1. SUFFICES ASSUME mode = "pilot", mpc = "analysed", Dt = Second, NEW i \in Nodes
                 PROVE  /\ predicted[i] <= ClosedForm(Lifetime(i))
                        /\ predicted[i] >= ClosedForm(Lifetime(i)) - (Len(W) - 1)
    BY DEF ClosedFormClose
  <2>2. seq = LastSecond /\ sending = {} /\ PlanShape
    BY <1>1, <2>1 DEF RoundTimes, SegmentShape
  <2>3. Done(i) = LastSecond
    BY <2>2 DEF Done
  <2>4. PICK l \in Nat \ {0} : l = Lifetimes[i] /\ Lifetime(i) = l
    BY <2>1, PilotLife
  <2>5. /\ predicted \in [Nodes -> Nat]
        /\ Before(Must(l), LastSecond) <= predicted[i]
        /\ predicted[i] <= Before(Might(l), LastSecond)
    BY <1>1, <2>1, <2>3, <2>4 DEF PredictedShape
  <2>6. Before(Must(l), LastSecond) \in Nat /\ Before(Might(l), LastSecond) \in Nat
    BY <1>1, <2>2, OneMoreBefore DEF SegmentShape
  <2>7. Len(W) \in Nat
    BY <2>2 DEF PlanShape
  <2>8. QED
    BY <2>2, <2>4, <2>5, <2>6, <2>7, AllCounted
<1>2. QED
  BY <1>1, RoundsInvariant, PTL

-----------------------------------------------------------------------------
(* Rounding moves a time by at most half a compressed second, so a stretch *)
(* longer than K seconds keeps a second.                                   *)
LEMMA RoundedNear ==
  ASSUME NEW n \in Int
  PROVE  \E p \in Int : /\ p = K * Rounded(n)
                        /\ 2 * n - K <= 2 * p /\ 2 * p <= 2 * n + K
<1> DEFINE q == n \div K
           r == n % K
<1>1. K \in Nat \ {0}
  BY SegmentAssumption
<1>2. /\ q \in Int /\ r \in Int /\ n = K * q + r /\ 0 <= r /\ r < K
  BY <1>1
<1>3. \/ Rounded(n) = q /\ 2 * r <= K
      \/ Rounded(n) = q + 1 /\ 2 * r >= K
  BY <1>1, <1>2 DEF Rounded
<1> HIDE DEF q, r
<1>4. PICK m \in Int : m = K * q
  BY <1>1, <1>2
<1>5. K * (q + 1) = m + K
  BY <1>1, <1>2, <1>4
<1>6. CASE Rounded(n) = q /\ 2 * r <= K
  BY <1>1, <1>2, <1>4, <1>6
<1>7. CASE Rounded(n) = q + 1 /\ 2 * r >= K
  <2>1. m + K \in Int /\ m + K = K * Rounded(n)
    BY <1>1, <1>4, <1>5, <1>7
  <2>2. 2 * n - K <= 2 * (m + K) /\ 2 * (m + K) <= 2 * n + K
    BY <1>1, <1>2, <1>4, <1>7
  <2> QED
    BY <2>1, <2>2
<1> QED
  BY <1>3, <1>6, <1>7

LEMMA RoundingSpreads ==
  ASSUME NEW a \in Int, NEW b \in Int, b - a > K
  PROVE  Rounded(a) + 1 <= Rounded(b)
<1>1. K \in Nat \ {0} /\ Rounded(a) \in Int /\ Rounded(b) \in Int
  BY SegmentAssumption, RoundedInt
<1>2. PICK p \in Int : p = K * Rounded(a) /\ 2 * p <= 2 * a + K
  BY RoundedNear
<1>3. PICK q \in Int : q = K * Rounded(b) /\ 2 * b - K <= 2 * q
  BY RoundedNear
<1>4. p < q
  BY <1>1, <1>2, <1>3
<1> SUFFICES ASSUME Rounded(b) <= Rounded(a) PROVE FALSE
  BY <1>1
<1>5. PICK d \in Nat : Rounded(a) = Rounded(b) + d
  <2>1. Rounded(a) - Rounded(b) \in Nat /\ Rounded(a) = Rounded(b) + (Rounded(a) - Rounded(b))
    BY <1>1
  <2> QED
    BY <2>1
<1>6. K * Rounded(a) = K * Rounded(b) + K * d /\ K * d \in Nat
  BY <1>1, <1>5
<1> QED
  BY <1>2, <1>3, <1>4, <1>6

(* For every compression: a plan of two contacts or more keeps its shape   *)
(* under round((t - s0) / k) if every contact, and every gap between two,  *)
(* is longer than K seconds.  That is what SegmentAssumption asks of the   *)
(* compressed plan; without it the toggler darkens the link inside the     *)
(* next contact (ceiling_pilot.py:61-65, 206-216).                         *)
THEOREM RoundingKeepsPlan ==
  ASSUME NEW raw \in Seq([start : Int, end : Int]), Len(raw) > 1,
         \A i \in 1..Len(raw) : raw[i].end - raw[i].start > K,
         \A i \in 2..Len(raw) : raw[i].start - raw[i - 1].end > K
  PROVE  LET w == Compressed(raw)
         IN  /\ Len(w) > 1
             /\ \A i \in DOMAIN w : w[i].from < w[i].to
             /\ \A i \in 2..Len(w) : w[i - 1].to + 1 <= w[i].from
<1> DEFINE w == Compressed(raw)
           s0 == raw[1].start
<1>1. Len(raw) \in Nat /\ DOMAIN raw = 1..Len(raw) /\ 1 \in 1..Len(raw)
  BY LenProperties
<1>2. \A i \in 1..Len(raw) : raw[i].start \in Int /\ raw[i].end \in Int
  <2>1. \A i \in 1..Len(raw) : raw[i] \in [start : Int, end : Int]
    BY ElementOfSeq
  <2> QED
    BY <2>1
<1>3. s0 \in Int /\ K \in Nat \ {0}
  BY <1>1, <1>2, SegmentAssumption
<1>4. /\ DOMAIN w = 1..Len(raw) /\ Len(w) = Len(raw)
      /\ \A i \in 1..Len(raw) : /\ w[i].from = Rounded(raw[i].start - s0)
                                /\ w[i].to = Rounded(raw[i].end - s0)
  BY <1>1 DEF Compressed
<1> HIDE DEF w, s0
<1>5. ASSUME NEW i \in 1..Len(raw) PROVE w[i].from < w[i].to
  <2> DEFINE a == raw[i].start - s0
             b == raw[i].end - s0
  <2>1. a \in Int /\ b \in Int /\ b - a > K
    <3>1. PICK e \in Int, f \in Int : e = raw[i].start /\ f = raw[i].end
      BY <1>2
    <3>2. f - e > K
      BY <3>1
    <3>3. a = e - s0 /\ b = f - s0
      BY <3>1
    <3> HIDE DEF a, b
    <3> QED
      BY <1>3, <3>2, <3>3
  <2>2. w[i].from = Rounded(a) /\ w[i].to = Rounded(b)
    BY <1>4
  <2> HIDE DEF a, b
  <2>3. Rounded(a) + 1 <= Rounded(b) /\ Rounded(a) \in Int /\ Rounded(b) \in Int
    BY <2>1, RoundingSpreads, RoundedInt
  <2> QED
    BY <2>2, <2>3
<1>6. ASSUME NEW i \in 2..Len(raw) PROVE w[i - 1].to + 1 <= w[i].from
  <2> DEFINE a == raw[i - 1].end - s0
             b == raw[i].start - s0
  <2>1. i \in 1..Len(raw) /\ i - 1 \in 1..Len(raw)
    BY <1>1
  <2>2. a \in Int /\ b \in Int /\ b - a > K
    <3>1. PICK e \in Int, f \in Int : e = raw[i - 1].end /\ f = raw[i].start
      BY <1>2, <2>1
    <3>2. f - e > K
      BY <3>1
    <3>3. a = e - s0 /\ b = f - s0
      BY <3>1
    <3> HIDE DEF a, b
    <3> QED
      BY <1>3, <3>2, <3>3
  <2>3. w[i - 1].to = Rounded(a) /\ w[i].from = Rounded(b)
    BY <1>4, <2>1
  <2> HIDE DEF a, b
  <2>4. Rounded(a) + 1 <= Rounded(b) /\ Rounded(a) \in Int /\ Rounded(b) \in Int
    BY <2>2, RoundingSpreads, RoundedInt
  <2> QED
    BY <2>3, <2>4
<1>7. /\ Len(w) > 1
      /\ \A i \in DOMAIN w : w[i].from < w[i].to
      /\ \A i \in 2..Len(w) : w[i - 1].to + 1 <= w[i].from
  BY <1>1, <1>4, <1>5, <1>6
<1> QED
  BY <1>7 DEF w
=============================================================================
