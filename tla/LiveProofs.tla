----------------------------- MODULE LiveProofs ------------------------------
(***************************************************************************)
(* The live uplink, whatever the scenario, the trace, the marks and the    *)
(* number of faults and restarts: every record keeps its class and the     *)
(* packets' order, and a failure loses no more than its share of them.     *)
(***************************************************************************)
EXTENDS LiveProperties, BasicProofs, SequenceTheorems

(* The parts of the path step one at a time.                               *)
CaptureNext ==
  \/ \E p : Arrive(p)
  \/ StartCapture \/ Take \/ Write \/ WriteFails \/ Accept \/ Interrupt
  \/ Cleanup \/ Kill \/ UNCHANGED capture

LEMMA StepParts ==
  ASSUME [Next]_vars
  PROVE  /\ CaptureNext
         /\ PlayLine \/ UNCHANGED script
         /\ PlayerStep \/ StopChannel \/ UNCHANGED channel
BY DEF Next, Tick, Player, Signal, Mgen, Uplink, Interceptor, Operator, Fault, CaptureStep,
       CaptureNext, vars

-----------------------------------------------------------------------------
(* The script: a flow that is on has its class's mark on its own socket.   *)
Tos(i) == dscp_to_tos(PRIMARY_DSCP[FlowClass(i)])
ScriptShape ==
  /\ scenario \in [duration : Nat, flows : Seq(FlowSpec)]
  /\ on \subseteq Flows
  /\ \A i \in on : SrcPort(i) \in DOMAIN sockets /\ sockets[SrcPort(i)] = Tos(i)

LEMMA FlowShape ==
  ASSUME scenario \in [duration : Nat, flows : Seq(FlowSpec)]
  PROVE  /\ Flows = 1..Len(scenario.flows) /\ Len(scenario.flows) \in Nat
         /\ \A i \in Flows : scenario.flows[i] \in FlowSpec
<1>1. scenario.flows \in Seq(FlowSpec)
  OBVIOUS
<1>2. QED
  BY <1>1, LenProperties, ElementOfSeq DEF Flows

LEMMA ScriptInitShape == Init => ScriptShape
BY ScriptAssumption DEF Init, ScriptInit, ScriptShape

LEMMA ScriptStep ==
  ASSUME ScriptShape, [Next]_vars
  PROVE  ScriptShape'
<1>1. CASE PlayLine
  <2>1. PICK l \in NextLines :
          /\ on' = IF l.op = "ON" THEN on \cup {l.flow} ELSE on \ {l.flow}
          /\ sockets' =
               IF l.op = "OFF" THEN sockets
               ELSE [p \in DOMAIN sockets \cup {SrcPort(l.flow)} |->
                       IF p = SrcPort(l.flow) THEN dscp_to_tos(PRIMARY_DSCP[FlowClass(l.flow)])
                       ELSE sockets[p]]
          /\ UNCHANGED scenario
    BY <1>1 DEF PlayLine
  <2>2. l.flow \in Flows /\ (l.op = "ON" \/ l.op = "OFF")
    BY <2>1 DEF NextLines, Lines
  <2>3. Flows' = Flows /\ \A i : Tos(i)' = Tos(i)
    BY <2>1 DEF Flows, Tos, FlowClass
  <2>4. Flows \subseteq Nat
    BY FlowShape DEF ScriptShape
  <2>5. \A i, j \in Flows : SrcPort(i) = SrcPort(j) => i = j
    BY <2>4, ScriptAssumption DEF SrcPort
  <2>6. CASE l.op = "OFF"
    <3>1. on' \subseteq on /\ sockets' = sockets
      BY <2>1, <2>6
    <3>2. QED
      BY <2>1, <2>3, <3>1 DEF ScriptShape, SrcPort
  <2>7. CASE l.op = "ON"
    <3>1. /\ on' = on \cup {l.flow}
          /\ DOMAIN sockets' = DOMAIN sockets \cup {SrcPort(l.flow)}
          /\ sockets'[SrcPort(l.flow)] = Tos(l.flow)
          /\ \A p \in DOMAIN sockets : p # SrcPort(l.flow) => sockets'[p] = sockets[p]
      BY <2>1, <2>7 DEF Tos
    <3>2. \A i \in on' : SrcPort(i) \in DOMAIN sockets' /\ sockets'[SrcPort(i)] = Tos(i)
      <4> TAKE i \in on'
      <4>1. CASE i = l.flow
        BY <3>1, <4>1
      <4>2. CASE i # l.flow
        <5>1. i \in on /\ i \in Flows /\ SrcPort(i) # SrcPort(l.flow)
          BY <2>2, <2>5, <3>1, <4>2 DEF ScriptShape
        <5>2. QED
          BY <3>1, <5>1 DEF ScriptShape
      <4>3. QED
        BY <4>1, <4>2
    <3>3. QED
      BY <2>1, <2>2, <2>3, <3>1, <3>2 DEF ScriptShape, SrcPort
  <2>8. QED
    BY <2>2, <2>6, <2>7
<1>2. CASE UNCHANGED script
  BY <1>2 DEF script, ScriptShape, Flows, Tos, FlowClass, SrcPort
<1>3. QED
  BY <1>1, <1>2, StepParts

-----------------------------------------------------------------------------
(* The marks: a class's DSCP is read back from the header, and names it.   *)
LEMMA MarkReadBack ==
  ASSUME NEW c \in ClassName, NEW v \in {4, 6}, NEW m \in 0..3, NEW i
  PROVE  LET p == Packet(v, dscp_to_tos(PRIMARY_DSCP[c]) + m, i)
         IN  /\ classify_packet(extract_dscp(p)) = c /\ p.flow = i
             /\ p.head \in Seq(Int)
<1> DEFINE t == dscp_to_tos(PRIMARY_DSCP[c])
           p == Packet(v, t + m, i)
<1>1. t = IF c = "emergency" THEN 184 ELSE IF c = "telemetry" THEN 104
          ELSE IF c = "science_bulk" THEN 40 ELSE 136
  BY DEF dscp_to_tos, PRIMARY_DSCP, ClassName
<1>2. p.flow = i /\ p.head[1] = (IF v = 6 THEN 96 + (t + m) \div 16 ELSE 69)
      /\ p.head[2] = (IF v = 6 THEN ((t + m) % 16) * 16 ELSE t + m)
  BY DEF Packet
<1>3. m = 0 \/ m = 1 \/ m = 2 \/ m = 3
  OBVIOUS
<1>4. extract_dscp(p) = t \div 4
  <2>1. CASE v = 4
    <3>1. p.head[1] = 69 /\ p.head[2] = t + m
      BY <1>2, <2>1
    <3> HIDE DEF p, t
    <3>2. VersionOf(p) = 4
      BY <3>1 DEF VersionOf
    <3>3. ((t + m) \div 4) % 64 = t \div 4
      BY <1>1, <1>3
    <3>4. QED
      BY <3>1, <3>2, <3>3 DEF extract_dscp
  <2>2. CASE v = 6
    <3>1. p.head[1] = 96 + (t + m) \div 16 /\ p.head[2] = ((t + m) % 16) * 16
      BY <1>2, <2>2
    <3> HIDE DEF p, t
    <3>2. VersionOf(p) = 6
      BY <1>1, <1>3, <3>1 DEF VersionOf
    <3>3. (((96 + (t + m) \div 16) % 16) * 16 + (((t + m) % 16) * 16) \div 16) \div 4 = t \div 4
      BY <1>1, <1>3
    <3>4. QED
      BY <3>1, <3>2, <3>3 DEF extract_dscp
  <2>3. QED
    BY <2>1, <2>2
<1>5. classify_packet(t \div 4) = c
  BY <1>1 DEF classify_packet, ClassName
<1>6. p.head \in Seq(Int)
  BY <1>1, <1>3 DEF Packet
<1>7. QED
  BY <1>2, <1>4, <1>5, <1>6

-----------------------------------------------------------------------------
(* The state of the capture.                                               *)
PacketSet == [head : Seq(Int), flow : Nat]
ChunkSet ==
  [rec : [id : Nat, flow : Nat, cls : ClassName], whole : BOOLEAN, ended : BOOLEAN,
   of : Nat, run : Nat]

(* There is a file for the directory of every process started.             *)
FilesShape ==
  /\ seconds \in Seq(Int) /\ Len(seconds) = starts
  /\ DOMAIN files = {run_dir(seconds[i]) : i \in 1..starts}
  /\ \A d \in DOMAIN files : files[d] \in Seq(ChunkSet)

CaptureShape ==
  /\ sameDir \in BOOLEAN /\ pcap \in Seq(PacketSet)
  /\ kernel \in Seq(1..Len(pcap)) /\ held \in 0..Len(pcap)
  /\ stage \in {"down", "run", "record", "verdict", "cleanup"}
  /\ starts \in Nat /\ nextId \in Nat /\ faults \in Nat
  /\ FilesShape
  /\ stage # "down" => starts > 0
  /\ stage = "down" => held = 0 /\ kernel = <<>>
  /\ stage = "run" => held = 0
  /\ stage \in {"record", "verdict"} => held > 0

(* A process that was started writes in a directory that is there.         *)
LEMMA DirShape ==
  ASSUME CaptureShape, starts > 0
  PROVE  Dir \in DOMAIN files
<1>1. starts \in 1..starts
  BY DEF CaptureShape
<1>2. QED
  BY <1>1 DEF CaptureShape, FilesShape, Dir

LEMMA FileShape ==
  ASSUME CaptureShape, NEW d \in DOMAIN files
  PROVE  /\ files[d] \in Seq(ChunkSet) /\ Len(files[d]) \in Nat
         /\ DOMAIN files[d] = 1..Len(files[d])
<1>1. files[d] \in Seq(ChunkSet)
  BY DEF CaptureShape, FilesShape
<1>2. QED
  BY <1>1, LenProperties

(* A start opens the directory of its second, anew or with what is there.  *)
LEMMA Started ==
  ASSUME CaptureShape, StartCapture
  PROVE  /\ stage = "down" /\ stage' = "run" /\ starts' = starts + 1 /\ nextId' = 1
         /\ UNCHANGED <<sameDir, pcap, kernel, held, accepted, dropped, faults>>
         /\ FilesShape' /\ Dir' \in DOMAIN files'
         /\ \A i \in 1..starts : seconds'[i] = seconds[i]
         /\ \A d \in DOMAIN files : d \in DOMAIN files' /\ files'[d] = files[d]
         /\ \A d \in DOMAIN files' : d \in DOMAIN files \/ files'[d] = <<>>
<1>1. PICK second \in Int :
        /\ seconds' = Append(seconds, second) /\ starts' = starts + 1
        /\ files' = [d \in DOMAIN files \cup {run_dir(second)} |->
                      IF d \in DOMAIN files THEN files[d] ELSE <<>>]
  BY CaptureAssumption DEF StartCapture
<1>2. seconds \in Seq(Int) /\ Len(seconds) = starts /\ starts \in Nat
      /\ DOMAIN files = {run_dir(seconds[i]) : i \in 1..starts}
  BY DEF CaptureShape, FilesShape
<1>3. /\ seconds' \in Seq(Int) /\ Len(seconds') = starts + 1
      /\ seconds'[starts + 1] = second /\ \A i \in 1..starts : seconds'[i] = seconds[i]
  BY <1>1, <1>2, AppendProperties
<1>4. DOMAIN files' = DOMAIN files \cup {run_dir(second)}
  BY <1>1
<1>5. DOMAIN files' = {run_dir(seconds'[i]) : i \in 1..(starts + 1)}
  <2>1. \A i \in 1..(starts + 1) : i \in 1..starts \/ i = starts + 1
    BY <1>2
  <2>2. 1..starts \subseteq 1..(starts + 1) /\ starts + 1 \in 1..(starts + 1)
    BY <1>2
  <2>3. QED
    BY <1>2, <1>3, <1>4, <2>1, <2>2
<1>6. sameDir' = sameDir
  BY DEF StartCapture
<1>7. Dir' = run_dir(second)
  BY <1>1, <1>3, <1>6 DEF Dir, run_dir
<1>8. \A d \in DOMAIN files' : d \in DOMAIN files \/ files'[d] = <<>>
  BY <1>1
<1>9. \A d \in DOMAIN files : d \in DOMAIN files' /\ files'[d] = files[d]
  BY <1>1
<1>10. FilesShape'
  <2>1. \A d \in DOMAIN files' : files'[d] \in Seq(ChunkSet)
    <3>1. <<>> \in Seq(ChunkSet)
      BY EmptySeq
    <3>2. QED
      BY <1>8, <1>9, <3>1 DEF CaptureShape, FilesShape
  <2>2. \A x : run_dir(x)' = run_dir(x)
    BY <1>6 DEF run_dir
  <2>3. QED
    BY <1>1, <1>3, <1>5, <2>1, <2>2 DEF FilesShape
<1>11. QED
  BY <1>1, <1>3, <1>4, <1>7, <1>8, <1>9, <1>10 DEF StartCapture

(* The packet that arrives is one of a flow that is on.                    *)
ArriveOn ==
  \E i \in on, m \in Marks : Arrive(Packet(m[1], sockets[SrcPort(i)] + m[2], i))

LEMMA ArrivalShape ==
  ASSUME ScriptShape, NEW i \in on, NEW m \in Marks
  PROVE  LET p == Packet(m[1], sockets[SrcPort(i)] + m[2], i)
         IN  /\ p \in PacketSet /\ p.flow = i
             /\ classify_packet(extract_dscp(p)) = FlowClass(i)
<1>1. i \in Flows /\ i \in Nat /\ FlowClass(i) \in ClassName
  BY FlowShape DEF ScriptShape, FlowClass, FlowSpec
<1>2. m[1] \in {4, 6} /\ m[2] \in 0..3
  BY LivePathAssumption
<1>3. sockets[SrcPort(i)] = dscp_to_tos(PRIMARY_DSCP[FlowClass(i)])
  BY DEF ScriptShape, Tos
<1> DEFINE p == Packet(m[1], sockets[SrcPort(i)] + m[2], i)
<1>4. /\ classify_packet(extract_dscp(p)) = FlowClass(i) /\ p.flow = i
      /\ p.head \in Seq(Int)
  <2>1. PICK c \in ClassName : c = FlowClass(i)
    BY <1>1
  <2>2. p = Packet(m[1], dscp_to_tos(PRIMARY_DSCP[c]) + m[2], i)
    BY <1>3, <2>1
  <2> HIDE DEF p
  <2>3. PICK v \in {4, 6}, e \in 0..3 : v = m[1] /\ e = m[2]
    BY <1>2
  <2>4. p = Packet(v, dscp_to_tos(PRIMARY_DSCP[c]) + e, i)
    BY <2>2, <2>3
  <2>5. LET r == Packet(v, dscp_to_tos(PRIMARY_DSCP[c]) + e, i)
        IN  /\ classify_packet(extract_dscp(r)) = c /\ r.flow = i
            /\ r.head \in Seq(Int)
    BY MarkReadBack
  <2>6. QED
    BY <2>1, <2>4, <2>5
<1>5. p = [head |-> p.head, flow |-> p.flow]
  BY DEF Packet
<1>6. QED
  BY <1>1, <1>4, <1>5 DEF PacketSet

LEMMA ArrivalStep ==
  ASSUME [Next]_vars
  PROVE  \/ ArriveOn \/ StartCapture \/ Take \/ Write \/ WriteFails \/ Accept \/ Interrupt
         \/ Cleanup \/ Kill \/ UNCHANGED capture
BY DEF Next, Tick, Player, Signal, Mgen, Uplink, Interceptor, Operator, Fault, CaptureStep,
       vars, ArriveOn

LEMMA ChunkShape ==
  ASSUME CaptureShape, stage = "record", NEW w \in BOOLEAN, NEW e \in BOOLEAN
  PROVE  Chunk(RecordOf(nextId, pcap[held]), w, e) \in ChunkSet
<1>1. held \in 1..Len(pcap)
  BY LenProperties DEF CaptureShape
<1>2. pcap[held] \in PacketSet
  BY <1>1, ElementOfSeq DEF CaptureShape
<1>3. \A p \in PacketSet : /\ derive_flow_id(p) \in Nat
                           /\ \A x : classify_packet(x) \in ClassName
  BY DEF PacketSet, derive_flow_id, Misread, classify_packet, ClassName
<1>4. RecordOf(nextId, pcap[held]) \in [id : Nat, flow : Nat, cls : ClassName]
  BY <1>2, <1>3 DEF RecordOf, CaptureShape
<1>5. held \in Nat /\ starts \in Nat
  BY <1>1, LenProperties DEF CaptureShape
<1>6. QED
  BY <1>4, <1>5 DEF Chunk, ChunkSet

(* A line, or what there is of it, goes to the end of the process's file.  *)
LEMMA Appended ==
  ASSUME CaptureShape, stage = "record", NEW w \in BOOLEAN, NEW e \in BOOLEAN,
         AppendText(w, e)
  PROVE  LET c == Chunk(RecordOf(nextId, pcap[held]), w, e)
             n == Len(files[Dir]) + 1
         IN  /\ Dir \in DOMAIN files /\ DOMAIN files' = DOMAIN files
             /\ \A d \in DOMAIN files : files'[d] \in Seq(ChunkSet)
             /\ \A d \in DOMAIN files : d # Dir => files'[d] = files[d]
             /\ Len(files'[Dir]) = n /\ DOMAIN files'[Dir] = 1..n
             /\ files'[Dir][n] = c
             /\ \A k \in 1..(n - 1) : files'[Dir][k] = files[Dir][k]
<1> DEFINE c == Chunk(RecordOf(nextId, pcap[held]), w, e)
           f == Append(files[Dir], c)
<1>1. c \in ChunkSet /\ Dir \in DOMAIN files
  BY ChunkShape, DirShape DEF CaptureShape
<1>2. files[Dir] \in Seq(ChunkSet) /\ Len(files[Dir]) \in Nat
  BY <1>1, FileShape
<1> HIDE DEF c
<1>3. /\ f \in Seq(ChunkSet) /\ Len(f) = Len(files[Dir]) + 1
      /\ f[Len(files[Dir]) + 1] = c
      /\ \A k \in 1..Len(files[Dir]) : f[k] = files[Dir][k]
  BY <1>1, <1>2, AppendProperties
<1>4. DOMAIN f = 1..(Len(files[Dir]) + 1)
  BY <1>3, LenProperties
<1>5. files' = [files EXCEPT ![Dir] = f]
  BY DEF AppendText, c
<1> HIDE DEF f
<1>6. /\ DOMAIN files' = DOMAIN files
      /\ \A d \in DOMAIN files : files'[d] = IF d = Dir THEN f ELSE files[d]
  BY <1>1, <1>5
<1>7. \A d \in DOMAIN files : files'[d] \in Seq(ChunkSet)
  BY <1>3, <1>6 DEF CaptureShape, FilesShape
<1>8. QED
  BY <1>1, <1>2, <1>3, <1>4, <1>6, <1>7 DEF c

LEMMA CaptureInitShape == Init => CaptureShape
<1>1. <<>> \in Seq(PacketSet) /\ <<>> \in Seq(Int) /\ Len(<<>>) = 0
  BY EmptySeq
<1>2. <<>> \in Seq(1..0) /\ DOMAIN <<>> = 1..0
  BY EmptySeq
<1>3. QED
  BY <1>1, <1>2, CaptureAssumption DEF Init, CaptureInit, CaptureShape, FilesShape

(* A step that makes no directory.                                         *)
LEMMA SameDirs ==
  ASSUME CaptureShape, UNCHANGED <<sameDir, starts, seconds, files>>
  PROVE  FilesShape'
BY DEF CaptureShape, FilesShape, run_dir

LEMMA ArriveShape ==
  ASSUME CaptureShape, NEW p \in PacketSet, Arrive(p)
  PROVE  /\ CaptureShape'
         /\ Len(pcap') = Len(pcap) + 1 /\ pcap'[Len(pcap')] = p
         /\ \A n \in 1..Len(pcap) : pcap'[n] = pcap[n]
         /\ \/ kernel' = kernel
            \/ stage # "down" /\ kernel' = Append(kernel, Len(pcap) + 1)
<1>1. /\ pcap' \in Seq(PacketSet) /\ Len(pcap') = Len(pcap) + 1 /\ Len(pcap) \in Nat
      /\ pcap'[Len(pcap')] = p /\ \A n \in 1..Len(pcap) : pcap'[n] = pcap[n]
  BY AppendProperties, LenProperties DEF Arrive, CaptureShape
<1>2. kernel \in Seq(1..Len(pcap'))
  BY <1>1, SeqMonotonic DEF CaptureShape
<1>3. Append(kernel, Len(pcap')) \in Seq(1..Len(pcap'))
  BY <1>1, <1>2, AppendProperties
<1>4. UNCHANGED <<sameDir, held, stage, starts, seconds, nextId, files, faults>>
  BY DEF Arrive
<1>5. \/ kernel' = kernel
      \/ stage # "down" /\ kernel' = Append(kernel, Len(pcap'))
  BY DEF Arrive, Bound
<1>6. kernel' \in Seq(1..Len(pcap'))
  BY <1>2, <1>3, <1>5
<1>7. held' \in 0..Len(pcap')
  BY <1>1, <1>4 DEF CaptureShape
<1>8. stage = "down" => kernel' = <<>>
  BY <1>5 DEF CaptureShape
<1>9. CaptureShape'
  BY <1>1, <1>4, <1>6, <1>7, <1>8, SameDirs DEF CaptureShape
<1>10. QED
  BY <1>1, <1>5, <1>9

LEMMA CaptureStepShape ==
  ASSUME CaptureShape, ScriptShape, [Next]_vars
  PROVE  CaptureShape'
<1>0. Len(pcap) \in Nat
  BY LenProperties DEF CaptureShape
<1>1. CASE ArriveOn
  <2>1. PICK i \in on, m \in Marks : Arrive(Packet(m[1], sockets[SrcPort(i)] + m[2], i))
    BY <1>1 DEF ArriveOn
  <2>2. QED
    BY <2>1, ArrivalShape, ArriveShape
<1>2. CASE StartCapture
  BY <1>2, Started DEF CaptureShape
<1>3. CASE Take
  <2>1. /\ stage = "run" /\ kernel # <<>> /\ stage' = "record"
        /\ held' = Head(kernel) /\ kernel' = Tail(kernel)
        /\ UNCHANGED <<sameDir, pcap, starts, seconds, nextId, files, faults>>
    BY <1>3 DEF Take
  <2>2. Head(kernel) \in 1..Len(pcap) /\ Tail(kernel) \in Seq(1..Len(pcap))
    BY <2>1, HeadTailProperties DEF CaptureShape
  <2>3. QED
    BY <1>0, <2>1, <2>2, SameDirs DEF CaptureShape
<1>4. CASE Write \/ WriteFails
  <2>1. /\ stage = "record" /\ stage' = "verdict" /\ nextId' = nextId + 1
        /\ faults' \in {faults, faults + 1}
        /\ UNCHANGED <<sameDir, pcap, kernel, held, starts, seconds>>
        /\ UNCHANGED files \/ \E w, e \in BOOLEAN : AppendText(w, e)
    BY <1>4 DEF Write, WriteFails, AfterWrite
  <2>2. FilesShape'
    <3>1. CASE UNCHANGED files
      BY <2>1, <3>1, SameDirs
    <3>2. CASE \E w, e \in BOOLEAN : AppendText(w, e)
      <4>1. DOMAIN files' = DOMAIN files /\ \A d \in DOMAIN files : files'[d] \in Seq(ChunkSet)
        BY <2>1, <3>2, Appended
      <4>2. QED
        BY <2>1, <4>1 DEF CaptureShape, FilesShape, run_dir
    <3>3. QED
      BY <2>1, <3>1, <3>2
  <2>3. QED
    BY <2>1, <2>2 DEF CaptureShape
<1>5. CASE Accept \/ Interrupt
  <2>1. /\ stage \in {"run", "record", "verdict"} /\ held' \in {held, 0}
        /\ nextId' \in {nextId, nextId + 1}
        /\ \/ stage' = "run" /\ held' = 0
           \/ stage' = "cleanup"
        /\ UNCHANGED <<sameDir, pcap, kernel, starts, seconds, files, faults>>
    BY <1>5 DEF Accept, Interrupt
  <2>2. QED
    BY <1>0, <2>1, SameDirs DEF CaptureShape
<1>6. CASE Cleanup \/ Kill
  <2>1. /\ kernel' = <<>> /\ held' = 0 /\ stage' = "down"
        /\ UNCHANGED <<sameDir, pcap, starts, seconds, nextId, files, faults>>
    BY <1>6 DEF Cleanup, Kill, Unbound
  <2>2. <<>> \in Seq(1..Len(pcap))
    BY EmptySeq
  <2>3. QED
    BY <1>0, <2>1, <2>2, SameDirs DEF CaptureShape
<1>7. CASE UNCHANGED capture
  BY <1>7, SameDirs DEF capture, CaptureShape
<1>8. QED
  BY <1>1, <1>2, <1>3, <1>4, <1>5, <1>6, <1>7, ArrivalStep

LEMMA LiveShapeInvariant == Spec => [](ScriptShape /\ CaptureShape)
<1>1. Init => ScriptShape /\ CaptureShape
  BY ScriptInitShape, CaptureInitShape
<1>2. ScriptShape /\ CaptureShape /\ [Next]_vars => ScriptShape' /\ CaptureShape'
  BY ScriptStep, CaptureStepShape
<1>3. QED
  BY <1>1, <1>2, PTL DEF Spec

-----------------------------------------------------------------------------
(* The order of the capture: the packets in the queue come after the one   *)
(* in hand, and both after those in the files.                             *)
QueueOrder ==
  /\ \A i, j \in 1..Len(kernel) : i < j => kernel[i] < kernel[j]
  /\ \A i \in 1..Len(kernel) : held < kernel[i]

LineOrder(c, d) ==
  /\ c.of \in 1..Len(pcap) /\ \A i \in 1..Len(kernel) : c.of < kernel[i]
  /\ held # 0 => c.of <= held
  /\ stage = "record" => c.of < held
  /\ c.run \in 1..starts /\ (c.run = starts => c.rec.id < nextId)
  /\ run_dir(seconds[c.run]) = d
  /\ c.rec = RecordOf(c.rec.id, pcap[c.of])

Follows(a, b) ==
  /\ a.of < b.of
  /\ a.run <= b.run /\ (a.run = b.run => a.rec.id < b.rec.id)

FilesOrdered ==
  \A d \in DOMAIN files :
    /\ \A k \in 1..Len(files[d]) : \A c \in {files[d][k]} : LineOrder(c, d)
    /\ \A j, k \in 1..Len(files[d]) : j < k => Follows(files[d][j], files[d][k])

CaptureOrdered == QueueOrder /\ FilesOrdered

LEMMA OrderedInit == Init => CaptureOrdered
<1>1. Len(<<>>) = 0 /\ DOMAIN <<>> = 1..0
  BY EmptySeq
<1>2. QED
  BY <1>1 DEF Init, CaptureInit, CaptureOrdered, QueueOrder, FilesOrdered

(* What keeps the order of a file that is not written.                     *)
LEMMA FilesKeepOrder ==
  ASSUME CaptureShape, FilesOrdered, sameDir' = sameDir,
         \A i \in 1..starts : seconds'[i] = seconds[i],
         \A d \in DOMAIN files' :
           (d \in DOMAIN files /\ files'[d] = files[d]) \/ files'[d] = <<>>,
         Len(pcap) <= Len(pcap)', Len(pcap)' \in Nat,
         \A n \in 1..Len(pcap) : pcap'[n] = pcap[n],
         \A n \in 1..Len(pcap) :
           /\ (\A i \in 1..Len(kernel) : n < kernel[i]) /\ (held # 0 => n <= held)
              => \A i \in 1..Len(kernel') : n < kernel'[i]
           /\ /\ \A i \in 1..Len(kernel) : n < kernel[i]
              /\ held # 0 => n <= held
              /\ stage = "record" => n < held
              => (held' # 0 => n <= held') /\ (stage' = "record" => n < held'),
         starts <= starts', starts' \in Nat, nextId' \in Nat,
         starts' = starts => nextId <= nextId'
  PROVE  FilesOrdered'
<1>0. Len(pcap) \in Nat /\ starts \in Nat /\ nextId \in Nat
  BY LenProperties DEF CaptureShape
<1>1. ASSUME NEW d \in DOMAIN files, NEW k \in 1..Len(files[d]), NEW c, c = files[d][k]
      PROVE  LineOrder(c, d)'
  <2>1. LineOrder(c, d)
    BY <1>1 DEF FilesOrdered
  <2>2. c \in ChunkSet
    BY <1>1, FileShape, ElementOfSeq
  <2>3. c.of \in Nat /\ c.run \in Nat /\ c.rec.id \in Nat
    BY <2>2 DEF ChunkSet
  <2>4. c.of \in 1..Len(pcap') /\ pcap'[c.of] = pcap[c.of]
    BY <1>0, <2>1 DEF LineOrder
  <2>5. /\ \A i \in 1..Len(kernel') : c.of < kernel'[i]
        /\ held' # 0 => c.of <= held'
        /\ stage' = "record" => c.of < held'
    BY <2>1 DEF LineOrder
  <2>6. c.run \in 1..starts' /\ (c.run = starts' => c.rec.id < nextId')
    BY <1>0, <2>1, <2>3 DEF LineOrder
  <2>7. c.rec = RecordOf(c.rec.id, pcap'[c.of])
    BY <2>1, <2>4 DEF LineOrder
  <2>8. run_dir(seconds[c.run])' = d
    BY <2>1 DEF LineOrder, run_dir
  <2>9. QED
    BY Zenon, <2>4, <2>5, <2>6, <2>7, <2>8
       DEF LineOrder, RecordOf, derive_flow_id, VersionOf, Misread, classify_packet, extract_dscp
<1>2. ASSUME NEW d \in DOMAIN files'
      PROVE  Len(files'[d]) = 0 \/ (d \in DOMAIN files /\ files'[d] = files[d])
  BY <1>2, EmptySeq
<1>3. ASSUME NEW d \in DOMAIN files'
      PROVE  /\ \A k \in 1..Len(files'[d]) : \A c \in {files'[d][k]} : LineOrder(c, d)'
             /\ \A j, k \in 1..Len(files'[d]) : j < k => Follows(files'[d][j], files'[d][k])
  <2>1. CASE Len(files'[d]) = 0
    BY <2>1
  <2>2. CASE d \in DOMAIN files /\ files'[d] = files[d]
    <3>1. \A j, k \in 1..Len(files[d]) : j < k => Follows(files[d][j], files[d][k])
      BY <2>2 DEF FilesOrdered
    <3>2. \A k \in 1..Len(files[d]) : \A c \in {files[d][k]} : LineOrder(c, d)'
      BY <1>1, <2>2
    <3>3. QED
      BY <2>2, <3>1, <3>2 DEF Follows
  <2>3. QED
    BY <1>2, <2>1, <2>2
<1>4. QED
  BY <1>3 DEF FilesOrdered, Follows

LEMMA WriteKeepsOrder ==
  ASSUME CaptureShape, CaptureOrdered, stage = "record", NEW w \in BOOLEAN, NEW e \in BOOLEAN,
         AppendText(w, e), UNCHANGED <<sameDir, pcap, kernel, held, starts, seconds>>,
         nextId' = nextId + 1, stage' = "verdict"
  PROVE  FilesOrdered'
<1> DEFINE c == Chunk(RecordOf(nextId, pcap[held]), w, e)
           n == Len(files[Dir]) + 1
<1>0. /\ nextId \in Nat /\ starts \in Nat /\ starts > 0
      /\ Dir \in DOMAIN files /\ held \in 1..Len(pcap)
      /\ Len(files[Dir]) \in Nat /\ Len(pcap) \in Nat
  BY DirShape, FileShape, LenProperties DEF CaptureShape
<1>1. /\ DOMAIN files' = DOMAIN files
      /\ \A d \in DOMAIN files : d # Dir => files'[d] = files[d]
      /\ Len(files'[Dir]) = n /\ files'[Dir][n] = c
      /\ \A k \in 1..(n - 1) : files'[Dir][k] = files[Dir][k]
  BY Appended
<1>2. /\ c.of = held /\ c.run = starts /\ c.rec = RecordOf(nextId, pcap[held])
      /\ c.rec.id = nextId
  BY DEF Chunk, RecordOf
<1>3. run_dir(seconds[starts])' = Dir
  BY DEF Dir, run_dir
<1>4. \A i \in 1..Len(kernel) : held < kernel[i]
  BY DEF CaptureOrdered, QueueOrder
<1>5. UNCHANGED <<sameDir, pcap, kernel, held, starts, seconds>> /\ nextId' = nextId + 1
      /\ stage' = "verdict"
  OBVIOUS
<1> HIDE DEF c
<1>6. ASSUME NEW b \in ChunkSet, NEW d \in DOMAIN files, LineOrder(b, d)
      PROVE  LineOrder(b, d)' /\ (d = Dir => Follows(b, c))
  <2>1. b.run \in Nat /\ b.rec.id \in Nat /\ b.of \in Nat
    BY <1>6 DEF ChunkSet
  <2>2. /\ b.of \in 1..Len(pcap) /\ \A i \in 1..Len(kernel) : b.of < kernel[i]
        /\ b.of < held /\ b.run \in 1..starts
        /\ b.run = starts => b.rec.id < nextId
        /\ run_dir(seconds[b.run]) = d
        /\ b.rec = RecordOf(b.rec.id, pcap[b.of])
    BY <1>0, <1>6, <2>1 DEF LineOrder
  <2>3. /\ b.of \in 1..Len(pcap') /\ \A i \in 1..Len(kernel') : b.of < kernel'[i]
        /\ held' # 0 => b.of <= held'
        /\ stage' = "record" => b.of < held'
        /\ b.run \in 1..starts'
        /\ b.run = starts' => b.rec.id < nextId'
    BY <1>0, <1>5, <2>1, <2>2
  <2>4. run_dir(seconds[b.run])' = d
    BY <1>5, <2>2 DEF run_dir
  <2>5. b.rec = RecordOf(b.rec.id, pcap'[b.of])
    BY <1>5, <2>2
  <2>6. LineOrder(b, d)'
    BY Zenon, <2>3, <2>4, <2>5
       DEF LineOrder, RecordOf, derive_flow_id, VersionOf, Misread, classify_packet, extract_dscp
  <2>7. d = Dir => Follows(b, c)
    BY <1>2, <2>2 DEF Follows
  <2>8. QED
    BY <2>6, <2>7
<1>7. ASSUME NEW b, b = c, NEW d, d = Dir
      PROVE  LineOrder(b, d)'
  <2>1. /\ b.of \in 1..Len(pcap') /\ \A i \in 1..Len(kernel') : b.of < kernel'[i]
        /\ held' # 0 => b.of <= held'
        /\ stage' = "record" => b.of < held'
        /\ b.run \in 1..starts'
        /\ b.run = starts' => b.rec.id < nextId'
    BY <1>0, <1>2, <1>4, <1>5, <1>7
  <2>2. run_dir(seconds[b.run])' = d
    BY <1>2, <1>3, <1>5, <1>7
  <2>3. b.rec = RecordOf(b.rec.id, pcap'[b.of])
    BY <1>2, <1>5, <1>7
  <2>4. QED
    BY Zenon, <2>1, <2>2, <2>3
       DEF LineOrder, RecordOf, derive_flow_id, VersionOf, Misread, classify_packet, extract_dscp
<1>8. ASSUME NEW d \in DOMAIN files, NEW k \in 1..Len(files[d])
      PROVE  files[d][k] \in ChunkSet /\ \A b \in {files[d][k]} : LineOrder(b, d)
  BY FileShape, ElementOfSeq DEF CaptureOrdered, FilesOrdered
<1>9. ASSUME NEW d \in DOMAIN files'
      PROVE  /\ \A k \in 1..Len(files'[d]) : \A b \in {files'[d][k]} : LineOrder(b, d)'
             /\ \A j, k \in 1..Len(files'[d]) : j < k => Follows(files'[d][j], files'[d][k])
  <2>1. CASE d # Dir
    <3>1. files'[d] = files[d] /\ d \in DOMAIN files
      BY <1>1, <2>1
    <3>2. ASSUME NEW k \in 1..Len(files[d]), NEW b \in {files[d][k]}
          PROVE  LineOrder(b, d)'
      BY <1>6, <1>8, <3>1
    <3>3. \A j, k \in 1..Len(files[d]) : j < k => Follows(files[d][j], files[d][k])
      BY <3>1 DEF CaptureOrdered, FilesOrdered
    <3>4. QED
      BY <3>1, <3>2, <3>3
  <2>2. CASE d = Dir
    <3>1. ASSUME NEW k \in 1..n, NEW b \in {files'[d][k]}
          PROVE  LineOrder(b, d)'
      <4>1. CASE k = n
        <5>1. b = c
          BY <1>1, <2>2, <3>1, <4>1
        <5>2. QED
          BY Zenon, <1>7, <2>2, <5>1
      <4>2. CASE k # n
        <5>1. k \in 1..Len(files[d]) /\ b = files[d][k]
          BY <1>0, <1>1, <2>2, <3>1, <4>2
        <5>2. QED
          BY <1>0, <1>6, <1>8, <2>2, <5>1
      <4>3. QED
        BY <4>1, <4>2
    <3>2. ASSUME NEW j \in 1..n, NEW k \in 1..n, j < k
          PROVE  Follows(files'[d][j], files'[d][k])
      <4>1. j \in 1..Len(files[d]) /\ files'[d][j] = files[d][j]
        BY <1>0, <1>1, <2>2, <3>2
      <4>2. CASE k = n
        <5>1. PICK b \in ChunkSet : b = files[d][j] /\ LineOrder(b, d)
          BY <1>0, <1>8, <2>2, <4>1
        <5>2. Follows(b, c)
          BY <1>0, <1>6, <2>2, <5>1
        <5>3. QED
          BY <1>1, <2>2, <4>1, <4>2, <5>1, <5>2
      <4>3. CASE k # n
        <5>1. k \in 1..Len(files[d]) /\ files'[d][k] = files[d][k]
          BY <1>0, <1>1, <2>2, <3>2, <4>3
        <5>2. QED
          BY <1>0, <2>2, <3>2, <4>1, <5>1 DEF CaptureOrdered, FilesOrdered
      <4>4. QED
        BY <4>2, <4>3
    <3>3. QED
      BY <1>1, <2>2, <3>1, <3>2
  <2>3. QED
    BY <2>1, <2>2
<1>10. QED
  BY <1>9 DEF FilesOrdered, Follows

LEMMA OrderedStep ==
  ASSUME CaptureShape, ScriptShape, CaptureOrdered, [Next]_vars
  PROVE  CaptureOrdered'
<1>0. /\ Len(pcap) \in Nat /\ starts \in Nat /\ nextId \in Nat /\ Len(kernel) \in Nat
      /\ held \in Nat /\ held <= Len(pcap) /\ QueueOrder /\ FilesOrdered
  BY LenProperties DEF CaptureShape, CaptureOrdered
<1>1. \A i \in 1..Len(kernel) : kernel[i] \in 1..Len(pcap)
  BY ElementOfSeq DEF CaptureShape
<1>2. CASE ArriveOn
  <2>1. PICK p \in PacketSet : Arrive(p)
    BY <1>2, ArrivalShape DEF ArriveOn
  <2>2. /\ Len(pcap') = Len(pcap) + 1 /\ \A n \in 1..Len(pcap) : pcap'[n] = pcap[n]
        /\ kernel' = kernel \/ kernel' = Append(kernel, Len(pcap) + 1)
    BY <2>1, ArriveShape
  <2>3. UNCHANGED <<sameDir, held, stage, starts, seconds, nextId, files>>
    BY <2>1 DEF Arrive
  <2>4. \A i \in 1..Len(kernel') :
          \/ i \in 1..Len(kernel) /\ kernel'[i] = kernel[i]
          \/ i = Len(kernel) + 1 /\ kernel'[i] = Len(pcap) + 1
    <3>1. PICK r \in Nat : r = Len(pcap) + 1
      BY <1>0
    <3>2. kernel \in Seq(Nat)
      BY <1>1, SeqMonotonic DEF CaptureShape
    <3>3. /\ Len(Append(kernel, r)) = Len(kernel) + 1 /\ Append(kernel, r)[Len(kernel) + 1] = r
          /\ \A i \in 1..Len(kernel) : Append(kernel, r)[i] = kernel[i]
      BY <3>1, <3>2, AppendProperties
    <3>4. QED
      BY <1>0, <2>2, <3>1, <3>3
  <2>5. QueueOrder'
    <3>1. \A i, j \in 1..Len(kernel) : i < j => kernel[i] < kernel[j]
      BY <1>0 DEF QueueOrder
    <3>2. \A i \in 1..Len(kernel) : held < kernel[i]
      BY <1>0 DEF QueueOrder
    <3>3. ASSUME NEW i \in 1..Len(kernel'), NEW j \in 1..Len(kernel'), i < j
          PROVE  kernel'[i] < kernel'[j]
      <4>1. i \in 1..Len(kernel) /\ kernel'[i] = kernel[i]
        BY <1>0, <2>2, <2>4, <3>3
      <4>2. QED
        BY <1>0, <1>1, <2>4, <3>1, <3>3, <4>1
    <3>4. \A i \in 1..Len(kernel') : held' < kernel'[i]
      BY <1>0, <2>3, <2>4, <3>2
    <3>5. QED
      BY <3>3, <3>4 DEF QueueOrder
  <2>6. FilesOrdered'
    BY <1>0, <2>2, <2>3, <2>4, FilesKeepOrder
  <2>7. QED
    BY <2>5, <2>6 DEF CaptureOrdered
<1>3. CASE StartCapture
  <2>1. /\ stage = "down" /\ stage' = "run" /\ starts' = starts + 1 /\ nextId' = 1
        /\ \A i \in 1..starts : seconds'[i] = seconds[i]
        /\ \A d \in DOMAIN files' :
             (d \in DOMAIN files /\ files'[d] = files[d]) \/ files'[d] = <<>>
        /\ UNCHANGED <<sameDir, pcap, kernel, held>>
    BY <1>3, Started
  <2>2. QueueOrder'
    BY <1>0, <2>1 DEF QueueOrder
  <2>3. FilesOrdered'
    BY <1>0, <2>1, FilesKeepOrder
  <2>4. QED
    BY <2>2, <2>3 DEF CaptureOrdered
<1>4. CASE Take
  <2>1. /\ stage = "run" /\ kernel # <<>> /\ stage' = "record"
        /\ held' = Head(kernel) /\ kernel' = Tail(kernel)
        /\ UNCHANGED <<sameDir, pcap, starts, seconds, nextId, files>>
    BY <1>4 DEF Take
  <2>2. /\ Len(kernel') = Len(kernel) - 1 /\ held' = kernel[1] /\ 1 \in 1..Len(kernel)
        /\ \A i \in 1..Len(kernel') : kernel'[i] = kernel[i + 1] /\ i + 1 \in 1..Len(kernel)
    BY <1>0, <2>1, HeadTailProperties, EmptySeq DEF CaptureShape
  <2>3. QueueOrder'
    <3>1. \A i, j \in 1..Len(kernel) : i < j => kernel[i] < kernel[j]
      BY <1>0 DEF QueueOrder
    <3>2. ASSUME NEW i \in 1..Len(kernel'), NEW j \in 1..Len(kernel'), i < j
          PROVE  kernel'[i] < kernel'[j]
      <4>1. i + 1 \in 1..Len(kernel) /\ j + 1 \in 1..Len(kernel) /\ i + 1 < j + 1
            /\ kernel'[i] = kernel[i + 1] /\ kernel'[j] = kernel[j + 1]
        BY <1>0, <2>2, <3>2
      <4>2. QED
        BY <3>1, <4>1
    <3>3. \A i \in 1..Len(kernel') : kernel[1] < kernel'[i]
      BY <1>0, <2>2, <3>1
    <3>4. QED
      BY <2>2, <3>2, <3>3 DEF QueueOrder
  <2>4. FilesOrdered'
    BY <1>0, <1>1, <2>1, <2>2, FilesKeepOrder
  <2>5. QED
    BY <2>3, <2>4 DEF CaptureOrdered
<1>5. CASE Write \/ WriteFails
  <2>1. /\ stage = "record" /\ stage' = "verdict" /\ nextId' = nextId + 1
        /\ UNCHANGED <<sameDir, pcap, kernel, held, starts, seconds>>
        /\ UNCHANGED files \/ \E w, e \in BOOLEAN : AppendText(w, e)
    BY <1>5 DEF Write, WriteFails, AfterWrite
  <2>2. QueueOrder'
    BY <1>0, <2>1 DEF QueueOrder
  <2>3. FilesOrdered'
    <3>1. CASE UNCHANGED files
      BY <1>0, <2>1, <3>1, FilesKeepOrder
    <3>2. CASE \E w, e \in BOOLEAN : AppendText(w, e)
      BY <2>1, <3>2, WriteKeepsOrder
    <3>3. QED
      BY <2>1, <3>1, <3>2
  <2>4. QED
    BY <2>2, <2>3 DEF CaptureOrdered
<1>6. CASE Accept \/ Interrupt
  <2>1. /\ held' \in {held, 0} /\ nextId' \in {nextId, nextId + 1}
        /\ stage' \in {"run", "cleanup"}
        /\ UNCHANGED <<sameDir, pcap, kernel, starts, seconds, files>>
    BY <1>6 DEF Accept, Interrupt
  <2>2. QueueOrder'
    BY <1>0, <1>1, <2>1 DEF QueueOrder
  <2>3. FilesOrdered'
    BY <1>0, <2>1, FilesKeepOrder
  <2>4. QED
    BY <2>2, <2>3 DEF CaptureOrdered
<1>7. CASE Cleanup \/ Kill
  <2>1. /\ kernel' = <<>> /\ held' = 0 /\ stage' = "down" /\ Len(<<>>) = 0
        /\ UNCHANGED <<sameDir, pcap, starts, seconds, nextId, files>>
    BY <1>7, EmptySeq DEF Cleanup, Kill, Unbound
  <2>2. QueueOrder'
    <3>1. Len(kernel') = 0
      BY <2>1
    <3>2. ~\E i : i \in 1..Len(kernel')
      BY <3>1
    <3>3. QED
      BY Zenon, <3>2 DEF QueueOrder
  <2>3. FilesOrdered'
    BY <1>0, <2>1, FilesKeepOrder
  <2>4. QED
    BY <2>2, <2>3 DEF CaptureOrdered
<1>8. CASE UNCHANGED capture
  <2>1. UNCHANGED <<sameDir, pcap, kernel, held, stage, starts, seconds, nextId, files>>
    BY <1>8 DEF capture
  <2>2. QueueOrder'
    BY <1>0, <2>1 DEF QueueOrder
  <2>3. FilesOrdered'
    BY <1>0, <2>1, FilesKeepOrder
  <2>4. QED
    BY <2>2, <2>3 DEF CaptureOrdered
<1>9. QED
  BY <1>2, <1>3, <1>4, <1>5, <1>6, <1>7, <1>8, ArrivalStep

LEMMA OrderedInvariant == Spec => [](ScriptShape /\ CaptureShape /\ CaptureOrdered)
<1>1. Init => ScriptShape /\ CaptureShape /\ CaptureOrdered
  BY ScriptInitShape, CaptureInitShape, OrderedInit
<1>2. ScriptShape /\ CaptureShape /\ CaptureOrdered /\ [Next]_vars
        => ScriptShape' /\ CaptureShape' /\ CaptureOrdered'
  BY ScriptStep, CaptureStepShape, OrderedStep
<1>3. QED
  BY <1>1, <1>2, PTL DEF Spec

(* The records of a directory follow the packets they record, however many *)
(* processes wrote it and whichever way the wall clock was set between: a  *)
(* process takes the packets oldest first and counts what it takes, and a  *)
(* later one writes the same file only when the operator named the         *)
(* directory or both were started in one second                            *)
(* (n6_interceptor.py:168, 171, 184, telemetry.py:273).                    *)
THEOREM CaptureOrderInvariant == Spec => []CaptureOrder
<1>1. CaptureShape /\ CaptureOrdered => CaptureOrder
  <2> SUFFICES ASSUME CaptureShape, CaptureOrdered,
                      NEW d \in DOMAIN files, NEW j \in DOMAIN files[d], NEW k \in DOMAIN files[d],
                      j < k
               PROVE  LET a == files[d][j]
                          b == files[d][k]
                      IN  /\ a.of < b.of
                          /\ a.run = b.run => a.rec.id < b.rec.id
                          /\ a.run # b.run =>
                               a.run < b.run /\ (sameDir \/ seconds[a.run] = seconds[b.run])
    BY DEF CaptureOrder
  <2> DEFINE a == files[d][j]
             b == files[d][k]
  <2>1. j \in 1..Len(files[d]) /\ k \in 1..Len(files[d])
    BY FileShape
  <2>2. Follows(a, b) /\ LineOrder(a, d) /\ LineOrder(b, d)
    BY <2>1 DEF CaptureOrdered, FilesOrdered
  <2>3. a.run \in 1..starts /\ b.run \in 1..starts /\ starts \in Nat
    BY <2>2 DEF LineOrder, CaptureShape
  <2>4. run_dir(seconds[a.run]) = run_dir(seconds[b.run])
    BY <2>2 DEF LineOrder
  <2>5. sameDir \/ seconds[a.run] = seconds[b.run]
    BY <2>4 DEF run_dir
  <2>6. QED
    BY <2>2, <2>3, <2>5 DEF Follows
<1>2. QED
  BY <1>1, OrderedInvariant, PTL

-----------------------------------------------------------------------------
(* The labels: every packet of the capture names its flow's class.         *)
Labels == \A n \in 1..Len(pcap) : classify_packet(extract_dscp(pcap[n])) = FlowClass(pcap[n].flow)

LEMMA LabelsStep ==
  ASSUME CaptureShape, ScriptShape, Labels, [Next]_vars
  PROVE  Labels'
<1>1. scenario' = scenario
  BY StepParts DEF PlayLine, script
<1>2. \A p : /\ classify_packet(extract_dscp(p))' = classify_packet(extract_dscp(p))
             /\ FlowClass(p)' = FlowClass(p)
  BY Zenon, <1>1 DEF classify_packet, extract_dscp, VersionOf, FlowClass
<1>3. CASE ArriveOn
  <2>1. PICK i \in on, m \in Marks : Arrive(Packet(m[1], sockets[SrcPort(i)] + m[2], i))
    BY <1>3 DEF ArriveOn
  <2>2. PICK p : p = Packet(m[1], sockets[SrcPort(i)] + m[2], i)
    OBVIOUS
  <2>3. p \in PacketSet /\ p.flow = i /\ classify_packet(extract_dscp(p)) = FlowClass(i)
    BY <2>2, ArrivalShape
  <2>4. /\ Len(pcap') = Len(pcap) + 1 /\ pcap'[Len(pcap')] = p /\ Len(pcap) \in Nat
        /\ \A n \in 1..Len(pcap) : pcap'[n] = pcap[n]
    BY <2>1, <2>2, <2>3, ArriveShape, LenProperties DEF CaptureShape
  <2>5. ASSUME NEW n \in 1..Len(pcap')
        PROVE  classify_packet(extract_dscp(pcap'[n])) = FlowClass(pcap'[n].flow)
    <3>1. CASE n = Len(pcap')
      BY <2>3, <2>4, <3>1
    <3>2. CASE n # Len(pcap')
      <4>1. n \in 1..Len(pcap)
        BY <2>4, <2>5, <3>2
      <4>2. QED
        BY <2>4, <4>1 DEF Labels
    <3>3. QED
      BY <3>1, <3>2
  <2>6. QED
    BY Zenon, <1>1, <2>5 DEF Labels, classify_packet, extract_dscp, VersionOf, FlowClass
<1>4. CASE UNCHANGED pcap
  <2>1. \A n \in 1..Len(pcap') : classify_packet(extract_dscp(pcap'[n])) = FlowClass(pcap'[n].flow)
    BY <1>4 DEF Labels
  <2>2. QED
    BY Zenon, <1>1, <2>1 DEF Labels, classify_packet, extract_dscp, VersionOf, FlowClass
<1>5. QED
  BY <1>3, <1>4, ArrivalStep
     DEF StartCapture, Take, Write, WriteFails, Accept, Interrupt, Cleanup, Kill, Unbound, capture

(* A record has the class of the flow its packet was sent by: the class's  *)
(* DSCP goes into the TOS of the flow's own socket, whichever order the    *)
(* lines and the restarts come in, and is read back from either header,    *)
(* with any ECN bits (gen_mgen.py:48, traffic_model.py:289,                *)
(* n6_interceptor.py:191).                                                 *)
THEOREM LabelsKeptInvariant == Spec => []LabelsKept
<1>1. Init => Labels
  <2>1. Len(<<>>) = 0
    BY EmptySeq
  <2>2. QED
    BY <2>1 DEF Init, CaptureInit, Labels
<1>2. CaptureShape /\ ScriptShape /\ Labels /\ [Next]_vars => Labels'
  BY LabelsStep
<1>3. CaptureShape /\ CaptureOrdered /\ Labels => LabelsKept
  <2> SUFFICES ASSUME CaptureShape, CaptureOrdered, Labels
               PROVE  LabelsKept
    OBVIOUS
  <2>1. ASSUME NEW d \in DOMAIN files, NEW k \in 1..Len(files[d])
        PROVE  files[d][k].rec.cls = FlowClass(pcap[files[d][k].of].flow)
    <3>1. PICK c : c = files[d][k]
      OBVIOUS
    <3>2. c.of \in 1..Len(pcap) /\ c.rec = RecordOf(c.rec.id, pcap[c.of])
      BY <2>1, <3>1 DEF CaptureOrdered, FilesOrdered, LineOrder
    <3>3. c.rec.cls = classify_packet(extract_dscp(pcap[c.of]))
      BY <3>2 DEF RecordOf
    <3>4. QED
      BY <3>1, <3>2, <3>3 DEF Labels
  <2>2. QED
    BY <2>1, FileShape DEF LabelsKept
<1>4. QED
  BY <1>1, <1>2, <1>3, OrderedInvariant, PTL DEF Spec

-----------------------------------------------------------------------------
(* What a failure costs.  At risk are the packets let through, or about to *)
(* be, without a line that nothing can spoil any more: whole, at the start *)
(* of its line, and ended.  These packets, and the files whose next line   *)
(* will join an unended one, are paid for by the failed writes and by the  *)
(* processes that are over.                                                *)
Claimed == accepted \cup (IF stage = "verdict" THEN {held} ELSE {})
Settled(f, k) == LineStart(f, k) /\ f[k].whole /\ f[k].ended
Kept(n) == \E d \in DOMAIN files : \E k \in DOMAIN files[d] :
             files[d][k].of = n /\ Settled(files[d], k)
AtRisk == {n \in Claimed : ~Kept(n)}
Torn(f) == Len(f) > 0 /\ ~f[Len(f)].ended
TornFiles == {d \in DOMAIN files : Torn(files[d])}
Alive == IF stage \in {"run", "record", "verdict"} THEN 1 ELSE 0

LossPaid ==
  /\ Claimed \subseteq 1..Len(pcap) /\ IsFiniteSet(TornFiles)
  /\ Cardinality(AtRisk) + Cardinality(TornFiles) <= 2 * faults + starts - Alive

(* One element more, or one less.                                          *)
LEMMA OneMore ==
  ASSUME NEW S, NEW T, IsFiniteSet(S), NEW a, T \subseteq S \cup {a}
  PROVE  /\ IsFiniteSet(T) /\ Cardinality(T) \in Nat /\ Cardinality(S) \in Nat
         /\ Cardinality(T) <= Cardinality(S) + 1
         /\ T \subseteq S => Cardinality(T) <= Cardinality(S)
         /\ a \in S /\ T \subseteq S \ {a} => Cardinality(T) <= Cardinality(S) - 1
<1>1. /\ IsFiniteSet(S \cup {a})
      /\ Cardinality(S \cup {a}) = IF a \in S THEN Cardinality(S) ELSE Cardinality(S) + 1
  BY FS_AddElement
<1>2. /\ IsFiniteSet(S \ {a})
      /\ Cardinality(S \ {a}) = IF a \in S THEN Cardinality(S) - 1 ELSE Cardinality(S)
  BY FS_RemoveElement
<1>3. IsFiniteSet(T) /\ Cardinality(T) <= Cardinality(S \cup {a})
  BY <1>1, FS_Subset
<1>4. /\ T \subseteq S => Cardinality(T) <= Cardinality(S)
      /\ T \subseteq S \ {a} => Cardinality(T) <= Cardinality(S \ {a})
  BY <1>2, FS_Subset
<1>5. Cardinality(T) \in Nat /\ Cardinality(S) \in Nat
  BY <1>3, FS_CardinalityType
<1>6. QED
  BY <1>1, <1>2, <1>3, <1>4, <1>5

(* What an append does to the lines there are and to the tail.             *)
LEMMA AppendRecords ==
  ASSUME CaptureShape, stage = "record", NEW w \in BOOLEAN, NEW e \in BOOLEAN,
         AppendText(w, e)
  PROVE  /\ \A m : Kept(m) => Kept(m)'
         /\ \A h : h = held /\ w /\ e /\ Dir \notin TornFiles => Kept(h)'
         /\ TornFiles' = IF e THEN TornFiles \ {Dir} ELSE TornFiles \cup {Dir}
<1> DEFINE c == Chunk(RecordOf(nextId, pcap[held]), w, e)
<1>0. /\ Dir \in DOMAIN files /\ DOMAIN files' = DOMAIN files
      /\ \A d \in DOMAIN files : d # Dir => files'[d] = files[d]
  BY Appended
<1>1. PICK f \in Seq(ChunkSet), n \in Nat :
        f = files[Dir] /\ n = Len(f) /\ DOMAIN f = 1..n
  BY <1>0, FileShape
<1>2. PICK g : g = files'[Dir]
  OBVIOUS
<1>3. /\ Len(g) = n + 1 /\ DOMAIN g = 1..(n + 1)
      /\ g[n + 1] = c /\ \A k \in 1..n : g[k] = f[k]
  BY <1>1, <1>2, Appended
<1>4. c.whole = w /\ c.ended = e /\ c.of = held
  BY DEF Chunk
<1> HIDE DEF c
<1>5. (Torn(f) <=> n > 0 /\ ~f[n].ended) /\ (Torn(g) <=> ~e)
  BY <1>1, <1>3, <1>4 DEF Torn
<1>6. ASSUME NEW k \in 1..n, Settled(f, k)
      PROVE  Settled(g, k)
  <2>1. k = 1 \/ (k - 1 \in 1..n /\ f[k - 1].ended)
    BY <1>6 DEF Settled, LineStart
  <2>2. QED
    BY <1>3, <1>6, <2>1 DEF Settled, LineStart
<1>7. ASSUME ~Torn(f), w, e
      PROVE  Settled(g, n + 1)
  <2>1. n = 0 \/ (n \in 1..n /\ (n + 1) - 1 = n /\ f[n].ended)
    BY <1>5, <1>7
  <2>2. LineStart(g, n + 1)
    BY <1>3, <2>1 DEF LineStart
  <2>3. QED
    BY <1>3, <1>4, <1>7, <2>2 DEF Settled
<1>8. \A m : Kept(m)' <=>
        \E d \in DOMAIN files' : \E k \in DOMAIN files'[d] :
          files'[d][k].of = m /\ Settled(files'[d], k)
  BY DEF Kept, Settled, LineStart
<1>9. ASSUME NEW m, Kept(m)
      PROVE  Kept(m)'
  <2>1. PICK d \in DOMAIN files :
          \E k \in DOMAIN files[d] : files[d][k].of = m /\ Settled(files[d], k)
    BY <1>9 DEF Kept
  <2>2. PICK k \in DOMAIN files[d] : files[d][k].of = m /\ Settled(files[d], k)
    BY <2>1
  <2>3. CASE d # Dir
    BY <1>0, <1>8, <2>2, <2>3
  <2>4. CASE d = Dir
    <3>1. k \in 1..n /\ f[k].of = m /\ Settled(f, k)
      BY <1>1, <2>2, <2>4
    <3>2. k \in DOMAIN g /\ g[k].of = m /\ Settled(g, k)
      BY <1>3, <1>6, <3>1
    <3>3. QED
      BY <1>0, <1>2, <1>8, <3>2
  <2>5. QED
    BY <2>3, <2>4
<1>10. ASSUME NEW h, h = held, w, e, Dir \notin TornFiles
       PROVE  Kept(h)'
  <2>1. Settled(g, n + 1) /\ n + 1 \in DOMAIN g /\ g[n + 1].of = h
    BY <1>0, <1>1, <1>3, <1>4, <1>7, <1>10 DEF TornFiles
  <2>2. QED
    BY <1>0, <1>2, <1>8, <2>1
<1>11. TornFiles' = IF e THEN TornFiles \ {Dir} ELSE TornFiles \cup {Dir}
  <2>1. TornFiles' = {d \in DOMAIN files : Torn(files'[d])}
    BY <1>0 DEF TornFiles, Torn
  <2>2. \A d \in DOMAIN files : Torn(files'[d]) <=> IF d = Dir THEN ~e ELSE Torn(files[d])
    BY <1>0, <1>2, <1>5
  <2>3. QED
    BY <1>0, <2>1, <2>2 DEF TornFiles
<1>12. QED
  BY <1>9, <1>10, <1>11

LEMMA LossFacts ==
  ASSUME CaptureShape, LossPaid
  PROVE  /\ IsFiniteSet(AtRisk) /\ Cardinality(AtRisk) \in Nat
         /\ IsFiniteSet(TornFiles) /\ Cardinality(TornFiles) \in Nat
         /\ faults \in Nat /\ starts \in Nat /\ Len(pcap) \in Nat
<1>1. Len(pcap) \in Nat /\ faults \in Nat /\ starts \in Nat
  BY LenProperties DEF CaptureShape
<1>2. IsFiniteSet(1..Len(pcap))
  BY <1>1, FS_Interval
<1>3. AtRisk \subseteq 1..Len(pcap)
  BY DEF LossPaid, AtRisk
<1>4. IsFiniteSet(AtRisk) /\ Cardinality(AtRisk) \in Nat
  BY <1>2, <1>3, FS_Subset, FS_CardinalityType
<1>5. IsFiniteSet(TornFiles) /\ Cardinality(TornFiles) \in Nat
  BY FS_CardinalityType DEF LossPaid
<1>6. QED
  BY <1>1, <1>4, <1>5

(* A step that appends nothing, a start among them, puts at most the       *)
(* packet in hand at risk.                                                 *)
LEMMA NothingAppended ==
  ASSUME CaptureShape, LossPaid, Len(pcap) <= Len(pcap'), Len(pcap') \in Nat,
         \A d \in DOMAIN files : d \in DOMAIN files' /\ files'[d] = files[d],
         \A d \in DOMAIN files' : d \in DOMAIN files \/ files'[d] = <<>>,
         Claimed' \subseteq Claimed \cup {held}
  PROVE  /\ Cardinality(AtRisk') \in Nat /\ Cardinality(AtRisk') <= Cardinality(AtRisk) + 1
         /\ Claimed' \subseteq Claimed => Cardinality(AtRisk') <= Cardinality(AtRisk)
         /\ held \in 1..Len(pcap) => Claimed' \subseteq 1..Len(pcap')
         /\ Claimed' \subseteq Claimed => Claimed' \subseteq 1..Len(pcap')
         /\ TornFiles' = TornFiles
<1>1. \A m : Kept(m)' <=>
        \E d \in DOMAIN files' : \E k \in DOMAIN files'[d] :
          files'[d][k].of = m /\ Settled(files'[d], k)
  BY DEF Kept, Settled, LineStart
<1>2. \A m : Kept(m) => Kept(m)'
  BY <1>1 DEF Kept
<1>3. AtRisk' = {n \in Claimed' : ~Kept(n)'}
  BY DEF AtRisk
<1>4. /\ AtRisk' \subseteq AtRisk \cup {held}
      /\ Claimed' \subseteq Claimed => AtRisk' \subseteq AtRisk
  BY <1>2, <1>3 DEF AtRisk
<1>5. PICK T : T = AtRisk'
  OBVIOUS
<1>6. Cardinality(T) \in Nat /\ Cardinality(T) <= Cardinality(AtRisk) + 1
      /\ (T \subseteq AtRisk => Cardinality(T) <= Cardinality(AtRisk))
  BY <1>4, <1>5, LossFacts, OneMore
<1>7. Claimed \subseteq 1..Len(pcap) /\ Len(pcap) \in Nat
  BY LossFacts DEF LossPaid
<1>8. TornFiles' = TornFiles
  <2>1. TornFiles' = {d \in DOMAIN files' : Torn(files'[d])}
    BY DEF TornFiles, Torn
  <2>2. ~Torn(<<>>)
    BY EmptySeq DEF Torn
  <2>3. QED
    BY <2>1, <2>2 DEF TornFiles
<1>9. QED
  BY <1>4, <1>5, <1>6, <1>7, <1>8

LEMMA WriteLoss ==
  ASSUME CaptureShape, LossPaid, stage = "record", stage' = "verdict",
         UNCHANGED <<pcap, held, starts, accepted>>,
         \/ faults' = faults /\ AppendText(TRUE, TRUE)
         \/ /\ faults' = faults + 1
            /\ \/ UNCHANGED files
               \/ AppendText(FALSE, FALSE)
               \/ AppendText(TRUE, FALSE)
  PROVE  LossPaid'
<1>0. /\ IsFiniteSet(AtRisk) /\ Cardinality(AtRisk) \in Nat
      /\ IsFiniteSet(TornFiles) /\ Cardinality(TornFiles) \in Nat
      /\ faults \in Nat /\ starts \in Nat /\ Len(pcap) \in Nat
      /\ Alive = 1 /\ Alive' = 1 /\ held \in 1..Len(pcap)
      /\ Cardinality(AtRisk) + Cardinality(TornFiles) <= 2 * faults + starts - 1
  <2>1. Alive = 1 /\ Alive' = 1
    BY DEF Alive
  <2>2. QED
    BY <2>1, LossFacts DEF LossPaid, CaptureShape
<1>1. Claimed = accepted /\ Claimed' = accepted \cup {held}
  BY DEF Claimed
<1>2. Claimed' \subseteq 1..Len(pcap)'
  BY <1>0, <1>1 DEF LossPaid
<1>3. CASE UNCHANGED files /\ faults' = faults + 1
  <2>1. /\ Cardinality(AtRisk') \in Nat /\ Cardinality(AtRisk') <= Cardinality(AtRisk) + 1
        /\ TornFiles' = TornFiles
    BY <1>0, <1>1, <1>3, NothingAppended
  <2>2. QED
    BY <1>0, <1>2, <1>3, <2>1 DEF LossPaid
<1>4. ASSUME NEW w \in BOOLEAN, NEW e \in BOOLEAN, AppendText(w, e),
             faults' = IF w /\ e THEN faults ELSE faults + 1, ~w => ~e
      PROVE  LossPaid'
  <2>1. PICK T, U : T = AtRisk' /\ U = TornFiles'
    OBVIOUS
  <2>2. /\ \A m : Kept(m) => Kept(m)'
        /\ \A h : h = held /\ w /\ e /\ Dir \notin TornFiles => Kept(h)'
        /\ U = IF e THEN TornFiles \ {Dir} ELSE TornFiles \cup {Dir}
    BY <1>4, <2>1, AppendRecords
  <2>3. T = {m \in accepted \cup {held} : ~Kept(m)'}
    BY <1>1, <2>1 DEF AtRisk
  <2>4. /\ T \subseteq AtRisk \cup {held}
        /\ e /\ Dir \notin TornFiles => T \subseteq AtRisk
    BY <1>1, <1>4, <2>2, <2>3 DEF AtRisk
  <2>5. /\ Cardinality(T) \in Nat /\ Cardinality(T) <= Cardinality(AtRisk) + 1
        /\ e /\ Dir \notin TornFiles => Cardinality(T) <= Cardinality(AtRisk)
    BY <1>0, <2>4, OneMore
  <2>6. /\ IsFiniteSet(U) /\ Cardinality(U) \in Nat
        /\ Cardinality(U) <= Cardinality(TornFiles) + 1
        /\ e => Cardinality(U) <= Cardinality(TornFiles)
        /\ e /\ Dir \in TornFiles => Cardinality(U) <= Cardinality(TornFiles) - 1
    BY <1>0, <2>2, OneMore
  <2>7. Cardinality(T) + Cardinality(U) <= 2 * faults' + starts - 1
    BY <1>0, <1>4, <2>5, <2>6
  <2>8. QED
    BY <1>0, <1>2, <2>1, <2>6, <2>7 DEF LossPaid
<1>5. QED
  BY <1>3, <1>4

LEMMA StartLoss ==
  ASSUME CaptureShape, LossPaid, StartCapture
  PROVE  LossPaid'
<1>1. /\ stage = "down" /\ stage' = "run" /\ starts' = starts + 1
      /\ UNCHANGED <<pcap, accepted, faults>>
      /\ \A d \in DOMAIN files : d \in DOMAIN files' /\ files'[d] = files[d]
      /\ \A d \in DOMAIN files' : d \in DOMAIN files \/ files'[d] = <<>>
  BY Started
<1>2. Claimed' = Claimed /\ Alive = 0 /\ Alive' = 1
  BY <1>1 DEF Claimed, Alive
<1>3. Len(pcap) <= Len(pcap') /\ Len(pcap') \in Nat
  BY <1>1, LossFacts
<1>4. /\ Cardinality(AtRisk') <= Cardinality(AtRisk) /\ Cardinality(AtRisk') \in Nat
      /\ Claimed' \subseteq 1..Len(pcap') /\ TornFiles' = TornFiles
  BY <1>1, <1>2, <1>3, NothingAppended
<1>5. QED
  BY <1>1, <1>2, <1>4, LossFacts DEF LossPaid

LEMMA LossStep ==
  ASSUME CaptureShape, ScriptShape, LossPaid, [Next]_vars
  PROVE  LossPaid'
<1>1. /\ IsFiniteSet(AtRisk) /\ Cardinality(AtRisk) \in Nat
      /\ IsFiniteSet(TornFiles) /\ Cardinality(TornFiles) \in Nat
      /\ faults \in Nat /\ starts \in Nat /\ Len(pcap) \in Nat
      /\ Alive \in {0, 1} /\ Alive' \in {0, 1}
      /\ Cardinality(AtRisk) + Cardinality(TornFiles) <= 2 * faults + starts - Alive
  BY LossFacts DEF LossPaid, Alive
(* Steps that append nothing and let nothing through.                      *)
<1>2. ASSUME UNCHANGED <<starts, files, faults>>, Claimed' \subseteq Claimed,
             Alive' <= Alive, Len(pcap) <= Len(pcap'), Len(pcap') \in Nat
      PROVE  LossPaid'
  <2>1. /\ Cardinality(AtRisk') <= Cardinality(AtRisk) /\ Cardinality(AtRisk') \in Nat
        /\ Claimed' \subseteq 1..Len(pcap') /\ TornFiles' = TornFiles
    BY <1>2, NothingAppended
  <2>2. QED
    BY <1>1, <1>2, <2>1 DEF LossPaid
<1>3. CASE ArriveOn
  <2>1. PICK p \in PacketSet : Arrive(p)
    BY <1>3, ArrivalShape DEF ArriveOn
  <2>2. /\ Len(pcap') = Len(pcap) + 1
        /\ UNCHANGED <<held, stage, starts, files, accepted, faults>>
    BY <2>1, ArriveShape DEF Arrive
  <2>3. Claimed' = Claimed /\ Alive' = Alive
    BY <2>2 DEF Claimed, Alive
  <2>4. QED
    BY <1>1, <1>2, <2>2, <2>3
<1>4. CASE StartCapture
  BY <1>4, StartLoss
<1>5. CASE Take
  <2>1. /\ stage = "run" /\ stage' = "record"
        /\ UNCHANGED <<pcap, starts, files, accepted, faults>>
    BY <1>5 DEF Take
  <2>2. Claimed' = Claimed /\ Alive' = Alive
    BY <2>1 DEF Claimed, Alive
  <2>3. QED
    BY <1>1, <1>2, <2>1, <2>2
<1>6. CASE Write \/ WriteFails
  <2>1. /\ stage = "record" /\ stage' = "verdict"
        /\ UNCHANGED <<pcap, held, starts, accepted>>
        /\ \/ faults' = faults /\ AppendText(TRUE, TRUE)
           \/ /\ faults' = faults + 1
              /\ \/ UNCHANGED files
                 \/ AppendText(FALSE, FALSE)
                 \/ AppendText(TRUE, FALSE)
    BY <1>6 DEF Write, WriteFails, AfterWrite
  <2>2. QED
    BY <2>1, WriteLoss
<1>7. CASE Accept
  <2>1. /\ stage = "verdict" /\ stage' = "run" /\ accepted' = accepted \cup {held}
        /\ UNCHANGED <<pcap, starts, files, faults>>
    BY <1>7 DEF Accept
  <2>2. Claimed' = Claimed /\ Alive' = Alive
    BY <2>1 DEF Claimed, Alive
  <2>3. QED
    BY <1>1, <1>2, <2>1, <2>2
<1>8. CASE Interrupt
  <2>1. /\ stage \in {"run", "record", "verdict"} /\ stage' = "cleanup"
        /\ accepted' = accepted \/ accepted' = accepted \cup ({held} \ {0})
        /\ UNCHANGED <<pcap, starts, files, faults>>
    BY <1>8 DEF Interrupt
  <2>2. Alive = 1 /\ Alive' = 0
    BY <2>1 DEF Alive
  <2>3. CASE held \in 1..Len(pcap)
    <3>1. Claimed' \subseteq Claimed \cup {held}
      BY <2>1 DEF Claimed
    <3>2. /\ Cardinality(AtRisk') <= Cardinality(AtRisk) + 1 /\ Cardinality(AtRisk') \in Nat
          /\ Claimed' \subseteq 1..Len(pcap') /\ TornFiles' = TornFiles
      BY <1>1, <2>1, <2>3, <3>1, NothingAppended
    <3>3. QED
      BY <1>1, <2>1, <2>2, <3>2 DEF LossPaid
  <2>4. CASE held \notin 1..Len(pcap)
    <3>1. held = 0
      BY <1>1, <2>4 DEF CaptureShape
    <3>2. Claimed' \subseteq Claimed
      BY <2>1, <3>1 DEF Claimed
    <3>3. QED
      BY <1>1, <1>2, <2>1, <2>2, <3>2
  <2>5. QED
    BY <2>3, <2>4
<1>9. CASE Cleanup \/ Kill
  <2>1. /\ stage' = "down" /\ UNCHANGED <<pcap, starts, files, accepted, faults>>
    BY <1>9 DEF Cleanup, Kill, Unbound
  <2>2. Claimed' \subseteq Claimed /\ Alive' = 0
    BY <2>1 DEF Claimed, Alive
  <2>3. QED
    BY <1>1, <1>2, <2>1, <2>2
<1>10. CASE UNCHANGED capture
  <2>1. UNCHANGED <<pcap, held, stage, starts, files, accepted, faults>>
    BY <1>10 DEF capture
  <2>2. Claimed' = Claimed /\ Alive' = Alive
    BY <2>1 DEF Claimed, Alive
  <2>3. QED
    BY <1>1, <1>2, <2>1, <2>2
<1>11. QED
  BY <1>3, <1>4, <1>5, <1>6, <1>7, <1>8, <1>9, <1>10, ArrivalStep

(* However often the capture is interrupted, killed and started again, in  *)
(* one directory or in several, and however its writes fail: a failed      *)
(* write loses at most its own record and one beside it, an interrupt at   *)
(* most one, and no other packet let through is without its record         *)
(* (telemetry.py:280, n6_interceptor.py:82).                               *)
THEOREM TraceLossInvariant == Spec => []TraceLoss
<1>1. Init => LossPaid
  <2> SUFFICES ASSUME Init PROVE LossPaid
    OBVIOUS
  <2>1. Claimed = {} /\ Alive = 0 /\ starts = 0 /\ faults = 0 /\ DOMAIN files = 1..0
    BY EmptySeq DEF Init, CaptureInit, Claimed, Alive
  <2>2. AtRisk = {} /\ TornFiles = {}
    BY <2>1 DEF AtRisk, TornFiles
  <2>3. IsFiniteSet({}) /\ Cardinality({}) = 0
    BY FS_EmptySet
  <2>4. QED
    BY <2>1, <2>2, <2>3 DEF LossPaid
<1>2. CaptureShape /\ ScriptShape /\ LossPaid /\ [Next]_vars => LossPaid'
  BY LossStep
<1>3. CaptureShape /\ LossPaid => TraceLoss
  <2> SUFFICES ASSUME CaptureShape, LossPaid PROVE TraceLoss
    OBVIOUS
  <2>1. PICK T : T = {n \in accepted : ~HasRecord(n)}
    OBVIOUS
  <2>2. T \subseteq AtRisk
    BY <2>1 DEF AtRisk, Claimed, Kept, Settled, HasRecord, Readable
  <2>3. /\ Cardinality(T) <= Cardinality(AtRisk) /\ Cardinality(T) \in Nat
        /\ Cardinality(AtRisk) \in Nat
    BY <2>2, LossFacts, FS_Subset, FS_CardinalityType
  <2>4. Alive \in {0, 1}
    BY DEF Alive
  <2>5. Cardinality(T) <= 2 * faults + starts
    BY <2>3, <2>4, LossFacts DEF LossPaid
  <2>6. QED
    BY <2>1, <2>5 DEF TraceLoss
<1>4. QED
  BY <1>1, <1>2, <1>3, OrderedInvariant, PTL DEF Spec

-----------------------------------------------------------------------------
(* The load: the lines fired are the first ones, so a flow is on exactly   *)
(* when its first line is among them and its second is not.                *)
Line(i, op) == [at |-> IF op = "ON" THEN Start(i) ELSE Stop(i), op |-> op, flow |-> i]

ScriptPlayed ==
  /\ scenario \in Scenarios /\ now \in Nat
  /\ fired \subseteq Lines
  /\ \A l \in fired : l.at <= now
  /\ \A l \in fired, m \in Lines : Sooner(m, l) => m \in fired
  /\ on = {i \in Flows : Line(i, "ON") \in fired /\ Line(i, "OFF") \notin fired}

InTime == {f \in Flows : Start(f) < scenario.duration}

LEMMA LineShape ==
  ASSUME scenario \in Scenarios
  PROVE  /\ Flows = 1..Len(scenario.flows) /\ Len(scenario.flows) \in Nat
         /\ scenario.duration \in Nat
         /\ \A i \in Flows : scenario.flows[i] \in FlowSpec
         /\ \A i \in InTime : i \in Flows /\ i \in Nat /\ Start(i) \in Nat /\ Stop(i) \in Nat
                            /\ Start(i) <= Stop(i) /\ Start(i) < scenario.duration
<1>1. scenario \in [duration : Nat, flows : Seq(FlowSpec)]
  BY ScriptAssumption
<1>2. /\ Flows = 1..Len(scenario.flows) /\ Len(scenario.flows) \in Nat
      /\ \A i \in Flows : scenario.flows[i] \in FlowSpec
  BY <1>1, FlowShape
<1>3. scenario.duration \in Nat
  BY <1>1
<1>4. ASSUME NEW i \in InTime
      PROVE  /\ i \in Flows /\ i \in Nat /\ Start(i) \in Nat /\ Stop(i) \in Nat
             /\ Start(i) <= Stop(i) /\ Start(i) < scenario.duration
  <2>1. i \in Flows /\ i \in Nat /\ Start(i) < scenario.duration
    BY <1>2 DEF InTime
  <2>2. PICK b \in Int, e \in Int : b = scenario.flows[i].start /\ e = scenario.flows[i].stop
    BY <1>2, <2>1 DEF FlowSpec
  <2>3. e = NoStop \/ (b < e /\ 0 <= e)
    BY <2>1, <2>2, FlowsAssumption DEF Flows
  <2>4. Start(i) = IF b < 0 THEN 0 ELSE b
    BY <2>2 DEF Start
  <2>5. Stop(i) = IF e = NoStop \/ e > scenario.duration THEN scenario.duration ELSE e
    BY <2>2 DEF Stop
  <2>6. QED
    BY <1>3, <2>1, <2>3, <2>4, <2>5 DEF NoStop
<1>5. QED
  BY <1>2, <1>3, <1>4

LEMMA LinesAre ==
  ASSUME scenario \in Scenarios
  PROVE  /\ \A l \in Lines : /\ l.flow \in InTime /\ l.op \in {"ON", "OFF"} /\ l.at \in Nat
                             /\ l.flow \in Nat /\ l = Line(l.flow, l.op)
         /\ \A i \in InTime, op \in {"ON", "OFF"} : Line(i, op) \in Lines
<1>1. Lines = UNION {{Line(i, "ON"), Line(i, "OFF")} : i \in InTime}
  BY DEF Lines, InTime, Line
<1>2. ASSUME NEW l \in Lines
      PROVE  /\ l.flow \in InTime /\ l.op \in {"ON", "OFF"} /\ l.at \in Nat
             /\ l.flow \in Nat /\ l = Line(l.flow, l.op)
  <2>1. PICK i \in InTime, op \in {"ON", "OFF"} : l = Line(i, op)
    BY <1>1
  <2>2. l.flow = i /\ l.op = op /\ l.at \in {Start(i), Stop(i)}
    BY <2>1 DEF Line
  <2>3. QED
    BY <2>1, <2>2, LineShape
<1>3. QED
  BY <1>1, <1>2

(* Two lines are never on a par, and of a flow the ON is the sooner.       *)
LEMMA LineSooner ==
  ASSUME scenario \in Scenarios, NEW l \in Lines, NEW m \in Lines
  PROVE  /\ l # m => (Sooner(l, m) <=> ~Sooner(m, l))
         /\ ~Sooner(l, l)
         /\ l.flow = m.flow /\ l.op = "ON" /\ m.op = "OFF" => Sooner(l, m)
<1>1. /\ l.at \in Nat /\ l.flow \in Nat /\ l.op \in {"ON", "OFF"} /\ l.flow \in InTime
      /\ m.at \in Nat /\ m.flow \in Nat /\ m.op \in {"ON", "OFF"}
  BY LinesAre
<1>2. l.flow = m.flow /\ l.op = m.op => l = m
  BY LinesAre
<1>3. l.flow = m.flow /\ l.op = "ON" /\ m.op = "OFF" => l.at <= m.at
  <2> SUFFICES ASSUME l.flow = m.flow, l.op = "ON", m.op = "OFF" PROVE l.at <= m.at
    OBVIOUS
  <2>1. PICK i \in InTime : i = l.flow /\ l = Line(i, "ON") /\ m = Line(i, "OFF")
    BY <1>1, LinesAre
  <2>2. l.at = Start(i) /\ m.at = Stop(i)
    BY <2>1 DEF Line
  <2>3. QED
    BY <2>2, LineShape
<1>4. QED
  BY <1>1, <1>2, <1>3 DEF Sooner

LEMMA NextLineExists ==
  ASSUME scenario \in Scenarios, NEW l \in Lines \ fired
  PROVE  \E n \in NextLines : n.at <= l.at
<1> DEFINE U == Lines \ fired
           A == {x.at : x \in U}
<1>1. \A x \in U : x \in Lines /\ x.at \in Nat /\ x.flow \in Nat /\ x.op \in {"ON", "OFF"}
  BY LinesAre
<1>2. A \in SUBSET Nat /\ A # {}
  BY <1>1
<1>3. PICK a \in A : \A b \in A : a <= b
  BY <1>2, LeastNatural
<1> DEFINE F == {x.flow : x \in {y \in U : y.at = a}}
<1>4. F \in SUBSET Nat /\ F # {}
  BY <1>1, <1>3
<1>5. PICK f \in F : \A b \in F : f <= b
  BY <1>4, LeastNatural
<1>6. PICK n \in U : n.at = a /\ n.flow = f
                    /\ \A m \in U : m.at = a /\ m.flow = f /\ m.op = "ON" => n.op = "ON"
  BY <1>1, <1>5
<1>7. ASSUME NEW m \in U, m # n
      PROVE  Sooner(n, m)
  <2>1. n.at <= m.at /\ (m.at = n.at => n.flow <= m.flow)
    BY <1>1, <1>3, <1>5, <1>6
  <2>2. m.at = n.at /\ m.flow = n.flow => n.op = "ON" /\ m.op = "OFF"
    <3>1. m.flow = n.flow /\ m.op = n.op => m = n
      BY <1>1, LinesAre
    <3>2. QED
      BY <1>1, <1>6, <1>7, <3>1
  <2>3. QED
    BY <1>1, <2>1, <2>2 DEF Sooner
<1>8. n \in NextLines /\ n.at <= l.at
  BY <1>3, <1>6, <1>7 DEF NextLines
<1>9. QED
  BY <1>8

(* Firing the next line.                                                   *)
LEMMA PlayedStep ==
  ASSUME ScriptPlayed, [Next]_vars
  PROVE  ScriptPlayed'
<1>1. now' \in Nat /\ now <= now' /\ scenario' = scenario
  <2>1. now' = now \/ now' = now + 1
    BY DEF Next, Tick, Player, Signal, Mgen, Uplink, Interceptor, Operator, Fault, vars
  <2>2. now \in Nat
    BY DEF ScriptPlayed
  <2>3. scenario' = scenario
    BY StepParts DEF PlayLine, script
  <2>4. QED
    BY <2>1, <2>2, <2>3
<1>2. /\ Flows' = Flows /\ Lines' = Lines
      /\ \A i, op : Line(i, op)' = Line(i, op)
  BY <1>1 DEF Flows, Lines, Line, Start, Stop
<1>3. \A l, m : Sooner(m, l)' = Sooner(m, l)
  BY DEF Sooner
<1>4. ASSUME NEW l, l.at \in Nat, l.at <= now
      PROVE  l.at <= now'
  BY <1>1, <1>4 DEF ScriptPlayed
<1>5. \A l \in fired : l.at \in Nat
  BY LinesAre DEF ScriptPlayed
<1>6. CASE UNCHANGED script
  <2>1. fired' = fired /\ on' = on
    BY <1>6 DEF script
  <2>2. \A l \in fired' : l.at <= now'
    BY <1>4, <1>5, <2>1 DEF ScriptPlayed
  <2>3. on' = {i \in Flows : Line(i, "ON") \in fired' /\ Line(i, "OFF") \notin fired'}
    BY <2>1 DEF ScriptPlayed
  <2>4. \A l \in fired', m \in Lines : Sooner(m, l) => m \in fired'
    BY <2>1 DEF ScriptPlayed
  <2>5. QED
    BY <1>1, <1>2, <1>3, <2>1, <2>2, <2>3, <2>4 DEF ScriptPlayed
<1>7. CASE PlayLine
  <2>1. PICK l \in NextLines :
          /\ l.at <= now /\ fired' = fired \cup {l}
          /\ on' = IF l.op = "ON" THEN on \cup {l.flow} ELSE on \ {l.flow}
    BY <1>7 DEF PlayLine
  <2>2. /\ l \in Lines /\ l \notin fired
        /\ \A m \in Lines \ fired : m = l \/ Sooner(l, m)
    BY <2>1 DEF NextLines
  <2>3. /\ l.flow \in InTime /\ l.flow \in Flows /\ l.op \in {"ON", "OFF"} /\ l.at \in Nat
        /\ l = Line(l.flow, l.op)
    BY <2>2, LinesAre DEF ScriptPlayed, InTime
  <2>4. \A x \in fired' : x.at <= now'
    BY <1>4, <1>5, <2>1, <2>3 DEF ScriptPlayed
  <2>5. ASSUME NEW x \in fired', NEW m \in Lines, Sooner(m, x)
        PROVE  m \in fired'
    <3>1. CASE x \in fired
      BY <2>1, <2>5, <3>1 DEF ScriptPlayed
    <3>2. CASE x = l
      <4>1. m \in Lines \ fired => m = l \/ ~Sooner(m, l)
        BY <2>2, LineSooner DEF ScriptPlayed
      <4>2. QED
        BY <2>1, <2>2, <2>5, <3>2, <4>1
    <3>3. QED
      BY <2>1, <3>1, <3>2
  <2>6. \A i, j \in Flows, o, p \in {"ON", "OFF"} : Line(i, o) = Line(j, p) => i = j /\ o = p
    BY DEF Line
  <2>7. ASSUME NEW i \in Flows
        PROVE  i \in on' <=> Line(i, "ON") \in fired' /\ Line(i, "OFF") \notin fired'
    <3>0. i \in on <=> Line(i, "ON") \in fired /\ Line(i, "OFF") \notin fired
      BY DEF ScriptPlayed
    <3>1. CASE i # l.flow
      <4>1. Line(i, "ON") # l /\ Line(i, "OFF") # l
        BY <2>3, <2>6, <3>1
      <4>2. QED
        BY <2>1, <3>0, <3>1, <4>1
    <3>2. CASE i = l.flow /\ l.op = "OFF"
      BY <2>1, <2>3, <3>2
    <3>3. CASE i = l.flow /\ l.op = "ON"
      <4>1. PICK m : m = Line(i, "OFF")
        OBVIOUS
      <4>2. m \in Lines /\ m.flow = l.flow /\ m.op = "OFF" /\ m # l
        BY <2>3, <3>3, <4>1, LinesAre DEF ScriptPlayed, Line
      <4>3. Sooner(l, m)
        BY <2>2, <3>3, <4>2, LineSooner DEF ScriptPlayed
      <4>4. m \notin fired
        BY <2>2, <4>3 DEF ScriptPlayed
      <4>5. l \in fired' /\ m \notin fired' /\ i \in on'
        BY <2>1, <3>3, <4>2, <4>4
      <4>6. QED
        BY <2>3, <3>3, <4>1, <4>5
    <3>4. QED
      BY <2>3, <3>1, <3>2, <3>3
  <2>8. on' \subseteq Flows
    BY <2>1, <2>3 DEF ScriptPlayed
  <2>9. on' = {i \in Flows : Line(i, "ON") \in fired' /\ Line(i, "OFF") \notin fired'}
    BY <2>7, <2>8
  <2>10. QED
    BY <1>1, <1>2, <1>3, <2>1, <2>2, <2>4, <2>5, <2>9 DEF ScriptPlayed
<1>8. QED
  BY <1>6, <1>7, StepParts

(* Once no line is due, the flows that are on are those of the scenario.   *)
LEMMA OnAsPlanned ==
  ASSUME ScriptPlayed, ~LineDue
  PROVE  on = IF now < scenario.duration THEN {i \in Flows : OnAt(i, now)} ELSE {}
<1>1. \A l \in Lines : l.at \in Nat /\ (l \in fired <=> l.at <= now)
  <2> TAKE l \in Lines
  <2>1. l.at \in Nat /\ now \in Nat
    BY LinesAre DEF ScriptPlayed
  <2>2. ASSUME l \notin fired, l.at <= now
        PROVE  FALSE
    <3>1. PICK n \in NextLines : n.at <= l.at
      BY <2>2, NextLineExists DEF ScriptPlayed
    <3>2. n.at \in Nat
      BY <3>1, LinesAre DEF ScriptPlayed, NextLines
    <3>3. n.at <= now
      BY <2>1, <2>2, <3>1, <3>2
    <3>4. QED
      BY <3>1, <3>3 DEF LineDue
  <2>3. QED
    BY <2>1, <2>2 DEF ScriptPlayed
<1>2. ASSUME NEW i \in InTime
      PROVE  i \in on <=> Start(i) <= now /\ ~(Stop(i) <= now)
  <2>1. /\ Line(i, "ON") \in Lines /\ Line(i, "ON").at = Start(i)
        /\ Line(i, "OFF") \in Lines /\ Line(i, "OFF").at = Stop(i)
    BY LinesAre DEF ScriptPlayed, Line
  <2>2. i \in Flows
    BY DEF InTime
  <2>3. QED
    BY <1>1, <2>1, <2>2 DEF ScriptPlayed
<1>3. ASSUME NEW i \in on
      PROVE  i \in InTime /\ i \in Flows
  <2>1. i \in Flows /\ Line(i, "ON") \in Lines
    BY DEF ScriptPlayed
  <2>2. Line(i, "ON").flow \in InTime /\ Line(i, "ON").flow = i
    BY <2>1, LinesAre DEF ScriptPlayed, Line
  <2>3. QED
    BY <2>1, <2>2
<1>4. ASSUME NEW i \in Flows
      PROVE  i \in on <=> now < scenario.duration /\ OnAt(i, now)
  <2>1. PICK b \in Int, e \in Int, d \in Nat, t \in Nat :
          /\ b = scenario.flows[i].start /\ e = scenario.flows[i].stop
          /\ d = scenario.duration /\ t = now
    BY LineShape DEF FlowSpec, ScriptPlayed
  <2>2. Start(i) = IF b < 0 THEN 0 ELSE b
    BY <2>1 DEF Start
  <2>3. Stop(i) = IF e = NoStop \/ e > d THEN d ELSE e
    BY <2>1 DEF Stop
  <2>4. OnAt(i, now) <=> b <= t /\ (e = NoStop \/ t < e)
    BY <2>1 DEF OnAt
  <2>5. CASE Start(i) < d
    <3>1. i \in InTime
      BY <2>1, <2>5 DEF InTime
    <3>2. i \in on <=> Start(i) <= t /\ ~(Stop(i) <= t)
      BY <1>2, <2>1, <3>1
    <3>3. QED
      BY <2>1, <2>2, <2>3, <2>4, <2>5, <3>2 DEF NoStop
  <2>6. CASE ~(Start(i) < d)
    <3>1. i \notin on
      BY <1>3, <2>1, <2>6 DEF InTime
    <3>2. QED
      BY <2>1, <2>2, <2>4, <2>6, <3>1
  <2>7. QED
    BY <2>5, <2>6
<1>5. on \subseteq Flows
  BY DEF ScriptPlayed
<1>6. QED
  BY <1>4, <1>5

(* A table of numbers has a greatest one.                                  *)
LEMMA GreatestEntry ==
  ASSUME NEW N \in Nat, NEW g, \A t \in 0..N : g[t] \in Int
  PROVE  \E m \in 0..N : \A t \in 0..N : g[t] <= g[m]
<1> DEFINE Tops(n) == \E m \in 0..n : \A t \in 0..n : g[t] <= g[m]
           Bad == {n \in 0..N : ~Tops(n)}
<1>1. SUFFICES ASSUME Bad # {} PROVE FALSE
  OBVIOUS
<1>2. PICK n \in Bad : \A k \in Bad : n <= k
  <2>1. Bad \in SUBSET Nat
    OBVIOUS
  <2> HIDE DEF Bad
  <2>2. QED
    BY <1>1, <2>1, LeastNatural
<1>3. n \in Nat /\ n <= N /\ ~Tops(n)
  OBVIOUS
<1>4. n # 0
  BY <1>3
<1>5. Tops(n - 1)
  <2>1. n - 1 \in 0..N /\ ~(n <= n - 1)
    BY <1>3, <1>4
  <2>2. n - 1 \notin Bad
    BY <1>2, <2>1
  <2> HIDE DEF Tops
  <2>3. QED
    BY <2>1, <2>2
<1>6. PICK m \in 0..(n - 1) : \A t \in 0..(n - 1) : g[t] <= g[m]
  BY <1>5
<1>7. \A t \in 0..n : g[t] \in Int /\ (t \in 0..(n - 1) \/ t = n)
  BY <1>3
<1>8. m \in 0..n /\ n \in 0..n
  BY <1>3
<1>9. CASE g[n] <= g[m]
  BY <1>3, <1>6, <1>7, <1>8, <1>9
<1>10. CASE ~(g[n] <= g[m])
  <2>1. \A t \in 0..n : g[t] <= g[n]
    BY <1>6, <1>7, <1>8, <1>10
  <2>2. QED
    BY <1>3, <1>8, <2>1
<1>11. QED
  BY <1>9, <1>10

(* The load announced is one of the scenario's, and no less than any.      *)
LEMMA PeakIsPeak ==
  ASSUME scenario \in Scenarios
  PROVE  /\ \A t \in 0..scenario.duration :
              /\ OfferedBy({i \in Flows : OnAt(i, t)}) \in Nat
              /\ OfferedBy({i \in Flows : OnAt(i, t)}) <= PeakOffered
         /\ OfferedBy({}) = 0 /\ PeakOffered \in Nat
<1> DEFINE N == scenario.duration
           Set(t) == {i \in Flows : OnAt(i, t)}
           g == [t \in 0..N |-> OfferedBy(Set(t))]
           All == {OfferedBy(Set(t)) : t \in 0..N}
<1>1. N \in Nat /\ Flows = 1..Len(scenario.flows) /\ Len(scenario.flows) \in Nat
  BY LineShape
<1>2. \A S : OfferedBy(S) = SumOf(Rate, S)
  BY Zenon DEF OfferedBy, SumOf
<1>3. IsFiniteSet(Flows) /\ \A i \in Flows : Rate[i] \in Nat
  <2>1. IsFiniteSet(Flows)
    BY <1>1, FS_Interval
  <2>2. \A i \in Flows : scenario.flows[i].rate \in Nat
    BY LineShape DEF FlowSpec
  <2>3. QED
    BY <2>1, <2>2 DEF Rate
<1>4. \A S \in SUBSET Flows : OfferedBy(S) \in Nat
  BY <1>2, <1>3, SumNatural
<1>5. \A t \in 0..N : g[t] = OfferedBy(Set(t)) /\ g[t] \in Nat /\ g[t] \in Int
  BY <1>4
<1>6. PICK m \in 0..N : \A t \in 0..N : g[t] <= g[m]
  <2>1. \A t \in 0..N : g[t] \in Int
    BY <1>5
  <2> HIDE DEF g, N
  <2>2. QED
    BY <1>1, <2>1, GreatestEntry
<1>7. g[m] \in All /\ \A y \in All : g[m] >= y /\ y \in Nat
  BY <1>5, <1>6
<1>8. PeakOffered \in All /\ \A y \in All : PeakOffered >= y
  BY <1>7 DEF PeakOffered, Max
<1>9. OfferedBy({}) = 0
  BY <1>2, SumEmpty
<1>10. QED
  BY <1>4, <1>7, <1>8, <1>9

(* Whatever the scenario, the flows that are on between two lines are the  *)
(* scenario's, their load is below the peak gen_mgen announces, and none   *)
(* is on after the run (traffic_model.py:164, gen_mgen.py:66, 82).         *)
THEOREM OfferedAsPlannedInvariant == Spec => []OfferedAsPlanned
<1>1. Init => ScriptPlayed
  BY DEF Init, ScriptInit, ScriptPlayed
<1>2. ScriptPlayed /\ [Next]_vars => ScriptPlayed'
  BY PlayedStep
<1>3. ScriptPlayed => OfferedAsPlanned
  <2> SUFFICES ASSUME ScriptPlayed, ~LineDue
               PROVE  /\ OfferedBy(on) <= PeakOffered
                      /\ now < scenario.duration =>
                           OfferedBy(on) = OfferedBy({i \in Flows : OnAt(i, now)})
                      /\ now >= scenario.duration => on = {}
    BY DEF OfferedAsPlanned
  <2>1. now \in Nat /\ scenario.duration \in Nat /\ scenario \in Scenarios
    BY LineShape DEF ScriptPlayed
  <2>2. CASE now < scenario.duration
    <3>1. on = {i \in Flows : OnAt(i, now)} /\ now \in 0..scenario.duration
      BY <2>1, <2>2, OnAsPlanned
    <3>2. OfferedBy({i \in Flows : OnAt(i, now)}) <= PeakOffered
      BY <2>1, <3>1, PeakIsPeak
    <3>3. QED
      BY <2>1, <2>2, <3>1, <3>2
  <2>3. CASE ~(now < scenario.duration)
    <3>1. on = {}
      BY <2>3, OnAsPlanned
    <3>2. OfferedBy({}) <= PeakOffered
      BY <2>1, PeakIsPeak
    <3>3. QED
      BY <2>1, <2>3, <3>1, <3>2
  <2>4. QED
    BY <2>2, <2>3
<1>4. QED
  BY <1>1, <1>2, <1>3, PTL DEF Spec

-----------------------------------------------------------------------------
(* The channel: on the first pass the player is never more than Late after *)
(* the time of the snapshot it waits for, and has applied the one before;  *)
(* a later pass begins when the times of the first are over.               *)
Applied(k) == dl = Levels(k) /\ (broker.uplink => ul = Levels(k))

Holding == player = "hold" /\ now <= broker.delay + Late
FirstPass ==
  /\ player = "wait" /\ snap \in 1..Len(trace)
  /\ t0 \in broker.delay..(broker.delay + Late)
  /\ now <= t0 + Target(snap) + Late
  /\ snap > 1 => t0 + Target(snap - 1) <= now /\ Applied(snap - 1)
LaterPass ==
  /\ player = "wait" /\ broker.loop /\ snap \in 1..Len(trace)
  /\ t0 \in Nat /\ broker.delay + Target(Len(trace)) <= t0 /\ t0 <= now
PassOver ==
  /\ player = "held" /\ ~broker.loop /\ Applied(Len(trace))
  /\ broker.delay + Target(Len(trace)) <= now

ChannelPlayed ==
  /\ trace \in Traces /\ broker \in Brokers /\ now \in Nat /\ stopping \in BOOLEAN
  /\ stopping \/ Holding \/ FirstPass \/ LaterPass \/ PassOver

LEMMA TargetTimes ==
  ASSUME trace \in Traces, broker \in Brokers
  PROVE  /\ broker.speedup \in Nat \ {0} /\ broker.delay \in Nat /\ broker.loop \in BOOLEAN
         /\ broker.uplink \in BOOLEAN
         /\ Len(trace) \in Nat \ {0} /\ DOMAIN trace = 1..Len(trace)
         /\ \A k \in 1..Len(trace) : /\ Target(k) \in Nat /\ Since(k) \in Nat
                                    /\ Since(k) = broker.speedup * Target(k)
         /\ Target(1) = 0
         /\ \A j, k \in 1..Len(trace) : j <= k => Target(j) <= Target(k) /\ Since(j) <= Since(k)
<1>1. trace \in Seq(Snapshot) /\ trace # <<>> /\ broker \in Broker
  BY PlayerAssumption
<1>2. broker.speedup \in Nat \ {0} /\ broker.delay \in Nat /\ broker.loop \in BOOLEAN
      /\ broker.uplink \in BOOLEAN
  BY <1>1 DEF Broker
<1>3. Len(trace) \in Nat \ {0} /\ DOMAIN trace = 1..Len(trace)
  BY <1>1, LenProperties, EmptySeq
<1>4. \A k \in 1..Len(trace) : trace[k].t \in Int
  <2>1. \A k \in 1..Len(trace) : trace[k] \in Snapshot
    BY <1>1, ElementOfSeq
  <2>2. QED
    BY <2>1 DEF Snapshot
<1>5. \A j, k \in 1..Len(trace) :
        /\ j <= k => trace[j].t <= trace[k].t
        /\ (trace[k].t - trace[1].t) % broker.speedup = 0
  BY <1>3, TracesAssumption
<1>6. \A k \in 1..Len(trace) : Since(k) \in Nat /\ Since(k) % broker.speedup = 0
  BY <1>3, <1>4, <1>5 DEF Since
<1>7. \A j, k \in 1..Len(trace) : j <= k => Since(j) <= Since(k)
  BY <1>3, <1>4, <1>5 DEF Since
<1>8. \A n \in Nat, s \in Nat \ {0} : n % s = 0 => n \div s \in Nat /\ n = s * (n \div s)
  OBVIOUS
<1>9. \A k \in 1..Len(trace) : Target(k) \in Nat /\ Since(k) = broker.speedup * Target(k)
  BY <1>2, <1>6, <1>8 DEF Target, Since
<1>10. \A m, n \in Nat, s \in Nat \ {0} : s * m <= s * n => m <= n
  OBVIOUS
<1>11. \A j, k \in 1..Len(trace) : j <= k => Target(j) <= Target(k)
  BY <1>2, <1>7, <1>9, <1>10
<1>12. Target(1) = 0
  BY <1>2, <1>3, <1>4 DEF Target
<1>13. QED
  BY <1>2, <1>3, <1>6, <1>7, <1>9, <1>11, <1>12

LEMMA PlayedStepChannel ==
  ASSUME ChannelPlayed, [Next]_vars
  PROVE  ChannelPlayed'
<1>0. /\ trace \in Traces /\ broker \in Brokers /\ now \in Nat /\ Late \in Nat
      /\ broker.delay \in Nat /\ Len(trace) \in Nat \ {0}
      /\ \A k \in 1..Len(trace) : Target(k) \in Nat
      /\ Target(1) = 0 /\ 1 \in 1..Len(trace) /\ Len(trace) \in 1..Len(trace)
      /\ \A j, k \in 1..Len(trace) : j <= k => Target(j) <= Target(k)
  BY TargetTimes, ClockAssumption DEF ChannelPlayed
<1>1. trace' = trace /\ broker' = broker
  BY StepParts DEF PlayerStep, BeginTrace, Apply, StopChannel, channel
<1>2. (\A k : Target(k)' = Target(k)) /\ (\A k : Levels(k)' = Levels(k))
  BY <1>1 DEF Target, Levels
<1>3. stopping' \in BOOLEAN /\ (stopping => stopping')
  BY StepParts DEF PlayerStep, BeginTrace, Apply, StopChannel, channel, ChannelPlayed
<1>4. (now' = now \/ now' = now + 1) /\ now' \in Nat
  BY <1>0 DEF Next, Tick, Player, Signal, Mgen, Uplink, Interceptor, Operator, Fault, vars
<1>5. SUFFICES ASSUME ~stopping, ~stopping'
               PROVE  (Holding \/ FirstPass \/ LaterPass \/ PassOver)'
  BY <1>0, <1>1, <1>3, <1>4 DEF ChannelPlayed
<1>6. Holding \/ FirstPass \/ LaterPass \/ PassOver
  BY <1>5 DEF ChannelPlayed
(* Time passes only up to Late after the time waited for.                  *)
<1>7. CASE UNCHANGED channel
  <2>1. UNCHANGED <<player, snap, t0, dl, ul>>
    BY <1>7 DEF channel
  <2>2. now' = now \/ (now' = now + 1 /\ ~PlayerOverdue)
    BY DEF Next, Tick, Player, Signal, Mgen, Uplink, Interceptor, Operator, Fault, vars
  <2>3. ~PlayerOverdue /\ player = "hold" => now < broker.delay + Late
    BY <1>0 DEF PlayerOverdue, Due
  <2>4. ~PlayerOverdue /\ FirstPass => now < t0 + Target(snap) + Late
    BY <1>0 DEF PlayerOverdue, Due, FirstPass
  <2>5. CASE Holding
    BY <1>0, <1>1, <2>1, <2>2, <2>3, <2>5 DEF Holding
  <2>6. CASE FirstPass
    <3>1. now' <= t0 + Target(snap) + Late
      BY <1>0, <2>2, <2>4, <2>6 DEF FirstPass
    <3>2. snap > 1 => t0 + Target(snap - 1) <= now'
      <4>1. snap > 1 => snap - 1 \in 1..Len(trace) /\ t0 + Target(snap - 1) <= now
        BY <1>0, <2>6 DEF FirstPass
      <4>2. t0 \in Nat
        BY <1>0, <2>6 DEF FirstPass
      <4>3. QED
        BY <1>0, <1>4, <4>1, <4>2
    <3>3. FirstPass'
      BY <1>1, <1>2, <2>1, <2>6, <3>1, <3>2 DEF FirstPass, Applied, Target, Levels
    <3>4. QED
      BY <3>3
  <2>7. CASE LaterPass
    <3>1. t0 <= now'
      BY <1>0, <1>4, <2>7 DEF LaterPass
    <3>2. LaterPass'
      BY <1>1, <1>2, <2>1, <2>7, <3>1 DEF LaterPass, Target
    <3>3. QED
      BY <3>2
  <2>8. CASE PassOver
    <3>1. broker.delay + Target(Len(trace)) <= now'
      BY <1>0, <1>4, <2>8 DEF PassOver
    <3>2. PassOver'
      BY <1>1, <1>2, <2>1, <2>8, <3>1 DEF PassOver, Applied, Target, Levels
    <3>3. QED
      BY <3>2
  <2>9. QED
    BY <1>6, <2>5, <2>6, <2>7, <2>8
<1>8. CASE ~UNCHANGED channel
  <2>1. PlayerStep /\ now' = now
    BY <1>5, <1>8 DEF Next, Tick, Player, Signal, Mgen, Uplink, Interceptor, Operator, Fault,
       vars, StopChannel
  <2>2. CASE BeginTrace
    <3>1. /\ player = "hold" /\ now >= broker.delay /\ player' = "wait"
          /\ snap' = 1 /\ t0' = now
      BY <1>5, <2>2 DEF BeginTrace, Awake, Due
    <3>2. now <= broker.delay + Late
      BY <1>6, <3>1 DEF Holding, FirstPass, LaterPass, PassOver
    <3>3. FirstPass'
      BY <1>0, <1>1, <1>2, <2>1, <3>1, <3>2 DEF FirstPass
    <3>4. QED
      BY <3>3
  <2>3. CASE Apply
    <3>1. /\ player = "wait" /\ now >= t0 + Target(snap)
          /\ dl' = Levels(snap) /\ ul' = IF broker.uplink THEN Levels(snap) ELSE ul
          /\ IF snap < Len(trace)
               THEN snap' = snap + 1 /\ player' = "wait" /\ t0' = t0
               ELSE snap' = 1 /\ t0' = now /\ player' = IF ~broker.loop THEN "held" ELSE "wait"
      BY <1>5, <2>3 DEF Apply, Awake, Due
    <3>2. FirstPass \/ LaterPass
      BY <1>6, <3>1 DEF Holding, PassOver
    <3>3. snap \in 1..Len(trace) /\ t0 \in Nat
      BY <1>0, <3>2 DEF FirstPass, LaterPass
    <3>4. CASE snap < Len(trace)
      <4>1. snap + 1 \in 1..Len(trace) /\ Target(snap) <= Target(snap + 1) /\ (snap + 1) - 1 = snap
        BY <1>0, <3>3, <3>4
      <4>2. CASE FirstPass
        <5>1. now <= t0 + Target(snap + 1) + Late
          BY <1>0, <3>3, <4>1, <4>2 DEF FirstPass
        <5>2. FirstPass'
          BY <1>0, <1>1, <1>2, <2>1, <3>1, <3>3, <3>4, <4>1, <4>2, <5>1
             DEF FirstPass, Applied, Target, Levels
        <5>3. QED
          BY <5>2
      <4>3. CASE LaterPass
        <5>1. LaterPass'
          BY <1>1, <1>2, <2>1, <3>1, <3>4, <4>1, <4>3 DEF LaterPass, Target
        <5>2. QED
          BY <5>1
      <4>4. QED
        BY <3>2, <4>2, <4>3
    <3>5. CASE ~(snap < Len(trace))
      <4>1. snap = Len(trace)
        BY <1>0, <3>3, <3>5
      <4>2. broker.delay <= t0 /\ broker.delay + Target(Len(trace)) <= now
        BY <1>0, <3>1, <3>2, <3>3, <4>1 DEF FirstPass, LaterPass
      <4>3. CASE broker.loop
        <5>1. LaterPass'
          BY <1>0, <1>1, <1>2, <2>1, <3>1, <3>5, <4>2, <4>3 DEF LaterPass, Target
        <5>2. QED
          BY <5>1
      <4>4. CASE ~broker.loop
        <5>1. PassOver'
          BY <1>0, <1>1, <1>2, <2>1, <3>1, <3>5, <4>1, <4>2, <4>4
             DEF PassOver, Applied, Target, Levels
        <5>2. QED
          BY <5>1
      <4>5. QED
        BY <4>3, <4>4
    <3>6. QED
      BY <3>4, <3>5
  <2>4. QED
    BY <2>1, <2>2, <2>3 DEF PlayerStep
<1>9. QED
  BY <1>7, <1>8

(* While the broker runs, the loss of every UE is that of the snapshot of  *)
(* the hour, in each direction the broker drives, whatever the trace, the  *)
(* speed, the start delay and the wake-ups within Late                     *)
(* (grc_lunar.py:111-140).                                                 *)
THEOREM ChannelFollowsInvariant == Spec => []ChannelFollows
<1>1. Init => ChannelPlayed
  <2> SUFFICES ASSUME Init PROVE ChannelPlayed
    OBVIOUS
  <2>1. trace \in Traces /\ broker \in Brokers /\ now = 0 /\ stopping = FALSE /\ player = "hold"
    BY DEF Init, ChannelInit
  <2>2. broker.delay \in Nat /\ Late \in Nat
    BY <2>1, TargetTimes, ClockAssumption
  <2>3. now <= broker.delay + Late
    BY <2>1, <2>2
  <2>4. QED
    BY <2>1, <2>3 DEF ChannelPlayed, Holding
<1>2. ChannelPlayed /\ [Next]_vars => ChannelPlayed'
  BY PlayedStepChannel
<1>3. ChannelPlayed => ChannelFollows
  <2> SUFFICES ASSUME ChannelPlayed, ~stopping, NEW k \in DOMAIN trace, NEW u \in UE,
                      Holds(k, now)
               PROVE  LET loss == IF u \in trace[k].outage THEN Dark ELSE trace[k].pl[u]
                      IN  dl[u] = loss /\ (broker.uplink => ul[u] = loss)
    BY DEF ChannelFollows
  <2>0. /\ Late \in Nat /\ now \in Nat /\ broker.delay \in Nat /\ Len(trace) \in Nat \ {0}
        /\ k \in 1..Len(trace) /\ broker.speedup \in Nat \ {0}
        /\ \A i \in 1..Len(trace) : Target(i) \in Nat
        /\ \A i, j \in 1..Len(trace) : i <= j => Target(i) <= Target(j)
    BY TargetTimes, ClockAssumption DEF ChannelPlayed
  <2>1. \A a, b \in Int : broker.speedup * a < broker.speedup * b => a < b
    <3>1. \A s \in Nat \ {0}, a, b \in Int : s * a < s * b => a < b
      OBVIOUS
    <3>2. QED
      BY <2>0, <3>1
  <2>2. /\ Target(k) < now - broker.delay - 2 * Late
        /\ k # Len(trace) => now - broker.delay < Target(k + 1) /\ k + 1 \in 1..Len(trace)
        /\ k = Len(trace) => ~broker.loop
    <3>0. \A i \in 1..Len(trace) : Since(i) = broker.speedup * Target(i)
      BY TargetTimes DEF ChannelPlayed
    <3>1. PICK x \in Int : x = now - broker.delay - 2 * Late
      BY <2>0
    <3>2. Target(k) < x
      <4>1. broker.speedup * Target(k) < broker.speedup * x
        BY <2>0, <3>0, <3>1 DEF Holds
      <4>2. QED
        BY <2>0, <2>1, <4>1
    <3>3. ASSUME k # Len(trace)
          PROVE  now - broker.delay < Target(k + 1) /\ k + 1 \in 1..Len(trace)
      <4>1. k + 1 \in 1..Len(trace)
        BY <2>0, <3>3
      <4>2. PICK y \in Int : y = now - broker.delay
        BY <2>0
      <4>3. broker.speedup * y < broker.speedup * Target(k + 1)
        BY <2>0, <3>0, <3>3, <4>1, <4>2 DEF Holds
      <4>4. y < Target(k + 1)
        BY <2>0, <2>1, <4>1, <4>3
      <4>5. QED
        BY <4>1, <4>2, <4>4
    <3>4. QED
      BY <3>1, <3>2, <3>3 DEF Holds
  <2>3. ASSUME NEW m \in 1..Len(trace), Target(m) <= now - broker.delay, k < m
        PROVE  FALSE
    <3>1. k # Len(trace) /\ k + 1 <= m /\ k + 1 \in 1..Len(trace)
      BY <2>0, <2>3
    <3>2. now - broker.delay < Target(k + 1) /\ Target(k + 1) <= Target(m)
      BY <2>0, <2>2, <2>3, <3>1
    <3>3. Target(k + 1) \in Nat /\ Target(m) \in Nat
      BY <2>0, <2>3, <3>1
    <3>4. QED
      BY <2>0, <2>3, <3>2, <3>3
  <2>4. Applied(k)
    <3>0. Target(k) \in Nat /\ Len(trace) \in 1..Len(trace) /\ Target(Len(trace)) \in Nat
      BY <2>0
    <3>1. CASE Holding
      BY <2>0, <2>2, <3>0, <3>1 DEF Holding
    <3>2. CASE FirstPass
      <4>0. /\ snap \in 1..Len(trace) /\ t0 \in Nat /\ t0 <= broker.delay + Late
            /\ broker.delay <= t0 /\ now <= t0 + Target(snap) + Late /\ Target(snap) \in Nat
        BY <2>0, <3>2 DEF FirstPass
      <4>1. Target(k) < Target(snap)
        <5>1. PICK a \in Nat, b \in Nat, d \in Nat, l \in Nat, n \in Nat :
                a = Target(k) /\ b = Target(snap) /\ d = broker.delay /\ l = Late /\ n = now
          BY <2>0, <3>0, <4>0
        <5>2. a < n - d - 2 * l /\ n <= t0 + b + l /\ t0 <= d + l
          BY <2>2, <4>0, <5>1
        <5>3. a < b
          BY <4>0, <5>2
        <5>4. QED
          BY <5>1, <5>3
      <4>2. k < snap /\ snap > 1 /\ snap - 1 \in 1..Len(trace)
        BY <2>0, <3>0, <4>0, <4>1
      <4>3. t0 + Target(snap - 1) <= now /\ Applied(snap - 1) /\ Target(snap - 1) \in Nat
        BY <2>0, <3>2, <4>2 DEF FirstPass
      <4>4. ~(k < snap - 1)
        <5>1. Target(snap - 1) <= now - broker.delay
          BY <2>0, <4>0, <4>3
        <5>2. QED
          BY <2>3, <4>2, <5>1
      <4>5. k = snap - 1
        BY <2>0, <4>0, <4>2, <4>4
      <4>6. QED
        BY <4>3, <4>5
    <3>3. CASE LaterPass
      <4>1. t0 \in Nat /\ t0 <= now /\ broker.delay + Target(Len(trace)) <= t0 /\ k # Len(trace)
        BY <2>2, <3>3 DEF LaterPass
      <4>2. Target(Len(trace)) <= now - broker.delay /\ k < Len(trace)
        BY <2>0, <3>0, <4>1
      <4>3. QED
        BY <2>3, <3>0, <4>2
    <3>4. CASE PassOver
      <4>1. Target(Len(trace)) <= now - broker.delay
        BY <2>0, <3>0, <3>4 DEF PassOver
      <4>2. ~(k < Len(trace))
        BY <2>3, <3>0, <4>1
      <4>3. k = Len(trace)
        BY <2>0, <4>2
      <4>4. QED
        BY <3>4, <4>3 DEF PassOver
    <3>5. QED
      BY <3>1, <3>2, <3>3, <3>4 DEF ChannelPlayed
  <2>5. QED
    BY <2>4 DEF Applied, Levels
<1>4. QED
  BY <1>1, <1>2, <1>3, PTL DEF Spec

-----------------------------------------------------------------------------
(* The trace of the capture and that of the packets beside it.  The        *)
(* converter's table of records, entry by entry.                           *)
Conv(g, s) == g = [n \in 0..Len(s) |-> IF n = 0 THEN <<>> ELSE Converted(g[n - 1], s[n])]
ConvUpTo(g, s, m) == \A n \in 0..m : g[n] = IF n = 0 THEN <<>> ELSE Converted(g[n - 1], s[n])

LEMMA ConvExists ==
  ASSUME NEW s, Len(s) \in Nat
  PROVE  \E g : Conv(g, s)
<1> DEFINE Bad == {m \in Nat : ~\E g : ConvUpTo(g, s, m)}
<1>1. ASSUME NEW m \in Nat, NEW g, ConvUpTo(g, s, m)
      PROVE  \E h : ConvUpTo(h, s, m + 1)
  <2> DEFINE h == [n \in 0..(m + 1) |-> IF n = m + 1 THEN Converted(g[m], s[m + 1]) ELSE g[n]]
  <2>1. \A n \in 0..m : h[n] = g[n]
    BY <1>1
  <2>2. h[m + 1] = Converted(g[m], s[m + 1])
    BY <1>1
  <2> HIDE DEF h
  <2>3. \A n \in 0..(m + 1) : n \in 0..m \/ n = m + 1
    BY <1>1
  <2>4. ASSUME NEW n \in 0..(m + 1)
        PROVE  h[n] = IF n = 0 THEN <<>> ELSE Converted(h[n - 1], s[n])
    <3>1. CASE n \in 0..m
      <4>1. h[n] = g[n] /\ g[n] = IF n = 0 THEN <<>> ELSE Converted(g[n - 1], s[n])
        BY <1>1, <2>1, <3>1 DEF ConvUpTo
      <4>2. n # 0 => h[n - 1] = g[n - 1]
        BY <1>1, <2>1, <3>1
      <4>3. QED
        BY <4>1, <4>2
    <3>2. CASE n = m + 1
      <4>1. n # 0 /\ n - 1 = m /\ h[m] = g[m]
        BY <1>1, <2>1, <3>2
      <4>2. QED
        BY <2>2, <3>2, <4>1
    <3>3. QED
      BY <2>3, <3>1, <3>2
  <2>5. QED
    BY <2>4 DEF ConvUpTo
<1>2. Bad = {}
  <2>1. SUFFICES ASSUME Bad # {} PROVE FALSE
    OBVIOUS
  <2>2. PICK m \in Bad : \A n \in Bad : m <= n
    BY <2>1, LeastNatural
  <2>3. CASE m = 0
    <3>1. ConvUpTo([n \in {0} |-> <<>>], s, 0)
      BY DEF ConvUpTo
    <3>2. QED
      BY <2>2, <2>3, <3>1
  <2>4. CASE m # 0
    <3>1. m - 1 \in Nat /\ ~(m <= m - 1) /\ (m - 1) + 1 = m
      BY <2>2, <2>4
    <3>2. \E g : ConvUpTo(g, s, m - 1)
      BY <2>2, <3>1
    <3>3. QED
      BY <1>1, <2>2, <3>1, <3>2
  <2>5. QED
    BY <2>3, <2>4
<1>3. PICK g : ConvUpTo(g, s, Len(s))
  BY <1>2
<1> DEFINE h == [n \in 0..Len(s) |-> g[n]]
<1>4. \A n \in 0..Len(s) : h[n] = g[n] /\ (n # 0 => n - 1 \in 0..Len(s) /\ h[n - 1] = g[n - 1])
  OBVIOUS
<1>5. \A n \in 0..Len(s) : g[n] = IF n = 0 THEN <<>> ELSE Converted(g[n - 1], s[n])
  BY <1>3 DEF ConvUpTo
<1>6. \A n \in 0..Len(s) : g[n] = IF n = 0 THEN <<>> ELSE Converted(h[n - 1], s[n])
  BY <1>4, <1>5
<1>7. Conv(h, s)
  BY <1>6 DEF Conv
<1>8. QED
  BY <1>7

(* The place of a packet among the IPv4 ones is that of its record.        *)
Ip4(s) == {j \in 1..Len(s) : VersionOf(s[j]) = 4}
Place4(s, k) == Cardinality({j \in Ip4(s) : j <= k})
Record == [id : Nat, flow : Nat, cls : ClassName]

ConvRight(g, s, n) ==
  /\ g[n] \in Seq(Record) /\ Len(g[n]) = Place4(s, n)
  /\ \A k \in Ip4(s) : k <= n =>
       /\ Place4(s, k) \in 1..Len(g[n])
       /\ g[n][Place4(s, k)] = RecordOf(Place4(s, k), s[k])

LEMMA NextPlace ==
  ASSUME NEW s, Len(s) \in Nat, NEW n \in Nat \ {0}, n <= Len(s)
  PROVE  /\ Place4(s, n) \in Nat /\ Place4(s, n - 1) \in Nat
         /\ Place4(s, n) = Place4(s, n - 1) + IF VersionOf(s[n]) = 4 THEN 1 ELSE 0
<1> DEFINE A == {j \in Ip4(s) : j <= n}
           B == {j \in Ip4(s) : j <= n - 1}
<1>1. A \subseteq 1..Len(s) /\ B \subseteq 1..Len(s)
  BY DEF Ip4
<1>2. IsFiniteSet(A) /\ IsFiniteSet(B)
  <2>1. IsFiniteSet(1..Len(s))
    BY FS_Interval
  <2>2. QED
    BY <1>1, <2>1, FS_Subset
<1>3. Cardinality(A) \in Nat /\ Cardinality(B) \in Nat
  BY <1>2, FS_CardinalityType
<1>4. n \notin B /\ \A j \in 1..Len(s) : j <= n <=> j <= n - 1 \/ j = n
  OBVIOUS
<1>5. A = IF VersionOf(s[n]) = 4 THEN B \cup {n} ELSE B
  BY <1>4 DEF Ip4
<1> HIDE DEF A, B
<1>6. Cardinality(A) = Cardinality(B) + IF VersionOf(s[n]) = 4 THEN 1 ELSE 0
  BY <1>2, <1>3, <1>4, <1>5, FS_AddElement
<1>7. QED
  BY <1>3, <1>6 DEF Place4, A, B

LEMMA ConvEntries ==
  ASSUME NEW s \in Seq(PacketSet), NEW g, Conv(g, s)
  PROVE  \A n \in 0..Len(s) : ConvRight(g, s, n)
<1> DEFINE Bad == {n \in 0..Len(s) : ~ConvRight(g, s, n)}
<1>0. Len(s) \in Nat
  BY LenProperties
<1>1. SUFFICES ASSUME Bad # {} PROVE FALSE
  OBVIOUS
<1>2. PICK n \in Bad : \A k \in Bad : n <= k
  <2>1. Bad \in SUBSET Nat
    BY <1>0
  <2> HIDE DEF Bad
  <2>2. QED
    BY <1>1, <2>1, LeastNatural
<1>3. n \in Nat /\ n <= Len(s) /\ n \in 0..Len(s) /\ ~ConvRight(g, s, n)
  BY <1>0
<1>4. g[n] = IF n = 0 THEN <<>> ELSE Converted(g[n - 1], s[n])
  BY <1>3 DEF Conv
<1>5. CASE n = 0
  <2>1. g[n] \in Seq(Record) /\ Len(g[n]) = 0
    BY <1>4, <1>5, EmptySeq
  <2>2. {j \in Ip4(s) : j <= n} = {} /\ \A k \in Ip4(s) : ~(k <= n)
    BY <1>0, <1>5 DEF Ip4
  <2>3. Place4(s, n) = 0
    BY <2>2, FS_EmptySet DEF Place4
  <2>4. QED
    BY <1>3, <2>1, <2>2, <2>3 DEF ConvRight
<1>6. CASE n # 0
  <2>1. n - 1 \in 0..Len(s) /\ ~(n <= n - 1) /\ n \in 1..Len(s) /\ n \in Nat \ {0}
    BY <1>0, <1>3, <1>6
  <2>2. ConvRight(g, s, n - 1)
    BY <1>2, <2>1
  <2>3. PICK q \in Seq(Record) : q = g[n - 1] /\ Len(q) = Place4(s, n - 1)
    BY <2>2 DEF ConvRight
  <2>4. /\ \A k \in Ip4(s) : k <= n - 1 =>
             Place4(s, k) \in 1..Len(q) /\ q[Place4(s, k)] = RecordOf(Place4(s, k), s[k])
        /\ Len(q) \in Nat
    BY <2>2, <2>3, LenProperties DEF ConvRight
  <2>5. \A k \in Ip4(s) : k \in 1..Len(s) /\ (k <= n => k <= n - 1 \/ k = n)
    BY <1>0, <1>3 DEF Ip4
  <2>6. CASE VersionOf(s[n]) # 4
    <3>1. g[n] = q /\ Place4(s, n) = Len(q) /\ n \notin Ip4(s)
      BY <1>0, <1>3, <1>4, <1>6, <2>1, <2>3, <2>6, NextPlace DEF Converted, Ip4
    <3>2. QED
      BY <1>3, <2>3, <2>4, <2>5, <3>1 DEF ConvRight
  <2>7. CASE VersionOf(s[n]) = 4
    <3>1. PICK r : r = RecordOf(Len(q) + 1, s[n])
      OBVIOUS
    <3>2. r \in Record
      <4>1. s[n] \in PacketSet
        BY <2>1, ElementOfSeq
      <4>2. QED
        BY <2>4, <3>1, <4>1 DEF RecordOf, Record, PacketSet, derive_flow_id, Misread,
           classify_packet, ClassName
    <3>3. g[n] = Append(q, r) /\ Place4(s, n) = Len(q) + 1
      BY <1>0, <1>3, <1>4, <1>6, <2>1, <2>3, <2>7, <3>1, NextPlace DEF Converted
    <3>4. /\ g[n] \in Seq(Record) /\ Len(g[n]) = Len(q) + 1 /\ g[n][Len(q) + 1] = r
          /\ \A i \in 1..Len(q) : g[n][i] = q[i]
      BY <2>3, <3>2, <3>3, AppendProperties
    <3>5. ASSUME NEW k \in Ip4(s), k <= n
          PROVE  /\ Place4(s, k) \in 1..Len(g[n])
                 /\ g[n][Place4(s, k)] = RecordOf(Place4(s, k), s[k])
      <4>1. CASE k = n
        BY <2>4, <3>1, <3>3, <3>4, <4>1
      <4>2. CASE k <= n - 1
        BY <2>4, <3>4, <4>2
      <4>3. QED
        BY <2>5, <3>5, <4>1, <4>2
    <3>6. QED
      BY <1>3, <3>3, <3>4, <3>5 DEF ConvRight
  <2>8. QED
    BY <2>6, <2>7
<1>7. QED
  BY <1>5, <1>6

LEMMA ConvertRight ==
  ASSUME CaptureShape
  PROVE  /\ Len(Convert) = Cardinality(Ip4(pcap))
         /\ \A k \in Ip4(pcap) : Convert[Place4(pcap, k)] = RecordOf(Place4(pcap, k), pcap[k])
<1>1. pcap \in Seq(PacketSet) /\ Len(pcap) \in Nat
  BY LenProperties DEF CaptureShape
<1>2. \E g : Conv(g, pcap)
  BY <1>1, ConvExists
<1>3. PICK g : Conv(g, pcap) /\ Convert = g[Len(pcap)]
  <2>1. Convert = (CHOOSE g : Conv(g, pcap))[Len(pcap)]
    BY Zenon DEF Convert, Conv
  <2>2. QED
    BY <1>2, <2>1
<1>4. ConvRight(g, pcap, Len(pcap))
  BY <1>1, <1>3, ConvEntries
<1>5. \A k \in Ip4(pcap) : k <= Len(pcap)
  BY <1>1 DEF Ip4
<1>6. {j \in Ip4(pcap) : j <= Len(pcap)} = Ip4(pcap)
  BY <1>5
<1>7. QED
  BY <1>3, <1>4, <1>5, <1>6 DEF ConvRight, Place4

(* As long as nothing disturbs the one process there is, its file holds a  *)
(* whole line for each packet it took, in order and numbered from 1.       *)
Clean == faults = 0 /\ starts = 1 /\ dropped = {} /\ stage \in {"run", "record", "verdict"}
Taken == IF stage = "record" THEN Len(files[Dir]) + 1 ELSE Len(files[Dir])
LinesComplete(f) ==
  \A k \in 1..Len(f) : f[k].whole /\ f[k].ended /\ f[k].of = k /\ f[k].rec.id = k
QueueComplete ==
  /\ held = IF stage = "run" THEN 0 ELSE Taken
  /\ Len(pcap) = Taken + Len(kernel)
  /\ \A i \in 1..Len(kernel) : kernel[i] = Taken + i
FileComplete ==
  /\ starts = 0 => stage = "down" /\ (dropped = {} => pcap = <<>>)
  /\ Clean => /\ nextId = Len(files[Dir]) + 1
              /\ LinesComplete(files[Dir]) /\ QueueComplete

LEMMA CompleteStep ==
  ASSUME CaptureShape, ScriptShape, FileComplete, [Next]_vars
  PROVE  FileComplete'
<1>0. /\ Len(pcap) \in Nat /\ Len(kernel) \in Nat /\ starts \in Nat /\ faults \in Nat
      /\ starts = 1 => files[Dir] \in Seq(ChunkSet) /\ Len(files[Dir]) \in Nat
  BY DirShape, FileShape, LenProperties DEF CaptureShape
(* Steps that keep the file.                                               *)
<1>1. ASSUME UNCHANGED <<sameDir, starts, seconds, nextId, files>>, Clean' => Clean, starts # 0,
             Clean /\ Clean' /\ QueueComplete => QueueComplete'
      PROVE  FileComplete'
  <2>1. files[Dir]' = files[Dir]
    BY <1>1 DEF Dir, run_dir
  <2>2. LinesComplete(files[Dir])' <=> LinesComplete(files[Dir])
    BY <2>1 DEF LinesComplete
  <2>3. QED
    BY <1>1, <2>1, <2>2 DEF FileComplete
<1>2. CASE ArriveOn
  <2>1. PICK p \in PacketSet : Arrive(p)
    BY <1>2, ArrivalShape DEF ArriveOn
  <2>2. /\ Len(pcap') = Len(pcap) + 1
        /\ UNCHANGED <<sameDir, held, stage, starts, seconds, nextId, files, faults>>
        /\ \/ kernel' = Append(kernel, Len(pcap) + 1) /\ dropped' = dropped /\ stage # "down"
           \/ Len(pcap') \in dropped'
    BY <2>1, ArriveShape DEF Arrive, Bound
  <2>3. CASE Len(pcap') \in dropped'
    BY <2>2, <2>3 DEF FileComplete, Clean
  <2>4. CASE kernel' = Append(kernel, Len(pcap) + 1) /\ dropped' = dropped /\ stage # "down"
    <3>1. PICK r \in Nat : r = Len(pcap) + 1
      BY <1>0
    <3>2. kernel \in Seq(Nat)
      BY <1>0, SeqMonotonic DEF CaptureShape
    <3>3. /\ Len(kernel') = Len(kernel) + 1 /\ kernel'[Len(kernel) + 1] = Len(pcap) + 1
          /\ \A i \in 1..Len(kernel) : kernel'[i] = kernel[i]
      BY <2>4, <3>1, <3>2, AppendProperties
    <3>4. Taken' = Taken
      BY <2>2 DEF Taken, Dir, run_dir
    <3>5. ASSUME Clean, QueueComplete
          PROVE  QueueComplete'
      <4>1. Taken \in Nat /\ Len(pcap) = Taken + Len(kernel)
        BY <1>0, <3>5 DEF Clean, Taken, QueueComplete
      <4>2. \A i \in 1..Len(kernel') : kernel'[i] = Taken + i
        BY <1>0, <3>3, <3>5, <4>1 DEF QueueComplete
      <4>3. held' = IF stage' = "run" THEN 0 ELSE Taken
        BY <2>2, <3>5 DEF QueueComplete
      <4>4. Len(pcap') = Taken + Len(kernel')
        BY <1>0, <2>2, <3>3, <4>1
      <4>5. QED
        BY <3>4, <4>2, <4>3, <4>4 DEF QueueComplete
    <3>6. Clean' => Clean
      BY <2>2, <2>4 DEF Clean
    <3>7. starts # 0
      BY <2>4 DEF FileComplete
    <3>8. QED
      BY <1>1, <2>2, <3>5, <3>6, <3>7
  <2>5. QED
    BY <2>2, <2>3, <2>4
<1>3. CASE StartCapture
  <2>1. /\ stage = "down" /\ stage' = "run" /\ starts' = starts + 1 /\ nextId' = 1
        /\ Dir' \in DOMAIN files'
        /\ \A d \in DOMAIN files' : d \in DOMAIN files \/ files'[d] = <<>>
        /\ UNCHANGED <<sameDir, pcap, kernel, held, dropped, faults>>
    BY <1>3, Started
  <2>2. starts' # 0
    BY <1>0, <2>1
  <2>3. ASSUME Clean'
        PROVE  nextId' = Len(files[Dir])' + 1 /\ LinesComplete(files[Dir])' /\ QueueComplete'
    <3>1. starts = 0 /\ pcap = <<>> /\ held = 0 /\ kernel = <<>>
      BY <1>0, <2>1, <2>3 DEF Clean, FileComplete, CaptureShape
    <3>2. Len(pcap) = 0 /\ Len(kernel) = 0
      BY <3>1, EmptySeq
    <3>3. DOMAIN files = {}
      BY <3>1 DEF CaptureShape, FilesShape
    <3>4. files[Dir]' = <<>>
      BY <2>1, <3>3
    <3>5. Len(files[Dir])' = 0
      BY <3>4, EmptySeq
    <3>6. Taken' = 0
      BY <2>1, <3>5 DEF Taken
    <3>7. LinesComplete(files[Dir])'
      BY <3>5 DEF LinesComplete
    <3>8. QED
      BY <2>1, <3>1, <3>2, <3>5, <3>6, <3>7 DEF QueueComplete
  <2>4. QED
    BY <2>2, <2>3 DEF FileComplete
<1>4. CASE Take
  <2>1. /\ stage = "run" /\ kernel # <<>> /\ stage' = "record"
        /\ held' = Head(kernel) /\ kernel' = Tail(kernel)
        /\ UNCHANGED <<sameDir, pcap, starts, seconds, nextId, files, dropped, faults>>
    BY <1>4 DEF Take
  <2>2. /\ Len(kernel') = Len(kernel) - 1 /\ held' = kernel[1] /\ 1 \in 1..Len(kernel)
        /\ \A i \in 1..Len(kernel') : kernel'[i] = kernel[i + 1] /\ i + 1 \in 1..Len(kernel)
    BY <1>0, <2>1, HeadTailProperties, EmptySeq DEF CaptureShape
  <2>3. ASSUME Clean, QueueComplete
        PROVE  QueueComplete'
    <3>1. Taken = Len(files[Dir]) /\ Taken' = Taken + 1 /\ Taken \in Nat
      BY <1>0, <2>1, <2>3 DEF Taken, Clean, Dir, run_dir
    <3>2. /\ Len(pcap) = Taken + Len(kernel)
          /\ \A i \in 1..Len(kernel) : kernel[i] = Taken + i
      BY <2>3 DEF QueueComplete
    <3>3. \A i \in 1..Len(kernel') : kernel'[i] = Taken' + i
      BY <1>0, <2>2, <3>1, <3>2
    <3>4. held' = Taken' /\ Len(pcap) = Taken' + Len(kernel')
      BY <1>0, <2>2, <3>1, <3>2
    <3>5. QED
      BY <2>1, <3>3, <3>4 DEF QueueComplete
  <2>4. Clean' => Clean
    BY <2>1 DEF Clean
  <2>5. QED
    BY <1>1, <2>1, <2>3, <2>4 DEF FileComplete
<1>5. CASE Write
  <2>1. /\ stage = "record" /\ stage' = "verdict" /\ nextId' = nextId + 1
        /\ AppendText(TRUE, TRUE)
        /\ UNCHANGED <<sameDir, pcap, kernel, held, starts, seconds, dropped, faults>>
    BY <1>5 DEF Write, AfterWrite
  <2>2. starts # 0
    BY <2>1 DEF FileComplete
  <2>3. ASSUME Clean'
        PROVE  nextId' = Len(files[Dir])' + 1 /\ LinesComplete(files[Dir])' /\ QueueComplete'
    <3>1. Clean /\ starts = 1 /\ Dir' = Dir
      BY <2>1, <2>3 DEF Clean, Dir, run_dir
    <3>2. PICK n \in Nat : n = Len(files[Dir])
      BY <1>0, <3>1
    <3>20. PICK w \in BOOLEAN, e \in BOOLEAN : w /\ e /\ AppendText(w, e)
      BY <2>1
    <3>3. PICK c, f, g : /\ c = Chunk(RecordOf(nextId, pcap[held]), w, e)
                         /\ f = files[Dir] /\ g = files'[Dir]
      OBVIOUS
    <3>4. Len(g) = n + 1 /\ g[n + 1] = c /\ \A k \in 1..n : g[k] = f[k]
      <4>1. LET m == Len(files[Dir]) + 1
            IN  /\ Len(files'[Dir]) = m /\ files'[Dir][m] = c
                /\ \A k \in 1..(m - 1) : files'[Dir][k] = files[Dir][k]
        BY <2>1, <3>20, <3>3, Appended
      <4>2. (n + 1) - 1 = n
        OBVIOUS
      <4>3. QED
        BY <3>1, <3>2, <3>3, <4>1, <4>2
    <3>5. /\ nextId = n + 1 /\ held = n + 1
          /\ \A k \in 1..n : f[k].whole /\ f[k].ended /\ f[k].of = k /\ f[k].rec.id = k
          /\ Len(pcap) = (n + 1) + Len(kernel)
          /\ \A i \in 1..Len(kernel) : kernel[i] = (n + 1) + i
      BY <2>1, <3>1, <3>2, <3>3 DEF FileComplete, LinesComplete, QueueComplete, Taken
    <3>6. c.whole /\ c.ended /\ c.of = n + 1 /\ c.rec.id = n + 1
      BY <3>20, <3>3, <3>5 DEF Chunk, RecordOf
    <3>7. \A k \in 1..(n + 1) : k \in 1..n \/ k = n + 1
      OBVIOUS
    <3>8. \A k \in 1..(n + 1) : g[k].whole /\ g[k].ended /\ g[k].of = k /\ g[k].rec.id = k
      BY <3>4, <3>5, <3>6, <3>7
    <3>9. files[Dir]' = g
      BY <3>1, <3>3
    <3>10. LinesComplete(files[Dir])'
      BY <3>4, <3>8, <3>9 DEF LinesComplete
    <3>11. Taken' = n + 1
      BY <2>1, <3>4, <3>9 DEF Taken
    <3>12. QueueComplete'
      BY <2>1, <3>5, <3>11 DEF QueueComplete
    <3>13. QED
      BY <2>1, <3>4, <3>5, <3>9, <3>10, <3>12
  <2>4. QED
    BY <2>1, <2>2, <2>3 DEF FileComplete
<1>6. CASE WriteFails
  <2>1. faults' = faults + 1 /\ starts' = starts /\ stage = "record"
    BY <1>6 DEF WriteFails
  <2>2. ~Clean' /\ starts' # 0
    BY <1>0, <2>1 DEF Clean, FileComplete
  <2>3. QED
    BY <2>2 DEF FileComplete
<1>7. CASE Accept
  <2>1. /\ stage = "verdict" /\ stage' = "run" /\ held' = 0
        /\ UNCHANGED <<sameDir, pcap, kernel, starts, seconds, nextId, files, dropped, faults>>
    BY <1>7 DEF Accept
  <2>2. Taken' = Taken /\ (Clean' => Clean) /\ starts # 0
    BY <2>1 DEF Taken, Clean, FileComplete, Dir, run_dir
  <2>3. QueueComplete => QueueComplete'
    BY <2>1, <2>2 DEF QueueComplete
  <2>4. QED
    BY <1>1, <2>1, <2>2, <2>3
<1>8. CASE Interrupt \/ Cleanup \/ Kill
  <2>1. stage # "down" /\ stage' \in {"cleanup", "down"} /\ starts' = starts
    BY <1>8 DEF Interrupt, Cleanup, Kill, Unbound
  <2>2. QED
    BY <2>1 DEF FileComplete, Clean
<1>9. CASE UNCHANGED capture
  BY <1>9 DEF capture, FileComplete, Clean, LinesComplete, QueueComplete, Taken, Dir, run_dir
<1>10. QED
  BY <1>2, <1>3, <1>4, <1>5, <1>6, <1>7, <1>8, <1>9, ArrivalStep

(* A capture nothing disturbed and the packets beside it give the same     *)
(* trace: the converter's n-th record is that of the n-th IPv4 packet, and *)
(* without IPv6 the numbers agree too (pcap_to_trace.py:7, 52-60).         *)
THEOREM TwinTracesInvariant == Spec => []TwinTraces
<1>1. Init => FileComplete
  BY DEF Init, CaptureInit, FileComplete, Clean
<1>2. CaptureShape /\ ScriptShape /\ FileComplete /\ [Next]_vars => FileComplete'
  BY CompleteStep
<1>3. CaptureShape /\ CaptureOrdered /\ FileComplete => TwinTraces
  <2> SUFFICES ASSUME CaptureShape, CaptureOrdered, FileComplete, Undisturbed
               PROVE  TwinTraces
    BY Zenon DEF TwinTraces
  <2> DEFINE ip == {k \in DOMAIN files[Dir] : VersionOf(pcap[files[Dir][k].of]) = 4}
             live == [k \in ip |-> files[Dir][k].rec]
             nth(k) == Cardinality({j \in ip : j <= k})
  <2>1. /\ stage = "run" /\ held = 0 /\ starts = 1 /\ Clean
        /\ kernel \in Seq(1..Len(pcap)) /\ Undecided = <<>>
    BY DEF Undisturbed, CaptureShape, Clean
  <2>2. Len(kernel) = 0
    BY <2>1, ConcatEmptySeq, EmptySeq DEF Undecided
  <2>3. PICK n \in Nat : /\ n = Len(files[Dir]) /\ DOMAIN files[Dir] = 1..n
                        /\ Dir \in DOMAIN files /\ files[Dir] \in Seq(ChunkSet)
    BY <2>1, DirShape, FileShape
  <2>4. PICK f : f = files[Dir] /\ Len(f) = n
    BY <2>3
  <2>5. /\ Len(pcap) = n
        /\ \A k \in 1..n : f[k].whole /\ f[k].ended /\ f[k].of = k /\ f[k].rec.id = k
    <3>1. LinesComplete(files[Dir]) /\ QueueComplete
      BY <2>1 DEF FileComplete
    <3>2. QED
      BY <2>1, <2>2, <2>3, <2>4, <3>1 DEF LinesComplete, QueueComplete, Taken
  <2>6. \A k \in 1..n : f[k].rec = RecordOf(k, pcap[k])
    <3>1. \A k \in 1..n : f[k].rec = RecordOf(f[k].rec.id, pcap[f[k].of])
      BY <2>3, <2>4 DEF CaptureOrdered, FilesOrdered, LineOrder
    <3>2. QED
      BY <2>5, <3>1
  <2>7. ip = Ip4(pcap) /\ \A k : nth(k) = Place4(pcap, k)
    <3>1. ip = Ip4(pcap)
      BY <2>3, <2>4, <2>5 DEF Ip4
    <3>2. QED
      BY <3>1 DEF Place4
  <2>8. ~ReadFails(files[Dir])
    BY <2>3, <2>4, <2>5 DEF ReadFails, Readable, LineStart
  <2>9. Cardinality(ip) = Len(Convert)
    BY <2>7, ConvertRight
  <2>10. ASSUME NEW k \in ip
         PROVE  /\ Convert[nth(k)].cls = live[k].cls
                /\ Convert[nth(k)].flow = live[k].flow
                /\ ip = DOMAIN files[Dir] => Convert[k].id = live[k].id
    <3>1. k \in 1..n /\ live[k] = RecordOf(k, pcap[k])
      BY <2>3, <2>4, <2>6
    <3>2. Convert[nth(k)] = RecordOf(nth(k), pcap[k])
      BY <2>7, ConvertRight
    <3>3. ASSUME ip = DOMAIN files[Dir]
          PROVE  nth(k) = k
      <4>1. {j \in ip : j <= k} = 1..k
        BY <2>3, <3>1, <3>3
      <4>2. Cardinality(1..k) = k
        <5>1. k \in Nat /\ k >= 1
          BY <3>1
        <5>2. QED
          BY <5>1, FS_Interval
      <4>3. QED
        BY <4>1, <4>2
    <3>4. /\ Convert[nth(k)].cls = live[k].cls /\ Convert[nth(k)].flow = live[k].flow
          /\ Convert[nth(k)].id = nth(k) /\ live[k].id = k
      BY <3>1, <3>2 DEF RecordOf
    <3>5. QED
      BY <3>3, <3>4
  <2>11. QED
    BY Zenon, <2>8, <2>9, <2>10 DEF TwinTraces
<1>4. QED
  BY <1>1, <1>2, <1>3, OrderedInvariant, PTL DEF Spec
=============================================================================
