--------------------------- MODULE LiveProperties ----------------------------
(* What is asked of LivePath.                                              *)
EXTENDS LivePath

(* A record has the class of the flow its packet was sent by: through the  *)
(* script's mark, the sender's sockets, the header of either IP version,   *)
(* and the gateway's table (gen_mgen.py:48, traffic_model.py:289).         *)
LabelsKept ==
  \A d \in DOMAIN files : \A k \in DOMAIN files[d] :
    files[d][k].whole => files[d][k].rec.cls = FlowClass(pcap[files[d][k].of].flow)

(* The records of a directory follow the packets' order, through restarts  *)
(* and a wall clock set back; the ids of one process grow, and repeat in a *)
(* directory only when a later process reused it: the operator gave both   *)
(* the same, or they were started in the same second                       *)
(* (n6_interceptor.py:168, 171, 184, telemetry.py:273).                    *)
CaptureOrder ==
  \A d \in DOMAIN files : \A j, k \in DOMAIN files[d] :
    j < k =>
      LET a == files[d][j]
          b == files[d][k]
      IN  /\ a.of < b.of
          /\ a.run = b.run => a.rec.id < b.rec.id
          /\ a.run # b.run =>
               a.run < b.run /\ (sameDir \/ seconds[a.run] = seconds[b.run])

(* What a failed write, an interrupt or a kill may cost the trace: of the  *)
(* packets let through, each failed write loses at most its own record and *)
(* the one appended to its torn line, each process at most one more        *)
(* (telemetry.py:280, n6_interceptor.py:82).                               *)
HasRecord(n) ==
  \E d \in DOMAIN files : \E k \in DOMAIN files[d] :
    files[d][k].of = n /\ Readable(files[d], k)
TraceLoss ==
  Cardinality({n \in accepted : ~HasRecord(n)}) <= 2 * faults + starts

(* A capture that nothing disturbed holds what pcap_to_trace makes of the  *)
(* same packets, IPv6 and the numbering it shifts aside                    *)
(* (pcap_to_trace.py:7, "exactly as gateway/n6_interceptor.py would").     *)
Undisturbed == faults = 0 /\ starts = 1 /\ stage = "run" /\ dropped = {} /\ Undecided = <<>>
TwinTraces ==
  Undisturbed =>
    LET ip == {k \in DOMAIN files[Dir] : VersionOf(pcap[files[Dir][k].of]) = 4}
        live == [k \in ip |-> files[Dir][k].rec]
        nth(k) == Cardinality({j \in ip : j <= k})
    IN  /\ ~ReadFails(files[Dir])
        /\ Cardinality(ip) = Len(Convert)
        /\ \A k \in ip : /\ Convert[nth(k)].cls = live[k].cls
                         /\ Convert[nth(k)].flow = live[k].flow
                         /\ ip = DOMAIN files[Dir] => Convert[k].id = live[k].id

(* The times of a trace never go back, and the clock's unit is fine enough *)
(* to hold them at the broker's speed (lunaremu_to_pathloss.py:67).        *)
ASSUME TracesAssumption ==
  \A tr \in Traces, b \in Brokers : \A j, k \in DOMAIN tr :
    /\ j <= k => tr[j].t <= tr[k].t
    /\ (tr[k].t - tr[1].t) % b.speedup = 0

(* While the broker runs, a snapshot holds from its time, and the wake-up  *)
(* delays, to the next one's, in each direction the broker drives: a UE in *)
(* an outage is dark, whatever its loss (on the first pass; a looped trace *)
(* begins anew at its last time, which so holds for no time at all)        *)
(* (grc_lunar.py:111-140).                                                 *)
Since(k) == trace[k].t - trace[1].t
Holds(k, t) ==
  /\ Since(k) < broker.speedup * (t - broker.delay - 2 * Late)
  /\ IF k = Len(trace) THEN ~broker.loop
     ELSE broker.speedup * (t - broker.delay) < Since(k + 1)
ChannelFollows ==
  ~stopping =>
    \A k \in DOMAIN trace, u \in UE :
      Holds(k, now) =>
        LET loss == IF u \in trace[k].outage THEN Dark ELSE trace[k].pl[u]
        IN  dl[u] = loss /\ (broker.uplink => ul[u] = loss)

(* A flow is turned off after it was turned on, as all flows of            *)
(* traffic_model.py are (traffic_model.py:123-124, 197-232).               *)
ASSUME FlowsAssumption ==
  \A s \in Scenarios : \A i \in DOMAIN s.flows :
    s.flows[i].stop = NoStop \/ (s.flows[i].start < s.flows[i].stop /\ 0 <= s.flows[i].stop)

(* Between two lines of the script the flows that are on are those the     *)
(* scenario has on, so the offered load never exceeds the peak gen_mgen    *)
(* announces; from the end of the run on, every flow is off, those without *)
(* a stop too (traffic_model.py:164, gen_mgen.py:82).                      *)
OfferedAsPlanned ==
  ~LineDue =>
    /\ OfferedBy(on) <= PeakOffered
    /\ now < scenario.duration =>
         OfferedBy(on) = OfferedBy({i \in Flows : OnAt(i, now)})
    /\ now >= scenario.duration => on = {}

(* A packet in the queue gets its verdict, or the interceptor goes and the *)
(* queue with it: no failed record wedges it (n6_interceptor.py:85).       *)
EveryPacketJudged ==
  \A n \in 1..MaxPackets :
    (n \in ToSet(Undecided)) ~> (n \in accepted \cup dropped)
=============================================================================
