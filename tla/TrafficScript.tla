---------------------------- MODULE TrafficScript ----------------------------
(***************************************************************************)
(* traffic_gen/traffic_model.py and gen_mgen.py: a scenario of flows with  *)
(* on and off times, rendered into a script that MGEN plays.  MGEN itself  *)
(* is external: it keeps one socket per source port, and the type of       *)
(* service is an option of the socket.  Arrival patterns are left out: a   *)
(* flow that is on sends at any time.                                      *)
(***************************************************************************)
EXTENDS LiveClock, FiniteSetsExt

CONSTANTS
  Scenarios,   \* scenarios: their duration and their flows
  BaseSrcPort  \* base_src_port

ClassName == {"emergency", "telemetry", "science_bulk", "media"}
NoStop == -1   \* stop_s = None
FlowSpec == [cls : ClassName, rate : Nat, start : Int, stop : Int]
Flow(cls, rate, start, stop) == [cls |-> cls, rate |-> rate, start |-> start, stop |-> stop]

ASSUME ScriptAssumption ==
  /\ Scenarios \subseteq [duration : Nat, flows : Seq(FlowSpec)]
  /\ BaseSrcPort \in Nat

VARIABLES
  scenario,
  fired,    \* script lines MGEN has executed
  on,       \* flows that are on
  sockets   \* per open source port, the TOS of its socket

script == <<scenario, fired, on, sockets>>

PRIMARY_DSCP == [emergency |-> 46, telemetry |-> 26, science_bulk |-> 10, media |-> 34]

dscp_to_tos(dscp) == (dscp % 64) * 4

Flows == DOMAIN scenario.flows
FlowClass(i) == scenario.flows[i].cls

(* A mutant of SrcPort: one source port for all flows.                     *)
SrcPort_Shared(i) == BaseSrcPort

SrcPort(i) == BaseSrcPort + i

-----------------------------------------------------------------------------
(* render_mgen(): an ON and an OFF line for every flow that starts in time.*)
Start(i) == IF scenario.flows[i].start < 0 THEN 0 ELSE scenario.flows[i].start

(* A mutant of Stop: the end of the run is not the end of an open flow.    *)
Stop_Open(i) == IF scenario.flows[i].stop = NoStop THEN MaxClock + 1 ELSE scenario.flows[i].stop

Stop(i) ==
  LET s == scenario.flows[i].stop
  IN  IF s = NoStop \/ s > scenario.duration THEN scenario.duration ELSE s

Lines ==
  UNION {{[at |-> Start(i), op |-> "ON", flow |-> i], [at |-> Stop(i), op |-> "OFF", flow |-> i]}
         : i \in {f \in Flows : Start(f) < scenario.duration}}

ScriptInit ==
  scenario \in Scenarios /\ fired = {} /\ on = {} /\ sockets = <<>>

(* MGEN executes the lines in the order of their times, of one time in the *)
(* order of the script.                                                    *)
Sooner(l, m) ==
  \/ l.at < m.at
  \/ l.at = m.at /\ l.flow < m.flow
  \/ l.at = m.at /\ l.flow = m.flow /\ l.op = "ON" /\ m.op = "OFF"
NextLines == {l \in Lines \ fired : \A m \in Lines \ fired : m = l \/ Sooner(l, m)}
LineDue == \E l \in NextLines : l.at <= now
LineOverdue == \E l \in NextLines : l.at + Late <= now

(* Turning a flow on opens the socket of its port, or reuses it, and sets  *)
(* its TOS.                                                                *)
PlayLine ==
  \E l \in NextLines :
    /\ l.at <= now
    /\ fired' = fired \cup {l}
    /\ on' = IF l.op = "ON" THEN on \cup {l.flow} ELSE on \ {l.flow}
    /\ sockets' =
         IF l.op = "OFF" THEN sockets
         ELSE [p \in DOMAIN sockets \cup {SrcPort(l.flow)} |->
                 IF p = SrcPort(l.flow) THEN dscp_to_tos(PRIMARY_DSCP[FlowClass(l.flow)])
                 ELSE sockets[p]]
    /\ UNCHANGED scenario

-----------------------------------------------------------------------------
(* The scenarios of traffic_model.py, in seconds and bits per second.      *)
reference_scenario(duration) ==
  [duration |-> duration,
   flows |-> <<Flow("telemetry", 4 * 512 * 8, 0, NoStop),
               Flow("emergency", (128 * 8) \div 30, 0, NoStop),
               Flow("science_bulk", 714 * 1400 * 8, 60, 100),
               Flow("science_bulk", 714 * 1400 * 8, 120, 160),
               Flow("media", 268 * 1400 * 8, 110, 230)>>]

smoke_scenario(duration) ==
  [duration |-> duration,
   flows |-> <<Flow("telemetry", 5 * 512 * 8, 0, NoStop), Flow("emergency", 5 * 128 * 8, 0, NoStop),
               Flow("science_bulk", 5 * 1400 * 8, 0, NoStop), Flow("media", 5 * 1400 * 8, 0, NoStop)>>]

trace_scenario(duration) ==
  [duration |-> duration,
   flows |-> <<Flow("telemetry", 4 * 512 * 8, 0, NoStop), Flow("emergency", (128 * 8) \div 2, 0, NoStop),
               Flow("science_bulk", 179 * 1400 * 8, 5, 13), Flow("media", 90 * 1400 * 8, 8, 20)>>]

-----------------------------------------------------------------------------
(* peak_offered_bps(), sampled every second.                               *)
OnAt(i, t) ==
  LET f == scenario.flows[i] IN f.start <= t /\ (f.stop = NoStop \/ t < f.stop)
Rate == [i \in Flows |-> scenario.flows[i].rate]
OfferedBy(S) == MapThenSumSet(LAMBDA i : Rate[i], S)
PeakOffered == Max({OfferedBy({i \in Flows : OnAt(i, t)}) : t \in 0..scenario.duration})
=============================================================================
