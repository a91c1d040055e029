---------------------------- MODULE DtnProperties ----------------------------
(***************************************************************************)
(* What the DTN segment is expected to do, stated over DtnSegment.         *)
(***************************************************************************)
EXTENDS DtnSegment

(* The drain outlasts the last injection's interval and the link: 5 s by   *)
(* default, over 1 s and 58 ms (ceiling_pilot.py:43, 280-281).             *)
ASSUME DrainAssumption == Dt + Owlt <= Drain

(* A bundle the nodes hold longest under a delayed send and a delayed      *)
(* forward, Late ticks each.                                               *)
Slack == 2 * Late

(* Bundle b cannot miss its delivery by scheduling delays alone: wherever  *)
(* in the Slack after the logged time it is sent, predict_one holds with   *)
(* a lifetime shorter by Slack.                                            *)
SurelyDelivered(b) ==
  \A d \in 0..Slack : PredictOne(b.t + d, Ttl(b.node) - Slack)

(* No bundle rides a TCP retransmission across a blackout: what a node     *)
(* sends in a contact finds the link lit and arrives within the light      *)
(* time, so delivery across a gap is DTN storage (dtn_elfo_demo.sh:11-17,  *)
(* ceiling_pilot.py:44-47, 207-213, n6_bridge.py:332-338).                 *)
NoRetransmitRide == \A f \in flight : clock <= f.at + Owlt

(* What arrives was forecast: predict_one, evaluated at the logged send    *)
(* time, never denies a bundle that arrives, the worker's delay aside      *)
(* (ceiling_pilot.py:75-85, 134-137, 236).                                 *)
PredictionSound ==
  [][\A f \in flight \ flight' : PredictOne(f.b.t, Ttl(f.b.node) + Late)]_vars

(* What was forecast with some slack arrives, and before the receiver is   *)
(* killed: such a bundle never expires on its node, and none is stored or  *)
(* on the link at the analysis, if the capture lasted to t_end             *)
(* (ceiling_pilot.py:131-141, 217-220, 244-252, n6_bridge.py:162-166,      *)
(* 348-352).                                                               *)
PredictionComplete ==
  [][/\ \A b \in held \ held' :
          b \in {f.b : f \in flight'} \/ ~SurelyDelivered(b)
     /\ mpc' = "analysed" /\ (mode = "pilot" \/ killAt >= TEnd + Drain)
          => \A b \in held \cup {f.b : f \in flight} : ~SurelyDelivered(b)]_vars

(* With an injection every second, the bundles predict_one counts differ   *)
(* from the closed form by at most one per gap, whose shortest-lived send  *)
(* may fall on either side of the strict test (ceiling_pilot.py:68-85,     *)
(* 130-138, 236-241).                                                      *)
ClosedFormClose ==
  mode = "pilot" /\ mpc = "analysed" /\ Dt = Second =>
    \A i \in Nodes :
      /\ predicted[i] <= ClosedForm(Lifetime(i))
      /\ predicted[i] >= ClosedForm(Lifetime(i)) - (Len(W) - 1)

(* The measurement ends: the rounds, the drain and the analysis are over   *)
(* in the end (ceiling_pilot.py:131-141, 215-220, n6_bridge.py:348-352).   *)
Ends == <>(mpc = "analysed")
=============================================================================
