------------------------------ MODULE LivePath -------------------------------
(***************************************************************************)
(* The live uplink, end to end: MGEN on a UE plays a script, the radio     *)
(* broker steps a path-loss trace, the UPF hands what arrives to N6, and   *)
(* the interceptor records it.  Radio and core are external: a packet of a *)
(* flow that is on carries the TOS of its socket, and may reach N6 unless  *)
(* the UE's uplink is dark or the broker has stopped.                      *)
(***************************************************************************)
EXTENDS ChannelPlayer, TrafficScript, N6Capture

CONSTANTS
  Sender,     \* the UE of run_traffic.sh
  Marks,      \* IP versions and ECN bits a packet may arrive with
  MaxPackets  \* bound: packets that reach N6

ASSUME LivePathAssumption ==
  Sender \in UE /\ Marks \subseteq {4, 6} \X (0..3) /\ MaxPackets \in Nat

vars == <<now, channel, script, capture>>

Init == now = 0 /\ ChannelInit /\ ScriptInit /\ CaptureInit

(* A thread that waits is woken at most Late seconds after its time.       *)
Tick ==
  /\ now < MaxClock /\ ~PlayerOverdue /\ ~LineOverdue
  /\ now' = now + 1
  /\ UNCHANGED <<channel, script, capture>>

Player == PlayerStep /\ UNCHANGED <<now, script, capture>>
Signal == StopChannel /\ UNCHANGED <<now, script, capture>>
Mgen == PlayLine /\ UNCHANGED <<now, channel, capture>>

Uplink ==
  /\ Len(pcap) < MaxPackets /\ ~stopping /\ ul[Sender] # Dark
  /\ \E i \in on, m \in Marks : Arrive(Packet(m[1], sockets[SrcPort(i)] + m[2], i))
  /\ UNCHANGED <<now, channel, script>>

Interceptor == CaptureStep /\ UNCHANGED <<now, channel, script>>
Operator == (StartCapture \/ Interrupt) /\ UNCHANGED <<now, channel, script>>
Fault == (WriteFails \/ Kill) /\ UNCHANGED <<now, channel, script>>

Next == Tick \/ Player \/ Signal \/ Mgen \/ Uplink \/ Interceptor \/ Operator \/ Fault

(* Time passes, MGEN and the player are woken, and a packet taken from the *)
(* queue is seen through; nobody need start, stop or send anything.        *)
Fairness ==
  WF_vars(Tick) /\ WF_vars(Player) /\ WF_vars(Mgen) /\ WF_vars(Interceptor)

Spec == Init /\ [][Next]_vars /\ Fairness

=============================================================================
