---------------------------- MODULE ChannelPlayer ----------------------------
(***************************************************************************)
(* channel/grc_lunar.py and channel/grc_lunar_standalone.py: a thread      *)
(* steps a path-loss trace in wall-clock time and sets the radio gains of  *)
(* every UE.  A gain is written as its path loss in dB, Dark in an outage. *)
(* The snapshots of a trace cover every UE.                                *)
(***************************************************************************)
EXTENDS LiveClock

CONSTANTS
  Traces,  \* path-loss traces: per snapshot its time, losses and outages
  UE,      \* user equipments
  Brokers  \* the two scripts, with their options

Dark == 200    \* OUTAGE_PL_DB
Snapshot == [t : Int, pl : [UE -> 0..Dark], outage : SUBSET UE]

(* Options of a broker: --trace-speedup, --loop-trace, and the standalone  *)
(* one's --trace-start-delay; it drives DL only, grc_lunar DL and UL.      *)
Broker == [speedup : Nat \ {0}, loop : BOOLEAN, delay : Nat, uplink : BOOLEAN]

ASSUME PlayerAssumption ==
  Traces \subseteq Seq(Snapshot) \ {<<>>} /\ Brokers \subseteq Broker

VARIABLES
  trace, broker,
  player,    \* "hold", "wait" for a snapshot's time, "held" at the end, "off"
  snap,      \* the snapshot waited for
  t0,        \* when this pass over the trace began
  stopping,  \* stop_evt
  dl, ul     \* path loss of each UE's downlink and uplink

channel == <<trace, broker, player, snap, t0, stopping, dl, ul>>

Target(k) == (trace[k].t - trace[1].t) \div broker.speedup

(* A mutant of Levels: the outages of the snapshot are not looked at.      *)
Levels_NoOutage(k) == trace[k].pl

Levels(k) == [u \in UE |-> IF u \in trace[k].outage THEN Dark ELSE trace[k].pl[u]]

(* main(): the first snapshot's losses, whatever its outages, then the     *)
(* flowgraph starts and after it the player thread.                        *)
ChannelInit ==
  /\ trace \in Traces /\ broker \in Brokers
  /\ player = "hold" /\ snap = 1 /\ t0 = 0 /\ stopping = FALSE
  /\ dl = trace[1].pl /\ ul = trace[1].pl

(* The player waits with a timeout that the stop event cuts short.         *)
Due == IF player = "hold" THEN broker.delay ELSE t0 + Target(snap)
Awake(phase) == player = phase /\ (stopping \/ now >= Due)
PlayerOverdue == player \in {"hold", "wait"} /\ now >= Due + Late

BeginTrace ==
  /\ Awake("hold")
  /\ player' = IF stopping THEN "off" ELSE "wait"
  /\ snap' = 1 /\ t0' = now
  /\ UNCHANGED <<trace, broker, stopping, dl, ul>>

(* apply_pathloss(), set_ue_pathloss(): also once more after a stop that   *)
(* came during the wait.  Then the next snapshot, or the next pass.        *)
Apply ==
  /\ Awake("wait")
  /\ dl' = Levels(snap)
  /\ ul' = IF broker.uplink THEN Levels(snap) ELSE ul
  /\ IF snap < Len(trace)
       THEN snap' = snap + 1 /\ player' = (IF stopping THEN "off" ELSE "wait")
                             /\ UNCHANGED t0
       ELSE snap' = 1 /\ t0' = now
            /\ player' = (IF ~broker.loop THEN "held" ELSE IF stopping THEN "off" ELSE "wait")
  /\ UNCHANGED <<trace, broker, stopping>>

(* SIGINT or SIGTERM.                                                      *)
StopChannel == ~stopping /\ stopping' = TRUE /\ UNCHANGED <<trace, broker, player, snap, t0, dl, ul>>

PlayerStep == BeginTrace \/ Apply
=============================================================================
