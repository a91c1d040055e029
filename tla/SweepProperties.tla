--------------------------- MODULE SweepProperties ---------------------------
(* What a comparison of policies over one workload may be read as.         *)
EXTENDS Sweep

Runs == DOMAIN results
SamePoint(j, k) == results[j].point = results[k].point
UrgentFirst == {"strict_priority"} \cup Wfq
Emergencies == OfClass("emergency")

(* The columns of a table for one class.                                   *)
Counts(r, c) == [st \in Terminal |-> Count(r, c, st)]

(* Every table accounts for every generated bundle of every class once, in *)
(* a terminal state: no run sees the records or the queue of the run       *)
(* before it (sweep_harness.py:50-61, 122-131).                            *)
TablesComplete ==
  \A k \in Runs, c \in Class :
    MapThenSumSet(LAMBDA st : Counts(results[k], c)[st], Terminal) = Cardinality(OfClass(c))

(* Emergencies are isolated from all other traffic wherever they are sent  *)
(* first: strict priority and both WFQ drains admit, evict for, send and   *)
(* lose exactly the same emergencies in the same windows, whatever else    *)
(* they do with the other classes, and whatever lifetime the sweep gives   *)
(* another class (scheduler.py:323-357, 458-461, 565-568; sweep_harness.py *)
(* 94-96).                                                                 *)
EmergencyIsolated ==
  \A j, k \in Runs :
    (/\ SamePoint(j, k) \/ override.cls # "emergency"
     /\ {results[j].policy, results[k].policy} \subseteq UrgentFirst) =>
      \A b \in Emergencies : /\ results[j].fate[b] = results[k].fate[b]
                             /\ results[j].sent[b] = results[k].sent[b]

(* "EMERGENCY should do NO WORSE under strict-priority than under FIFO"    *)
(* (run_trace_scheduler.py:140): nor than under any other policy, when     *)
(* emergencies are of one size and one lifetime, as those of a generated   *)
(* workload are, and strict priority refuses none of them (the script's    *)
(* check 4, 152-156).  With two lifetimes deadline_aware can save one      *)
(* more; and emergencies that strict priority took early, and a short      *)
(* window could not carry, can leave no room for later ones that live      *)
(* longer, which FIFO takes because it refused the early ones.             *)
(* The mission utility agrees where nothing overflows ("isolates bandwidth *)
(* effects from admission overflow", sweep_harness.py:16) and only         *)
(* emergencies have a weight: no policy ranks above strict priority by how *)
(* it loses them (telemetry.py:339-350).                                   *)
EmergencyNoWorse ==
  (\A a, b \in Emergencies : /\ generated[a].size = generated[b].size
                             /\ generated[a].ttl = generated[b].ttl) =>
    \A j, k \in Runs :
      (/\ SamePoint(j, k) /\ results[j].policy = "strict_priority"
       /\ Count(results[j], "emergency", "queue_overflow") = 0) =>
        /\ Delivered(results[j], "emergency") >= Delivered(results[k], "emergency")
        /\ (/\ \A c \in Class \ {"emergency"} : OfClass(c) # {} => UtilityWeight[c] = 0
            /\ \A i \in {j, k} : StarvationSummary(results[i])["queue_overflow"] = 0) =>
              MissionUtility(results[j]) >= MissionUtility(results[k])

(* The sweep ends with a table for every policy and lifetime               *)
(* (sweep_harness.py:49-68, 92-98).                                        *)
SweepEnds == <>(Len(results) = Total)
=============================================================================
