------------------------- MODULE SchedulerProperties -------------------------
(***************************************************************************)
(* What a run of the scheduler is expected to do, whatever the plan, the   *)
(* workload, the policy and the admission rule.                            *)
(***************************************************************************)
EXTENDS Scheduler

Bundles == DOMAIN bundles
Terminal == {"delivered", "ttl_expired", "queue_overflow", "never_scheduled"}
SentIn(w) == {b \in Bundles : contact[b] = w}

-----------------------------------------------------------------------------
(* The byte counter is exactly what the bundles still waiting take up, and *)
(* stays within the cap, through admissions, evictions, expiry and drains  *)
(* of several windows (scheduler.py:308-342, 374-386, 432).                *)
QueueExact ==
  pc # "done" =>
    /\ activeBytes = Bytes(Waiting)
    /\ activeBytes <= MaxQueueBytes

(* What is sent in a window fits the bit budget of that window, summed     *)
(* over all tiers, rounds and classes (scheduler.py:424-441, 500-516,      *)
(* 544-650).                                                               *)
WithinBudget == \A w \in DOMAIN plan : 8 * Bytes(SentIn(w)) <= Budget(plan[w])

(* The drain is greedy in the order of the policy: a bundle left behind    *)
(* did not fit beside those sent that come before it; FIFO without         *)
(* skip-over sends nothing that comes after one left behind (scheduler.py: *)
(* 417-456, 495-516, 546-563).                                             *)
GreedyInOrder ==
  pc = "close" =>
    LET left == Listed
        sent == IF config.policy \in Wfq
                  THEN {b \in SentIn(cur) : Cls(b) = "emergency"} ELSE SentIn(cur)
        ahead(u) == {v \in sent : Before(v, u)}
        crowded(u) == 8 * (Bytes(ahead(u)) + Size(u)) > Budget(plan[cur])
    IN  IF config.policy = "fifo" /\ ~config.skip
          THEN /\ \A u \in left : ahead(u) = sent
               /\ left # {} => \E u \in left : crowded(u)
          ELSE \A u \in left : crowded(u)

(* DRR serves each class in order and stops only when no class's head fits *)
(* what is left of the budget: neither the deficits nor the bound on the   *)
(* rounds leave usable capacity idle; and a class that ends a window with  *)
(* nothing to send carries no deficit into the next one (scheduler.py:     *)
(* 575-578, 580-651).                                                      *)
HeadsServed ==
  pc = "close" /\ config.policy \in Wfq =>
    \A c \in WfqClass :
      /\ ByClass(c) = {} => deficit[c] = 0
      /\ config.policy = "wfq" =>
           /\ \A u \in Earliest(ByClass(c)) : ~CanSend(u)
           /\ \A u \in ByClass(c), v \in SentIn(cur) : Cls(v) = c => Earlier(v, u)

(* Every fate agrees with the deadline: a bundle is delivered in a window  *)
(* that it lives to see begin and that had not ended when it arrived; one  *)
(* that expired had its deadline within the plan; one never scheduled was  *)
(* still alive when the plan ended, so that the two kinds of loss are told *)
(* apart (scheduler.py:379-394, 685-695; telemetry.py:73-83).              *)
FatesMatchDeadlines ==
  \A b \in Bundles :
    /\ state[b] = "delivered" <=> contact[b] # NoWindow
    /\ state[b] = "delivered" => Expiration(b) > plan[contact[b]].start
    /\ state[b] = "delivered" => Ingress(b) < plan[contact[b]].end
    /\ state[b] = "ttl_expired" => \E w \in DOMAIN plan : Expiration(b) <= plan[w].end
    /\ state[b] = "never_scheduled" => \A w \in DOMAIN plan : Expiration(b) > plan[w].end

(* Priority-aware admission protects a class as soon as the buffer holds   *)
(* that class and all above it: a bundle is lost to overflow, on arrival   *)
(* or by a later eviction, only if the bundles at least as urgent would    *)
(* not all fit, however much lower traffic there is (scheduler.py:241-247, *)
(* 323-357).                                                               *)
AtLeastAsUrgent(b) == {u \in Bundles : Rank(u) <= Rank(b)}
UrgentKeepRoom ==
  PriorityAware =>
    \A b \in Bundles :
      state[b] = "queue_overflow" => Bytes(AtLeastAsUrgent(b)) > MaxQueueBytes

-----------------------------------------------------------------------------
(* A bundle's fate is decided once: no later admission, expiry or drain    *)
(* touches it, so mark() never raises (telemetry.py:175-196).              *)
DecidedOnce == [][ \A b \in Bundles : state[b] # "pending" => state'[b] = state[b] ]_vars

(* Evictions take the newest bundle of the lowest rank below the           *)
(* arrival's, only while it does not fit, and are never in vain: the       *)
(* arrival is admitted (scheduler.py:323-342).                             *)
EvictionPays ==
  [][ /\ \A v \in active :
           (pc = "evict" /\ v \notin active') =>
             /\ Rank(v) > Rank(incoming)
             /\ Bytes(Waiting) + Size(incoming) > MaxQueueBytes
             /\ \A u \in active' : Rank(u) <= Rank(v)
             /\ \A u \in active' : Rank(u) = Rank(v) => Ingress(u) <= Ingress(v)
      /\ (pc = "evict" /\ pc' # "evict") => incoming \in active' ]_vars

=============================================================================
