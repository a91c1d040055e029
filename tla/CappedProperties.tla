-------------------------- MODULE CappedProperties ---------------------------
(* What the curves of figure 7 are supposed to show.                       *)
EXTENDS CappedBuffer

(* The events that get into the buffer, of the first k: each one that fits *)
(* beside what is in the buffer and still alive when it comes.             *)
Joined(K, k) ==
  LET alive == {j \in K : Expires(j) > events[k].t}
  IN  IF EventBytes(alive) + events[k].size <= BufferLimit THEN K \cup {k} ELSE K
Taken[k \in 0..Len(events)] == IF k = 0 THEN {} ELSE Joined(Taken[k - 1], k)

(* Every point of both curves says what the buffer held and had refused by *)
(* its checkpoint, the events at that very time included, whatever the     *)
(* grid of checkpoints is: noting a point, which purges the buffer as      *)
(* well, changes nothing for later arrivals.  No point is above the limit, *)
(* and in the end there is a point for every checkpoint, those after the   *)
(* last event too (run_fig7.py:64-84).                                     *)
FillSeries ==
  LET came(i) == {k \in DOMAIN events : events[k].t <= Checkpoints[i]}
      taken == Taken[Len(events)]
  IN  /\ \A i \in DOMAIN series :
           /\ series[i].occ = EventBytes({k \in came(i) \cap taken : Expires(k) > Checkpoints[i]})
           /\ series[i].overflow = EventBytes(came(i) \ taken)
           /\ series[i].occ <= BufferLimit
      /\ next > Len(events) /\ ~CheckpointDue => Len(series) = Len(Checkpoints)
=============================================================================
