----------------------------- MODULE CappedBuffer ----------------------------
(***************************************************************************)
(* run_fig7.py, simulate_capped_buffer(): a generated workload fills a     *)
(* buffer of fixed size during a blackout; at every checkpoint what the    *)
(* buffer holds and what has overflowed so far is written down.            *)
(***************************************************************************)
EXTENDS Workload

CONSTANTS
  BufferLimit,  \* BUFFER_LIMIT_BYTES
  Checkpoints   \* checkpoints_s

ASSUME CappedAssumption ==
  /\ BufferLimit \in Nat /\ Checkpoints \in Seq(Nat)
  /\ \A i, j \in DOMAIN Checkpoints : i < j => Checkpoints[i] <= Checkpoints[j]

VARIABLES
  events,      \* all_events
  next,        \* the event under way
  held,        \* "active": places of the events in the buffer
  occupied, overflowed,
  series,      \* occ_series and overflow_series
  ci           \* the next checkpoint

capped == <<events, next, held, occupied, overflowed, series, ci>>

Expires(k) == events[k].t + DefaultTtl[events[k].cls]
Sizes == [k \in DOMAIN events |-> events[k].size]
EventBytes(K) == SumFunctionOnSet(Sizes, K)

CappedInit ==
  /\ events \in generate_workload
  /\ next = 1 /\ held = {} /\ occupied = 0 /\ overflowed = 0
  /\ series = <<>> /\ ci = 1

(* purge_expired().                                                        *)
Kept(t) == {k \in held : Expires(k) > t}
Left(t) == occupied - EventBytes(held \ Kept(t))

(* A mutant of CheckpointDue: an event at the checkpoint comes after it.   *)
CheckpointDue_First ==
  ci <= Len(Checkpoints) /\ (next <= Len(events) => Checkpoints[ci] <= events[next].t)

CheckpointDue ==
  ci <= Len(Checkpoints) /\ (next <= Len(events) => Checkpoints[ci] < events[next].t)

NoteCheckpoint ==
  /\ CheckpointDue
  /\ held' = Kept(Checkpoints[ci]) /\ occupied' = Left(Checkpoints[ci])
  /\ series' = Append(series, [occ |-> occupied', overflow |-> overflowed])
  /\ ci' = ci + 1
  /\ UNCHANGED <<events, next, overflowed>>

TakeEvent ==
  /\ ~CheckpointDue /\ next <= Len(events)
  /\ LET e == events[next]
     IN  IF Left(e.t) + e.size <= BufferLimit
           THEN /\ held' = Kept(e.t) \cup {next}
                /\ occupied' = Left(e.t) + e.size
                /\ UNCHANGED overflowed
           ELSE /\ held' = Kept(e.t) /\ occupied' = Left(e.t)
                /\ overflowed' = overflowed + e.size
  /\ next' = next + 1
  /\ UNCHANGED <<events, series, ci>>

CappedStep == NoteCheckpoint \/ TakeEvent

CappedSpec == CappedInit /\ [][CappedStep]_capped
=============================================================================
