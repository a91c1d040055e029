------------------------------ MODULE Workload -------------------------------
(***************************************************************************)
(* gateway/workload_generator.py: bursty classes whose bundles come at     *)
(* random times, and video feeds that send a segment at regular intervals, *)
(* merged into one stream in order of time.  Every outcome of the random   *)
(* draws is taken: any times, at most one per instant and class, any sizes *)
(* of the class, any phase of a feed.                                      *)
(***************************************************************************)
EXTENDS Integers, Sequences, FiniteSets, Functions

CONSTANTS
  Span,          \* span_seconds
  SizeRange,     \* the sizes a bundle of each class may have
  MediaStreams,  \* MEDIA_STREAMS
  Segment,       \* MEDIA_SEGMENT_S
  DefaultTtl     \* default_ttl_s of each class

WorkloadClass == {"emergency", "telemetry", "science_bulk", "media"}

ASSUME WorkloadAssumption ==
  /\ Span \in Nat /\ MediaStreams \in Nat /\ Segment \in Nat \ {0}
  /\ SizeRange \in [WorkloadClass -> SUBSET (Nat \ {0})]
  /\ DefaultTtl \in [WorkloadClass -> Nat]

(* In a merge of equal times the classes keep the order they were          *)
(* generated in, and the feeds theirs.                                     *)
ClassPlace == [emergency |-> 0, telemetry |-> 1, science_bulk |-> 2, media |-> 3]
MergedBefore(e, f) ==
  \/ e.t < f.t
  \/ e.t = f.t /\ ClassPlace[e.cls] < ClassPlace[f.cls]
  \/ e.t = f.t /\ e.cls = f.cls /\ e.feed < f.feed

Merge(E) ==
  [k \in 1..Cardinality(E) |->
     CHOOSE e \in E : Cardinality({f \in E : MergedBefore(f, e)}) = k - 1]

(* What a class or a feed generates at the given instants.                 *)
Events(cls, feed, at) ==
  {{[t |-> i, cls |-> cls, feed |-> feed, size |-> sizes[i]] : i \in at}
     : sizes \in [at -> SizeRange[cls]]}

Instant == 0..(Span - 1)
class_arrivals(cls) == UNION {Events(cls, 0, at) : at \in SUBSET Instant}

(* The instants at which a feed completes a segment.                       *)
media_feed(phase) == {i \in Instant : i % Segment = phase}
media_streams(s) ==
  UNION {Events("media", s, media_feed(phase)) : phase \in 0..(Segment - 1)}

media_feeds ==
  {f \in [1..MediaStreams -> UNION {media_streams(s) : s \in 1..MediaStreams}] :
     \A s \in 1..MediaStreams : f[s] \in media_streams(s)}

generate_workload ==
  {Merge(e \cup t \cup b \cup UNION Range(f)) :
     e \in class_arrivals("emergency"), t \in class_arrivals("telemetry"),
     b \in class_arrivals("science_bulk"), f \in media_feeds}
=============================================================================
