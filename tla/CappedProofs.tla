---------------------------- MODULE CappedProofs -----------------------------
(***************************************************************************)
(* The capped buffer of figure 7: the generated streams are in order of    *)
(* time, and the two curves say at every checkpoint what was taken and     *)
(* what was refused by then.                                               *)
(***************************************************************************)
EXTENDS CappedProperties, BasicProofs

Event == [t : Nat, cls : WorkloadClass, feed : Nat, size : Nat \ {0}]

(* No two events of one class or feed come at the same time.               *)
Alone(E) ==
  \A e, f \in E : e.t = f.t /\ e.cls = f.cls /\ e.feed = f.feed => e = f

InOrder(s) ==
  s \in Seq(Event) /\ \A i, j \in DOMAIN s : i < j => s[i].t <= s[j].t

-----------------------------------------------------------------------------
(* Merging puts a set of events in order of time.                          *)
LEMMA ClassPlaces ==
  ASSUME NEW c \in WorkloadClass, NEW d \in WorkloadClass
  PROVE  ClassPlace[c] \in Nat /\ (ClassPlace[c] = ClassPlace[d] => c = d)
BY DEF WorkloadClass, ClassPlace

LEMMA MergedChains ==
  ASSUME NEW a \in Event, NEW b \in Event, NEW c \in Event,
         MergedBefore(a, b), MergedBefore(b, c)
  PROVE  MergedBefore(a, c)
<1>1. /\ a.t \in Nat /\ b.t \in Nat /\ c.t \in Nat
      /\ a.feed \in Nat /\ b.feed \in Nat /\ c.feed \in Nat
      /\ a.cls \in WorkloadClass /\ b.cls \in WorkloadClass /\ c.cls \in WorkloadClass
  BY DEF Event
<1>2. PICK x \in Nat, y \in Nat, z \in Nat :
        x = ClassPlace[a.cls] /\ y = ClassPlace[b.cls] /\ z = ClassPlace[c.cls]
  BY <1>1, ClassPlaces
<1> QED
  BY <1>1, <1>2 DEF MergedBefore

LEMMA MergedOnce ==
  ASSUME NEW a \in Event
  PROVE  ~MergedBefore(a, a)
<1>1. a.t \in Nat /\ a.feed \in Nat /\ a.cls \in WorkloadClass /\ ClassPlace[a.cls] \in Nat
  BY ClassPlaces DEF Event
<1> QED
  BY <1>1 DEF MergedBefore

LEMMA MergedTotal ==
  ASSUME NEW E, E \subseteq Event, Alone(E), NEW a \in E, NEW b \in E, a # b
  PROVE  MergedBefore(a, b) \/ MergedBefore(b, a)
<1>1. /\ a.t \in Nat /\ b.t \in Nat /\ a.feed \in Nat /\ b.feed \in Nat
      /\ a.cls \in WorkloadClass /\ b.cls \in WorkloadClass
  BY DEF Event
<1>2. /\ ClassPlace[a.cls] \in Nat /\ ClassPlace[b.cls] \in Nat
      /\ ClassPlace[a.cls] = ClassPlace[b.cls] => a.cls = b.cls
  BY <1>1, ClassPlaces
<1>3. ~(a.t = b.t /\ a.cls = b.cls /\ a.feed = b.feed)
  BY DEF Alone
<1> QED
  BY <1>1, <1>2, <1>3 DEF MergedBefore

Preceding(E, e) == {f \in E : MergedBefore(f, e)}

LEMMA FewerPrecede ==
  ASSUME NEW E, E \subseteq Event, IsFiniteSet(E), NEW a \in E, NEW b \in E, MergedBefore(a, b)
  PROVE  /\ Cardinality(Preceding(E, a)) \in Nat /\ Cardinality(Preceding(E, b)) \in Nat
         /\ Cardinality(Preceding(E, a)) < Cardinality(Preceding(E, b))
<1> DEFINE A == Preceding(E, a)
           B == Preceding(E, b)
<1>1. A \in SUBSET B
  <2>1. ASSUME NEW f \in E, MergedBefore(f, a) PROVE MergedBefore(f, b)
    <3>1. f \in Event /\ a \in Event /\ b \in Event
      OBVIOUS
    <3> QED
      BY <2>1, <3>1, MergedChains
  <2> QED
    BY <2>1 DEF Preceding
<1>2. a \in B /\ a \notin A
  <2>1. a \in Event
    OBVIOUS
  <2> QED
    BY <2>1, MergedOnce DEF Preceding
<1>3. B \in SUBSET E
  BY DEF Preceding
<1> HIDE DEF A, B
<1>4. IsFiniteSet(B) /\ A # B
  BY <1>2, <1>3, FS_Subset
<1>5. IsFiniteSet(A) /\ Cardinality(A) <= Cardinality(B) /\ Cardinality(A) # Cardinality(B)
  BY <1>1, <1>4, FS_Subset
<1>6. Cardinality(A) \in Nat /\ Cardinality(B) \in Nat
  BY <1>4, <1>5, FS_CardinalityType
<1> QED
  BY <1>5, <1>6 DEF A, B

LEMMA PlacesFilled ==
  ASSUME NEW E, E \subseteq Event, IsFiniteSet(E), Alone(E), NEW k \in 1..Cardinality(E)
  PROVE  \E e \in E : Cardinality(Preceding(E, e)) = k - 1
<1> DEFINE n == Cardinality(E)
           place == [e \in E |-> Cardinality(Preceding(E, e))]
<1>1. n \in Nat
  BY FS_CardinalityType
<1>2. ASSUME NEW e \in E PROVE Cardinality(Preceding(E, e)) \in 0..(n - 1)
  <2> DEFINE P == Preceding(E, e)
  <2>1. P \in SUBSET (E \ {e})
    <3>1. e \in Event
      OBVIOUS
    <3> QED
      BY <3>1, MergedOnce DEF Preceding
  <2> HIDE DEF P
  <2>2. IsFiniteSet(E \ {e}) /\ Cardinality(E \ {e}) = n - 1
    BY FS_RemoveElement
  <2>3. IsFiniteSet(P) /\ Cardinality(P) <= n - 1
    BY <2>1, <2>2, FS_Subset
  <2>4. Cardinality(P) \in Nat
    BY <2>3, FS_CardinalityType
  <2> QED
    BY <1>1, <2>3, <2>4 DEF P
<1>3. \A a, b \in E : place[a] = place[b] => a = b
  <2>1. SUFFICES ASSUME NEW a \in E, NEW b \in E, a # b PROVE place[a] # place[b]
    OBVIOUS
  <2>2. MergedBefore(a, b) \/ MergedBefore(b, a)
    BY <2>1, MergedTotal
  <2>3. place[a] = Cardinality(Preceding(E, a)) /\ place[b] = Cardinality(Preceding(E, b))
    OBVIOUS
  <2> HIDE DEF place
  <2> QED
    BY <2>2, <2>3, FewerPrecede
<1>4. place \in [E -> 0..(n - 1)]
  BY <1>2
<1> HIDE DEF place, n
<1>5. place \in Injection(E, 0..(n - 1))
  BY <1>3, <1>4 DEF Injection, IsInjective
<1>6. IsFiniteSet(0..(n - 1)) /\ Cardinality(0..(n - 1)) = n
  BY <1>1, FS_Interval
<1>7. place \in Surjection(E, 0..(n - 1))
  BY <1>5, <1>6, FS_Injection DEF n
<1>8. k - 1 \in 0..(n - 1)
  BY <1>1 DEF n
<1> QED
  BY <1>7, <1>8 DEF Surjection, place

LEMMA MergeInOrder ==
  ASSUME NEW E, E \subseteq Event, IsFiniteSet(E), Alone(E)
  PROVE  InOrder(Merge(E))
<1> DEFINE s == Merge(E)
<1>1. Cardinality(E) \in Nat
  BY FS_CardinalityType
<1>2. s = [k \in 1..Cardinality(E) |-> CHOOSE e \in E : Cardinality(Preceding(E, e)) = k - 1]
  BY Zenon DEF Merge, Preceding
<1> HIDE DEF s
<1>3. ASSUME NEW k \in 1..Cardinality(E)
      PROVE  s[k] \in E /\ Cardinality(Preceding(E, s[k])) = k - 1
  <2>1. s[k] = CHOOSE e \in E : Cardinality(Preceding(E, e)) = k - 1
    BY <1>2
  <2>2. \E e \in E : Cardinality(Preceding(E, e)) = k - 1
    BY PlacesFilled
  <2> QED
    BY <2>1, <2>2, Zenon
<1>4. DOMAIN s = 1..Cardinality(E) /\ s \in Seq(Event)
  BY <1>1, <1>2, <1>3
<1>5. ASSUME NEW i \in 1..Cardinality(E), NEW j \in 1..Cardinality(E), i < j
      PROVE  s[i].t <= s[j].t
  <2>1. s[i] \in E /\ s[j] \in E /\ s[i].t \in Nat /\ s[j].t \in Nat
    BY <1>3 DEF Event
  <2>2. ~MergedBefore(s[j], s[i])
    <3>1. SUFFICES ASSUME MergedBefore(s[j], s[i]) PROVE FALSE
      OBVIOUS
    <3>2. Cardinality(Preceding(E, s[j])) < Cardinality(Preceding(E, s[i]))
      BY <2>1, <3>1, FewerPrecede
    <3>3. j - 1 < i - 1
      BY <1>3, <3>2
    <3> QED
      BY <1>5, <3>3
  <2> QED
    BY <2>1, <2>2 DEF MergedBefore
<1> QED
  BY <1>4, <1>5 DEF InOrder, s

-----------------------------------------------------------------------------
(* What is generated for one class or feed.                                *)
Group(S, cls, feed) ==
  /\ S \subseteq Event /\ IsFiniteSet(S)
  /\ \A e \in S : e.cls = cls /\ e.feed = feed
  /\ \A e, f \in S : e.t = f.t => e = f

LEMMA EventsFit ==
  ASSUME NEW cls \in WorkloadClass, NEW feed \in Nat, NEW at \in SUBSET Instant,
         NEW S \in Events(cls, feed, at)
  PROVE  Group(S, cls, feed)
<1>1. PICK sizes \in [at -> SizeRange[cls]] :
        S = {[t |-> i, cls |-> cls, feed |-> feed, size |-> sizes[i]] : i \in at}
  BY DEF Events
<1>2. at \subseteq Nat /\ IsFiniteSet(at)
  <2>1. Span \in Nat
    BY WorkloadAssumption
  <2>2. IsFiniteSet(0..(Span - 1)) /\ 0..(Span - 1) \subseteq Nat
    BY <2>1, FS_Interval
  <2> QED
    BY <2>2, FS_Subset DEF Instant
<1>3. \A i \in at : sizes[i] \in Nat \ {0}
  BY <1>1, WorkloadAssumption
<1> DEFINE g == [i \in at |-> [t |-> i, cls |-> cls, feed |-> feed, size |-> sizes[i]]]
<1>4. g \in Surjection(at, S)
  BY <1>1 DEF Surjection
<1> HIDE DEF g
<1>5. IsFiniteSet(S)
  BY <1>2, <1>4, FS_Surjection
<1>6. ASSUME NEW e \in S
      PROVE  e \in Event /\ e.cls = cls /\ e.feed = feed
  <2>1. PICK i \in at : e = [t |-> i, cls |-> cls, feed |-> feed, size |-> sizes[i]]
    BY <1>1
  <2> QED
    BY <1>2, <1>3, <2>1 DEF Event
<1>7. \A e, f \in S : e.t = f.t => e = f
  BY <1>1
<1> QED
  BY <1>5, <1>6, <1>7 DEF Group

LEMMA ClassesFit ==
  ASSUME NEW cls \in WorkloadClass, NEW S \in class_arrivals(cls)
  PROVE  Group(S, cls, 0)
<1>1. PICK at \in SUBSET Instant : S \in Events(cls, 0, at)
  BY DEF class_arrivals
<1> QED
  BY <1>1, EventsFit

LEMMA FeedsFit ==
  ASSUME NEW s \in Nat, NEW S \in media_streams(s)
  PROVE  Group(S, "media", s)
<1>1. PICK phase \in 0..(Segment - 1) : S \in Events("media", s, media_feed(phase))
  BY DEF media_streams
<1>2. media_feed(phase) \in SUBSET Instant /\ "media" \in WorkloadClass
  BY DEF media_feed, WorkloadClass
<1> QED
  BY <1>1, <1>2, EventsFit

(* So every stream the generator can return is in order of time.           *)
LEMMA WorkloadInOrder ==
  ASSUME NEW w \in generate_workload
  PROVE  InOrder(w)
<1>1. PICK e \in class_arrivals("emergency"), t \in class_arrivals("telemetry"),
           b \in class_arrivals("science_bulk"), f \in media_feeds :
        w = Merge(e \cup t \cup b \cup UNION Range(f))
  BY DEF generate_workload
<1>2. DOMAIN f = 1..MediaStreams /\ \A s \in 1..MediaStreams : f[s] \in media_streams(s)
  BY DEF media_feeds
<1>3. Group(e, "emergency", 0) /\ Group(t, "telemetry", 0) /\ Group(b, "science_bulk", 0)
  <2>1. "emergency" \in WorkloadClass /\ "telemetry" \in WorkloadClass
        /\ "science_bulk" \in WorkloadClass
    BY DEF WorkloadClass
  <2> QED
    BY <2>1, ClassesFit
<1>4. ASSUME NEW s \in 1..MediaStreams PROVE Group(f[s], "media", s)
  <2>1. s \in Nat /\ f[s] \in media_streams(s)
    BY <1>2, WorkloadAssumption
  <2> QED
    BY <2>1, FeedsFit
<1> DEFINE M == UNION Range(f)
           E == e \cup t \cup b \cup M
<1>5. IsFiniteSet(M)
  <2> DEFINE F == Range(f)
  <2>1. IsFiniteSet(1..MediaStreams)
    BY WorkloadAssumption, FS_Interval
  <2>2. f \in Surjection(1..MediaStreams, F)
    BY <1>2 DEF Surjection, Range, media_feeds
  <2>3. \A S \in F : IsFiniteSet(S)
    BY <1>4, <1>2 DEF Group, Range
  <2> HIDE DEF F
  <2>4. IsFiniteSet(F)
    BY <2>1, <2>2, FS_Surjection
  <2>5. IsFiniteSet(UNION F)
    BY <2>3, <2>4, FS_UNION
  <2> QED
    BY <2>5 DEF F
<1>6. IsFiniteSet(E)
  <2> HIDE DEF M
  <2>1. IsFiniteSet(e) /\ IsFiniteSet(t) /\ IsFiniteSet(b)
    BY <1>3 DEF Group
  <2>2. IsFiniteSet(e \cup t)
    BY <2>1, FS_Union
  <2>3. IsFiniteSet(e \cup t \cup b)
    BY <2>1, <2>2, FS_Union
  <2> QED
    BY <1>5, <2>3, FS_Union
<1>7. E \subseteq Event
  BY <1>3, <1>4, <1>2 DEF Group, Range
<1>8. ASSUME NEW x \in E
      PROVE  \/ x \in e /\ x.cls = "emergency"
             \/ x \in t /\ x.cls = "telemetry"
             \/ x \in b /\ x.cls = "science_bulk"
             \/ x.cls = "media" /\ x.feed \in 1..MediaStreams /\ x \in f[x.feed]
  BY <1>3, <1>4, <1>2 DEF Group, Range
<1>9. Alone(E)
  <2>1. SUFFICES ASSUME NEW x \in E, NEW y \in E, x.t = y.t, x.cls = y.cls, x.feed = y.feed
                 PROVE  x = y
    BY DEF Alone
  <2>2. CASE x.cls = "media"
    <3>1. x.feed \in 1..MediaStreams /\ x \in f[x.feed] /\ y \in f[x.feed]
      BY <1>8, <2>1, <2>2
    <3> HIDE DEF E
    <3> QED
      BY <1>4, <2>1, <3>1 DEF Group
  <2>3. CASE x.cls # "media"
    <3>1. \/ x \in e /\ y \in e
          \/ x \in t /\ y \in t
          \/ x \in b /\ y \in b
      BY <1>8, <2>1, <2>3
    <3> HIDE DEF E
    <3> QED
      BY <1>3, <2>1, <3>1 DEF Group
  <2> QED
    BY <2>2, <2>3
<1> HIDE DEF E
<1>10. InOrder(Merge(E))
  BY <1>6, <1>7, <1>9, MergeInOrder
<1> QED
  BY <1>1, <1>10 DEF E

-----------------------------------------------------------------------------
(* Bytes of events.                                                        *)
LEMMA BytesAreSums == \A K : EventBytes(K) = SumOf(Sizes, K)
BY Zenon DEF EventBytes, SumFunctionOnSet, FoldFunctionOnSet, SumOf, MapThenSumSet

LEMMA SizesAre ==
  ASSUME InOrder(events)
  PROVE  /\ DOMAIN events = 1..Len(events) /\ Len(events) \in Nat
         /\ \A k \in DOMAIN events :
              /\ events[k] \in Event /\ events[k].t \in Nat /\ Expires(k) \in Nat
              /\ Sizes[k] = events[k].size /\ Sizes[k] \in Nat
<1>1. events \in Seq(Event)
  BY DEF InOrder
<1>2. DOMAIN events = 1..Len(events) /\ Len(events) \in Nat
  BY <1>1
<1>3. ASSUME NEW k \in DOMAIN events
      PROVE  /\ events[k] \in Event /\ events[k].t \in Nat /\ Expires(k) \in Nat
             /\ Sizes[k] = events[k].size /\ Sizes[k] \in Nat
  <2>1. events[k] \in Event
    BY <1>1, <1>2, <1>3
  <2>2. events[k].t \in Nat /\ events[k].cls \in WorkloadClass /\ events[k].size \in Nat
    BY <2>1 DEF Event
  <2>3. DefaultTtl[events[k].cls] \in Nat
    BY <2>2, WorkloadAssumption
  <2> QED
    BY <2>1, <2>2, <2>3 DEF Expires, Sizes
<1> QED
  BY <1>2, <1>3

LEMMA EventBytesFinite ==
  ASSUME InOrder(events), NEW K, K \subseteq DOMAIN events
  PROVE  IsFiniteSet(K) /\ EventBytes(K) \in Nat
<1>1. IsFiniteSet(DOMAIN events) /\ \A k \in DOMAIN events : Sizes[k] \in Nat
  BY SizesAre, FS_Interval
<1>2. IsFiniteSet(K)
  BY <1>1, FS_Subset
<1>3. SumOf(Sizes, K) \in Nat
  <2>1. \A k \in K : Sizes[k] \in Nat
    BY <1>1
  <2> QED
    BY <1>2, <2>1, SumNatural
<1> QED
  BY <1>2, <1>3, BytesAreSums

LEMMA EventBytesSplit ==
  ASSUME InOrder(events), NEW K, K \subseteq DOMAIN events, NEW L, L \subseteq K
  PROVE  EventBytes(K) = EventBytes(L) + EventBytes(K \ L)
<1>1. IsFiniteSet(L) /\ IsFiniteSet(K \ L)
  BY EventBytesFinite, FS_Subset
<1>2. L \cup (K \ L) = K /\ L \cap (K \ L) = {}
  OBVIOUS
<1>3. \A k \in L \cup (K \ L) : Sizes[k] \in Int
  BY SizesAre
<1>4. SumOf(Sizes, L \cup (K \ L)) = SumOf(Sizes, L) + SumOf(Sizes, K \ L)
  BY <1>1, <1>2, <1>3, SumUnion
<1> QED
  BY <1>2, <1>4, BytesAreSums

LEMMA EventBytesWith ==
  ASSUME InOrder(events), NEW K, K \subseteq DOMAIN events, NEW k \in DOMAIN events, k \notin K
  PROVE  EventBytes(K \cup {k}) = EventBytes(K) + events[k].size
<1> DEFINE S == K \cup {k}
<1>1. S \subseteq DOMAIN events /\ k \in S /\ S \ {k} = K
  OBVIOUS
<1> HIDE DEF S
<1>2. IsFiniteSet(S) /\ \A x \in S : Sizes[x] \in Int
  BY <1>1, EventBytesFinite, SizesAre
<1>3. SumOf(Sizes, S) = Sizes[k] + SumOf(Sizes, S \ {k})
  BY <1>1, <1>2, SumRemove
<1>4. EventBytes(S) = Sizes[k] + EventBytes(K)
  BY <1>1, <1>3, BytesAreSums
<1>5. Sizes[k] = events[k].size /\ Sizes[k] \in Nat /\ EventBytes(K) \in Nat
  BY SizesAre, EventBytesFinite
<1> QED
  BY <1>4, <1>5 DEF S

LEMMA NoEventBytes == EventBytes({}) = 0
BY SumEmpty, BytesAreSums

-----------------------------------------------------------------------------
(* The recursive definition of what is taken: its function exists.         *)
Recursive(g) == g = [k \in 0..Len(events) |-> IF k = 0 THEN {} ELSE Joined(g[k - 1], k)]
JoinedUpTo(g, n) == \A k \in 0..n : g[k] = IF k = 0 THEN {} ELSE Joined(g[k - 1], k)

LEMMA TakenGrows ==
  ASSUME NEW n \in Nat, NEW g, JoinedUpTo(g, n)
  PROVE  \E h : JoinedUpTo(h, n + 1)
<1> DEFINE h == [k \in 0..(n + 1) |-> IF k = n + 1 THEN Joined(g[n], k) ELSE g[k]]
<1>1. \A k \in 0..n : h[k] = g[k]
  OBVIOUS
<1>2. h[n + 1] = Joined(g[n], n + 1)
  OBVIOUS
<1> HIDE DEF h
<1>3. ASSUME NEW k \in 0..(n + 1) PROVE h[k] = IF k = 0 THEN {} ELSE Joined(h[k - 1], k)
  <2>1. CASE k = n + 1
    <3>1. k # 0 /\ k - 1 = n /\ h[n] = g[n]
      BY <1>1, <2>1
    <3> QED
      BY <1>2, <2>1, <3>1
  <2>2. CASE k # n + 1
    <3>1. k \in 0..n /\ (k # 0 => h[k - 1] = g[k - 1])
      BY <1>1, <2>2
    <3>2. h[k] = g[k] /\ g[k] = IF k = 0 THEN {} ELSE Joined(g[k - 1], k)
      BY <1>1, <3>1 DEF JoinedUpTo
    <3> QED
      BY <3>1, <3>2
  <2> QED
    BY <2>1, <2>2
<1> QED
  BY <1>3 DEF JoinedUpTo

LEMMA TakenExists ==
  ASSUME NEW n \in Nat
  PROVE  \E g : JoinedUpTo(g, n)
<1> DEFINE Bad == {m \in Nat : ~\E g : JoinedUpTo(g, m)}
<1>1. SUFFICES ASSUME Bad # {} PROVE FALSE
  OBVIOUS
<1>2. PICK m \in Bad : \A k \in Bad : m <= k
  BY <1>1, LeastNatural
<1>3. CASE m = 0
  <2>1. JoinedUpTo([k \in {0} |-> {}], 0)
    BY DEF JoinedUpTo
  <2> QED
    BY <1>2, <1>3, <2>1
<1>4. CASE m # 0
  <2>1. m - 1 \in Nat /\ ~(m <= m - 1) /\ (m - 1) + 1 = m
    BY <1>2, <1>4
  <2>2. \E g : JoinedUpTo(g, m - 1)
    BY <1>2, <2>1
  <2>3. \E h : JoinedUpTo(h, (m - 1) + 1)
    BY <2>1, <2>2, TakenGrows
  <2> QED
    BY <1>2, <2>1, <2>3
<1> QED
  BY <1>3, <1>4

LEMMA TakenEntries ==
  ASSUME Len(events) \in Nat
  PROVE  /\ Taken[0] = {}
         /\ \A k \in 1..Len(events) : Taken[k] = Joined(Taken[k - 1], k)
<1>1. PICK f : JoinedUpTo(f, Len(events))
  BY TakenExists
<1> DEFINE g == [k \in 0..Len(events) |-> f[k]]
<1>2. \A k \in 0..Len(events) : g[k] = f[k]
  OBVIOUS
<1>3. ASSUME NEW k \in 0..Len(events) PROVE f[k] = IF k = 0 THEN {} ELSE Joined(g[k - 1], k)
  <2>1. k # 0 => g[k - 1] = f[k - 1]
    BY <1>2
  <2> QED
    BY <1>1, <2>1 DEF JoinedUpTo
<1>4. Recursive(g)
  BY <1>3 DEF Recursive
<1> HIDE DEF g
<1>5. Recursive(Taken)
  <2>1. Taken = CHOOSE h : Recursive(h)
    BY Zenon DEF Taken, Recursive
  <2> QED
    BY <1>4, <2>1, Zenon
<1>6. \A k \in 0..Len(events) : Taken[k] = IF k = 0 THEN {} ELSE Joined(Taken[k - 1], k)
  BY <1>5 DEF Recursive
<1> QED
  BY <1>6

(* Of the first k events no other is ever taken, whatever comes later.     *)
LEMMA TakenStays ==
  ASSUME InOrder(events), NEW n \in 0..Len(events)
  PROVE  Taken[n] \subseteq 1..n /\ \A m \in 0..n : Taken[n] \cap (1..m) = Taken[m]
<1> DEFINE Good(k) == Taken[k] \subseteq 1..k /\ \A m \in 0..k : Taken[k] \cap (1..m) = Taken[m]
           Bad == {k \in 0..Len(events) : ~Good(k)}
<1>1. Len(events) \in Nat
  BY SizesAre
<1>2. SUFFICES ASSUME Bad # {} PROVE FALSE
  OBVIOUS
<1>3. PICK k \in Bad : \A m \in Bad : k <= m
  <2>1. Bad \in SUBSET Nat
    BY <1>1
  <2> HIDE DEF Bad
  <2> QED
    BY <1>2, <2>1, LeastNatural
<1>4. k \in 0..Len(events) /\ ~Good(k)
  BY <1>3
<1>5. CASE k = 0
  <2>1. Taken[0] = {}
    BY <1>1, TakenEntries
  <2> QED
    BY <1>4, <1>5, <2>1
<1>6. CASE k # 0
  <2>1. k - 1 \in 0..Len(events) /\ ~(k <= k - 1) /\ k \in 1..Len(events) /\ k \in Nat
    BY <1>1, <1>4, <1>6
  <2>2. k - 1 \notin Bad
    <3> HIDE DEF Bad
    <3> QED
      BY <1>3, <2>1
  <2>3. Good(k - 1)
    BY <2>1, <2>2
  <2>4. Taken[k] = Taken[k - 1] \/ Taken[k] = Taken[k - 1] \cup {k}
    <3>1. Taken[k] = Joined(Taken[k - 1], k)
      BY <1>1, <2>1, TakenEntries
    <3> QED
      BY <3>1 DEF Joined
  <2>5. Taken[k - 1] \subseteq 1..(k - 1)
    BY <2>3
  <2>6. Taken[k] \subseteq 1..k
    BY <2>1, <2>4, <2>5
  <2>7. ASSUME NEW m \in 0..k PROVE Taken[k] \cap (1..m) = Taken[m]
    <3>1. CASE m = k
      BY <2>6, <3>1
    <3>2. CASE m # k
      <4>1. m \in 0..(k - 1) /\ k \notin 1..m
        BY <2>1, <3>2
      <4>2. Taken[k - 1] \cap (1..m) = Taken[m]
        BY <2>3, <4>1
      <4> QED
        BY <2>4, <4>1, <4>2
    <3> QED
      BY <3>1, <3>2
  <2> QED
    BY <1>4, <2>6, <2>7
<1> QED
  BY <1>5, <1>6

LEMMA TakenSteady == events' = events => Taken' = Taken
BY DEF Taken, Joined, Expires, EventBytes, Sizes, SumFunctionOnSet, FoldFunctionOnSet,
       MapThenFoldSet

-----------------------------------------------------------------------------
(* The walk: events and checkpoints before the places reached are done     *)
(* with, and none of the events comes after the next checkpoint.           *)
WalkShape ==
  /\ InOrder(events) /\ next \in 1..(Len(events) + 1) /\ ci \in 1..(Len(Checkpoints) + 1)
  /\ DOMAIN series = 1..(ci - 1) /\ Len(series) = ci - 1
  /\ series \in Seq([occ : Nat, overflow : Nat])
  /\ ci <= Len(Checkpoints) => \A k \in 1..(next - 1) : events[k].t <= Checkpoints[ci]

(* The buffer holds what was taken, but for what is dead for all that is   *)
(* still to come.                                                          *)
DeadByThen(k) ==
  /\ next <= Len(events) => Expires(k) <= events[next].t
  /\ ci <= Len(Checkpoints) => Expires(k) <= Checkpoints[ci]
HeldShape ==
  /\ held \subseteq Taken[next - 1] /\ \A k \in Taken[next - 1] \ held : DeadByThen(k)
  /\ occupied = EventBytes(held) /\ occupied <= BufferLimit
  /\ overflowed = EventBytes((1..(next - 1)) \ Taken[next - 1])

Came(i) == {k \in DOMAIN events : events[k].t <= Checkpoints[i]}
PointRight(i) ==
  LET taken == Taken[Len(events)]
  IN  /\ series[i].occ = EventBytes({k \in Came(i) \cap taken : Expires(k) > Checkpoints[i]})
      /\ series[i].overflow = EventBytes(Came(i) \ taken)
      /\ series[i].occ <= BufferLimit
PointsRight == \A i \in DOMAIN series : PointRight(i)

FillShape == WalkShape /\ HeldShape /\ PointsRight

LEMMA FillStarts == CappedInit => FillShape
<1> SUFFICES ASSUME CappedInit PROVE FillShape
  OBVIOUS
<1>1. InOrder(events) /\ Len(events) \in Nat /\ Len(Checkpoints) \in Nat /\ BufferLimit \in Nat
  BY WorkloadInOrder, SizesAre, CappedAssumption DEF CappedInit
<1>2. next = 1 /\ held = {} /\ occupied = 0 /\ overflowed = 0 /\ series = <<>> /\ ci = 1
  BY DEF CappedInit
<1>3. WalkShape
  BY <1>1, <1>2 DEF WalkShape
<1>4. HeldShape
  <2>1. Taken[next - 1] = {} /\ (1..(next - 1)) \ Taken[next - 1] = {}
    BY <1>1, <1>2, TakenEntries
  <2> QED
    BY <1>1, <1>2, <2>1, NoEventBytes DEF HeldShape
<1>5. PointsRight
  BY <1>2 DEF PointsRight
<1> QED
  BY <1>3, <1>4, <1>5 DEF FillShape

LEMMA WalkTypes ==
  ASSUME WalkShape
  PROVE  /\ Len(events) \in Nat /\ Len(Checkpoints) \in Nat /\ next \in Nat /\ ci \in Nat
         /\ DOMAIN events = 1..Len(events) /\ BufferLimit \in Nat
         /\ next >= 1 /\ ci >= 1 /\ next <= Len(events) + 1 /\ ci <= Len(Checkpoints) + 1
         /\ \A i \in 1..Len(Checkpoints) : Checkpoints[i] \in Nat
         /\ \A i, j \in 1..Len(Checkpoints) : i < j => Checkpoints[i] <= Checkpoints[j]
         /\ \A k \in 1..Len(events) : /\ events[k].t \in Nat /\ Expires(k) \in Nat
                                      /\ events[k].size \in Nat
         /\ \A j, k \in 1..Len(events) : j < k => events[j].t <= events[k].t
<1>1. Checkpoints \in Seq(Nat) /\ Len(Checkpoints) \in Nat /\ BufferLimit \in Nat
      /\ DOMAIN Checkpoints = 1..Len(Checkpoints)
  BY CappedAssumption
<1>2. InOrder(events) /\ next \in 1..(Len(events) + 1) /\ ci \in 1..(Len(Checkpoints) + 1)
  BY DEF WalkShape
<1>3. DOMAIN events = 1..Len(events) /\ Len(events) \in Nat
  BY <1>2, SizesAre
<1>4. \A k \in 1..Len(events) : /\ events[k].t \in Nat /\ Expires(k) \in Nat
                                /\ events[k].size \in Nat
  BY <1>2, <1>3, SizesAre
<1>5. \A i \in 1..Len(Checkpoints) : Checkpoints[i] \in Nat
  BY <1>1
<1>6. \A j, k \in 1..Len(events) : j < k => events[j].t <= events[k].t
  BY <1>2, <1>3 DEF InOrder
<1>7. \A i, j \in 1..Len(Checkpoints) : i < j => Checkpoints[i] <= Checkpoints[j]
  BY <1>1, CappedAssumption
<1>8. next \in Nat /\ ci \in Nat /\ next >= 1 /\ ci >= 1 /\ next <= Len(events) + 1
      /\ ci <= Len(Checkpoints) + 1
  BY <1>1, <1>2, <1>3
<1> QED
  BY <1>1, <1>3, <1>4, <1>5, <1>6, <1>7, <1>8

(* What is still alive of what was taken is in the buffer, at the next     *)
(* event as well as at the next checkpoint.                                *)
LEMMA HeldIsAlive ==
  ASSUME WalkShape, HeldShape, NEW time \in Nat,
         \A k \in Taken[next - 1] \ held : Expires(k) <= time
  PROVE  /\ Kept(time) = {k \in Taken[next - 1] : Expires(k) > time}
         /\ Kept(time) \subseteq 1..(next - 1) /\ Kept(time) \subseteq DOMAIN events
         /\ Left(time) = EventBytes(Kept(time)) /\ Left(time) \in Nat /\ Left(time) <= BufferLimit
<1>1. /\ Len(events) \in Nat /\ next \in Nat /\ DOMAIN events = 1..Len(events)
      /\ next - 1 \in 0..Len(events) /\ InOrder(events) /\ BufferLimit \in Nat
      /\ \A k \in 1..Len(events) : Expires(k) \in Nat
  BY WalkTypes DEF WalkShape
<1>2. held \subseteq Taken[next - 1] /\ Taken[next - 1] \subseteq 1..(next - 1)
  BY <1>1, TakenStays DEF HeldShape
<1>3. 1..(next - 1) \subseteq DOMAIN events
  BY <1>1
<1>4. Kept(time) \subseteq held
  BY DEF Kept
<1>5. Kept(time) = {k \in Taken[next - 1] : Expires(k) > time}
  <2>1. ASSUME NEW k \in Taken[next - 1], Expires(k) > time PROVE k \in held
    BY <1>1, <1>2, <1>3, <2>1
  <2> QED
    BY <1>2, <2>1 DEF Kept
<1>6. EventBytes(held) = EventBytes(Kept(time)) + EventBytes(held \ Kept(time))
  BY <1>1, <1>2, <1>3, <1>4, EventBytesSplit
<1>7. EventBytes(Kept(time)) \in Nat
  BY <1>1, <1>2, <1>3, <1>4, EventBytesFinite
<1>8. EventBytes(held \ Kept(time)) \in Nat
  BY <1>1, <1>2, <1>3, EventBytesFinite
<1>9. Left(time) = EventBytes(Kept(time)) /\ Left(time) <= BufferLimit
  BY <1>1, <1>6, <1>7, <1>8 DEF Left, HeldShape
<1> QED
  BY <1>2, <1>3, <1>4, <1>5, <1>7, <1>9

LEMMA EventsSteady ==
  events' = events =>
    /\ Taken' = Taken /\ (\A K : EventBytes(K)' = EventBytes(K))
    /\ (\A k : Expires(k)' = Expires(k)) /\ (\A i : Came(i)' = Came(i))
<1> SUFFICES ASSUME events' = events
             PROVE  /\ Taken' = Taken /\ (\A K : EventBytes(K)' = EventBytes(K))
                    /\ (\A k : Expires(k)' = Expires(k)) /\ (\A i : Came(i)' = Came(i))
  OBVIOUS
<1>1. Sizes' = Sizes
  BY DEF Sizes
<1>2. \A K : EventBytes(K)' = EventBytes(K)
  <2>1. (\A K : EventBytes(K) = SumOf(Sizes, K))'
    BY BytesAreSums, PTL
  <2>2. \A K : EventBytes(K)' = SumOf(Sizes', K)
    BY <2>1
  <2> QED
    BY <1>1, <2>2, BytesAreSums
<1> QED
  BY <1>2, TakenSteady DEF Expires, Came

(* Points already noted stay right.                                        *)
LEMMA PointsStay ==
  ASSUME PointsRight, events' = events, NEW i \in DOMAIN series, series'[i] = series[i]
  PROVE  PointRight(i)'
<1>1. PICK T, n : T = Taken /\ n = Len(events)
  OBVIOUS
<1>2. Taken' = T /\ Len(events)' = n /\ Came(i)' = Came(i) /\ \A k : Expires(k)' = Expires(k)
  BY <1>1, EventsSteady
<1>3. PICK A, B : /\ A = {k \in Came(i) \cap T[n] : Expires(k) > Checkpoints[i]}
                  /\ B = Came(i) \ T[n]
  OBVIOUS
<1>4. /\ series[i].occ = EventBytes(A) /\ series[i].overflow = EventBytes(B)
      /\ series[i].occ <= BufferLimit
  BY <1>1, <1>3 DEF PointsRight, PointRight
<1>5. EventBytes(A)' = EventBytes(A) /\ EventBytes(B)' = EventBytes(B)
  BY EventsSteady
<1>6. /\ series'[i].occ = EventBytes(A)' /\ series'[i].overflow = EventBytes(B)'
      /\ series'[i].occ <= BufferLimit
  BY <1>4, <1>5
<1>7. /\ {k \in Came(i) \cap Taken[Len(events)] : Expires(k) > Checkpoints[i]}' = A
      /\ (Came(i) \ Taken[Len(events)])' = B
  BY <1>2, <1>3
<1> QED
  BY <1>6, <1>7 DEF PointRight

-----------------------------------------------------------------------------
LEMMA NoteStep ==
  ASSUME FillShape, NoteCheckpoint
  PROVE  FillShape'
<1> DEFINE c == Checkpoints[ci]
<1>1. WalkShape /\ HeldShape /\ PointsRight
  BY DEF FillShape
<1>2. /\ ci <= Len(Checkpoints) /\ (next <= Len(events) => c < events[next].t)
      /\ held' = Kept(c) /\ occupied' = Left(c) /\ ci' = ci + 1
      /\ series' = Append(series, [occ |-> Left(c), overflow |-> overflowed])
      /\ events' = events /\ next' = next /\ overflowed' = overflowed
  BY DEF NoteCheckpoint, CheckpointDue
<1>3. /\ Len(events) \in Nat /\ Len(Checkpoints) \in Nat /\ next \in Nat /\ ci \in Nat
      /\ DOMAIN events = 1..Len(events) /\ next >= 1 /\ ci >= 1 /\ next <= Len(events) + 1
      /\ InOrder(events) /\ c \in Nat
      /\ \A k \in 1..Len(events) : events[k].t \in Nat /\ Expires(k) \in Nat
      /\ \A j, k \in 1..Len(events) : j < k => events[j].t <= events[k].t
  <2>1. ci \in 1..Len(Checkpoints)
    BY <1>1, <1>2, WalkTypes
  <2> QED
    BY <1>1, <2>1, WalkTypes DEF WalkShape
<1>4. ci + 1 <= Len(Checkpoints) => Checkpoints[ci + 1] \in Nat /\ c <= Checkpoints[ci + 1]
  <2>1. SUFFICES ASSUME ci + 1 <= Len(Checkpoints)
                 PROVE  Checkpoints[ci + 1] \in Nat /\ c <= Checkpoints[ci + 1]
    OBVIOUS
  <2>2. ci \in 1..Len(Checkpoints) /\ ci + 1 \in 1..Len(Checkpoints) /\ ci < ci + 1
    BY <1>3, <2>1
  <2> QED
    BY <1>1, <2>2, WalkTypes
<1> DEFINE n == next - 1
           T == Taken[n]
<1>5. n \in 0..Len(events) /\ T \subseteq 1..n /\ T = Taken[Len(events)] \cap (1..n)
  <2>1. n \in 0..Len(events) /\ Len(events) \in 0..Len(events)
    BY <1>3
  <2> QED
    BY <1>3, <2>1, TakenStays
<1>6. Came(ci) = 1..n
  <2>1. ASSUME NEW k \in 1..Len(events), k <= n PROVE events[k].t <= c
    BY <1>1, <1>2, <1>3, <2>1 DEF WalkShape
  <2>2. ASSUME NEW k \in 1..Len(events), ~(k <= n) PROVE ~(events[k].t <= c)
    <3>1. next \in 1..Len(events) /\ (next = k \/ next < k)
      BY <1>3, <2>2
    <3>2. c < events[next].t /\ events[next].t <= events[k].t
      BY <1>2, <1>3, <3>1
    <3> QED
      BY <1>3, <3>1, <3>2
  <2>3. 1..n \subseteq 1..Len(events)
    BY <1>3
  <2> HIDE DEF c
  <2> QED
    BY <1>3, <2>1, <2>2, <2>3 DEF Came, c
<1>7. \A k \in T \ held : Expires(k) <= c
  BY <1>1, <1>2 DEF HeldShape, DeadByThen
<1>8. /\ Kept(c) = {k \in T : Expires(k) > c}
      /\ Left(c) = EventBytes(Kept(c)) /\ Left(c) \in Nat /\ Left(c) <= BufferLimit
  BY <1>1, <1>3, <1>7, HeldIsAlive
<1>9. overflowed = EventBytes((1..n) \ T) /\ overflowed \in Nat
  <2>1. (1..n) \ T \subseteq DOMAIN events
    BY <1>3
  <2> QED
    BY <1>1, <1>3, <2>1, EventBytesFinite DEF HeldShape
<1> HIDE DEF c, n, T
<1>10. Taken' = Taken /\ (\A K : EventBytes(K)' = EventBytes(K))
       /\ (\A k : Expires(k)' = Expires(k)) /\ InOrder(events)'
  BY <1>2, <1>3, EventsSteady DEF InOrder
<1>11. WalkShape'
  <2>1. DOMAIN series = 1..(ci - 1) /\ Len(series) = ci - 1
        /\ series \in Seq([occ : Nat, overflow : Nat])
    BY <1>1 DEF WalkShape
  <2>2. DOMAIN series' = 1..(ci' - 1) /\ Len(series') = ci' - 1
        /\ series' \in Seq([occ : Nat, overflow : Nat])
    BY <1>2, <1>3, <1>8, <1>9, <2>1
  <2>3. ci' <= Len(Checkpoints) =>
          \A k \in 1..(next' - 1) : events'[k].t <= Checkpoints[ci']
    <3>1. SUFFICES ASSUME ci + 1 <= Len(Checkpoints), NEW k \in 1..(next - 1)
                   PROVE  events[k].t <= Checkpoints[ci + 1]
      BY <1>2
    <3>2. events[k].t <= c /\ events[k].t \in Nat
      <4>1. k \in 1..Len(events)
        BY <1>3
      <4> QED
        BY <1>1, <1>2, <1>3, <4>1 DEF WalkShape, c
    <3> QED
      BY <1>3, <1>4, <3>1, <3>2
  <2>4. next' \in 1..(Len(events') + 1) /\ ci' \in 1..(Len(Checkpoints) + 1)
    BY <1>2, <1>3
  <2> QED
    BY <1>10, <2>2, <2>3, <2>4 DEF WalkShape
<1>12. HeldShape'
  <2>1. held' \subseteq T /\ occupied' = EventBytes(held') /\ occupied' <= BufferLimit
    BY <1>2, <1>8
  <2>2. ASSUME NEW k \in T \ held' PROVE DeadByThen(k)'
    <3>1. Expires(k) <= c
      <4>1. k \in 1..Len(events)
        BY <1>3, <1>5, <2>2
      <4> QED
        BY <1>2, <1>3, <1>8, <2>2, <4>1
    <3>2. k \in 1..Len(events) /\ Expires(k) \in Nat
      BY <1>3, <1>5, <2>2
    <3>3. next <= Len(events) => Expires(k) <= events[next].t
      <4>1. next <= Len(events) => next \in 1..Len(events) /\ c < events[next].t
        BY <1>2, <1>3
      <4> QED
        BY <1>3, <3>1, <3>2, <4>1
    <3>4. ci + 1 <= Len(Checkpoints) => Expires(k) <= Checkpoints[ci + 1]
      BY <1>3, <1>4, <3>1, <3>2
    <3> QED
      BY <1>2, <1>10, <3>3, <3>4 DEF DeadByThen
  <2>3. Taken'[next' - 1] = T
    BY <1>2, <1>10 DEF T, n
  <2>4. overflowed' = EventBytes((1..(next' - 1)) \ T)
    BY <1>2, <1>9 DEF n
  <2>5. PICK h, m : h = held' /\ m = (1..(next' - 1)) \ T
    OBVIOUS
  <2>6. /\ EventBytes(held)' = EventBytes(h)'
        /\ EventBytes((1..(next - 1)) \ Taken[next - 1])' = EventBytes(m)'
    BY <2>3, <2>5
  <2>7. EventBytes(h)' = EventBytes(h) /\ EventBytes(m)' = EventBytes(m)
    BY <1>10
  <2> QED
    BY <2>1, <2>2, <2>3, <2>4, <2>5, <2>6, <2>7 DEF HeldShape
<1>13. PointsRight'
  <2>1. DOMAIN series = 1..(ci - 1) /\ Len(series) = ci - 1
        /\ series \in Seq([occ : Nat, overflow : Nat])
    BY <1>1 DEF WalkShape
  <2>2. DOMAIN series' = DOMAIN series \cup {ci} /\ ci \notin DOMAIN series
        /\ (\A i \in DOMAIN series : series'[i] = series[i])
        /\ series'[ci] = [occ |-> Left(c), overflow |-> overflowed]
    BY <1>2, <1>3, <2>1
  <2>3. ASSUME NEW i \in DOMAIN series PROVE PointRight(i)'
    BY <1>1, <1>2, <2>2, PointsStay
  <2>4. ASSUME NEW i, i = ci PROVE PointRight(i)'
    <3>1. PICK A, B : A = Kept(c) /\ B = (1..n) \ T
      OBVIOUS
    <3>2. /\ {k \in Came(i) \cap Taken[Len(events)] : Expires(k) > Checkpoints[i]} = A
          /\ Came(i) \ Taken[Len(events)] = B
      BY <1>5, <1>6, <1>8, <2>4, <3>1 DEF c
    <3>3. /\ {k \in Came(i) \cap Taken[Len(events)] : Expires(k) > Checkpoints[i]}' = A
          /\ (Came(i) \ Taken[Len(events)])' = B
      BY <1>2, <3>2, EventsSteady
    <3>4. /\ series'[i].occ = EventBytes(A) /\ series'[i].overflow = EventBytes(B)
          /\ series'[i].occ <= BufferLimit
      BY <1>8, <1>9, <2>2, <2>4, <3>1
    <3>5. EventBytes(A)' = EventBytes(A) /\ EventBytes(B)' = EventBytes(B)
      BY <1>10
    <3> QED
      BY <3>3, <3>4, <3>5 DEF PointRight
  <2>5. ASSUME NEW i \in DOMAIN series' PROVE PointRight(i)'
    BY <2>2, <2>3, <2>4, <2>5
  <2> QED
    BY <2>5 DEF PointsRight
<1> QED
  BY <1>11, <1>12, <1>13 DEF FillShape

LEMMA TakeStep ==
  ASSUME FillShape, TakeEvent
  PROVE  FillShape'
<1> DEFINE e == events[next]
           n == next - 1
           T == Taken[n]
<1>1. WalkShape /\ HeldShape /\ PointsRight
  BY DEF FillShape
<1>2. /\ next <= Len(events) /\ events' = events /\ next' = next + 1
      /\ series' = series /\ ci' = ci
      /\ IF Left(e.t) + e.size <= BufferLimit
           THEN /\ held' = Kept(e.t) \cup {next}
                /\ occupied' = Left(e.t) + e.size
                /\ overflowed' = overflowed
           ELSE /\ held' = Kept(e.t) /\ occupied' = Left(e.t)
                /\ overflowed' = overflowed + e.size
  BY DEF TakeEvent
<1>3. /\ Len(events) \in Nat /\ Len(Checkpoints) \in Nat /\ next \in Nat /\ ci \in Nat
      /\ DOMAIN events = 1..Len(events) /\ next >= 1 /\ ci >= 1 /\ ci <= Len(Checkpoints) + 1
      /\ next \in 1..Len(events) /\ InOrder(events) /\ BufferLimit \in Nat
      /\ e.t \in Nat /\ e.size \in Nat
      /\ \A k \in 1..Len(events) : events[k].t \in Nat /\ Expires(k) \in Nat
      /\ \A j, k \in 1..Len(events) : j < k => events[j].t <= events[k].t
  <2>1. /\ Len(events) \in Nat /\ next \in Nat /\ next >= 1 /\ InOrder(events)
    BY <1>1, WalkTypes DEF WalkShape
  <2>2. next \in 1..Len(events)
    BY <1>2, <2>1
  <2> QED
    BY <1>1, <2>1, <2>2, WalkTypes
<1>4. ci <= Len(Checkpoints) => Checkpoints[ci] \in Nat /\ e.t <= Checkpoints[ci]
  <2>1. SUFFICES ASSUME ci <= Len(Checkpoints)
                 PROVE  Checkpoints[ci] \in Nat /\ e.t <= Checkpoints[ci]
    OBVIOUS
  <2>2. ci \in 1..Len(Checkpoints)
    BY <1>3, <2>1
  <2>3. Checkpoints[ci] \in Nat
    BY <1>1, <2>2, WalkTypes
  <2>4. ~(Checkpoints[ci] < e.t)
    BY <1>2, <2>1 DEF TakeEvent, CheckpointDue
  <2> QED
    BY <1>3, <2>3, <2>4
<1>5. /\ n \in 0..Len(events) /\ T \subseteq 1..n /\ next \notin 1..n
      /\ 1..n \subseteq DOMAIN events /\ 1..next = (1..n) \cup {next}
  <2>1. n \in 0..Len(events) /\ next \notin 1..n /\ 1..n \subseteq DOMAIN events
        /\ 1..next = (1..n) \cup {next}
    BY <1>3
  <2> QED
    BY <1>3, <2>1, TakenStays
<1>6. \A k \in T \ held : Expires(k) <= e.t
  BY <1>1, <1>2 DEF HeldShape, DeadByThen
<1>7. /\ Kept(e.t) = {k \in T : Expires(k) > e.t} /\ Kept(e.t) \subseteq DOMAIN events
      /\ Left(e.t) = EventBytes(Kept(e.t)) /\ Left(e.t) \in Nat /\ Left(e.t) <= BufferLimit
  BY <1>1, <1>3, <1>6, HeldIsAlive
<1>8. Taken[next] = IF Left(e.t) + e.size <= BufferLimit THEN T \cup {next} ELSE T
  <2>1. Taken[next] = Joined(T, next)
    BY <1>3, TakenEntries
  <2> HIDE DEF T
  <2> QED
    BY <1>7, <2>1 DEF Joined
<1>9. overflowed = EventBytes((1..n) \ T) /\ overflowed \in Nat
  <2>1. (1..n) \ T \subseteq DOMAIN events
    BY <1>5
  <2> QED
    BY <1>1, <1>3, <2>1, EventBytesFinite DEF HeldShape
<1>10. PICK U : U = Taken[next]
  OBVIOUS
<1> HIDE DEF e, n, T
<1>11. held' \subseteq U /\ occupied' = EventBytes(held') /\ occupied' <= BufferLimit
       /\ overflowed' = EventBytes((1..next) \ U)
  <2>1. CASE Left(e.t) + e.size <= BufferLimit
    <3>1. U = T \cup {next} /\ held' = Kept(e.t) \cup {next} /\ occupied' = Left(e.t) + e.size
          /\ overflowed' = overflowed
      BY <1>2, <1>8, <1>10, <2>1
    <3>2. next \notin Kept(e.t)
      BY <1>5, <1>7
    <3>3. EventBytes(held') = EventBytes(Kept(e.t)) + e.size
      BY <1>3, <1>7, <3>1, <3>2, EventBytesWith DEF e
    <3>4. (1..next) \ U = (1..n) \ T
      BY <1>5, <3>1
    <3> QED
      BY <1>7, <1>9, <2>1, <3>1, <3>3, <3>4
  <2>2. CASE ~(Left(e.t) + e.size <= BufferLimit)
    <3>1. U = T /\ held' = Kept(e.t) /\ occupied' = Left(e.t) /\ overflowed' = overflowed + e.size
      BY <1>2, <1>8, <1>10, <2>2
    <3>2. PICK L : L = (1..n) \ T /\ L \subseteq DOMAIN events /\ next \notin L
      BY <1>5
    <3>3. (1..next) \ U = L \cup {next}
      BY <1>5, <3>1, <3>2
    <3>4. EventBytes(L \cup {next}) = EventBytes(L) + e.size
      BY <1>3, <3>2, EventBytesWith DEF e
    <3> QED
      BY <1>7, <1>9, <3>1, <3>2, <3>3, <3>4
  <2> QED
    BY <2>1, <2>2
<1>12. Taken' = Taken /\ (\A K : EventBytes(K)' = EventBytes(K))
       /\ (\A k : Expires(k)' = Expires(k)) /\ InOrder(events)'
  BY <1>2, <1>3, EventsSteady DEF InOrder
<1>13. WalkShape'
  <2>1. ci <= Len(Checkpoints) => \A k \in 1..next : events[k].t <= Checkpoints[ci]
    <3>1. ci <= Len(Checkpoints) => \A k \in 1..n : events[k].t <= Checkpoints[ci]
      BY <1>1 DEF WalkShape, n
    <3> QED
      BY <1>4, <1>5, <3>1 DEF e
  <2>2. next' \in 1..(Len(events') + 1) /\ next' - 1 = next
    BY <1>2, <1>3
  <2> QED
    BY <1>1, <1>2, <1>12, <2>1, <2>2 DEF WalkShape
<1>14. HeldShape'
  <2>1. ASSUME NEW k \in U \ held' PROVE DeadByThen(k)'
    <3>1. k \in T /\ ~(Expires(k) > e.t)
      BY <1>2, <1>7, <1>8, <1>10, <2>1
    <3>2. k \in 1..Len(events) /\ Expires(k) \in Nat /\ Expires(k) <= e.t
      BY <1>3, <1>5, <3>1
    <3>3. next + 1 <= Len(events) => Expires(k) <= events[next + 1].t
      <4>1. next + 1 <= Len(events) =>
              /\ next + 1 \in 1..Len(events) /\ next < next + 1
              /\ events[next].t <= events[next + 1].t
        BY <1>3
      <4> QED
        BY <1>3, <3>2, <4>1 DEF e
    <3>4. ci <= Len(Checkpoints) => Expires(k) <= Checkpoints[ci]
      BY <1>3, <1>4, <3>2
    <3> QED
      BY <1>2, <1>12, <3>3, <3>4 DEF DeadByThen
  <2>2. next' - 1 = next /\ Taken'[next' - 1] = U
    BY <1>2, <1>3, <1>10, <1>12
  <2>3. PICK h, m : h = held' /\ m = (1..next) \ U
    OBVIOUS
  <2>4. /\ EventBytes(held)' = EventBytes(h)'
        /\ EventBytes((1..(next - 1)) \ Taken[next - 1])' = EventBytes(m)'
    BY <2>2, <2>3
  <2>5. EventBytes(h)' = EventBytes(h) /\ EventBytes(m)' = EventBytes(m)
    BY <1>12
  <2> QED
    BY <1>11, <2>1, <2>2, <2>3, <2>4, <2>5 DEF HeldShape
<1>15. PointsRight'
  <2>1. ASSUME NEW i \in DOMAIN series PROVE PointRight(i)'
    BY <1>1, <1>2, PointsStay
  <2> QED
    BY <1>2, <2>1 DEF PointsRight
<1> QED
  BY <1>13, <1>14, <1>15 DEF FillShape

LEMMA FillStays ==
  ASSUME FillShape, UNCHANGED capped
  PROVE  FillShape'
<1>1. /\ events' = events /\ next' = next /\ held' = held /\ occupied' = occupied
      /\ overflowed' = overflowed /\ series' = series /\ ci' = ci
  BY DEF capped
<1>2. Taken' = Taken /\ (\A K : EventBytes(K)' = EventBytes(K)) /\ (\A k : Expires(k)' = Expires(k))
  BY <1>1, EventsSteady
<1>3. WalkShape'
  BY <1>1 DEF FillShape, WalkShape, InOrder
<1>4. HeldShape'
  <2>1. PICK h, m : h = held /\ m = (1..(next - 1)) \ Taken[next - 1]
    OBVIOUS
  <2>2. /\ EventBytes(held)' = EventBytes(h)'
        /\ EventBytes((1..(next - 1)) \ Taken[next - 1])' = EventBytes(m)'
    BY <1>1, <1>2, <2>1
  <2>3. EventBytes(h)' = EventBytes(h) /\ EventBytes(m)' = EventBytes(m)
    BY <1>2
  <2> QED
    BY <1>1, <1>2, <2>1, <2>2, <2>3 DEF FillShape, HeldShape, DeadByThen
<1>5. PointsRight'
  <2>1. ASSUME NEW i \in DOMAIN series PROVE PointRight(i)'
    BY <1>1, PointsStay DEF FillShape
  <2> QED
    BY <1>1, <2>1 DEF PointsRight
<1> QED
  BY <1>3, <1>4, <1>5 DEF FillShape

(* For every outcome of the generator, every lifetime, limit and list of   *)
(* checkpoints in order: each point of the two curves says what was in the *)
(* buffer and what had been refused by its checkpoint, no point is above   *)
(* the limit, and every checkpoint gets its point (run_fig7.py:64-84).     *)
THEOREM FillSeriesInvariant == CappedSpec => []FillSeries
<1>1. FillShape /\ [CappedStep]_capped => FillShape'
  BY NoteStep, TakeStep, FillStays DEF CappedStep
<1>2. FillShape => FillSeries
  <2> SUFFICES ASSUME FillShape PROVE FillSeries
    OBVIOUS
  <2>1. ASSUME NEW i \in DOMAIN series PROVE PointRight(i)
    BY DEF FillShape, PointsRight
  <2>2. ASSUME next > Len(events), ~CheckpointDue PROVE Len(series) = Len(Checkpoints)
    <3>1. /\ next \in Nat /\ Len(events) \in Nat /\ ci \in Nat /\ Len(Checkpoints) \in Nat
          /\ ci <= Len(Checkpoints) + 1 /\ Len(series) = ci - 1
      BY WalkTypes DEF FillShape, WalkShape
    <3>2. ~(ci <= Len(Checkpoints))
      BY <2>2, <3>1 DEF CheckpointDue
    <3> QED
      BY <3>1, <3>2
  <2> QED
    BY <2>1, <2>2 DEF FillSeries, PointRight, Came
<1> QED
  BY <1>1, <1>2, FillStarts, PTL DEF CappedSpec
=============================================================================
