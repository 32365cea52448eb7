--------------------------- MODULE Segments_proofs ---------------------------
(***************************************************************************)
(* Facts about the operators of lib/segment.c that hold of every list of   *)
(* segments, whoever builds it: the pipeline from the FIFO or cam-recover  *)
(* from the table.                                                         *)
(*                                                                         *)
(* Measured from the head of the list, its segments fit in one turn of the *)
(* ring and follow one another (Ordered).  A new segment starts where the  *)
(* last one ended (Adjacent); once it does not overlap the head, it ends   *)
(* before the head, and so overlaps no other segment either.               *)
(*                                                                         *)
(* Sums over lists are recursive functions.  Facts about them go by the    *)
(* least counterexample (SetInduction), since provers cannot instantiate   *)
(* the library's induction theorems.                                       *)
(***************************************************************************)
EXTENDS Segments, SequenceTheorems, WellFoundedInduction, TLAPS

(* A stretch of the ring: nframes is the number of frames from start to end. *)
Stretch(seg) ==
  /\ seg.start \in Addr
  /\ seg.end \in Addr
  /\ seg.nframes = RingDist(seg.start, seg.end) + 1

Ordered(list) ==
  /\ \A i \in 1 .. Len(list) :
       /\ Stretch(list[i])
       /\ RingDist(list[1].start, list[i].start) + list[i].nframes <= RingSize
  /\ \A i, j \in 1 .. Len(list) :
       i < j => RingDist(list[1].start, list[i].start) + list[i].nframes
                  <= RingDist(list[1].start, list[j].start)

-----------------------------------------------------------------------------
(* Ring arithmetic. *)

LEMMA RegionFacts ==
  /\ RecStart \in Nat
  /\ RecStop \in Nat
  /\ RingSize \in Nat
  /\ RingSize >= 1
  /\ RecStop = RecStart + RingSize
  /\ \A a : a \in Addr <=> a \in Int /\ RecStart <= a /\ a < RecStop
BY RegionAssumption, SMT DEF RingSize, Addr

LEMMA RingAddType ==
  ASSUME NEW a \in Addr, NEW j \in Int, 0 <= j, j <= RingSize
  PROVE  RingAdd(a, j) \in Addr
BY RegionFacts DEF RingAdd

LEMMA RingDistType ==
  ASSUME NEW a \in Addr, NEW b \in Addr
  PROVE  RingDist(a, b) \in Nat /\ RingDist(a, b) < RingSize
BY RegionFacts DEF RingDist

LEMMA RingDistAdd ==
  ASSUME NEW a \in Addr, NEW j \in Int, 0 <= j, j < RingSize
  PROVE  RingDist(a, RingAdd(a, j)) = j
BY RegionFacts DEF RingDist, RingAdd

(* A segment includes the addresses no farther from its start than its end. *)
LEMMA IncludesDist ==
  ASSUME NEW seg, seg.start \in Addr, seg.end \in Addr, NEW a \in Addr
  PROVE  video_segment_includes(seg, a)
           <=> RingDist(seg.start, a) <= RingDist(seg.start, seg.end)
BY RegionFacts DEF video_segment_includes, RingDist

LEMMA NotIncluded ==
  ASSUME NEW seg, seg.start \in Addr, seg.end \in Addr, NEW a \in Addr,
         RingDist(seg.start, a) > RingDist(seg.start, seg.end)
  PROVE  ~video_segment_includes(seg, a)
BY RegionFacts DEF video_segment_includes, RingDist

LEMMA LengthDist ==
  ASSUME NEW a \in Addr, NEW b \in Addr
  PROVE  SegmentLength(a, b) = RingDist(a, b) + 1
BY RegionFacts DEF SegmentLength, RingDist

LEMMA OffsetType ==
  ASSUME NEW start \in Addr, NEW end \in Addr, NEW last \in Addr,
         RingDist(start, last) <= RingDist(start, end)
  PROVE  SegmentOffset(start, end, last) \in 0 .. RingSize - 1
BY RegionFacts DEF SegmentOffset, SegmentLength, RingDist

-----------------------------------------------------------------------------
(* Two stretches a..b and c..d of the ring such that, measured from h, the *)
(* first ends before the second starts and the second ends within a turn.  *)
LEMMA ArcsApart ==
  ASSUME NEW h \in Addr, NEW a \in Addr, NEW b \in Addr, NEW c \in Addr, NEW d \in Addr,
         RingDist(h, a) + (RingDist(a, b) + 1) <= RingDist(h, c),
         RingDist(h, c) + (RingDist(c, d) + 1) <= RingSize
  PROVE  /\ RingDist(a, c) > RingDist(a, b)
         /\ RingDist(a, d) > RingDist(a, b)
         /\ RingDist(c, a) > RingDist(c, d)
         /\ RingDist(c, b) > RingDist(c, d)
BY RegionFacts DEF RingDist

(* Segments in ring order are disjoint. *)
LEMMA OrderedDisjoint ==
  ASSUME NEW list, Ordered(list),
         NEW i \in 1 .. Len(list), NEW j \in 1 .. Len(list), i # j
  PROVE  ~video_segment_overlap(list[i], list[j])
<1>1. ASSUME NEW p \in 1 .. Len(list), NEW q \in 1 .. Len(list), p < q
      PROVE  /\ ~video_segment_includes(list[p], list[q].start)
             /\ ~video_segment_includes(list[p], list[q].end)
             /\ ~video_segment_includes(list[q], list[p].start)
             /\ ~video_segment_includes(list[q], list[p].end)
  <2>1. 1 \in 1 .. Len(list)
    BY <1>1
  <2>2. list[1].start \in Addr /\ Stretch(list[p]) /\ Stretch(list[q])
    BY <2>1 DEF Ordered, Stretch
  <2>3. /\ RingDist(list[1].start, list[p].start) + list[p].nframes
              <= RingDist(list[1].start, list[q].start)
        /\ RingDist(list[1].start, list[q].start) + list[q].nframes <= RingSize
    BY <1>1 DEF Ordered
  <2>4. /\ list[p].start \in Addr /\ list[p].end \in Addr
        /\ list[q].start \in Addr /\ list[q].end \in Addr
        /\ list[p].nframes = RingDist(list[p].start, list[p].end) + 1
        /\ list[q].nframes = RingDist(list[q].start, list[q].end) + 1
    BY <2>2 DEF Stretch
  <2>5. /\ RingDist(list[p].start, list[q].start) > RingDist(list[p].start, list[p].end)
        /\ RingDist(list[p].start, list[q].end) > RingDist(list[p].start, list[p].end)
        /\ RingDist(list[q].start, list[p].start) > RingDist(list[q].start, list[q].end)
        /\ RingDist(list[q].start, list[p].end) > RingDist(list[q].start, list[q].end)
    BY <2>2, <2>3, <2>4, ArcsApart
  <2>6. ~video_segment_includes(list[p], list[q].start)
    BY ONLY <2>4, <2>5, NotIncluded
  <2>7. ~video_segment_includes(list[p], list[q].end)
    BY ONLY <2>4, <2>5, NotIncluded
  <2>8. ~video_segment_includes(list[q], list[p].start)
    BY ONLY <2>4, <2>5, NotIncluded
  <2>9. ~video_segment_includes(list[q], list[p].end)
    BY ONLY <2>4, <2>5, NotIncluded
  <2>10. QED BY <2>6, <2>7, <2>8, <2>9
<1>2. i < j \/ j < i
  OBVIOUS
<1>3. QED BY <1>1, <1>2 DEF video_segment_overlap
-----------------------------------------------------------------------------
(* Distances from another point of the ring. *)
LEMMA Rebase ==
  ASSUME NEW h \in Addr, NEW g \in Addr, NEW x \in Addr,
         RingDist(h, g) <= RingDist(h, x)
  PROVE  RingDist(g, x) = RingDist(h, x) - RingDist(h, g)
BY RegionFacts DEF RingDist

(* The numbers an ordered list is measured with. *)
LEMMA OrderedTypes ==
  ASSUME NEW list, Ordered(list), Len(list) \in Nat, NEW i \in 1 .. Len(list)
  PROVE  /\ list[1].start \in Addr
         /\ list[i].start \in Addr
         /\ list[i].end \in Addr
         /\ RingDist(list[i].start, list[i].end) \in Nat
         /\ list[i].nframes = RingDist(list[i].start, list[i].end) + 1
         /\ list[i].nframes \in Nat /\ list[i].nframes >= 1
         /\ RingDist(list[1].start, list[i].start) \in Nat
         /\ RingDist(list[1].start, list[i].start) + list[i].nframes <= RingSize
<1>1. 1 \in 1 .. Len(list)
  OBVIOUS
<1>2. Stretch(list[1]) /\ Stretch(list[i])
  BY <1>1 DEF Ordered
<1>3. /\ list[1].start \in Addr
      /\ list[i].start \in Addr
      /\ list[i].end \in Addr
      /\ list[i].nframes = RingDist(list[i].start, list[i].end) + 1
  BY <1>2 DEF Stretch
<1>4. /\ RingDist(list[i].start, list[i].end) \in Nat
      /\ RingDist(list[1].start, list[i].start) \in Nat
  BY <1>3, RingDistType
<1>5. list[i].nframes \in Nat /\ list[i].nframes >= 1
  BY <1>3, <1>4
<1>6. RingDist(list[1].start, list[i].start) + list[i].nframes <= RingSize
  BY DEF Ordered
<1>7. QED BY <1>3, <1>4, <1>5, <1>6

(* What is left after evictions or deletions at the head is still ordered. *)
LEMMA SuffixOrdered ==
  ASSUME NEW list, Ordered(list), Len(list) \in Nat,
         NEW k \in 0 .. Len(list) - 1,
         NEW rest, Len(rest) = Len(list) - k,
         \A i \in 1 .. Len(rest) : rest[i] = list[i + k]
  PROVE  Ordered(rest)
<1> DEFINE h == list[1].start
           g == list[k + 1].start
<1>1. /\ 1 \in 1 .. Len(list)
      /\ k + 1 \in 1 .. Len(list)
      /\ rest[1] = list[k + 1]
  OBVIOUS
<1>2. \A i \in 1 .. Len(list) :
        /\ h \in Addr
        /\ list[i].start \in Addr
        /\ list[i].end \in Addr
        /\ RingDist(list[i].start, list[i].end) \in Nat
        /\ list[i].nframes = RingDist(list[i].start, list[i].end) + 1
        /\ list[i].nframes \in Nat /\ list[i].nframes >= 1
        /\ RingDist(h, list[i].start) \in Nat
        /\ RingDist(h, list[i].start) + list[i].nframes <= RingSize
  BY OrderedTypes
<1>3. ASSUME NEW i \in 1 .. Len(rest)
      PROVE  RingDist(g, list[i + k].start) = RingDist(h, list[i + k].start) - RingDist(h, g)
  <2>1. i + k \in 1 .. Len(list)
    OBVIOUS
  <2>2. CASE i = 1
    <3>1. list[i + k] = list[k + 1]
      BY <2>2
    <3>2. h \in Addr /\ g \in Addr /\ RingDist(h, g) \in Nat
      BY <1>1, <1>2
    <3>3. RingDist(g, g) = RingDist(h, g) - RingDist(h, g)
      BY ONLY <3>2, Rebase
    <3>4. QED BY <3>1, <3>3
  <2>3. CASE i # 1
    <3>1. RingDist(h, g) + list[k + 1].nframes <= RingDist(h, list[i + k].start)
      BY <2>1, <2>3, <1>1 DEF Ordered
    <3>2. RingDist(h, g) <= RingDist(h, list[i + k].start)
      <4>1. /\ list[k + 1].nframes \in Nat /\ list[k + 1].nframes >= 1
            /\ RingDist(h, g) \in Nat
            /\ RingDist(h, list[i + k].start) \in Nat
        BY <2>1, <1>1, <1>2
      <4>2. QED BY ONLY <3>1, <4>1
    <3>3. QED BY <3>2, <2>1, <1>1, <1>2, Rebase
  <2>4. QED BY <2>2, <2>3
<1>4. ASSUME NEW i \in 1 .. Len(rest)
      PROVE  /\ Stretch(rest[i])
             /\ RingDist(rest[1].start, rest[i].start) + rest[i].nframes <= RingSize
  <2>1. i + k \in 1 .. Len(list) /\ rest[i] = list[i + k]
    OBVIOUS
  <2>2. RingDist(rest[1].start, rest[i].start) + rest[i].nframes <= RingSize
    <3>1. /\ RingDist(h, g) \in Nat
          /\ RingDist(h, list[i + k].start) \in Nat
          /\ list[i + k].nframes \in Nat
          /\ RingDist(h, list[i + k].start) + list[i + k].nframes <= RingSize
          /\ RingSize \in Nat
      BY <2>1, <1>1, <1>2, RegionFacts
    <3>2. RingDist(g, list[i + k].start) = RingDist(h, list[i + k].start) - RingDist(h, g)
      BY <1>3
    <3>3. RingDist(g, list[i + k].start) + list[i + k].nframes <= RingSize
      BY ONLY <3>1, <3>2
    <3>4. QED BY <3>3, <2>1, <1>1
  <2>3. QED BY <2>1, <2>2 DEF Ordered
<1>5. ASSUME NEW i \in 1 .. Len(rest), NEW j \in 1 .. Len(rest), i < j
      PROVE  RingDist(rest[1].start, rest[i].start) + rest[i].nframes
               <= RingDist(rest[1].start, rest[j].start)
  <2>1. /\ i + k \in 1 .. Len(list) /\ rest[i] = list[i + k]
        /\ j + k \in 1 .. Len(list) /\ rest[j] = list[j + k]
        /\ i + k < j + k
    BY <1>5
  <2>2. RingDist(h, list[i + k].start) + list[i + k].nframes <= RingDist(h, list[j + k].start)
    BY <2>1 DEF Ordered
  <2>3. /\ RingDist(h, g) \in Nat
        /\ RingDist(h, list[i + k].start) \in Nat
        /\ RingDist(h, list[j + k].start) \in Nat
        /\ list[i + k].nframes \in Nat
    BY <2>1, <1>1, <1>2
  <2>4. /\ RingDist(g, list[i + k].start) = RingDist(h, list[i + k].start) - RingDist(h, g)
        /\ RingDist(g, list[j + k].start) = RingDist(h, list[j + k].start) - RingDist(h, g)
    BY <1>3
  <2>5. RingDist(g, list[i + k].start) + list[i + k].nframes <= RingDist(g, list[j + k].start)
    BY ONLY <2>2, <2>3, <2>4
  <2>6. QED BY <2>5, <2>1, <1>1
<1>6. QED BY <1>4, <1>5 DEF Ordered

(* A stretch c..d that starts right after s..e and does not reach h fits   *)
(* in the turn of the ring that starts at h.                               *)
LEMMA ArcFits ==
  ASSUME NEW h \in Addr, NEW s \in Addr, NEW e \in Addr, NEW c \in Addr, NEW d \in Addr,
         c = RingAdd(e, 1),
         RingDist(h, s) + (RingDist(s, e) + 1) <= RingSize,
         RingDist(c, h) > RingDist(c, d)
  PROVE  /\ RingDist(h, c) = RingDist(h, s) + (RingDist(s, e) + 1)
         /\ RingDist(h, c) + (RingDist(c, d) + 1) <= RingSize
BY RegionFacts DEF RingDist, RingAdd

(* Linking a segment that starts where the list ends, once it does not     *)
(* overlap the head.                                                       *)
LEMMA AppendOrdered ==
  ASSUME NEW list, Ordered(list), Len(list) \in Nat, Len(list) > 0,
         NEW seg, Stretch(seg),
         seg.start = RingAdd(list[Len(list)].end, 1),
         ~video_segment_overlap(seg, list[1]),
         NEW new, Len(new) = Len(list) + 1,
         \A i \in 1 .. Len(list) : new[i] = list[i],
         new[Len(list) + 1] = seg
  PROVE  Ordered(new)
<1> DEFINE n == Len(list)
           h == list[1].start
<1>1. /\ 1 \in 1 .. n /\ n \in 1 .. n
      /\ new[1] = list[1]
  OBVIOUS
<1>2. \A i \in 1 .. n :
        /\ h \in Addr
        /\ list[i].start \in Addr
        /\ list[i].end \in Addr
        /\ RingDist(list[i].start, list[i].end) \in Nat
        /\ list[i].nframes = RingDist(list[i].start, list[i].end) + 1
        /\ list[i].nframes \in Nat /\ list[i].nframes >= 1
        /\ RingDist(h, list[i].start) \in Nat
        /\ RingDist(h, list[i].start) + list[i].nframes <= RingSize
  BY OrderedTypes
<1>3. /\ seg.start \in Addr /\ seg.end \in Addr
      /\ seg.nframes = RingDist(seg.start, seg.end) + 1
  BY DEF Stretch
<1>4. RingDist(seg.start, h) > RingDist(seg.start, seg.end)
  <2>1. ~video_segment_includes(seg, h)
    BY DEF video_segment_overlap
  <2>2. RingDist(seg.start, h) \in Nat /\ RingDist(seg.start, seg.end) \in Nat
    BY <1>1, <1>2, <1>3, RingDistType
  <2>3. ~(RingDist(seg.start, h) <= RingDist(seg.start, seg.end))
    BY <2>1, <1>1, <1>2, <1>3, IncludesDist
  <2>4. QED BY <2>2, <2>3
<1>5. /\ RingDist(h, seg.start) = RingDist(h, list[n].start) + list[n].nframes
      /\ RingDist(h, seg.start) + seg.nframes <= RingSize
  <2>1. /\ h \in Addr /\ list[n].start \in Addr /\ list[n].end \in Addr
        /\ list[n].nframes = RingDist(list[n].start, list[n].end) + 1
        /\ RingDist(h, list[n].start) + list[n].nframes <= RingSize
    BY <1>1, <1>2
  <2>2. QED BY <2>1, <1>3, <1>4, ArcFits
<1>6. ASSUME NEW i \in 1 .. n
      PROVE  RingDist(h, list[i].start) + list[i].nframes <= RingDist(h, seg.start)
  <2>1. CASE i = n
    BY <2>1, <1>1, <1>2, <1>5
  <2>2. CASE i # n
    <3>1. RingDist(h, list[i].start) + list[i].nframes <= RingDist(h, list[n].start)
      BY <2>2, <1>1 DEF Ordered
    <3>2. /\ list[i].nframes \in Nat /\ list[n].nframes \in Nat
          /\ RingDist(h, list[i].start) \in Nat
          /\ RingDist(h, list[n].start) \in Nat
      BY <1>1, <1>2
    <3>3. QED BY ONLY <3>1, <3>2, <1>5
  <2>3. QED BY <2>1, <2>2
<1>7. ASSUME NEW i \in 1 .. Len(new)
      PROVE  /\ Stretch(new[i])
             /\ RingDist(new[1].start, new[i].start) + new[i].nframes <= RingSize
  <2>1. CASE i = n + 1
    BY <2>1, <1>1, <1>5
  <2>2. CASE i # n + 1
    <3>1. i \in 1 .. n /\ new[i] = list[i]
      BY <2>2
    <3>2. QED BY <3>1, <1>1 DEF Ordered
  <2>3. QED BY <2>1, <2>2
<1>8. ASSUME NEW i \in 1 .. Len(new), NEW j \in 1 .. Len(new), i < j
      PROVE  RingDist(new[1].start, new[i].start) + new[i].nframes
               <= RingDist(new[1].start, new[j].start)
  <2>1. i \in 1 .. n /\ new[i] = list[i]
    BY <1>8
  <2>2. CASE j = n + 1
    BY <2>1, <2>2, <1>1, <1>6
  <2>3. CASE j # n + 1
    <3>1. j \in 1 .. n /\ new[j] = list[j]
      BY <2>3
    <3>2. QED BY <3>1, <2>1, <1>1, <1>8 DEF Ordered
  <2>4. QED BY <2>2, <2>3
<1>9. QED BY <1>7, <1>8 DEF Ordered

LEMMA EmptyOrdered == Ordered(<<>>)
BY DEF Ordered

LEMMA SingleOrdered ==
  ASSUME NEW seg, Stretch(seg)
  PROVE  Ordered(<<seg>>)
<1>1. seg.start \in Addr /\ seg.end \in Addr /\ seg.nframes = RingDist(seg.start, seg.end) + 1
  BY DEF Stretch
<1>2. RingDist(seg.start, seg.start) = 0
  BY <1>1, RegionFacts DEF RingDist
<1>3. RingDist(seg.start, seg.end) \in Nat /\ RingDist(seg.start, seg.end) < RingSize
  BY <1>1, RingDistType
<1>4. 0 + seg.nframes <= RingSize
  BY <1>1, <1>3, RegionFacts
<1>5. QED BY <1>2, <1>4 DEF Ordered

(* Linking a new segment after any number of evictions at the head that    *)
(* leaves a head the segment does not overlap, or none.                    *)
LEMMA LinkedOrdered ==
  ASSUME NEW S, NEW list \in Seq(S), Ordered(list),
         NEW seg \in S, Stretch(seg),
         list # <<>> => seg.start = RingAdd(list[Len(list)].end, 1),
         NEW k \in 0 .. Len(list), Evicts(list, seg, k)
  PROVE  /\ Linked(list, seg, k) \in Seq(S)
         /\ Ordered(Linked(list, seg, k))
         /\ Linked(list, seg, k)[Len(Linked(list, seg, k))] = seg
<1> DEFINE n    == Len(list)
           rest == SubSeq(list, k + 1, n)
           new  == Append(rest, seg)
<1>1. n \in Nat /\ k \in Nat /\ k <= n
  OBVIOUS
<1>2. /\ rest \in Seq(S)
      /\ Len(rest) = n - k
      /\ \A i \in 1 .. n - k : rest[i] = list[i + k]
  <2>1. \A i \in k + 1 .. n : list[i] \in S
    BY <1>1
  <2>2. /\ rest \in Seq(S)
        /\ Len(rest) = IF k + 1 <= n THEN n - (k + 1) + 1 ELSE 0
        /\ \A i \in 1 .. n - (k + 1) + 1 : rest[i] = list[k + 1 + i - 1]
    BY <1>1, <2>1, SubSeqProperties
  <2>3. Len(rest) = n - k
    BY <1>1, <2>2
  <2>4. ASSUME NEW i \in 1 .. n - k
        PROVE  rest[i] = list[i + k]
    <3>1. i \in 1 .. n - (k + 1) + 1 /\ k + 1 + i - 1 = i + k
      BY <1>1
    <3>2. QED BY <2>2, <3>1
  <2>5. QED BY <2>2, <2>3, <2>4
<1> HIDE DEF rest
<1>3. /\ new \in Seq(S)
      /\ Len(new) = Len(rest) + 1
      /\ \A i \in 1 .. Len(rest) : new[i] = rest[i]
      /\ new[Len(rest) + 1] = seg
  BY <1>2, AppendProperties
<1> HIDE DEF new
<1>4. Linked(list, seg, k) = new
  BY DEF Linked, new, rest
<1>5. Ordered(new)
  <2>1. CASE k = n
    <3>1. Len(rest) = 0
      BY <1>1, <1>2, <2>1
    <3>2. rest = <<>>
      BY <3>1, <1>2, EmptySeq
    <3>3. new = <<seg>>
      BY <3>2 DEF new
    <3>4. QED BY <3>3, SingleOrdered
  <2>2. CASE k # n
    <3>1. k \in 0 .. n - 1
      BY <1>1, <2>2
    <3>2. Len(rest) \in Nat /\ Len(rest) > 0
      BY ONLY <1>1, <1>2, <2>2
    <3>3. Ordered(rest)
      BY <1>1, <1>2, <3>1, SuffixOrdered
    <3>4. rest[1] = list[k + 1] /\ rest[Len(rest)] = list[n]
      <4>1. 1 \in 1 .. n - k /\ n - k \in 1 .. n - k /\ n - k + k = n /\ 1 + k = k + 1
        BY ONLY <1>1, <2>2
      <4>2. QED BY <1>2, <4>1
    <3>5. ~video_segment_overlap(seg, rest[1])
      BY <3>1, <3>4 DEF Evicts
    <3>6. seg.start = RingAdd(rest[Len(rest)].end, 1)
      <4>1. list # <<>>
        BY <3>1
      <4>2. QED BY <3>4, <4>1
    <3>7. QED BY <1>3, <3>2, <3>3, <3>5, <3>6, AppendOrdered
  <2>3. QED BY <2>1, <2>2
<1>6. QED BY <1>3, <1>4, <1>5

(* The list after a segment was linked. *)
LEMMA LinkedIndex ==
  ASSUME NEW S, NEW list \in Seq(S), NEW seg \in S, NEW k \in 0 .. Len(list)
  PROVE  /\ Linked(list, seg, k) \in Seq(S)
         /\ Len(Linked(list, seg, k)) = Len(list) - k + 1
         /\ \A i \in 1 .. Len(list) - k : Linked(list, seg, k)[i] = list[i + k]
         /\ Linked(list, seg, k)[Len(list) - k + 1] = seg
<1> DEFINE n    == Len(list)
           rest == SubSeq(list, k + 1, n)
<1>1. n \in Nat /\ k \in Nat /\ k <= n
  OBVIOUS
<1>2. /\ rest \in Seq(S)
      /\ Len(rest) = n - k
      /\ \A i \in 1 .. n - k : rest[i] = list[i + k]
  <2>1. \A i \in k + 1 .. n : list[i] \in S
    BY <1>1
  <2>2. /\ rest \in Seq(S)
        /\ Len(rest) = IF k + 1 <= n THEN n - (k + 1) + 1 ELSE 0
        /\ \A i \in 1 .. n - (k + 1) + 1 : rest[i] = list[k + 1 + i - 1]
    BY <1>1, <2>1, SubSeqProperties
  <2>3. Len(rest) = n - k
    BY <1>1, <2>2
  <2>4. ASSUME NEW i \in 1 .. n - k
        PROVE  rest[i] = list[i + k]
    <3>1. i \in 1 .. n - (k + 1) + 1 /\ k + 1 + i - 1 = i + k
      BY <1>1
    <3>2. QED BY <2>2, <3>1
  <2>5. QED BY <2>2, <2>3, <2>4
<1> HIDE DEF rest
<1>3. /\ Append(rest, seg) \in Seq(S)
      /\ Len(Append(rest, seg)) = Len(rest) + 1
      /\ \A i \in 1 .. Len(rest) : Append(rest, seg)[i] = rest[i]
      /\ Append(rest, seg)[Len(rest) + 1] = seg
  BY <1>2, AppendProperties
<1>4. Linked(list, seg, k) = Append(rest, seg)
  BY DEF Linked, rest
<1>5. QED BY <1>2, <1>3, <1>4

(* The oldest frame follows the last one, whether or not the block and     *)
(* the segment cross the end of the region.                                *)
LEMMA OffsetDist ==
  ASSUME NEW start \in Addr, NEW end \in Addr, NEW last \in Addr,
         RingDist(start, last) <= RingDist(start, end)
  PROVE  SegmentOffset(start, end, last) =
           IF RingDist(start, last) = RingDist(start, end) THEN 0 ELSE RingDist(start, last) + 1
BY RegionFacts DEF SegmentOffset, SegmentLength, RingDist

Adjacent(list) ==
  \A i \in 1 .. Len(list) : i + 1 \in 1 .. Len(list) => list[i + 1].start = RingAdd(list[i].end, 1)

(* Induction, and the frames before each segment of a list. *)

(* A set of numbers that is not empty has a least member. *)
LEMMA Least ==
  ASSUME NEW T \in SUBSET Nat, T # {}
  PROVE  \E m \in T : \A k \in T : m <= k
<1> DEFINE R == OpToRel(<, Nat)
<1>1. IsWellFoundedOn(R, Nat)
  BY NatLessThanWellFounded
<1>2. \A x, y \in Nat : <<x, y>> \in R <=> x < y
  BY DEF OpToRel
<1> HIDE DEF R
<1>3. PICK m \in T : \A k \in T : ~(<<k, m>> \in R)
  BY <1>1, WFMin
<1>4. ASSUME NEW k \in T
      PROVE  m <= k
  <2>1. k \in Nat /\ m \in Nat
    OBVIOUS
  <2>2. ~(k < m)
    BY <1>2, <1>3, <2>1
  <2>3. QED BY <2>1, <2>2
<1>5. QED BY <1>4

(* Induction, of a set of numbers. *)
LEMMA SetInduction ==
  ASSUME NEW S, 0 \in S, \A n \in Nat : n \in S => n + 1 \in S
  PROVE  \A n \in Nat : n \in S
<1> DEFINE T == {n \in Nat : n \notin S}
<1> SUFFICES ASSUME T # {}
             PROVE  FALSE
  OBVIOUS
<1>1. PICK m \in T : \A k \in T : m <= k
  BY Least
<1>2. m \in Nat /\ m # 0
  OBVIOUS
<1>3. m - 1 \in Nat /\ m - 1 \notin T
  BY <1>1, <1>2
<1>4. m - 1 + 1 \in S
  BY <1>3
<1>5. QED BY <1>2, <1>4

(* A list whose lengths can be added up.                                   *)
Counted(list) ==
  /\ Len(list) \in Nat
  /\ \A i \in 1 .. Len(list) : list[i].nframes \in Nat /\ list[i].nframes >= 1

LEMMA OrderedCounted ==
  ASSUME NEW list, Ordered(list), Len(list) \in Nat
  PROVE  Counted(list)
BY OrderedTypes DEF Counted

(* The function that adds up the lengths of a list exists. *)
Adds(f, list, n) ==
  /\ f \in [0 .. n -> Nat]
  /\ f[0] = 0
  /\ \A i \in 1 .. n : f[i] = f[i - 1] + list[i].nframes

LEMMA SumsExist ==
  ASSUME NEW list, Counted(list)
  PROVE  \E f : Adds(f, list, Len(list))
<1> DEFINE S == {n \in Nat : n <= Len(list) => \E f : Adds(f, list, n)}
<1>1. 0 \in S
  <2>1. Adds([i \in 0 .. 0 |-> 0], list, 0)
    BY DEF Adds
  <2>2. QED BY <2>1
<1>2. ASSUME NEW n \in Nat, n \in S
      PROVE  n + 1 \in S
  <2> SUFFICES ASSUME n + 1 <= Len(list)
               PROVE  \E g : Adds(g, list, n + 1)
    OBVIOUS
  <2>1. n + 1 \in 1 .. Len(list) /\ n <= Len(list)
    OBVIOUS
  <2>2. PICK f : Adds(f, list, n)
    BY <2>1, <1>2
  <2>3. list[n + 1].nframes \in Nat
    BY <2>1 DEF Counted
  <2> DEFINE g == [i \in 0 .. n + 1 |-> IF i = n + 1 THEN f[n] + list[n + 1].nframes ELSE f[i]]
  <2>4. g \in [0 .. n + 1 -> Nat] /\ g[0] = 0
    BY <2>2, <2>3 DEF Adds
  <2>5. ASSUME NEW i \in 1 .. n + 1
        PROVE  g[i] = g[i - 1] + list[i].nframes
    <3>1. i - 1 \in 0 .. n + 1 /\ i - 1 # n + 1 /\ g[i - 1] = f[i - 1]
      OBVIOUS
    <3>2. CASE i = n + 1
      BY <3>1, <3>2
    <3>3. CASE i # n + 1
      <4>1. i \in 1 .. n /\ g[i] = f[i]
        BY <3>3
      <4>2. QED BY <3>1, <4>1, <2>2 DEF Adds
    <3>4. QED BY <3>2, <3>3
  <2> HIDE DEF g
  <2>6. Adds(g, list, n + 1)
    BY <2>4, <2>5 DEF Adds
  <2>7. QED BY <2>6
<1> HIDE DEF S
<1>3. Len(list) \in S
  BY <1>1, <1>2, SetInduction
<1>4. QED BY <1>3 DEF S

(* Entry i of FramesBefore is the sum of the first i lengths.              *)
LEMMA FramesBeforeAdds ==
  ASSUME NEW list, Counted(list)
  PROVE  Adds(FramesBefore(list), list, Len(list))
<1> DEFINE n == Len(list)
           Body(f) == [i \in 0 .. n |-> IF i = 0 THEN 0 ELSE f[i - 1] + list[i].nframes]
<1>1. PICK f : Adds(f, list, n)
  BY SumsExist
<1>2. f = Body(f)
  <2>1. f = [i \in 0 .. n |-> f[i]]
    BY <1>1 DEF Adds
  <2>2. \A i \in 0 .. n : f[i] = IF i = 0 THEN 0 ELSE f[i - 1] + list[i].nframes
    BY <1>1 DEF Adds
  <2>3. QED BY <2>1, <2>2
<1>3. FramesBefore(list) = CHOOSE g : g = Body(g)
  BY DEF FramesBefore
<1>4. FramesBefore(list) = Body(FramesBefore(list))
  BY <1>2, <1>3
<1> DEFINE b == FramesBefore(list)
<1>5. /\ b = [i \in 0 .. n |-> b[i]]
      /\ b[0] = 0
      /\ \A i \in 1 .. n : b[i] = b[i - 1] + list[i].nframes
  <2> HIDE DEF b
  <2>1. b = Body(b)
    BY <1>4 DEF b
  <2>2. n \in Nat
    OBVIOUS
  <2>3. QED BY <2>1, <2>2
<1> HIDE DEF b
<1>6. \A i \in Nat : i \in {k \in Nat : k <= n => b[k] \in Nat}
  <2> DEFINE S == {k \in Nat : k <= n => b[k] \in Nat}
  <2>1. 0 \in S
    BY <1>5
  <2>2. ASSUME NEW k \in Nat, k \in S
        PROVE  k + 1 \in S
    <3> SUFFICES ASSUME k + 1 <= n
                 PROVE  b[k + 1] \in Nat
      OBVIOUS
    <3> DEFINE j == k + 1
    <3>1. j \in 1 .. n /\ j - 1 = k /\ b[k] \in Nat
      BY <2>2
    <3> HIDE DEF j
    <3>2. b[j] = b[j - 1] + list[j].nframes /\ list[j].nframes \in Nat
      BY <3>1, <1>5 DEF Counted
    <3>3. b[j] \in Nat
      BY <3>1, <3>2
    <3>4. QED BY <3>3 DEF j
  <2> HIDE DEF S
  <2>3. \A k \in Nat : k \in S
    BY <2>1, <2>2, SetInduction
  <2>4. QED BY <2>3 DEF S
<1>7. b \in [0 .. n -> Nat]
  BY <1>5, <1>6
<1>8. QED BY <1>5, <1>7 DEF Adds, b

-----------------------------------------------------------------------------
(* Frame numbers and the ring. *)

LEMMA NextDist ==
  ASSUME NEW h \in Addr, NEW s \in Addr, NEW e \in Addr, NEW c \in Addr, c = RingAdd(e, 1),
         RingDist(h, s) + (RingDist(s, e) + 1) <= RingDist(h, c)
  PROVE  RingDist(h, c) = RingDist(h, s) + (RingDist(s, e) + 1)
BY RegionFacts DEF RingDist, RingAdd

(* In a list without gaps the frames before a segment are the frame        *)
(* addresses from the head of the list to it.                              *)
LEMMA FramesBeforeDist ==
  ASSUME NEW list, Len(list) \in Nat, Ordered(list), Adjacent(list), NEW i \in 1 .. Len(list)
  PROVE  FramesBefore(list)[i - 1] = RingDist(list[1].start, list[i].start)
<1> DEFINE n == Len(list)
           h == list[1].start
           b == FramesBefore(list)
           S == {k \in Nat : k + 1 <= n => b[k] = RingDist(h, list[k + 1].start)}
<1>1. b[0] = 0 /\ \A k \in 1 .. n : b[k] = b[k - 1] + list[k].nframes
  BY OrderedCounted, FramesBeforeAdds DEF Adds
<1> HIDE DEF b
<1>2. \A k \in 1 .. n :
        /\ h \in Addr
        /\ list[k].start \in Addr
        /\ list[k].end \in Addr
        /\ list[k].nframes = RingDist(list[k].start, list[k].end) + 1
  BY OrderedTypes
<1>3. 0 \in S
  <2>1. h \in Addr
    BY <1>2
  <2>2. RingDist(h, h) = 0
    BY <2>1, RegionFacts DEF RingDist
  <2>3. QED BY <2>2, <1>1
<1>4. ASSUME NEW k \in Nat, k \in S
      PROVE  k + 1 \in S
  <2> SUFFICES ASSUME k + 1 + 1 <= n
               PROVE  b[k + 1] = RingDist(h, list[k + 1 + 1].start)
    OBVIOUS
  <2> DEFINE j == k + 1
  <2>1. j \in 1 .. n /\ j + 1 \in 1 .. n /\ j < j + 1 /\ j - 1 = k /\ b[k] = RingDist(h, list[j].start)
    BY <1>4
  <2> HIDE DEF j
  <2>2. b[j] = RingDist(h, list[j].start) + list[j].nframes
    BY <2>1, <1>1
  <2>3. RingDist(h, list[j].start) + list[j].nframes <= RingDist(h, list[j + 1].start)
    BY <2>1 DEF Ordered
  <2>4. list[j + 1].start = RingAdd(list[j].end, 1)
    BY <2>1 DEF Adjacent
  <2>5. RingDist(h, list[j + 1].start)
          = RingDist(h, list[j].start) + (RingDist(list[j].start, list[j].end) + 1)
    BY <2>1, <2>3, <2>4, <1>2, NextDist
  <2>6. QED BY <2>1, <2>2, <2>5, <1>2 DEF j
<1> HIDE DEF S
<1>5. i - 1 \in S
  BY <1>3, <1>4, SetInduction
<1>6. QED BY <1>5 DEF S, b

(* All frame numbers, in ring terms. *)
LEMMA FrameNumbers ==
  ASSUME NEW list, Len(list) \in Nat, Ordered(list), Adjacent(list), NEW i \in 1 .. Len(list)
  PROVE  /\ FramesBefore(list)[i - 1] \in Nat
         /\ FramesBefore(list)[i] \in Nat
         /\ FramesBefore(list)[i] = FramesBefore(list)[i - 1] + list[i].nframes
         /\ FramesBefore(list)[i] <= RingSize
         /\ \A j \in 1 .. Len(list) : i < j => FramesBefore(list)[i] <= FramesBefore(list)[j - 1]
<1> DEFINE n == Len(list)
           h == list[1].start
           b == FramesBefore(list)
<1>1. b \in [0 .. n -> Nat] /\ \A k \in 1 .. n : b[k] = b[k - 1] + list[k].nframes
  BY OrderedCounted, FramesBeforeAdds DEF Adds
<1>2. \A k \in 1 .. n : b[k - 1] = RingDist(h, list[k].start)
  BY FramesBeforeDist
<1> HIDE DEF b
<1>3. b[i - 1] \in Nat /\ b[i] \in Nat
  BY <1>1
<1>4. b[i] <= RingSize
  BY <1>1, <1>2 DEF Ordered
<1>5. ASSUME NEW j \in 1 .. n, i < j
      PROVE  b[i] <= b[j - 1]
  BY <1>1, <1>2, <1>5 DEF Ordered
<1>6. QED BY <1>1, <1>3, <1>4, <1>5 DEF b

(* The search for a frame number finds the segment that holds it, whatever *)
(* the CHOOSE of a segment.                                                *)
LEMMA LookupFinds ==
  ASSUME NEW list, Len(list) \in Nat, Ordered(list), Adjacent(list), NEW i \in 1 .. Len(list),
         NEW position \in Nat, FramesBefore(list)[i - 1] <= position, position < FramesBefore(list)[i]
  PROVE  LookupSegment(list, position) = i
<1> DEFINE n == Len(list)
           b == FramesBefore(list)
           holds == {k \in 1 .. n : b[k - 1] <= position /\ position < b[k]}
<1>1. \A k \in 1 .. n :
        /\ b[k - 1] \in Nat /\ b[k] \in Nat
        /\ \A j \in 1 .. n : k < j => b[k] <= b[j - 1]
  BY FrameNumbers
<1>2. LookupSegment(list, position) = IF holds = {} THEN 0 ELSE CHOOSE k \in holds : TRUE
  BY DEF LookupSegment
<1> HIDE DEF b
<1>3. i \in holds
  BY DEF b
<1>4. ASSUME NEW k \in holds
      PROVE  k = i
  <2>1. k \in 1 .. n /\ b[k - 1] <= position /\ position < b[k]
    OBVIOUS
  <2>2. i \in 1 .. n /\ b[i - 1] <= position /\ position < b[i]
    BY <1>3
  <2>3. ~(k < i)
    <3> SUFFICES ASSUME k < i PROVE FALSE
      OBVIOUS
    <3>1. b[k] <= b[i - 1] /\ b[k] \in Nat /\ b[i - 1] \in Nat
      BY <2>1, <2>2, <1>1
    <3>2. QED BY <3>1, <2>1, <2>2
  <2>4. ~(i < k)
    <3> SUFFICES ASSUME i < k PROVE FALSE
      OBVIOUS
    <3>1. b[i] <= b[k - 1] /\ b[i] \in Nat /\ b[k - 1] \in Nat
      BY <2>1, <2>2, <1>1
    <3>2. QED BY <3>1, <2>1, <2>2
  <2>5. QED BY <2>1, <2>3, <2>4
<1> HIDE DEF holds
<1>5. QED BY <1>2, <1>3, <1>4

LEMMA WrapMod ==
  ASSUME NEW n \in Nat, NEW j \in Nat, NEW o \in Nat, j < n, o < n
  PROVE  (j + o) % n = IF j + o < n THEN j + o ELSE j + o - n
<1>1. CASE j + o < n
  BY <1>1
<1>2. CASE ~(j + o < n)
  <2> DEFINE r == j + o - n
  <2>1. r \in Nat /\ r < n /\ j + o = r + n
    BY <1>2
  <2>2. (r + n) % n = r
    BY <2>1
  <2>3. QED BY <1>2, <2>1, <2>2
<1>3. QED BY <1>1, <1>2

(* video_segment_lookup finds frame j of segment i at an address of the    *)
(* segment, as far after its oldest frame as j says.                       *)
LEMMA LookupAt ==
  ASSUME NEW list, Len(list) \in Nat, Ordered(list), Adjacent(list), NEW i \in 1 .. Len(list),
         list[i].offset \in Nat, list[i].offset < list[i].nframes,
         NEW j \in 0 .. list[i].nframes - 1
  PROVE  LET a == video_segment_lookup(list, FramesBefore(list)[i - 1] + j)
         IN  /\ a \in Addr
             /\ RingDist(list[i].start, a) =
                  IF j + list[i].offset < list[i].nframes THEN j + list[i].offset
                  ELSE j + list[i].offset - list[i].nframes
<1> DEFINE seg == list[i]
           b   == FramesBefore(list)
           p   == b[i - 1] + j
           d   == (j + seg.offset) % seg.nframes
           a   == RingAdd(seg.start, d)
<1>1. /\ b[i - 1] \in Nat /\ b[i] \in Nat /\ b[i] = b[i - 1] + seg.nframes
  BY FrameNumbers
<1>2. /\ seg.nframes \in Nat /\ seg.nframes >= 1 /\ seg.nframes <= RingSize
      /\ seg.offset \in Nat /\ seg.offset < seg.nframes
      /\ j \in Nat /\ j < seg.nframes
      /\ seg.start \in Addr
  <2>1. /\ seg.start \in Addr /\ seg.nframes \in Nat /\ seg.nframes >= 1
        /\ RingDist(list[1].start, seg.start) \in Nat
        /\ RingDist(list[1].start, seg.start) + seg.nframes <= RingSize
    BY OrderedTypes
  <2>2. seg.offset \in Nat /\ seg.offset < seg.nframes
    OBVIOUS
  <2>3. j \in 0 .. seg.nframes - 1 /\ RingSize \in Nat
    BY RegionFacts
  <2> HIDE DEF seg
  <2> QED BY <2>1, <2>2, <2>3
<1>3. LookupSegment(list, p) = i
  <2>1. p \in Nat /\ b[i - 1] <= p /\ p < b[i]
    BY <1>1, <1>2
  <2>2. QED BY <2>1, LookupFinds
<1> HIDE DEF b, seg
<1>4. d = IF j + seg.offset < seg.nframes THEN j + seg.offset ELSE j + seg.offset - seg.nframes
  <2>1. \A n, o \in Nat : j < n /\ o < n =>
          (j + o) % n = IF j + o < n THEN j + o ELSE j + o - n
    BY <1>2, WrapMod
  <2>2. QED BY <1>2, <2>1, Zenon
<1> HIDE DEF d
<1>5. d \in Nat /\ d < seg.nframes
  BY <1>2, <1>4
<1>6. video_segment_lookup(list, p) = a
  <2>1. p - b[i - 1] = j
    BY <1>1, <1>2
  <2> DEFINE at(k, m) ==
               LET r == list[k].start + ((m + list[k].offset) % list[k].nframes)
               IN  IF r >= RecStop THEN r - (RecStop - RecStart) ELSE r
             k == LookupSegment(list, p)
  <2> HIDE DEF p
  <2>2. video_segment_lookup(list, p) = at(k, p - b[k - 1])
    BY DEF video_segment_lookup, b
  <2>3. at(k, p - b[k - 1]) = at(i, j)
    <3> HIDE DEF at, k
    <3>1. k = i
      BY <1>3 DEF k
    <3>2. QED BY <3>1, <2>1
  <2>4. at(i, j) = LET r == seg.start + d
                   IN  IF r >= RecStop THEN r - (RecStop - RecStart) ELSE r
    BY DEF d, seg
  <2> HIDE DEF at, k
  <2>5. seg.start \in Int /\ d \in Int /\ RecStop \in Int /\ RecStart \in Int
    BY <1>2, <1>5, RegionFacts
  <2>6. (LET r == seg.start + d IN IF r >= RecStop THEN r - (RecStop - RecStart) ELSE r) = a
    BY <2>5 DEF RingAdd, RingSize
  <2>7. QED BY <2>2, <2>3, <2>4, <2>6
<1> HIDE DEF p
<1>7. a \in Addr /\ RingDist(seg.start, a) = d
  <2>1. d \in Int /\ 0 <= d /\ d < RingSize /\ d <= RingSize
    BY <1>2, <1>5, RegionFacts
  <2>2. a \in Addr
    BY <1>2, <2>1, RingAddType
  <2>3. QED BY <1>2, <2>1, <2>2, RingDistAdd
<1> HIDE DEF a
<1>8. QED BY <1>4, <1>6, <1>7 DEF p, b, seg
=============================================================================
