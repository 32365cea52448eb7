-------------------------- MODULE SegmentRing_proofs --------------------------
(***************************************************************************)
(* What the readers of the segment list rely on, for every region size and *)
(* every number of frames: no two listed segments share memory, listed     *)
(* frames are in memory, they play in the order they were shot, eviction   *)
(* is never needless, a walk that no flush disturbs reports numbers of the *)
(* list, and the whole is a log of takes.                                  *)
(*                                                                         *)
(* The listed segments, followed by the FIFO entries still to be drained,  *)
(* are stretches of the ring in recording order, each starting where the   *)
(* one before ended (Chain).  The listed ones are Ordered.                 *)
(*                                                                         *)
(* What memory holds is said of the line of all segments that were         *)
(* recorded and are not erased: those listed, then those still waiting in  *)
(* the FIFO (LineInv), because the sequencer runs ahead of the list: a     *)
(* listed frame may be gone when the segment that took its place still     *)
(* waits.  Every frame of the line either has the stamp the sequencer gave *)
(* it or lies in a later segment of the line (Shown), and then its stamp   *)
(* is later than the segment's last (Damaged).  Draining moves the border  *)
(* between list and FIFO and leaves the line alone; eviction and flushes   *)
(* take segments from its front.  An evicted segment overlapped the new    *)
(* one, so a frame of it was already gone.                                 *)
(*                                                                         *)
(* For the log, listed segments start where the one before ended           *)
(* (Adjacent).  With that the distance from the first to the n-th is the   *)
(* sum of the lengths in between, and an overlap of addresses is the same  *)
(* thing as a sum of lengths that exceeds the ring.                        *)
(***************************************************************************)
EXTENDS SegmentRing, Segments_proofs

-----------------------------------------------------------------------------
(* The inductive invariant. *)

(* The FIFO entry of a recording: the last frame lies between the first    *)
(* and the end.                                                            *)
RecordingEvent(e) ==
  /\ e.start \in Addr
  /\ e.end \in Addr
  /\ e.last \in Addr
  /\ RingDist(e.start, e.last) <= RingDist(e.start, e.end)

(* The entries of q strictly between i and j are live. *)
OnlyLive(q, i, j) == \A k \in i + 1 .. j - 1 : ~IsRecording(q[k])

(* Entry j of q, if it is a recording, starts at a; the sequencer's next   *)
(* block, at w, stands for the entry after the last.                       *)
StartsAt(q, w, j, a) ==
  /\ j = Len(q) + 1 => w = a
  /\ j # Len(q) + 1 /\ IsRecording(q[j]) => q[j].start = a

(* The list, the recordings waiting in the FIFO and the sequencer's next   *)
(* block: each starts where the one before it ends.                        *)
Chain(q, w, list) ==
  /\ \A i \in 1 .. Len(q) :
       IsRecording(q[i]) =>
         /\ RecordingEvent(q[i])
         /\ \A j \in i + 1 .. Len(q) + 1 :
              OnlyLive(q, i, j) => StartsAt(q, w, j, RingAdd(q[i].end, 1))
  /\ list # <<>> =>
       \A j \in 1 .. Len(q) + 1 :
         OnlyLive(q, 0, j) => StartsAt(q, w, j, RingAdd(list[Len(list)].end, 1))

Inv ==
  /\ TypeOK
  /\ Ordered(seglist)
  /\ Chain(fifo, wp, seglist)

(* The sequencer posts a recording that starts at w. *)
LEMMA ChainRecord ==
  ASSUME NEW q \in Seq(FifoEntry), NEW w \in Addr, NEW list,
         NEW e \in FifoEntry,
         Chain(q, w, list), RecordingEvent(e), e.start = w
  PROVE  Chain(Append(q, e), RingAdd(e.end, 1), list)
<1> DEFINE n == Len(q)
           p == Append(q, e)
<1>1. /\ n \in Nat /\ Len(p) = n + 1 /\ p[n + 1] = e
      /\ \A i \in 1 .. n : p[i] = q[i]
  OBVIOUS
<1>2. IsRecording(e)
  BY RingAssumption DEF IsRecording
<1>3. ASSUME NEW i \in 0 .. n, NEW a,
             \A j \in i + 1 .. n + 1 : OnlyLive(q, i, j) => StartsAt(q, w, j, a)
      PROVE  \A j \in i + 1 .. n + 2 : OnlyLive(p, i, j) => StartsAt(p, RingAdd(e.end, 1), j, a)
  <2> SUFFICES ASSUME NEW j \in i + 1 .. n + 2, OnlyLive(p, i, j)
               PROVE  StartsAt(p, RingAdd(e.end, 1), j, a)
    OBVIOUS
  <2>1. j # n + 2
    BY <1>1, <1>2 DEF OnlyLive
  <2>2. OnlyLive(q, i, j)
    BY <2>1, <1>1 DEF OnlyLive
  <2>3. StartsAt(q, w, j, a)
    BY <2>1, <2>2, <1>3, <1>1
  <2>4. QED BY <2>1, <2>3, <1>1 DEF StartsAt
<1>4. ASSUME NEW i \in 1 .. n + 1, IsRecording(p[i])
      PROVE  /\ RecordingEvent(p[i])
             /\ \A j \in i + 1 .. n + 2 :
                  OnlyLive(p, i, j) => StartsAt(p, RingAdd(e.end, 1), j, RingAdd(p[i].end, 1))
  <2>1. CASE i = n + 1
    BY <2>1, <1>1 DEF StartsAt
  <2>2. CASE i # n + 1
    <3>1. i \in 1 .. n /\ p[i] = q[i]
      BY <2>2, <1>1
    <3>2. /\ RecordingEvent(q[i])
          /\ \A j \in i + 1 .. n + 1 : OnlyLive(q, i, j) => StartsAt(q, w, j, RingAdd(q[i].end, 1))
      BY <3>1, <1>4 DEF Chain
    <3>3. QED BY <3>1, <3>2, <1>3
  <2>3. QED BY <2>1, <2>2
<1>5. ASSUME list # <<>>
      PROVE  \A j \in 1 .. n + 2 :
               OnlyLive(p, 0, j) => StartsAt(p, RingAdd(e.end, 1), j, RingAdd(list[Len(list)].end, 1))
  <2>1. \A j \in 1 .. n + 1 : OnlyLive(q, 0, j) => StartsAt(q, w, j, RingAdd(list[Len(list)].end, 1))
    BY <1>5 DEF Chain
  <2>2. QED BY <2>1, <1>1, <1>3
<1>6. QED BY <1>1, <1>4, <1>5 DEF Chain

(* The sequencer posts a live event. *)
LEMMA ChainLive ==
  ASSUME NEW q \in Seq(FifoEntry), NEW w \in Addr, NEW list,
         NEW e \in FifoEntry,
         Chain(q, w, list), ~IsRecording(e)
  PROVE  Chain(Append(q, e), w, list)
<1> DEFINE n == Len(q)
           p == Append(q, e)
<1>1. /\ n \in Nat /\ Len(p) = n + 1 /\ p[n + 1] = e
      /\ \A i \in 1 .. n : p[i] = q[i]
  OBVIOUS
<1>2. ASSUME NEW i \in 0 .. n, NEW a,
             \A j \in i + 1 .. n + 1 : OnlyLive(q, i, j) => StartsAt(q, w, j, a)
      PROVE  \A j \in i + 1 .. n + 2 : OnlyLive(p, i, j) => StartsAt(p, w, j, a)
  <2> SUFFICES ASSUME NEW j \in i + 1 .. n + 2, OnlyLive(p, i, j)
               PROVE  StartsAt(p, w, j, a)
    OBVIOUS
  <2>1. CASE j = n + 2
    <3>1. OnlyLive(q, i, n + 1)
      BY <2>1, <1>1 DEF OnlyLive
    <3>2. w = a
      BY <3>1, <1>1, <1>2 DEF StartsAt
    <3>3. QED BY <3>2, <2>1, <1>1 DEF StartsAt
  <2>2. CASE j = n + 1
    BY <2>2, <1>1 DEF StartsAt
  <2>3. CASE j \in i + 1 .. n
    <3>1. OnlyLive(q, i, j)
      BY <2>3, <1>1 DEF OnlyLive
    <3>2. StartsAt(q, w, j, a)
      BY <3>1, <2>3, <1>2
    <3>3. QED BY <3>2, <2>3, <1>1 DEF StartsAt
  <2>4. QED BY <2>1, <2>2, <2>3, <1>1
<1>3. ASSUME NEW i \in 1 .. n + 1, IsRecording(p[i])
      PROVE  /\ RecordingEvent(p[i])
             /\ \A j \in i + 1 .. n + 2 :
                  OnlyLive(p, i, j) => StartsAt(p, w, j, RingAdd(p[i].end, 1))
  <2>1. i \in 1 .. n /\ p[i] = q[i]
    BY <1>1, <1>3
  <2>2. /\ RecordingEvent(q[i])
        /\ \A j \in i + 1 .. n + 1 : OnlyLive(q, i, j) => StartsAt(q, w, j, RingAdd(q[i].end, 1))
    BY <2>1, <1>3 DEF Chain
  <2>3. QED BY <2>1, <2>2, <1>2
<1>4. ASSUME list # <<>>
      PROVE  \A j \in 1 .. n + 2 :
               OnlyLive(p, 0, j) => StartsAt(p, w, j, RingAdd(list[Len(list)].end, 1))
  <2>1. \A j \in 1 .. n + 1 : OnlyLive(q, 0, j) => StartsAt(q, w, j, RingAdd(list[Len(list)].end, 1))
    BY <1>4 DEF Chain
  <2>2. QED BY <2>1, <1>1, <1>2
<1>5. QED BY <1>1, <1>3, <1>4 DEF Chain

(* The playback thread takes the first event; if it is a recording, the    *)
(* list's last segment has its end.                                        *)
LEMMA ChainDrain ==
  ASSUME NEW q \in Seq(FifoEntry), q # <<>>, NEW w \in Addr, NEW list, NEW new,
         Chain(q, w, list),
         IsRecording(q[1]) => new[Len(new)].end = q[1].end,
         ~IsRecording(q[1]) => new = list
  PROVE  Chain(Tail(q), w, new)
<1> DEFINE n == Len(q)
           p == Tail(q)
<1>1. /\ n \in Nat /\ n >= 1 /\ Len(p) = n - 1
      /\ \A i \in 1 .. n - 1 : p[i] = q[i + 1]
  BY HeadTailProperties
<1>2. ASSUME NEW i \in 0 .. n - 1, NEW a,
             \A j \in i + 2 .. n + 1 : OnlyLive(q, i + 1, j) => StartsAt(q, w, j, a)
      PROVE  \A j \in i + 1 .. n : OnlyLive(p, i, j) => StartsAt(p, w, j, a)
  <2> SUFFICES ASSUME NEW j \in i + 1 .. n, OnlyLive(p, i, j)
               PROVE  StartsAt(p, w, j, a)
    OBVIOUS
  <2>1. ASSUME NEW k \in i + 2 .. j
        PROVE  ~IsRecording(q[k])
    <3>1. k - 1 \in i + 1 .. j - 1 /\ k - 1 \in 1 .. n - 1
      BY <1>1
    <3>2. p[k - 1] = q[k]
      BY <3>1, <1>1
    <3>3. QED BY <3>1, <3>2 DEF OnlyLive
  <2>2. OnlyLive(q, i + 1, j + 1)
    BY <2>1, <1>1 DEF OnlyLive
  <2>3. StartsAt(q, w, j + 1, a)
    BY <2>2, <1>1, <1>2
  <2>4. CASE j = n
    BY <2>3, <2>4, <1>1 DEF StartsAt
  <2>5. CASE j # n
    <3>1. j \in 1 .. n - 1
      <4> HIDE DEF n, p
      <4>1. n \in Nat
        BY <1>1
      <4>2. QED BY <4>1, <2>5
    <3>2. p[j] = q[j + 1]
      BY <3>1, <1>1
    <3>3. IsRecording(p[j]) => p[j].start = a
      BY <2>3, <3>1, <3>2, <1>1 DEF StartsAt
    <3>4. j # Len(p) + 1
      <4> HIDE DEF n, p
      <4>1. n \in Nat /\ Len(p) = n - 1
        BY <1>1
      <4>2. QED BY ONLY <4>1, <3>1
    <3>5. QED BY ONLY <3>3, <3>4 DEF StartsAt
  <2>6. QED BY <2>4, <2>5
<1>3. ASSUME NEW i \in 1 .. n - 1, IsRecording(p[i])
      PROVE  /\ RecordingEvent(p[i])
             /\ \A j \in i + 1 .. n : OnlyLive(p, i, j) => StartsAt(p, w, j, RingAdd(p[i].end, 1))
  <2>1. i + 1 \in 1 .. n /\ p[i] = q[i + 1]
    BY <1>1
  <2>2. /\ RecordingEvent(q[i + 1])
        /\ \A j \in i + 2 .. n + 1 :
             OnlyLive(q, i + 1, j) => StartsAt(q, w, j, RingAdd(q[i + 1].end, 1))
    BY <2>1, <1>3 DEF Chain
  <2>3. QED BY <2>1, <2>2, <1>2
<1>4. ASSUME new # <<>>
      PROVE  \A j \in 1 .. n : OnlyLive(p, 0, j) => StartsAt(p, w, j, RingAdd(new[Len(new)].end, 1))
  <2>1. CASE IsRecording(q[1])
    <3>1. \A j \in 2 .. n + 1 : OnlyLive(q, 1, j) => StartsAt(q, w, j, RingAdd(q[1].end, 1))
      BY <2>1, <1>1 DEF Chain
    <3>2. \A j \in 1 .. n : OnlyLive(p, 0, j) => StartsAt(p, w, j, RingAdd(q[1].end, 1))
      BY <3>1, <1>1, <1>2
    <3>3. QED BY <3>2, <2>1
  <2>2. CASE ~IsRecording(q[1])
    <3> DEFINE a == RingAdd(list[Len(list)].end, 1)
    <3>1. \A j \in 1 .. n + 1 : OnlyLive(q, 0, j) => StartsAt(q, w, j, a)
      BY <2>2, <1>4 DEF Chain
    <3>2. ASSUME NEW j \in 2 .. n + 1, OnlyLive(q, 1, j)
          PROVE  StartsAt(q, w, j, a)
      <4>1. OnlyLive(q, 0, j)
        BY <3>2, <2>2 DEF OnlyLive
      <4>2. QED BY <4>1, <3>1, <1>1
    <3>3. \A j \in 1 .. n : OnlyLive(p, 0, j) => StartsAt(p, w, j, a)
      BY <3>2, <1>1, <1>2
    <3>4. QED BY <3>3, <2>2
  <2>3. QED BY <2>1, <2>2
<1>5. QED BY <1>1, <1>3, <1>4 DEF Chain

-----------------------------------------------------------------------------
(* The steps of the system. *)

LEMMA InitInv == Init => Inv
<1> SUFFICES ASSUME Init PROVE Inv
  OBVIOUS
<1> USE DEF Init
<1>1. TypeOK
  <2>1. wp \in Addr
    BY RegionFacts
  <2>2. walk \in [on : BOOLEAN, seg : Seq(Segment), offset : Nat, flushed : BOOLEAN]
    BY DEF IdleWalk
  <2>3. QED BY <2>1, <2>2 DEF TypeOK
<1>2. Ordered(seglist)
  BY EmptyOrdered
<1>3. Chain(fifo, wp, seglist)
  BY DEF Chain
<1>4. QED BY <1>1, <1>2, <1>3 DEF Inv

(* A block as the sequencer fills it. *)
LEMMA RecordEvent ==
  ASSUME NEW size \in 1 .. RingSize, NEW m \in 1 .. 2 * size, wp \in Addr,
         NEW used, used = IF m > size THEN size ELSE m,
         NEW end, end = RingAdd(wp, used - 1),
         NEW last, last = RingAdd(wp, IF m > size THEN m - size - 1 ELSE m - 1)
  PROVE  /\ end \in Addr
         /\ last \in Addr
         /\ RingAdd(end, 1) \in Addr
         /\ RingDist(wp, last) <= RingDist(wp, end)
<1> DEFINE u == used - 1
           l == IF m > size THEN m - size - 1 ELSE m - 1
<1>1. /\ u \in Int /\ 0 <= u /\ u < RingSize
      /\ l \in Int /\ 0 <= l /\ l <= u
  BY RegionFacts
<1> HIDE DEF u, l
<1>2. end \in Addr /\ last \in Addr
  <2>1. end = RingAdd(wp, u) /\ last = RingAdd(wp, l)
    BY DEF u, l
  <2>2. QED BY <1>1, <2>1, RingAddType, RegionFacts
<1>3. RingAdd(end, 1) \in Addr
  BY <1>2, RingAddType, RegionFacts
<1>4. RingDist(wp, end) = u
  BY <1>1, RingDistAdd DEF u
<1>5. RingDist(wp, last) = l
  BY <1>1, RingDistAdd, RegionFacts DEF l
<1>6. QED BY <1>1, <1>2, <1>3, <1>4, <1>5

LEMMA RecordStep ==
  ASSUME Inv, NEW size \in 1 .. RingSize, NEW m \in 1 .. 2 * size, Record(size, m)
  PROVE  Inv'
<1> DEFINE used == IF m > size THEN size ELSE m
           end  == RingAdd(wp, used - 1)
           last == RingAdd(wp, IF m > size THEN m - size - 1 ELSE m - 1)
           e    == [start |-> wp, end |-> end, last |-> last, hi |-> written + m]
<1>1. /\ wp \in Addr /\ written \in Nat /\ fifo \in Seq(FifoEntry)
      /\ ram \in [Addr -> Nat]
      /\ Chain(fifo, wp, seglist)
  BY DEF Inv, TypeOK
<1>2. /\ fifo' = Append(fifo, e)
      /\ wp' = RingAdd(end, 1)
      /\ written' = written + m
      /\ seglist' = seglist
      /\ UNCHANGED <<mutex, thread, flushes, flushed, walk>>
  BY DEF Record
<1>3. /\ end \in Addr /\ last \in Addr /\ RingAdd(end, 1) \in Addr
      /\ RingDist(wp, last) <= RingDist(wp, end)
  BY <1>1, RecordEvent
<1>4. used \in Nat /\ m \in Nat /\ size \in Nat
  BY RegionFacts
<1>5. ram' \in [Addr -> Nat]
  <2> DEFINE stamp(a) == LET j == RingDist(wp, a)
                         IN  IF j >= used THEN ram[a]
                             ELSE IF j + size < m THEN written + j + size + 1
                             ELSE written + j + 1
  <2>1. ram' = [a \in Addr |-> stamp(a)]
    BY DEF Record
  <2>2. ASSUME NEW a \in Addr
        PROVE  stamp(a) \in Nat
    <3>1. RingDist(wp, a) \in Nat /\ ram[a] \in Nat
      BY <1>1, RingDistType
    <3>2. QED BY <3>1, <1>1, <1>4
  <2>3. QED BY <2>1, <2>2
<1> HIDE DEF used, end, last
<1>6. e \in FifoEntry /\ RecordingEvent(e) /\ e.start = wp
  <2>1. wp \in Nat /\ end \in Nat /\ last \in Nat /\ written + m \in Nat
    BY <1>1, <1>3, <1>4, RegionFacts
  <2>2. QED BY <2>1, <1>1, <1>3 DEF FifoEntry, RecordingEvent
<1>7. fifo' \in Seq(FifoEntry)
  BY <1>1, <1>2, <1>6
<1>8. written' \in Nat /\ wp' \in Addr
  BY <1>1, <1>2, <1>3, <1>4
<1>9. TypeOK'
  BY <1>2, <1>5, <1>7, <1>8 DEF Inv, TypeOK
<1>10. Chain(fifo', wp', seglist')
  <2>1. e.end = end
    OBVIOUS
  <2>2. Chain(Append(fifo, e), RingAdd(e.end, 1), seglist)
    BY <1>1, <1>6, ChainRecord
  <2>3. QED BY <2>1, <2>2, <1>2
<1>11. Ordered(seglist')
  BY <1>2 DEF Inv
<1>12. QED BY <1>9, <1>10, <1>11 DEF Inv

LEMMA RecordLiveStep ==
  ASSUME Inv, RecordLive
  PROVE  Inv'
<1> DEFINE e == [start |-> LiveAddr, end |-> LiveAddr, last |-> LiveAddr, hi |-> 0]
<1>1. /\ wp \in Addr /\ fifo \in Seq(FifoEntry) /\ Chain(fifo, wp, seglist)
  BY DEF Inv, TypeOK
<1>2. fifo' = Append(fifo, e) /\ wp' = wp /\ seglist' = seglist
  BY DEF RecordLive
<1>3. e \in FifoEntry /\ ~IsRecording(e)
  BY RingAssumption DEF FifoEntry, IsRecording
<1>4. fifo' \in Seq(FifoEntry)
  BY <1>1, <1>2, <1>3
<1>5. TypeOK'
  BY <1>4 DEF Inv, TypeOK, RecordLive
<1>6. Chain(fifo', wp', seglist')
  BY <1>1, <1>2, <1>3, ChainLive
<1>7. Ordered(seglist')
  BY <1>2 DEF Inv
<1>8. QED BY <1>5, <1>6, <1>7 DEF Inv

(* The segment that playback_region_add builds from a recording.           *)
LEMMA NewSegmentType ==
  ASSUME NEW event \in FifoEntry, RecordingEvent(event)
  PROVE  /\ NewSegment(event) \in Segment
         /\ Stretch(NewSegment(event))
         /\ NewSegment(event).start = event.start
         /\ NewSegment(event).end = event.end
<1> DEFINE n == SegmentLength(event.start, event.end)
           o == SegmentOffset(event.start, event.end, event.last)
<1>1. /\ event.start \in Addr /\ event.end \in Addr /\ event.last \in Addr
      /\ RingDist(event.start, event.last) <= RingDist(event.start, event.end)
      /\ event.hi \in Nat
  BY DEF RecordingEvent, FifoEntry
<1>2. n = RingDist(event.start, event.end) + 1
  BY <1>1, LengthDist
<1>3. RingDist(event.start, event.end) \in Nat /\ RingDist(event.start, event.end) < RingSize
  BY <1>1, RingDistType
<1>4. o \in 0 .. RingSize - 1
  BY <1>1, OffsetType
<1> HIDE DEF n, o
<1>5. n \in 1 .. RingSize
  BY ONLY <1>2, <1>3, RegionFacts
<1>6. NewSegment(event) =
        [start |-> event.start, end |-> event.end, nframes |-> n, offset |-> o, hi |-> event.hi]
  BY DEF NewSegment, n, o
<1>7. NewSegment(event) \in Segment
  BY ONLY <1>1, <1>4, <1>5, <1>6 DEF Segment
<1>8. QED BY <1>1, <1>2, <1>6, <1>7 DEF Stretch

LEMMA RegionAddStep ==
  ASSUME Inv, playback_region_add
  PROVE  Inv'
<1> DEFINE event == Head(fifo)
           seg   == NewSegment(event)
<1>1. /\ fifo \in Seq(FifoEntry) /\ fifo # <<>> /\ wp \in Addr
      /\ seglist \in Seq(Segment)
      /\ Ordered(seglist) /\ Chain(fifo, wp, seglist)
  BY DEF Inv, TypeOK, playback_region_add
<1>2. fifo' = Tail(fifo) /\ wp' = wp
  BY DEF playback_region_add
<1>3. /\ Tail(fifo) \in Seq(FifoEntry)
      /\ event \in FifoEntry
      /\ event = fifo[1]
      /\ Len(fifo) \in Nat /\ Len(fifo) >= 1
  BY <1>1
<1>4. CASE IsRecording(event)
  <2>1. PICK k \in 0 .. Len(seglist) :
          Evicts(seglist, seg, k) /\ seglist' = Linked(seglist, seg, k)
    BY <1>4 DEF playback_region_add
  <2>2. RecordingEvent(event)
    BY <1>1, <1>3, <1>4 DEF Chain
  <2>3. /\ seg \in Segment /\ Stretch(seg)
        /\ seg.start = event.start /\ seg.end = event.end
    BY <1>3, <2>2, NewSegmentType
  <2>4. ASSUME seglist # <<>>
        PROVE  seg.start = RingAdd(seglist[Len(seglist)].end, 1)
    <3>1. OnlyLive(fifo, 0, 1)
      BY DEF OnlyLive
    <3>2. StartsAt(fifo, wp, 1, RingAdd(seglist[Len(seglist)].end, 1))
      BY <1>1, <1>3, <2>4, <3>1 DEF Chain
    <3>3. 1 # Len(fifo) + 1
      BY <1>3
    <3>4. QED BY <1>3, <1>4, <2>3, <3>2, <3>3 DEF StartsAt
  <2> HIDE DEF seg
  <2>5. /\ seglist' \in Seq(Segment)
        /\ Ordered(seglist')
        /\ seglist'[Len(seglist')] = seg
    BY <1>1, <2>1, <2>3, <2>4, LinkedOrdered
  <2>6. Chain(fifo', wp', seglist')
    <3>1. IsRecording(fifo[1]) /\ seglist'[Len(seglist')].end = fifo[1].end
      BY <1>3, <1>4, <2>3, <2>5
    <3>2. QED BY <1>1, <1>2, <3>1, ChainDrain
  <2>7. TypeOK'
    BY <1>2, <1>3, <2>5 DEF Inv, TypeOK, playback_region_add
  <2>8. QED BY <2>5, <2>6, <2>7 DEF Inv
<1>5. CASE ~IsRecording(event)
  <2>1. seglist' = seglist
    BY <1>5 DEF playback_region_add
  <2>2. ~IsRecording(fifo[1])
    BY <1>3, <1>5
  <2>3. Chain(fifo', wp', seglist')
    BY <1>1, <1>2, <2>1, <2>2, ChainDrain
  <2>4. TypeOK'
    BY <1>2, <1>3, <2>1 DEF Inv, TypeOK, playback_region_add
  <2>5. QED BY <1>1, <2>1, <2>3, <2>4 DEF Inv
<1>6. QED BY <1>4, <1>5

LEMMA DeleteStep ==
  ASSUME Inv, video_segment_delete
  PROVE  Inv'
<1>1. /\ seglist \in Seq(Segment) /\ seglist # <<>>
      /\ Ordered(seglist) /\ Chain(fifo, wp, seglist)
  BY DEF Inv, TypeOK, video_segment_delete
<1>2. fifo' = fifo /\ wp' = wp /\ seglist' = Tail(seglist)
  BY DEF video_segment_delete
<1>3. /\ Len(seglist) \in Nat /\ Len(seglist) >= 1
      /\ seglist' \in Seq(Segment)
      /\ Len(seglist') = Len(seglist) - 1
      /\ \A i \in 1 .. Len(seglist') : seglist'[i] = seglist[i + 1]
  <2>1. Len(seglist) \in Nat /\ Len(seglist) >= 1
    BY <1>1
  <2>2. QED BY <1>1, <1>2, <2>1, HeadTailProperties
<1>4. TypeOK'
  BY <1>3 DEF Inv, TypeOK, video_segment_delete
<1>5. CASE Len(seglist) = 1
  <2>1. seglist' = <<>>
    BY <1>3, <1>5, EmptySeq
  <2>2. QED BY <1>1, <1>2, <1>4, <2>1, EmptyOrdered DEF Inv, Chain
<1>6. CASE Len(seglist) # 1
  <2>1. Ordered(seglist')
    <3>1. 1 \in 0 .. Len(seglist) - 1
      BY <1>3, <1>6
    <3>2. QED BY <1>1, <1>3, <3>1, SuffixOrdered
  <2>2. seglist'[Len(seglist')] = seglist[Len(seglist)]
    <3>1. Len(seglist') \in 1 .. Len(seglist') /\ Len(seglist') + 1 = Len(seglist)
      BY <1>3, <1>6
    <3>2. QED BY <1>3, <3>1
  <2>3. Chain(fifo', wp', seglist')
    BY <1>1, <1>2, <2>2 DEF Chain
  <2>4. QED BY <1>4, <2>1, <2>3 DEF Inv
<1>7. QED BY <1>5, <1>6

(* The other steps leave the list, the FIFO and the sequencer alone.       *)
LEMMA OtherStep ==
  ASSUME Inv, UNCHANGED <<wp, fifo, seglist>>, TypeOK'
  PROVE  Inv'
BY DEF Inv

LEMMA WalkTypes ==
  ASSUME Inv
  PROVE  /\ Pointer(seglist, 1) \in Seq(Segment)
         /\ \A seg \in Segment : NextSegment(seg) \in Seq(Segment)
<1>1. seglist \in Seq(Segment)
  BY DEF Inv, TypeOK
<1>2. ASSUME NEW i \in Nat \ {0}
      PROVE  Pointer(seglist, i) \in Seq(Segment)
  <2>1. CASE i <= Len(seglist)
    <3>1. seglist[i] \in Segment
      BY <1>1, <2>1
    <3>2. QED BY <2>1, <3>1 DEF Pointer
  <2>2. CASE ~(i <= Len(seglist))
    BY <2>2 DEF Pointer
  <2>3. QED BY <2>1, <2>2
<1>3. ASSUME NEW seg \in Segment
      PROVE  NextSegment(seg) \in Seq(Segment)
  <2> DEFINE at == {i \in 1 .. Len(seglist) : seglist[i] = seg}
  <2>1. CASE at = {}
    BY <2>1 DEF NextSegment
  <2>2. CASE at # {}
    <3> DEFINE i == CHOOSE i \in at : TRUE
    <3>1. i \in at
      BY <2>2
    <3>2. i + 1 \in Nat \ {0}
      BY <1>1, <3>1
    <3>3. NextSegment(seg) = Pointer(seglist, i + 1)
      BY <2>2 DEF NextSegment
    <3> HIDE DEF i
    <3>4. QED BY <1>2, <3>2, <3>3
  <2>3. QED BY <2>1, <2>2
<1>4. QED BY <1>2, <1>3

LEMMA NextInv == Inv /\ [Next]_vars => Inv'
<1> SUFFICES ASSUME Inv, [Next]_vars
             PROVE  Inv'
  OBVIOUS
<1>1. ASSUME NEW size \in 1 .. RingSize, NEW m \in 1 .. 2 * size, Record(size, m)
      PROVE  Inv'
  BY <1>1, RecordStep
<1>2. CASE RecordLive
  BY <1>2, RecordLiveStep
<1>3. CASE DrainBegin
  BY <1>3, OtherStep DEF DrainBegin, Inv, TypeOK
<1>4. CASE playback_region_add
  BY <1>4, RegionAddStep
<1>5. CASE DrainEnd
  BY <1>5, OtherStep DEF DrainEnd, Inv, TypeOK
<1>6. CASE Command
  <2>1. flushes' \in Nat /\ thread' \in {"poll", "drain", "command", "flush"}
    BY <1>6 DEF Command, Inv, TypeOK
  <2>2. QED BY <1>6, <2>1, OtherStep DEF Command, Inv, TypeOK
<1>7. CASE video_segment_delete
  BY <1>7, DeleteStep
<1>8. CASE FlushEnd
  BY <1>8, OtherStep DEF FlushEnd, Inv, TypeOK
<1>9. CASE playback_flush
  BY <1>9, OtherStep DEF playback_flush, Inv, TypeOK
<1>10. CASE WalkBegin
  <2>1. walk' \in [on : BOOLEAN, seg : Seq(Segment), offset : Nat, flushed : BOOLEAN]
    BY <1>10, WalkTypes DEF WalkBegin
  <2>2. QED BY <1>10, <2>1, OtherStep DEF WalkBegin, Inv, TypeOK
<1>11. CASE WalkStep
  <2>1. walk \in [on : BOOLEAN, seg : Seq(Segment), offset : Nat, flushed : BOOLEAN]
    BY DEF Inv, TypeOK
  <2>2. walk.seg[1] \in Segment
    BY <1>11, <2>1 DEF WalkStep
  <2>3. NextSegment(walk.seg[1]) \in Seq(Segment)
    BY <2>2, WalkTypes
  <2>4. walk.offset + walk.seg[1].nframes \in Nat
    <3>1. walk.seg[1].nframes \in 1 .. RingSize /\ walk.offset \in Nat
      BY <2>1, <2>2 DEF Segment
    <3>2. QED BY <3>1, RegionFacts
  <2>5. walk' \in [on : BOOLEAN, seg : Seq(Segment), offset : Nat, flushed : BOOLEAN]
    BY <1>11, <2>1, <2>3, <2>4 DEF WalkStep
  <2>6. QED BY <1>11, <2>5, OtherStep DEF WalkStep, Inv, TypeOK
<1>12. CASE WalkEnd
  <2>1. walk' \in [on : BOOLEAN, seg : Seq(Segment), offset : Nat, flushed : BOOLEAN]
    BY <1>12 DEF WalkEnd, IdleWalk
  <2>2. QED BY <1>12, <2>1, OtherStep DEF WalkEnd, Inv, TypeOK
<1>13. CASE UNCHANGED vars
  BY <1>13, OtherStep DEF vars, Inv, TypeOK
<1>14. QED
  BY <1>1, <1>2, <1>3, <1>4, <1>5, <1>6, <1>7, <1>8, <1>9, <1>10, <1>11, <1>12, <1>13
  DEF Next, Sequencer, PlaybackThread, DBusThread

-----------------------------------------------------------------------------
(* Types and disjointness. *)

(* Every segment that video_segment_add links has a length between one     *)
(* frame and the whole region and an offset inside its block, whatever the *)
(* size of the region and wherever the block wraps.                        *)
THEOREM TypeCorrect == Spec => []TypeOK
<1>1. Inv => TypeOK
  BY DEF Inv
<1>2. QED BY <1>1, InitInv, NextInv, PTL DEF Spec

(* No frame of memory belongs to two listed segments, although             *)
(* video_segment_add evicts from the head only and stops at the first      *)
(* segment that the new one does not overlap.                              *)
THEOREM SegmentsDisjoint == Spec => []NoSharedMemory
<1>1. Inv => NoSharedMemory
  BY OrderedDisjoint DEF Inv, NoSharedMemory
<1>2. QED BY <1>1, InitInv, NextInv, PTL DEF Spec

-----------------------------------------------------------------------------
(* The segments in the order they were recorded: the listed ones, then     *)
(* those that the FIFO entries still to be drained will become.            *)
Line(list, q) == list \o [i \in 1 .. Len(q) |-> NewSegment(q[i])]

(* The stamp that the sequencer left at address a of a segment.            *)
Stamp(seg, a) ==
  IF RingDist(seg.start, a) >= seg.offset
  THEN seg.hi - seg.nframes + 1 + (RingDist(seg.start, a) - seg.offset)
  ELSE seg.hi + 1 - (seg.offset - RingDist(seg.start, a))

(* Segment i of the line is a recording, and so is every one said of.      *)
Covered(line, i, a) ==
  \E j \in 1 .. Len(line) : j > i /\ IsRecording(line[j]) /\ a \in Slots(line[j])

Sound(seg, newest) ==
  /\ seg \in Segment
  /\ Stretch(seg)
  /\ seg.offset < seg.nframes
  /\ seg.nframes <= seg.hi
  /\ seg.hi <= newest

(* The frames of the line are numbered without a gap up to the newest.     *)
Numbered(line, newest) ==
  /\ \A i \in 1 .. Len(line) : IsRecording(line[i]) =>
       /\ Sound(line[i], newest)
       /\ (\A j \in 1 .. Len(line) : j > i => ~IsRecording(line[j])) => line[i].hi = newest
  /\ \A i, j \in 1 .. Len(line) :
       i < j /\ IsRecording(line[i]) /\ IsRecording(line[j])
         => line[i].hi + line[j].nframes <= line[j].hi

(* Memory holds every frame of the line that a later segment did not take. *)
Shown(line, mem) ==
  \A i \in 1 .. Len(line) : IsRecording(line[i]) =>
    \A a \in Slots(line[i]) : Covered(line, i, a) \/ mem[a] = Stamp(line[i], a)

(* A frame that a later segment took holds a later stamp.                  *)
Damaged(line, mem) ==
  \A i \in 1 .. Len(line) : IsRecording(line[i]) =>
    \A a \in Slots(line[i]) : Covered(line, i, a) => mem[a] > line[i].hi

LineInv ==
  /\ Numbered(Line(seglist, fifo), written)
  /\ Shown(Line(seglist, fifo), ram)
  /\ Damaged(Line(seglist, fifo), ram)
  /\ written <= MaxFrames

(* A getter that no flush disturbed stands at a segment of the list, and   *)
(* offset counts the frames before it.                                     *)
WalkInv ==
  /\ thread = "drain" => mutex = "playback"
  /\ walk.on => mutex = "dbus"
  /\ walk.on /\ ~walk.flushed /\ walk.seg # <<>> =>
       \E i \in 1 .. Len(seglist) :
         /\ walk.seg = <<seglist[i]>>
         /\ walk.offset = FramesBefore(seglist)[i - 1]

FullInv == Inv /\ LineInv /\ Adjacent(seglist) /\ WalkInv

-----------------------------------------------------------------------------
(* The line. *)

LEMMA LineIndex ==
  ASSUME NEW list \in Seq(Segment), NEW q \in Seq(FifoEntry)
  PROVE  /\ Len(Line(list, q)) = Len(list) + Len(q)
         /\ \A i \in 1 .. Len(list) : Line(list, q)[i] = list[i]
         /\ \A i \in 1 .. Len(q) : Line(list, q)[Len(list) + i] = NewSegment(q[i])
<1> DEFINE coming == [i \in 1 .. Len(q) |-> NewSegment(q[i])]
           S == Segment \cup {coming[i] : i \in 1 .. Len(q)}
<1>1. Len(q) \in Nat /\ Len(list) \in Nat
  OBVIOUS
<1>2. coming \in Seq(S) /\ Len(coming) = Len(q)
  BY <1>1
<1>3. list \in Seq(S)
  BY <1>1
<1> HIDE DEF S
<1>4. QED BY <1>1, <1>2, <1>3, ConcatProperties DEF Line

LEMMA ListCounted ==
  ASSUME NEW list \in Seq(Segment)
  PROVE  Counted(list)
<1>1. \A i \in 1 .. Len(list) : list[i] \in Segment
  OBVIOUS
<1>2. \A seg \in Segment : seg.nframes \in Nat /\ seg.nframes >= 1
  BY RegionFacts DEF Segment
<1>3. Len(list) \in Nat
  OBVIOUS
<1>4. QED BY <1>1, <1>2, <1>3 DEF Counted

LEMMA LinkedSegments ==
  ASSUME NEW list \in Seq(Segment), NEW seg \in Segment, NEW k \in 0 .. Len(list)
  PROVE  /\ Linked(list, seg, k) \in Seq(Segment)
         /\ Len(Linked(list, seg, k)) = Len(list) - k + 1
         /\ \A i \in 1 .. Len(list) - k : Linked(list, seg, k)[i] = list[i + k]
         /\ Linked(list, seg, k)[Len(list) - k + 1] = seg
<1> DEFINE S == Segment
<1>1. list \in Seq(S) /\ seg \in S
  OBVIOUS
<1> HIDE DEF S
<1>2. /\ Linked(list, seg, k) \in Seq(S)
      /\ Len(Linked(list, seg, k)) = Len(list) - k + 1
      /\ \A i \in 1 .. Len(list) - k : Linked(list, seg, k)[i] = list[i + k]
      /\ Linked(list, seg, k)[Len(list) - k + 1] = seg
  BY <1>1, LinkedIndex
<1>3. QED BY <1>2 DEF S

(* The addresses of a segment, by their distance from its start.           *)
LEMMA SlotsDist ==
  ASSUME NEW seg, Stretch(seg)
  PROVE  \A a : a \in Slots(seg) <=>
                a \in Addr /\ RingDist(seg.start, a) <= RingDist(seg.start, seg.end)
BY IncludesDist DEF Slots, Stretch

LEMMA StampBounds ==
  ASSUME NEW seg, NEW newest \in Nat, Sound(seg, newest), NEW a \in Slots(seg)
  PROVE  /\ Stamp(seg, a) \in Nat
         /\ seg.hi - seg.nframes < Stamp(seg, a)
         /\ Stamp(seg, a) <= seg.hi
<1>1. /\ seg.hi \in Nat /\ seg.nframes \in Nat /\ seg.offset \in Nat
      /\ seg.offset < seg.nframes /\ seg.nframes <= seg.hi
  BY RegionFacts DEF Sound, Segment
<1>2. /\ RingDist(seg.start, a) \in Nat
      /\ RingDist(seg.start, a) < seg.nframes
  <2>1. Stretch(seg)
    BY DEF Sound
  <2>2. a \in Addr /\ RingDist(seg.start, a) <= RingDist(seg.start, seg.end)
    BY <2>1, SlotsDist
  <2>3. RingDist(seg.start, a) \in Nat /\ RingDist(seg.start, seg.end) \in Nat
    BY <2>1, <2>2, RingDistType DEF Stretch
  <2>4. QED BY <2>1, <2>2, <2>3 DEF Stretch
<1>3. QED BY <1>1, <1>2 DEF Stamp

(* Two segments overlap if and only if they share an address.              *)
LEMMA SharedSlot ==
  ASSUME NEW c \in Addr, NEW d \in Addr, NEW s \in Addr, NEW e \in Addr, NEW a \in Addr,
         RingDist(c, a) <= RingDist(c, d), RingDist(s, a) <= RingDist(s, e)
  PROVE  RingDist(c, s) <= RingDist(c, d) \/ RingDist(s, c) <= RingDist(s, e)
BY RegionFacts DEF RingDist

LEMMA OverlapIsShared ==
  ASSUME NEW x, Stretch(x), NEW y, Stretch(y)
  PROVE  video_segment_overlap(x, y) <=> \E a \in Slots(x) : a \in Slots(y)
<1>1. /\ x.start \in Addr /\ x.end \in Addr
      /\ y.start \in Addr /\ y.end \in Addr
  BY DEF Stretch
<1>2. ASSUME video_segment_overlap(x, y)
      PROVE  \E a \in Slots(x) : a \in Slots(y)
  <2>1. /\ x.start \in Slots(x) /\ x.end \in Slots(x)
        /\ y.start \in Slots(y) /\ y.end \in Slots(y)
    BY <1>1, RegionFacts DEF Slots, video_segment_includes
  <2>2. QED BY <1>1, <1>2, <2>1 DEF video_segment_overlap, Slots
<1>3. ASSUME NEW a \in Slots(x), a \in Slots(y)
      PROVE  video_segment_overlap(x, y)
  <2>1. /\ a \in Addr
        /\ RingDist(x.start, a) <= RingDist(x.start, x.end)
        /\ RingDist(y.start, a) <= RingDist(y.start, y.end)
    BY <1>3, SlotsDist
  <2>2. \/ RingDist(x.start, y.start) <= RingDist(x.start, x.end)
        \/ RingDist(y.start, x.start) <= RingDist(y.start, y.end)
    BY <1>1, <2>1, SharedSlot
  <2>3. video_segment_includes(x, y.start) \/ video_segment_includes(y, x.start)
    BY <1>1, <2>2, IncludesDist
  <2>4. QED BY <2>3 DEF video_segment_overlap
<1>4. QED BY <1>2, <1>3

-----------------------------------------------------------------------------
(* What is left of a line after segments at its head, or an event that     *)
(* is no recording, went: f finds what is left in the line, and nothing    *)
(* after it is lost.                                                       *)
Finds(f, new, line) ==
  /\ Len(line) \in Nat
  /\ Len(new) \in Nat
  /\ f \in [1 .. Len(new) -> 1 .. Len(line)]
  /\ \A i \in 1 .. Len(new) : new[i] = line[f[i]]
  /\ \A i, j \in 1 .. Len(new) : i < j => f[i] < f[j]
  /\ \A i \in 1 .. Len(new) : \A j \in 1 .. Len(line) :
       f[i] < j /\ IsRecording(line[j]) => \E m \in 1 .. Len(new) : f[m] = j

LEMMA SubLine ==
  ASSUME NEW line, NEW new, NEW f, Finds(f, new, line), NEW newest, NEW mem
  PROVE  /\ Numbered(line, newest) => Numbered(new, newest)
         /\ Shown(line, mem) => Shown(new, mem)
         /\ Damaged(line, mem) => Damaged(new, mem)
<1> USE DEF Finds
<1>1. ASSUME NEW i \in 1 .. Len(new), NEW j \in 1 .. Len(line), f[i] < j, IsRecording(line[j])
      PROVE  \E m \in 1 .. Len(new) : m > i /\ f[m] = j
  <2>1. PICK m \in 1 .. Len(new) : f[m] = j
    BY <1>1
  <2>2. m # i /\ ~(m < i)
    <3>1. f[i] \in Int /\ f[m] \in Int
      OBVIOUS
    <3>2. m < i => f[m] < f[i]
      OBVIOUS
    <3>3. QED BY <3>1, <3>2, <2>1, <1>1
  <2>3. QED BY <2>1, <2>2
<1>2. ASSUME NEW i \in 1 .. Len(new), NEW a
      PROVE  Covered(new, i, a) <=> Covered(line, f[i], a)
  <2>1. ASSUME Covered(new, i, a)
        PROVE  Covered(line, f[i], a)
    <3>1. PICK j \in 1 .. Len(new) : j > i /\ IsRecording(new[j]) /\ a \in Slots(new[j])
      BY <2>1 DEF Covered
    <3>2. f[j] \in 1 .. Len(line) /\ f[j] > f[i] /\ new[j] = line[f[j]]
      BY <3>1
    <3>3. QED BY <3>1, <3>2 DEF Covered
  <2>2. ASSUME Covered(line, f[i], a)
        PROVE  Covered(new, i, a)
    <3>1. PICK j \in 1 .. Len(line) : j > f[i] /\ IsRecording(line[j]) /\ a \in Slots(line[j])
      BY <2>2 DEF Covered
    <3>2. f[i] < j
      BY <3>1
    <3>3. PICK m \in 1 .. Len(new) : m > i /\ f[m] = j
      BY <3>1, <3>2, <1>1
    <3>4. new[m] = line[j]
      BY <3>3
    <3>5. QED BY <3>1, <3>3, <3>4 DEF Covered
  <2>3. QED BY <2>1, <2>2
<1>3. ASSUME Numbered(line, newest)
      PROVE  Numbered(new, newest)
  <2>1. ASSUME NEW i \in 1 .. Len(new), IsRecording(new[i])
        PROVE  /\ Sound(new[i], newest)
               /\ (\A j \in 1 .. Len(new) : j > i => ~IsRecording(new[j])) => new[i].hi = newest
    <3>1. f[i] \in 1 .. Len(line) /\ new[i] = line[f[i]]
      OBVIOUS
    <3>2. /\ Sound(line[f[i]], newest)
          /\ (\A j \in 1 .. Len(line) : j > f[i] => ~IsRecording(line[j]))
               => line[f[i]].hi = newest
      BY <1>3, <2>1, <3>1 DEF Numbered
    <3>3. ASSUME \A j \in 1 .. Len(new) : j > i => ~IsRecording(new[j]),
                 NEW j \in 1 .. Len(line), j > f[i]
          PROVE  ~IsRecording(line[j])
      <4> SUFFICES ASSUME IsRecording(line[j]) PROVE FALSE
        OBVIOUS
      <4>1. PICK m \in 1 .. Len(new) : m > i /\ f[m] = j
        BY <1>1, <3>3
      <4>2. QED BY <4>1, <3>3
    <3>4. QED BY <3>1, <3>2, <3>3
  <2>2. ASSUME NEW i \in 1 .. Len(new), NEW j \in 1 .. Len(new),
               i < j, IsRecording(new[i]), IsRecording(new[j])
        PROVE  new[i].hi + new[j].nframes <= new[j].hi
    <3>1. /\ f[i] \in 1 .. Len(line) /\ new[i] = line[f[i]]
          /\ f[j] \in 1 .. Len(line) /\ new[j] = line[f[j]]
          /\ f[i] < f[j]
      BY <2>2
    <3>2. QED BY <1>3, <2>2, <3>1 DEF Numbered
  <2>3. QED BY <2>1, <2>2 DEF Numbered
<1>4. ASSUME Shown(line, mem)
      PROVE  Shown(new, mem)
  <2> SUFFICES ASSUME NEW i \in 1 .. Len(new), IsRecording(new[i]), NEW a \in Slots(new[i])
               PROVE  Covered(new, i, a) \/ mem[a] = Stamp(new[i], a)
    BY DEF Shown
  <2>1. f[i] \in 1 .. Len(line) /\ new[i] = line[f[i]]
    OBVIOUS
  <2>2. QED BY <1>2, <1>4, <2>1 DEF Shown
<1>5. ASSUME Damaged(line, mem)
      PROVE  Damaged(new, mem)
  <2> SUFFICES ASSUME NEW i \in 1 .. Len(new), IsRecording(new[i]), NEW a \in Slots(new[i]),
                      Covered(new, i, a)
               PROVE  mem[a] > new[i].hi
    BY DEF Damaged
  <2>1. f[i] \in 1 .. Len(line) /\ new[i] = line[f[i]]
    OBVIOUS
  <2>2. QED BY <1>2, <1>5, <2>1 DEF Damaged
<1>6. QED BY <1>3, <1>4, <1>5

(* The line new is the line with seg after it.                             *)
Extends(line, new, seg) ==
  /\ Len(line) \in Nat
  /\ Len(new) = Len(line) + 1
  /\ \A i \in 1 .. Len(line) : new[i] = line[i]
  /\ new[Len(line) + 1] = seg

(* The memory mem2 is mem with the frames of seg over it.                  *)
Overlaid(mem, mem2, seg) ==
  /\ \A a \in Slots(seg) : mem2[a] = Stamp(seg, a)
  /\ \A a \in Addr : a \notin Slots(seg) => mem2[a] = mem[a]

(* seg stands for the newest of the frames after the number old. *)
Continues(seg, old, newest) ==
  /\ IsRecording(seg)
  /\ Sound(seg, newest)
  /\ old + seg.nframes <= seg.hi
  /\ seg.hi = newest

(* The line after a block of frames was recorded. *)
LEMMA GrownLine ==
  ASSUME NEW line, NEW new, NEW seg, NEW old \in Nat, NEW newest \in Nat, NEW mem, NEW mem2,
         Extends(line, new, seg), Continues(seg, old, newest), Overlaid(mem, mem2, seg),
         Numbered(line, old), Shown(line, mem), Damaged(line, mem)
  PROVE  Numbered(new, newest) /\ Shown(new, mem2) /\ Damaged(new, mem2)
<1> DEFINE n == Len(line)
<1> USE DEF Extends, Continues, Overlaid
<1>1. /\ seg.hi \in Nat /\ seg.nframes \in Nat /\ seg.nframes >= 1
  BY RegionFacts DEF Sound, Segment
<1>2. ASSUME NEW i \in 1 .. n, IsRecording(line[i])
      PROVE  /\ Sound(line[i], old) /\ Sound(line[i], newest)
             /\ line[i].hi \in Nat /\ line[i].hi <= old
             /\ line[i].hi + seg.nframes <= seg.hi
             /\ line[i].hi # newest
  <2>1. Sound(line[i], old)
    BY <1>2 DEF Numbered
  <2>2. line[i].hi \in Nat /\ line[i].hi <= old
    BY <2>1 DEF Sound, Segment
  <2>3. line[i].hi <= newest
    BY <2>2, <1>1
  <2>4. QED BY <2>1, <2>2, <2>3, <1>1 DEF Sound
<1>3. Numbered(new, newest)
  <2>1. ASSUME NEW i \in 1 .. n + 1, IsRecording(new[i])
        PROVE  /\ Sound(new[i], newest)
               /\ (\A j \in 1 .. n + 1 : j > i => ~IsRecording(new[j])) => new[i].hi = newest
    <3>1. CASE i = n + 1
      BY <3>1
    <3>2. CASE i # n + 1
      <4>1. i \in 1 .. n /\ new[i] = line[i] /\ n + 1 > i /\ n + 1 \in 1 .. n + 1
        BY <3>2
      <4>2. QED BY <4>1, <1>2, <2>1
    <3>3. QED BY <3>1, <3>2
  <2>2. ASSUME NEW i \in 1 .. n + 1, NEW j \in 1 .. n + 1,
               i < j, IsRecording(new[i]), IsRecording(new[j])
        PROVE  new[i].hi + new[j].nframes <= new[j].hi
    <3>1. i \in 1 .. n /\ new[i] = line[i]
      BY <2>2
    <3>2. CASE j = n + 1
      BY <3>1, <3>2, <1>2, <2>2
    <3>3. CASE j # n + 1
      <4>1. j \in 1 .. n /\ new[j] = line[j]
        BY <3>3
      <4>2. QED BY <3>1, <4>1, <2>2 DEF Numbered
    <3>4. QED BY <3>2, <3>3
  <2>3. QED BY <2>1, <2>2 DEF Numbered
<1>4. ASSUME NEW i \in 1 .. n, NEW a
      PROVE  Covered(new, i, a) <=> Covered(line, i, a) \/ a \in Slots(seg)
  <2>1. n + 1 \in 1 .. n + 1 /\ n + 1 > i
    OBVIOUS
  <2>2. \A j \in 1 .. n + 1 : j = n + 1 \/ j \in 1 .. n
    OBVIOUS
  <2>3. \A j \in 1 .. n : j \in 1 .. n + 1
    OBVIOUS
  <2>4. QED BY <2>1, <2>2, <2>3 DEF Covered
<1>5. Shown(new, mem2)
  <2> SUFFICES ASSUME NEW i \in 1 .. n + 1, IsRecording(new[i]), NEW a \in Slots(new[i])
               PROVE  Covered(new, i, a) \/ mem2[a] = Stamp(new[i], a)
    BY DEF Shown
  <2>1. CASE i = n + 1
    BY <2>1
  <2>2. CASE i # n + 1
    <3>1. i \in 1 .. n /\ new[i] = line[i]
      BY <2>2
    <3>2. Covered(line, i, a) \/ mem[a] = Stamp(line[i], a)
      BY <3>1 DEF Shown
    <3>3. a \in Addr
      BY DEF Slots
    <3>4. QED BY <3>1, <3>2, <3>3, <1>4
  <2>3. QED BY <2>1, <2>2
<1>6. Damaged(new, mem2)
  <2> SUFFICES ASSUME NEW i \in 1 .. n + 1, IsRecording(new[i]), NEW a \in Slots(new[i]),
                      Covered(new, i, a)
               PROVE  mem2[a] > new[i].hi
    BY DEF Damaged
  <2>1. i \in 1 .. n /\ new[i] = line[i]
    BY DEF Covered
  <2>2. a \in Addr
    BY DEF Slots
  <2>3. CASE a \in Slots(seg)
    <3>1. Stamp(seg, a) \in Nat /\ seg.hi - seg.nframes < Stamp(seg, a)
      BY <2>3, StampBounds
    <3>2. mem2[a] = Stamp(seg, a)
      BY <2>3
    <3>3. line[i].hi \in Nat /\ line[i].hi + seg.nframes <= seg.hi
      BY <2>1, <1>2
    <3>4. QED BY <3>1, <3>2, <3>3, <2>1, <1>1
  <2>4. CASE a \notin Slots(seg)
    <3>1. Covered(line, i, a)
      BY <2>1, <2>4, <1>4
    <3>2. mem[a] > line[i].hi
      BY <2>1, <3>1 DEF Damaged
    <3>3. QED BY <2>1, <2>2, <2>4, <3>2
  <2>5. QED BY <2>3, <2>4
<1>7. QED BY <1>3, <1>5, <1>6

-----------------------------------------------------------------------------
(* The segment that a FIFO entry becomes.                                  *)
LEMMA NewSegmentDist ==
  ASSUME NEW event \in FifoEntry, RecordingEvent(event)
  PROVE  /\ NewSegment(event) \in Segment
         /\ Stretch(NewSegment(event))
         /\ IsRecording(NewSegment(event))
         /\ NewSegment(event).start = event.start
         /\ NewSegment(event).end = event.end
         /\ NewSegment(event).hi = event.hi
         /\ NewSegment(event).nframes = RingDist(event.start, event.end) + 1
         /\ NewSegment(event).offset =
              IF RingDist(event.start, event.last) = RingDist(event.start, event.end) THEN 0
              ELSE RingDist(event.start, event.last) + 1
<1>1. event.start \in Addr /\ event.end \in Addr /\ event.last \in Addr
  BY DEF RecordingEvent
<1>2. /\ NewSegment(event).start = event.start
      /\ NewSegment(event).end = event.end
      /\ NewSegment(event).hi = event.hi
      /\ NewSegment(event).nframes = SegmentLength(event.start, event.end)
      /\ NewSegment(event).offset = SegmentOffset(event.start, event.end, event.last)
  BY DEF NewSegment
<1>3. IsRecording(NewSegment(event))
  BY <1>1, <1>2, RingAssumption DEF IsRecording
<1>4. QED BY <1>1, <1>2, <1>3, NewSegmentType, LengthDist, OffsetDist DEF RecordingEvent

(* A block as the sequencer leaves it: its segment stands for the newest   *)
(* used frames of the m recorded, each at its place.                       *)
LEMMA RecordSegment ==
  ASSUME Inv, NEW size \in 1 .. RingSize, NEW m \in 1 .. 2 * size, Record(size, m)
  PROVE  \E e \in FifoEntry :
           /\ fifo' = Append(fifo, e)
           /\ Continues(NewSegment(e), written, written')
           /\ Overlaid(ram, ram', NewSegment(e))
<1> DEFINE used == IF m > size THEN size ELSE m
           l    == IF m > size THEN m - size - 1 ELSE m - 1
           end  == RingAdd(wp, used - 1)
           last == RingAdd(wp, l)
           e    == [start |-> wp, end |-> end, last |-> last, hi |-> written + m]
           seg  == NewSegment(e)
           stamp(a) == LET j == RingDist(wp, a)
                       IN  IF j >= used THEN ram[a]
                           ELSE IF j + size < m THEN written + j + size + 1
                           ELSE written + j + 1
<1>1. wp \in Addr /\ written \in Nat /\ fifo \in Seq(FifoEntry) /\ ram \in [Addr -> Nat]
  BY DEF Inv, TypeOK
<1>2. /\ fifo' = Append(fifo, e)
      /\ written' = written + m
      /\ ram' = [a \in Addr |-> stamp(a)]
  <2>1. last = RingAdd(wp, IF m > size THEN m - size - 1 ELSE m - 1)
    OBVIOUS
  <2>2. QED BY <2>1 DEF Record
<1>3. /\ size \in Nat /\ size <= RingSize /\ m \in Nat /\ m >= 1 /\ m <= 2 * size
      /\ used \in Nat /\ used >= 1 /\ used <= size /\ used <= m
      /\ l \in Nat /\ l < used
  BY RegionFacts
<1>4. \/ used = m /\ l = used - 1 /\ m <= size
      \/ used = size /\ l = m - size - 1 /\ m > size
  BY <1>3
<1> HIDE DEF used, l
<1>5. /\ end \in Addr /\ last \in Addr
      /\ RingDist(wp, end) = used - 1 /\ RingDist(wp, last) = l
  <2> SUFFICES ASSUME NEW u \in {used - 1, l}
               PROVE  RingAdd(wp, u) \in Addr /\ RingDist(wp, RingAdd(wp, u)) = u
    OBVIOUS
  <2>1. u \in Int /\ 0 <= u /\ u < RingSize /\ u <= RingSize
    BY <1>3, RegionFacts
  <2>2. RingAdd(wp, u) \in Addr
    BY <1>1, <2>1, RingAddType
  <2>3. RingDist(wp, RingAdd(wp, u)) = u
    BY <1>1, <2>1, RingDistAdd
  <2>4. QED BY <2>2, <2>3
<1> HIDE DEF end, last
<1>6. /\ e.start = wp /\ e.end = end /\ e.last = last /\ e.hi = written + m
      /\ e \in FifoEntry /\ RecordingEvent(e)
  <2>1. wp \in Nat /\ end \in Nat /\ last \in Nat /\ written + m \in Nat
    BY <1>1, <1>3, <1>5, RegionFacts
  <2>2. RingDist(wp, last) <= RingDist(wp, end)
    BY <1>3, <1>5
  <2>3. QED BY <2>1, <2>2, <1>1, <1>5 DEF FifoEntry, RecordingEvent
<1> HIDE DEF e
<1>7. /\ seg \in Segment /\ Stretch(seg) /\ IsRecording(seg)
      /\ seg.start = wp /\ seg.end = end /\ seg.hi = written + m
      /\ seg.nframes = used
      /\ seg.offset = IF l = used - 1 THEN 0 ELSE l + 1
  <2>1. /\ seg \in Segment /\ Stretch(seg) /\ IsRecording(seg)
        /\ seg.start = wp /\ seg.end = end /\ seg.hi = written + m
        /\ seg.nframes = RingDist(wp, end) + 1
        /\ seg.offset = IF RingDist(wp, last) = RingDist(wp, end) THEN 0 ELSE RingDist(wp, last) + 1
    BY <1>6, NewSegmentDist
  <2>2. RingDist(wp, end) + 1 = used
    BY <1>3, <1>5
  <2>3. QED BY <2>1, <2>2, <1>5
<1> HIDE DEF seg
<1>8. Sound(seg, written') /\ seg.hi = written' /\ written + seg.nframes <= written'
  BY <1>1, <1>2, <1>3, <1>7 DEF Sound
<1>9. ASSUME NEW a \in Addr
      PROVE  /\ a \in Slots(seg) <=> RingDist(wp, a) < used
             /\ RingDist(wp, a) \in Nat
             /\ ram'[a] = stamp(a)
  <2>1. RingDist(wp, a) \in Nat
    BY <1>1, RingDistType
  <2>2. a \in Slots(seg) <=> RingDist(wp, a) <= used - 1
    BY <1>5, <1>7, SlotsDist
  <2>3. QED BY <2>1, <2>2, <1>2, <1>3
<1>10. ASSUME NEW a \in Slots(seg)
       PROVE  ram'[a] = Stamp(seg, a)
  <2>1. a \in Addr
    BY DEF Slots
  <2> DEFINE d == RingDist(wp, a)
  <2>2. d \in Nat /\ d < used /\ ram'[a] = stamp(a)
    BY <2>1, <1>9
  <2>3. ram'[a] = IF d + size < m THEN written + d + size + 1 ELSE written + d + 1
    BY <2>2, <1>3
  <2>4. RingDist(seg.start, a) = d
    BY <1>7
  <2>5. Stamp(seg, a) = IF d >= seg.offset
                        THEN seg.hi - seg.nframes + 1 + (d - seg.offset)
                        ELSE seg.hi + 1 - (seg.offset - d)
    BY <2>4 DEF Stamp
  <2> HIDE DEF d
  <2>6. /\ seg.hi = written + m /\ seg.nframes = used
        /\ seg.offset = IF l = used - 1 THEN 0 ELSE l + 1
        /\ written \in Nat /\ size \in Nat /\ m \in Nat /\ used \in Nat /\ l \in Nat
        /\ m <= 2 * size
    BY <1>1, <1>3, <1>7
  <2>7. CASE used = m /\ l = used - 1 /\ m <= size
    BY ONLY <2>2, <2>3, <2>5, <2>6, <2>7
  <2>8. CASE used = size /\ l = m - size - 1 /\ m > size
    BY ONLY <2>2, <2>3, <2>5, <2>6, <2>8
  <2>9. QED BY <1>4, <2>7, <2>8
<1>11. ASSUME NEW a \in Addr, a \notin Slots(seg)
       PROVE  ram'[a] = ram[a]
  <2>1. RingDist(wp, a) \in Nat /\ ~(RingDist(wp, a) < used) /\ ram'[a] = stamp(a)
    BY <1>9, <1>11
  <2>2. QED BY <2>1, <1>3
<1>12. Continues(seg, written, written') /\ Overlaid(ram, ram', seg)
  BY <1>7, <1>8, <1>10, <1>11 DEF Continues, Overlaid
<1>13. QED BY <1>2, <1>6, <1>12 DEF seg

-----------------------------------------------------------------------------
(* How the steps change the line. *)

LEMMA GapLine ==
  ASSUME NEW line, NEW new, NEW seg, Extends(line, new, seg), ~IsRecording(seg),
         NEW newest, NEW mem,
         Numbered(line, newest), Shown(line, mem), Damaged(line, mem)
  PROVE  Numbered(new, newest) /\ Shown(new, mem) /\ Damaged(new, mem)
<1> DEFINE n == Len(line)
<1> USE DEF Extends
<1>1. ASSUME NEW i \in 1 .. n + 1, IsRecording(new[i])
      PROVE  i \in 1 .. n /\ new[i] = line[i] /\ IsRecording(line[i])
  <2>1. i # n + 1
    BY <1>1
  <2>2. QED BY <2>1, <1>1
<1>2. ASSUME NEW i \in 1 .. n
      PROVE  i \in 1 .. n + 1 /\ new[i] = line[i]
  OBVIOUS
<1>3. ASSUME NEW i, NEW a
      PROVE  Covered(new, i, a) <=> Covered(line, i, a)
  BY <1>1, <1>2 DEF Covered
<1>4. Numbered(new, newest)
  <2>1. ASSUME NEW i \in 1 .. n + 1, IsRecording(new[i])
        PROVE  /\ Sound(new[i], newest)
               /\ (\A j \in 1 .. n + 1 : j > i => ~IsRecording(new[j])) => new[i].hi = newest
    <3>1. i \in 1 .. n /\ new[i] = line[i]
      BY <1>1, <2>1
    <3>2. /\ Sound(line[i], newest)
          /\ (\A j \in 1 .. n : j > i => ~IsRecording(line[j])) => line[i].hi = newest
      BY <2>1, <3>1 DEF Numbered
    <3>3. QED BY <3>1, <3>2, <1>2
  <2>2. ASSUME NEW i \in 1 .. n + 1, NEW j \in 1 .. n + 1,
               i < j, IsRecording(new[i]), IsRecording(new[j])
        PROVE  new[i].hi + new[j].nframes <= new[j].hi
    <3>1. i \in 1 .. n /\ new[i] = line[i] /\ j \in 1 .. n /\ new[j] = line[j]
      BY <1>1, <2>2
    <3>2. QED BY <2>2, <3>1 DEF Numbered
  <2>3. QED BY <2>1, <2>2 DEF Numbered
<1>5. Shown(new, mem)
  <2> SUFFICES ASSUME NEW i \in 1 .. n + 1, IsRecording(new[i]), NEW a \in Slots(new[i])
               PROVE  Covered(new, i, a) \/ mem[a] = Stamp(new[i], a)
    BY DEF Shown
  <2>1. QED BY <1>1, <1>3 DEF Shown
<1>6. Damaged(new, mem)
  <2> SUFFICES ASSUME NEW i \in 1 .. n + 1, IsRecording(new[i]), NEW a \in Slots(new[i]),
                      Covered(new, i, a)
               PROVE  mem[a] > new[i].hi
    BY DEF Damaged
  <2>1. QED BY <1>1, <1>3 DEF Damaged
<1>7. QED BY <1>4, <1>5, <1>6

(* An event more in the FIFO is a segment more in the line.                *)
LEMMA LineAppend ==
  ASSUME NEW list \in Seq(Segment), NEW q \in Seq(FifoEntry), NEW e \in FifoEntry
  PROVE  Extends(Line(list, q), Line(list, Append(q, e)), NewSegment(e))
<1> DEFINE p    == Append(q, e)
           line == Line(list, q)
           new  == Line(list, p)
<1>1. /\ p \in Seq(FifoEntry)
      /\ Len(p) = Len(q) + 1 /\ p[Len(q) + 1] = e
      /\ \A i \in 1 .. Len(q) : p[i] = q[i]
      /\ Len(q) \in Nat /\ Len(list) \in Nat
  OBVIOUS
<1> HIDE DEF p
<1>2. /\ Len(line) = Len(list) + Len(q)
      /\ \A i \in 1 .. Len(list) : line[i] = list[i]
      /\ \A i \in 1 .. Len(q) : line[Len(list) + i] = NewSegment(q[i])
  BY LineIndex
<1>3. /\ Len(new) = Len(list) + Len(p)
      /\ \A i \in 1 .. Len(list) : new[i] = list[i]
      /\ \A i \in 1 .. Len(p) : new[Len(list) + i] = NewSegment(p[i])
  BY <1>1, LineIndex
<1> HIDE DEF line, new
<1>4. /\ Len(line) \in Nat /\ Len(new) = Len(line) + 1
      /\ new[Len(line) + 1] = NewSegment(e)
  <2>1. Len(line) + 1 = Len(list) + (Len(q) + 1) /\ Len(q) + 1 \in 1 .. Len(p)
    BY <1>1, <1>2
  <2>2. QED BY <2>1, <1>1, <1>2, <1>3
<1>5. ASSUME NEW i \in 1 .. Len(line)
      PROVE  new[i] = line[i]
  <2>1. CASE i <= Len(list)
    <3>1. i \in 1 .. Len(list)
      BY <2>1, <1>1
    <3>2. QED BY <3>1, <1>2, <1>3
  <2>2. CASE ~(i <= Len(list))
    <3> DEFINE k == i - Len(list)
    <3>1. k \in 1 .. Len(q) /\ k \in 1 .. Len(p) /\ i = Len(list) + k
      BY <2>2, <1>1, <1>2
    <3> HIDE DEF k
    <3>2. line[i] = NewSegment(q[k]) /\ new[i] = NewSegment(p[k])
      BY <3>1, <1>2, <1>3
    <3>3. QED BY <3>1, <3>2, <1>1
  <2>3. QED BY <2>1, <2>2
<1>6. QED BY <1>4, <1>5 DEF line, new, p, Extends

LEMMA LineRecord ==
  ASSUME Inv, LineInv, NEW size \in 1 .. RingSize, NEW m \in 1 .. 2 * size, Record(size, m)
  PROVE  LineInv'
<1>1. PICK e \in FifoEntry :
        /\ fifo' = Append(fifo, e)
        /\ Continues(NewSegment(e), written, written')
        /\ Overlaid(ram, ram', NewSegment(e))
  BY RecordSegment
<1>2. seglist \in Seq(Segment) /\ fifo \in Seq(FifoEntry) /\ written \in Nat
  BY DEF Inv, TypeOK
<1>3. /\ seglist' = seglist
      /\ written' \in Nat /\ written' <= MaxFrames
  <2>1. seglist' = seglist /\ written' = written + m /\ written + m <= MaxFrames
    BY DEF Record
  <2>2. m \in Nat
    BY RegionFacts
  <2>3. QED BY <2>1, <2>2, <1>2
<1> DEFINE line == Line(seglist, fifo)
           new  == Line(seglist, Append(fifo, e))
<1>4. Extends(line, new, NewSegment(e))
  BY <1>2, LineAppend
<1>5. Numbered(line, written) /\ Shown(line, ram) /\ Damaged(line, ram)
  BY DEF LineInv
<1> HIDE DEF line, new
<1>6. Numbered(new, written') /\ Shown(new, ram') /\ Damaged(new, ram')
  BY <1>1, <1>2, <1>3, <1>4, <1>5, GrownLine
<1>7. QED BY <1>1, <1>3, <1>6 DEF LineInv, new

LEMMA LineRecordLive ==
  ASSUME Inv, LineInv, RecordLive
  PROVE  LineInv'
<1> DEFINE line == Line(seglist, fifo)
           e    == [start |-> LiveAddr, end |-> LiveAddr, last |-> LiveAddr, hi |-> 0]
           new  == Line(seglist, Append(fifo, e))
<1>1. seglist \in Seq(Segment) /\ fifo \in Seq(FifoEntry)
  BY DEF Inv, TypeOK
<1>2. e \in FifoEntry /\ ~IsRecording(NewSegment(e))
  BY RingAssumption DEF FifoEntry, NewSegment, IsRecording
<1>3. fifo' = Append(fifo, e) /\ seglist' = seglist /\ ram' = ram /\ written' = written
  BY DEF RecordLive
<1> HIDE DEF e
<1>4. Extends(line, new, NewSegment(e))
  BY <1>1, <1>2, LineAppend
<1>5. Numbered(line, written) /\ Shown(line, ram) /\ Damaged(line, ram)
  BY DEF LineInv
<1> HIDE DEF line, new
<1>6. Numbered(new, written) /\ Shown(new, ram) /\ Damaged(new, ram)
  BY <1>2, <1>4, <1>5, GapLine
<1>7. QED BY <1>3, <1>5, <1>6 DEF LineInv, new

(* Draining a recording moves it from the FIFO to the list: the line only  *)
(* loses the segments it evicts.                                           *)
LEMMA LineDrain ==
  ASSUME NEW list \in Seq(Segment), NEW q \in Seq(FifoEntry), q # <<>>,
         NewSegment(q[1]) \in Segment, NEW k \in 0 .. Len(list)
  PROVE  \E f : Finds(f, Line(Linked(list, NewSegment(q[1]), k), Tail(q)), Line(list, q))
<1> DEFINE seg  == NewSegment(q[1])
           lk   == Linked(list, seg, k)
           line == Line(list, q)
           new  == Line(lk, Tail(q))
           n    == Len(list)
           r    == Len(q)
           f    == [i \in 1 .. Len(new) |-> i + k]
<1>1. /\ n \in Nat /\ r \in Nat /\ r >= 1 /\ k \in Nat /\ k <= n
      /\ Tail(q) \in Seq(FifoEntry) /\ Len(Tail(q)) = r - 1
      /\ \A i \in 1 .. r - 1 : Tail(q)[i] = q[i + 1]
  BY HeadTailProperties
<1>2. /\ lk \in Seq(Segment)
      /\ Len(lk) = n - k + 1
      /\ \A i \in 1 .. n - k : lk[i] = list[i + k]
      /\ lk[n - k + 1] = seg
  BY LinkedIndex
<1> HIDE DEF lk
<1>3. /\ Len(line) = n + r
      /\ \A i \in 1 .. n : line[i] = list[i]
      /\ \A i \in 1 .. r : line[n + i] = NewSegment(q[i])
  BY LineIndex
<1>4. /\ Len(new) = Len(lk) + Len(Tail(q))
      /\ \A i \in 1 .. Len(lk) : new[i] = lk[i]
      /\ \A i \in 1 .. Len(Tail(q)) : new[Len(lk) + i] = NewSegment(Tail(q)[i])
  BY <1>1, <1>2, LineIndex
<1> HIDE DEF line, new
<1>5. Len(new) = n - k + r /\ Len(new) \in Nat /\ Len(line) \in Nat
  BY <1>1, <1>2, <1>3, <1>4
<1>6. \A i \in 1 .. Len(new) : i + k \in 1 .. Len(line)
  BY <1>1, <1>3, <1>5
<1>7. ASSUME NEW i \in 1 .. Len(new)
      PROVE  new[i] = line[i + k]
  <2>1. CASE i \in 1 .. n - k
    <3>1. i \in 1 .. Len(lk) /\ i + k \in 1 .. n
      BY <2>1, <1>1, <1>2
    <3>2. QED BY <3>1, <2>1, <1>2, <1>3, <1>4
  <2>2. CASE i = n - k + 1
    <3>1. i \in 1 .. Len(lk) /\ i + k = n + 1 /\ 1 \in 1 .. r
      BY <2>2, <1>1, <1>2
    <3>2. new[i] = seg
      BY <3>1, <2>2, <1>2, <1>4
    <3>3. QED BY <3>1, <3>2, <1>3
  <2>3. CASE i \in n - k + 2 .. n - k + r
    <3> DEFINE m == i - (n - k + 1)
    <3>1. /\ m \in 1 .. r - 1 /\ m + 1 \in 1 .. r
          /\ i = n - k + 1 + m /\ i + k = n + (m + 1)
      BY <2>3, <1>1
    <3> HIDE DEF m
    <3>2. new[i] = NewSegment(Tail(q)[m])
      BY <3>1, <1>1, <1>2, <1>4
    <3>3. QED BY <3>1, <3>2, <1>1, <1>3
  <2>4. QED BY <2>1, <2>2, <2>3, <1>1, <1>5
<1>8. ASSUME NEW i \in 1 .. Len(new), NEW j \in 1 .. Len(line), i + k < j
      PROVE  j - k \in 1 .. Len(new) /\ f[j - k] = j
  <2>1. j - k \in 1 .. Len(new)
    BY <1>8, <1>1, <1>3, <1>5
  <2>2. QED BY <2>1, <1>1
<1>9. Finds(f, new, line)
  <2>1. f \in [1 .. Len(new) -> 1 .. Len(line)]
    BY <1>6
  <2>2. \A i \in 1 .. Len(new) : new[i] = line[f[i]]
    BY <1>7
  <2>3. \A i, j \in 1 .. Len(new) : i < j => f[i] < f[j]
    BY <1>1
  <2>4. \A i \in 1 .. Len(new) : \A j \in 1 .. Len(line) :
          f[i] < j /\ IsRecording(line[j]) => \E m \in 1 .. Len(new) : f[m] = j
    BY <1>8
  <2> HIDE DEF f
  <2>5. QED BY <2>1, <2>2, <2>3, <2>4, <1>5 DEF Finds
<1>10. QED BY <1>9 DEF new, line, lk

(* Draining a live event only removes it. *)
LEMMA LineSkip ==
  ASSUME NEW list \in Seq(Segment), NEW q \in Seq(FifoEntry), q # <<>>,
         ~IsRecording(NewSegment(q[1]))
  PROVE  \E f : Finds(f, Line(list, Tail(q)), Line(list, q))
<1> DEFINE line == Line(list, q)
           new  == Line(list, Tail(q))
           n    == Len(list)
           r    == Len(q)
           f    == [i \in 1 .. Len(new) |-> IF i <= n THEN i ELSE i + 1]
<1>1. /\ n \in Nat /\ r \in Nat /\ r >= 1
      /\ Tail(q) \in Seq(FifoEntry) /\ Len(Tail(q)) = r - 1
      /\ \A i \in 1 .. r - 1 : Tail(q)[i] = q[i + 1]
  BY HeadTailProperties
<1>2. /\ Len(line) = n + r
      /\ \A i \in 1 .. n : line[i] = list[i]
      /\ \A i \in 1 .. r : line[n + i] = NewSegment(q[i])
  BY LineIndex
<1>3. /\ Len(new) = n + Len(Tail(q))
      /\ \A i \in 1 .. n : new[i] = list[i]
      /\ \A i \in 1 .. Len(Tail(q)) : new[n + i] = NewSegment(Tail(q)[i])
  BY <1>1, LineIndex
<1> HIDE DEF line, new
<1>4. Len(new) = n + r - 1 /\ Len(new) \in Nat /\ Len(line) \in Nat
  BY <1>1, <1>2, <1>3
<1>5. f \in [1 .. Len(new) -> 1 .. Len(line)]
  BY <1>1, <1>2, <1>4
<1>6. ASSUME NEW i \in 1 .. Len(new)
      PROVE  new[i] = line[f[i]]
  <2>1. CASE i <= n
    <3>1. i \in 1 .. n /\ f[i] = i
      BY <2>1, <1>1
    <3>2. QED BY <3>1, <1>2, <1>3
  <2>2. CASE ~(i <= n)
    <3> DEFINE m == i - n
    <3>1. m \in 1 .. r - 1 /\ m + 1 \in 1 .. r /\ i = n + m /\ f[i] = n + (m + 1)
      BY <2>2, <1>1, <1>4
    <3> HIDE DEF m, f
    <3>2. QED BY <3>1, <1>1, <1>2, <1>3
  <2>3. QED BY <2>1, <2>2
<1>7. \A i, j \in 1 .. Len(new) : i < j => f[i] < f[j]
  BY <1>1
<1>8. ASSUME NEW i \in 1 .. Len(new), NEW j \in 1 .. Len(line), f[i] < j, IsRecording(line[j])
      PROVE  \E m \in 1 .. Len(new) : f[m] = j
  <2>1. CASE j <= n
    <3>1. j \in 1 .. Len(new) /\ f[j] = j
      BY <2>1, <1>1, <1>4
    <3>2. QED BY <3>1
  <2>2. CASE j > n + 1
    <3>1. j - 1 \in 1 .. Len(new) /\ f[j - 1] = j
      BY <2>2, <1>1, <1>2, <1>4
    <3>2. QED BY <3>1
  <2>3. CASE j = n + 1
    <3>1. 1 \in 1 .. r
      BY <1>1
    <3>2. line[j] = NewSegment(q[1])
      BY <3>1, <2>3, <1>2
    <3>3. QED BY <3>2, <1>8
  <2>4. QED BY <2>1, <2>2, <2>3, <1>1
<1>9. Finds(f, new, line)
  <2> HIDE DEF f
  <2>1. QED BY <1>4, <1>5, <1>6, <1>7, <1>8 DEF Finds
<1>10. QED BY <1>9 DEF new, line

(* Deleting the head of the list deletes the head of the line. *)
LEMMA LineDelete ==
  ASSUME NEW list \in Seq(Segment), list # <<>>, NEW q \in Seq(FifoEntry)
  PROVE  \E f : Finds(f, Line(Tail(list), q), Line(list, q))
<1> DEFINE line == Line(list, q)
           new  == Line(Tail(list), q)
           n    == Len(list)
           r    == Len(q)
           f    == [i \in 1 .. Len(new) |-> i + 1]
<1>1. /\ n \in Nat /\ r \in Nat /\ n >= 1
      /\ Tail(list) \in Seq(Segment) /\ Len(Tail(list)) = n - 1
      /\ \A i \in 1 .. n - 1 : Tail(list)[i] = list[i + 1]
  BY HeadTailProperties
<1>2. /\ Len(line) = n + r
      /\ \A i \in 1 .. n : line[i] = list[i]
      /\ \A i \in 1 .. r : line[n + i] = NewSegment(q[i])
  BY LineIndex
<1>3. /\ Len(new) = Len(Tail(list)) + r
      /\ \A i \in 1 .. Len(Tail(list)) : new[i] = Tail(list)[i]
      /\ \A i \in 1 .. r : new[Len(Tail(list)) + i] = NewSegment(q[i])
  BY <1>1, LineIndex
<1> HIDE DEF line, new
<1>4. Len(new) = n + r - 1 /\ Len(new) \in Nat /\ Len(line) \in Nat
  BY <1>1, <1>2, <1>3
<1>5. f \in [1 .. Len(new) -> 1 .. Len(line)]
  BY <1>1, <1>2, <1>4
<1>6. ASSUME NEW i \in 1 .. Len(new)
      PROVE  new[i] = line[f[i]]
  <2>1. f[i] = i + 1
    OBVIOUS
  <2>2. CASE i \in 1 .. n - 1
    <3>1. i + 1 \in 1 .. n
      BY <2>2, <1>1
    <3>2. QED BY <3>1, <2>1, <2>2, <1>1, <1>2, <1>3
  <2>3. CASE i \in n .. n + r - 1
    <3> DEFINE m == i - (n - 1)
    <3>1. m \in 1 .. r /\ i = n - 1 + m /\ f[i] = n + m
      BY <2>3, <1>1
    <3> HIDE DEF m, f
    <3>2. QED BY <3>1, <1>1, <1>2, <1>3
  <2>4. QED BY <2>2, <2>3, <1>1, <1>4
<1>7. \A i, j \in 1 .. Len(new) : i < j => f[i] < f[j]
  OBVIOUS
<1>8. ASSUME NEW i \in 1 .. Len(new), NEW j \in 1 .. Len(line), f[i] < j, IsRecording(line[j])
      PROVE  \E m \in 1 .. Len(new) : f[m] = j
  <2>1. j - 1 \in 1 .. Len(new) /\ f[j - 1] = j
    BY <1>8, <1>1, <1>2, <1>4
  <2>2. QED BY <2>1
<1>9. Finds(f, new, line)
  <2> HIDE DEF f
  <2>1. QED BY <1>4, <1>5, <1>6, <1>7, <1>8 DEF Finds
<1>10. QED BY <1>9 DEF new, line

-----------------------------------------------------------------------------
(* video_segment_lookup finds frame j of segment i at an address of the    *)
(* segment that holds the stamp of that frame.                             *)
LEMMA LookupAddress ==
  ASSUME NEW list \in Seq(Segment), Ordered(list), Adjacent(list), NEW i \in 1 .. Len(list),
         NEW newest \in Nat, Sound(list[i], newest), NEW j \in 0 .. list[i].nframes - 1
  PROVE  LET a == video_segment_lookup(list, FramesBefore(list)[i - 1] + j)
         IN  a \in Slots(list[i]) /\ Stamp(list[i], a) = list[i].hi - list[i].nframes + 1 + j
<1> DEFINE seg == list[i]
           a   == video_segment_lookup(list, FramesBefore(list)[i - 1] + j)
<1>1. /\ seg.nframes \in Nat /\ seg.offset \in Nat /\ seg.offset < seg.nframes
      /\ seg.hi \in Nat /\ Stretch(seg)
  <2> HIDE DEF seg
  <2>1. Sound(seg, newest)
    BY DEF seg
  <2>2. QED BY <2>1, RegionFacts DEF Sound, Segment
<1>2. /\ a \in Addr
      /\ RingDist(seg.start, a) =
           IF j + seg.offset < seg.nframes THEN j + seg.offset
           ELSE j + seg.offset - seg.nframes
  <2>1. Len(list) \in Nat /\ seg = list[i]
    OBVIOUS
  <2>2. QED BY <2>1, <1>1, LookupAt
<1>3. j \in Nat /\ j < seg.nframes
  BY <1>1
<1> HIDE DEF seg, a
<1>4. a \in Slots(seg)
  <2>1. /\ RingDist(seg.start, seg.end) + 1 = seg.nframes
        /\ RingDist(seg.start, seg.end) \in Nat
    BY <1>1, RingDistType DEF Stretch
  <2>2. RingDist(seg.start, a) <= RingDist(seg.start, seg.end)
    BY <1>1, <1>2, <1>3, <2>1
  <2>3. QED BY <2>2, <1>1, <1>2, SlotsDist
<1>5. Stamp(seg, a) = seg.hi - seg.nframes + 1 + j
  <2> DEFINE d == RingDist(seg.start, a)
  <2>1. d = IF j + seg.offset < seg.nframes THEN j + seg.offset
            ELSE j + seg.offset - seg.nframes
    BY <1>2
  <2> HIDE DEF d
  <2>2. Stamp(seg, a) = IF d >= seg.offset THEN seg.hi - seg.nframes + 1 + (d - seg.offset)
                        ELSE seg.hi + 1 - (seg.offset - d)
    BY DEF Stamp, d
  <2>3. CASE j + seg.offset < seg.nframes
    <3>1. d = j + seg.offset
      BY <2>1, <2>3
    <3>2. d \in Nat /\ d >= seg.offset /\ d - seg.offset = j
      BY <3>1, <1>1, <1>3
    <3>3. QED BY <3>2, <2>2
  <2>4. CASE ~(j + seg.offset < seg.nframes)
    <3>1. d = j + seg.offset - seg.nframes
      BY <2>1, <2>4
    <3>2. ~(d >= seg.offset)
      BY <3>1, <1>1, <1>3
    <3>3. Stamp(seg, a) = seg.hi + 1 - (seg.offset - d)
      BY <3>2, <2>2
    <3>4. seg.hi + 1 - (seg.offset - d) = seg.hi - seg.nframes + 1 + j
      BY <3>1, <1>1, <1>3
    <3>5. QED BY <3>3, <3>4
  <2>5. QED BY <2>3, <2>4
<1>6. QED BY <1>4, <1>5 DEF seg, a

-----------------------------------------------------------------------------
(* The steps keep the line, the chain of the list and the getter's count.  *)

(* What playback_region_add makes of the recording it takes from the FIFO. *)
LEMMA DrainedSegment ==
  ASSUME Inv, playback_region_add, IsRecording(Head(fifo))
  PROVE  /\ NewSegment(fifo[1]) \in Segment
         /\ Stretch(NewSegment(fifo[1]))
         /\ seglist # <<>> => NewSegment(fifo[1]).start = RingAdd(seglist[Len(seglist)].end, 1)
         /\ \E k \in 0 .. Len(seglist) :
              /\ Evicts(seglist, NewSegment(fifo[1]), k)
              /\ seglist' = Linked(seglist, NewSegment(fifo[1]), k)
<1>1. /\ fifo \in Seq(FifoEntry) /\ fifo # <<>> /\ Chain(fifo, wp, seglist)
  BY DEF Inv, TypeOK, playback_region_add
<1>2. /\ Head(fifo) = fifo[1] /\ fifo[1] \in FifoEntry
      /\ Len(fifo) \in Nat /\ Len(fifo) >= 1
  BY <1>1
<1>3. RecordingEvent(fifo[1])
  BY <1>1, <1>2 DEF Chain
<1>4. /\ NewSegment(fifo[1]) \in Segment /\ Stretch(NewSegment(fifo[1]))
      /\ NewSegment(fifo[1]).start = fifo[1].start
  BY <1>2, <1>3, NewSegmentType
<1>5. ASSUME seglist # <<>>
      PROVE  fifo[1].start = RingAdd(seglist[Len(seglist)].end, 1)
  <2>1. OnlyLive(fifo, 0, 1)
    BY DEF OnlyLive
  <2>2. StartsAt(fifo, wp, 1, RingAdd(seglist[Len(seglist)].end, 1))
    BY <1>1, <1>2, <1>5, <2>1 DEF Chain
  <2>3. 1 # Len(fifo) + 1
    BY <1>2
  <2>4. QED BY <1>2, <2>2, <2>3 DEF StartsAt
<1>6. \E k \in 0 .. Len(seglist) :
        /\ Evicts(seglist, NewSegment(fifo[1]), k)
        /\ seglist' = Linked(seglist, NewSegment(fifo[1]), k)
  BY <1>2 DEF playback_region_add
<1>7. QED BY <1>4, <1>5, <1>6

LEMMA LineRegionAdd ==
  ASSUME Inv, LineInv, playback_region_add
  PROVE  LineInv'
<1>1. /\ seglist \in Seq(Segment) /\ fifo \in Seq(FifoEntry) /\ fifo # <<>>
      /\ fifo' = Tail(fifo) /\ ram' = ram /\ written' = written
  BY DEF Inv, TypeOK, playback_region_add
<1>2. Head(fifo) = fifo[1]
  BY <1>1
<1>3. \E f : Finds(f, Line(seglist', fifo'), Line(seglist, fifo))
  <2>1. CASE IsRecording(Head(fifo))
    <3>1. PICK k \in 0 .. Len(seglist) : seglist' = Linked(seglist, NewSegment(fifo[1]), k)
      BY <2>1, DrainedSegment
    <3>2. NewSegment(fifo[1]) \in Segment
      BY <2>1, DrainedSegment
    <3>3. QED BY <1>1, <3>1, <3>2, LineDrain
  <2>2. CASE ~IsRecording(Head(fifo))
    <3>1. seglist' = seglist
      BY <2>2 DEF playback_region_add
    <3>2. ~IsRecording(NewSegment(fifo[1]))
      BY <2>2, <1>2 DEF IsRecording, NewSegment
    <3>3. QED BY <1>1, <3>1, <3>2, LineSkip
  <2>3. QED BY <2>1, <2>2
<1>4. PICK f : Finds(f, Line(seglist', fifo'), Line(seglist, fifo))
  BY <1>3
<1>5. /\ Numbered(Line(seglist, fifo), written)
      /\ Shown(Line(seglist, fifo), ram)
      /\ Damaged(Line(seglist, fifo), ram)
      /\ written <= MaxFrames
  BY DEF LineInv
<1>6. /\ Numbered(Line(seglist', fifo'), written)
      /\ Shown(Line(seglist', fifo'), ram)
      /\ Damaged(Line(seglist', fifo'), ram)
  BY <1>4, <1>5, SubLine
<1>7. QED BY <1>1, <1>5, <1>6 DEF LineInv

LEMMA LineSegmentDelete ==
  ASSUME Inv, LineInv, video_segment_delete
  PROVE  LineInv'
<1>1. /\ seglist \in Seq(Segment) /\ seglist # <<>> /\ fifo \in Seq(FifoEntry)
      /\ seglist' = Tail(seglist)
      /\ fifo' = fifo /\ ram' = ram /\ written' = written
  BY DEF Inv, TypeOK, video_segment_delete
<1>2. PICK f : Finds(f, Line(seglist', fifo'), Line(seglist, fifo))
  BY <1>1, LineDelete
<1>3. /\ Numbered(Line(seglist, fifo), written)
      /\ Shown(Line(seglist, fifo), ram)
      /\ Damaged(Line(seglist, fifo), ram)
      /\ written <= MaxFrames
  BY DEF LineInv
<1>4. /\ Numbered(Line(seglist', fifo'), written)
      /\ Shown(Line(seglist', fifo'), ram)
      /\ Damaged(Line(seglist', fifo'), ram)
  BY <1>2, <1>3, SubLine
<1>5. QED BY <1>1, <1>3, <1>4 DEF LineInv

(* The steps that touch neither the list nor the FIFO nor the memory.      *)
Bystanders ==
  \/ DrainBegin \/ DrainEnd \/ Command \/ FlushEnd
  \/ playback_flush \/ WalkBegin \/ WalkStep \/ WalkEnd \/ UNCHANGED vars

LEMMA BystandersKeep ==
  ASSUME Bystanders
  PROVE  UNCHANGED <<ram, written, wp, fifo, seglist>>
BY DEF Bystanders, DrainBegin, DrainEnd, Command, FlushEnd,
       playback_flush, WalkBegin, WalkStep, WalkEnd, vars

(* Every step is the sequencer's, changes the list, or does neither. *)
LEMMA StepCases ==
  ASSUME [Next]_vars
  PROVE  \/ \E size \in 1 .. RingSize : \E m \in 1 .. 2 * size : Record(size, m)
         \/ RecordLive
         \/ playback_region_add
         \/ video_segment_delete
         \/ Bystanders
BY DEF Next, Sequencer, PlaybackThread, DBusThread, Bystanders

LEMMA LineStep == Inv /\ LineInv /\ [Next]_vars => LineInv'
<1> SUFFICES ASSUME Inv, LineInv, [Next]_vars
             PROVE  LineInv'
  OBVIOUS
<1>1. ASSUME NEW size \in 1 .. RingSize, NEW m \in 1 .. 2 * size, Record(size, m)
      PROVE  LineInv'
  BY <1>1, LineRecord
<1>2. CASE RecordLive
  BY <1>2, LineRecordLive
<1>3. CASE playback_region_add
  BY <1>3, LineRegionAdd
<1>4. CASE video_segment_delete
  BY <1>4, LineSegmentDelete
<1>5. CASE Bystanders
  BY <1>5, BystandersKeep DEF LineInv
<1>6. QED BY <1>1, <1>2, <1>3, <1>4, <1>5, StepCases

LEMMA LineInit == Init => LineInv
<1> SUFFICES ASSUME Init PROVE LineInv
  OBVIOUS
<1>1. seglist = <<>> /\ fifo = <<>> /\ written = 0
  BY DEF Init
<1>2. Len(Line(seglist, fifo)) = 0
  <2>1. seglist \in Seq(Segment) /\ Len(seglist) = 0
    BY <1>1
  <2>2. fifo \in Seq(FifoEntry) /\ Len(fifo) = 0
    BY <1>1
  <2>3. Len(Line(seglist, fifo)) = Len(seglist) + Len(fifo)
    BY <2>1, <2>2, LineIndex
  <2>4. QED BY <2>1, <2>2, <2>3
<1>3. written <= MaxFrames
  BY <1>1, RingAssumption
<1>4. QED BY <1>2, <1>3 DEF LineInv, Numbered, Shown, Damaged

-----------------------------------------------------------------------------
LEMMA AdjacentStep == Inv /\ Adjacent(seglist) /\ [Next]_vars => Adjacent(seglist')
<1> SUFFICES ASSUME Inv, Adjacent(seglist), [Next]_vars
             PROVE  Adjacent(seglist')
  OBVIOUS
<1>1. seglist \in Seq(Segment) /\ Len(seglist) \in Nat
  BY DEF Inv, TypeOK
<1>2. CASE seglist' = seglist
  BY <1>2
<1>3. CASE playback_region_add
  <2>1. CASE IsRecording(Head(fifo))
    <3> DEFINE seg == NewSegment(fifo[1])
               n   == Len(seglist)
    <3>1. seg \in Segment /\ (seglist # <<>> => seg.start = RingAdd(seglist[n].end, 1))
      BY <1>3, <2>1, DrainedSegment
    <3>2. PICK k \in 0 .. n : seglist' = Linked(seglist, seg, k)
      BY <1>3, <2>1, DrainedSegment
    <3> HIDE DEF seg
    <3>3. /\ Len(seglist') = n - k + 1
          /\ \A i \in 1 .. n - k : seglist'[i] = seglist[i + k]
          /\ seglist'[n - k + 1] = seg
      BY <1>1, <3>1, <3>2, LinkedSegments
    <3> SUFFICES ASSUME NEW i \in 1 .. Len(seglist'), i + 1 \in 1 .. Len(seglist')
                 PROVE  seglist'[i + 1].start = RingAdd(seglist'[i].end, 1)
      BY DEF Adjacent
    <3>4. i \in 1 .. n - k /\ seglist'[i] = seglist[i + k] /\ i + k \in 1 .. n
      BY <1>1, <3>3
    <3>5. CASE i = n - k
      <4>1. seglist # <<>>
        BY <3>4
      <4>2. QED BY <4>1, <3>1, <3>3, <3>4, <3>5, <1>1
    <3>6. CASE i # n - k
      <4> DEFINE j == i + k
      <4>1. i + 1 \in 1 .. n - k /\ (i + 1) + k = j + 1 /\ j \in 1 .. n /\ j + 1 \in 1 .. n
        BY <3>4, <3>6, <1>1
      <4>2. seglist'[i + 1] = seglist[j + 1] /\ seglist'[i] = seglist[j]
        BY <4>1, <3>3, <3>4
      <4> HIDE DEF j
      <4>3. seglist[j + 1].start = RingAdd(seglist[j].end, 1)
        BY <4>1 DEF Adjacent
      <4>4. QED BY <4>2, <4>3
    <3>7. QED BY <3>5, <3>6
  <2>2. CASE ~IsRecording(Head(fifo))
    BY <1>2, <1>3, <2>2 DEF playback_region_add
  <2>3. QED BY <2>1, <2>2
<1>4. CASE video_segment_delete
  <2>1. seglist # <<>> /\ seglist' = Tail(seglist)
    BY <1>4 DEF video_segment_delete
  <2>2. /\ Len(seglist') = Len(seglist) - 1 /\ Len(seglist) >= 1
        /\ \A i \in 1 .. Len(seglist') : seglist'[i] = seglist[i + 1]
    BY <1>1, <2>1, HeadTailProperties
  <2> SUFFICES ASSUME NEW i \in 1 .. Len(seglist'), i + 1 \in 1 .. Len(seglist')
               PROVE  seglist'[i + 1].start = RingAdd(seglist'[i].end, 1)
    BY DEF Adjacent
  <2> DEFINE j == i + 1
  <2>3. /\ seglist'[i] = seglist[j] /\ seglist'[i + 1] = seglist[j + 1]
        /\ j \in 1 .. Len(seglist) /\ j + 1 \in 1 .. Len(seglist)
    BY <1>1, <2>2
  <2> HIDE DEF j
  <2>4. QED BY <2>3 DEF Adjacent
<1>5. ASSUME NEW size \in 1 .. RingSize, NEW m \in 1 .. 2 * size, Record(size, m)
      PROVE  seglist' = seglist
  BY <1>5 DEF Record
<1>6. RecordLive => seglist' = seglist
  BY DEF RecordLive
<1>7. QED BY <1>2, <1>3, <1>4, <1>5, <1>6, BystandersKeep, StepCases

(* No segment is listed twice, so a pointer to one has one successor. *)
LEMMA NextOfSegment ==
  ASSUME Inv, NEW i \in 1 .. Len(seglist)
  PROVE  NextSegment(seglist[i]) = Pointer(seglist, i + 1)
<1> DEFINE at == {k \in 1 .. Len(seglist) : seglist[k] = seglist[i]}
<1>1. i \in at
  OBVIOUS
<1>2. ASSUME NEW k \in at
      PROVE  k = i
  <2> SUFFICES ASSUME k # i PROVE FALSE
    OBVIOUS
  <2>1. k \in 1 .. Len(seglist) /\ seglist[k] = seglist[i]
    OBVIOUS
  <2>2. ~video_segment_overlap(seglist[k], seglist[i])
    BY <2>1, OrderedDisjoint DEF Inv
  <2>3. ~video_segment_includes(seglist[i], seglist[i].start)
    BY <2>1, <2>2 DEF video_segment_overlap
  <2>4. seglist[i].start \in Addr /\ seglist[i].end \in Addr
    BY DEF Inv, Ordered, Stretch
  <2>5. QED BY <2>3, <2>4, RegionFacts DEF video_segment_includes
<1>3. (CHOOSE k \in at : TRUE) = i
  <2> HIDE DEF at
  <2>1. QED BY <1>1, <1>2
<1>4. NextSegment(seglist[i]) = Pointer(seglist, (CHOOSE k \in at : TRUE) + 1)
  BY <1>1 DEF NextSegment
<1> HIDE DEF at
<1>5. QED BY <1>3, <1>4

LEMMA WalkStepInv == Inv /\ WalkInv /\ [Next]_vars => WalkInv'
<1> SUFFICES ASSUME Inv, WalkInv, [Next]_vars
             PROVE  WalkInv'
  OBVIOUS
<1> DEFINE At(w, list) ==
             w.on /\ ~w.flushed /\ w.seg # <<>> =>
               \E i \in 1 .. Len(list) :
                 /\ w.seg = <<list[i]>>
                 /\ w.offset = FramesBefore(list)[i - 1]
           Owners(t, m, w) == (t = "drain" => m = "playback") /\ (w.on => m = "dbus")
<1>1. /\ seglist \in Seq(Segment) /\ Len(seglist) \in Nat
      /\ walk \in [on : BOOLEAN, seg : Seq(Segment), offset : Nat, flushed : BOOLEAN]
  BY DEF Inv, TypeOK
<1>2. Owners(thread, mutex, walk) /\ At(walk, seglist)
  BY DEF WalkInv
<1> SUFFICES Owners(thread', mutex', walk') /\ At(walk', seglist')
  BY DEF WalkInv
<1>3. CASE UNCHANGED <<seglist, mutex, thread, walk>>
  BY <1>2, <1>3
<1>4. ASSUME NEW size \in 1 .. RingSize, NEW m \in 1 .. 2 * size, Record(size, m)
      PROVE  UNCHANGED <<seglist, mutex, thread, walk>>
  BY <1>4 DEF Record
<1>5. RecordLive \/ playback_flush \/ UNCHANGED vars => UNCHANGED <<seglist, mutex, thread, walk>>
  BY DEF RecordLive, playback_flush, vars
<1>6. CASE DrainBegin
  <2>1. mutex = "free" /\ mutex' = "playback" /\ thread' = "drain" /\ UNCHANGED <<seglist, walk>>
    BY <1>6 DEF DrainBegin
  <2>2. ~walk.on
    BY <2>1, <1>2
  <2>3. QED BY <2>1, <2>2, <1>2
<1>7. CASE playback_region_add
  <2>1. thread = "drain" /\ UNCHANGED <<mutex, thread, walk>>
    BY <1>7 DEF playback_region_add
  <2>2. ~walk.on
    BY <2>1, <1>2
  <2>3. QED BY <2>1, <2>2, <1>2
<1>8. CASE DrainEnd
  <2>1. thread = "drain" /\ thread' = "command" /\ mutex' = "free" /\ UNCHANGED <<seglist, walk>>
    BY <1>8 DEF DrainEnd
  <2>2. ~walk.on
    BY <2>1, <1>2
  <2>3. QED BY <2>1, <2>2, <1>2
<1>9. CASE Command \/ FlushEnd
  <2>1. thread' # "drain" /\ UNCHANGED <<seglist, mutex, walk>>
    BY <1>9 DEF Command, FlushEnd
  <2>2. QED BY <2>1, <1>2
<1>10. CASE video_segment_delete
  <2>1. UNCHANGED <<mutex, thread>> /\ walk' = IF walk.on THEN [walk EXCEPT !.flushed = TRUE] ELSE walk
    BY <1>10 DEF video_segment_delete
  <2>2. walk'.on = walk.on /\ (walk.on => walk'.flushed)
    BY <2>1, <1>1
  <2>3. QED BY <2>1, <2>2, <1>2
<1>11. CASE WalkBegin
  <2>1. /\ mutex = "free" /\ mutex' = "dbus" /\ UNCHANGED <<seglist, thread>>
        /\ walk' = [on |-> TRUE, offset |-> 0, flushed |-> FALSE, seg |-> Pointer(seglist, 1)]
    BY <1>11 DEF WalkBegin
  <2>2. Owners(thread', mutex', walk')
    BY <2>1, <1>2
  <2>3. ASSUME walk'.seg # <<>>
        PROVE  1 \in 1 .. Len(seglist) /\ walk'.seg = <<seglist[1]>> /\ walk'.offset = 0
    BY <2>1, <2>3, <1>1 DEF Pointer
  <2>4. FramesBefore(seglist)[0] = 0
    BY <1>1, ListCounted, FramesBeforeAdds DEF Adds
  <2>5. At(walk', seglist')
    BY <2>1, <2>3, <2>4
  <2>6. QED BY <2>2, <2>5
<1>12. CASE WalkStep
  <2>1. /\ walk.on /\ walk.seg # <<>> /\ UNCHANGED <<seglist, mutex, thread>>
        /\ walk' = [walk EXCEPT !.seg = NextSegment(walk.seg[1]),
                                !.offset = @ + walk.seg[1].nframes]
    BY <1>12 DEF WalkStep
  <2>2. /\ walk'.on = walk.on /\ walk'.flushed = walk.flushed
        /\ walk'.seg = NextSegment(walk.seg[1])
        /\ walk'.offset = walk.offset + walk.seg[1].nframes
    BY <2>1, <1>1
  <2>3. Owners(thread', mutex', walk')
    BY <2>1, <2>2, <1>2
  <2>4. ASSUME ~walk.flushed, walk'.seg # <<>>
        PROVE  \E i \in 1 .. Len(seglist) :
                 walk'.seg = <<seglist[i]>> /\ walk'.offset = FramesBefore(seglist)[i - 1]
    <3>1. PICK i \in 1 .. Len(seglist) :
            walk.seg = <<seglist[i]>> /\ walk.offset = FramesBefore(seglist)[i - 1]
      BY <2>1, <2>4, <1>2
    <3>2. walk.seg[1] = seglist[i]
      BY <3>1
    <3>3. walk'.seg = Pointer(seglist, i + 1)
      BY <3>2, <2>2, NextOfSegment
    <3>4. i + 1 \in 1 .. Len(seglist) /\ walk'.seg = <<seglist[i + 1]>>
      BY <3>3, <2>4, <1>1 DEF Pointer
    <3>5. FramesBefore(seglist)[i] = FramesBefore(seglist)[i - 1] + seglist[i].nframes
      BY <1>1, ListCounted, FramesBeforeAdds DEF Adds
    <3>6. walk'.offset = FramesBefore(seglist)[(i + 1) - 1]
      <4>1. (i + 1) - 1 = i
        OBVIOUS
      <4>2. QED BY <4>1, <3>1, <3>2, <3>5, <2>2
    <3>7. QED BY <3>4, <3>6
  <2>5. At(walk', seglist')
    BY <2>1, <2>2, <2>4
  <2>6. QED BY <2>3, <2>5
<1>13. CASE WalkEnd
  <2>1. /\ walk.on /\ mutex' = "free" /\ UNCHANGED <<seglist, thread>>
        /\ walk' = IdleWalk
    BY <1>13 DEF WalkEnd
  <2>2. thread # "drain" /\ ~walk'.on
    BY <2>1, <1>2 DEF IdleWalk
  <2>3. QED BY <2>1, <2>2
<1> HIDE DEF At, Owners
<1>14. QED
  BY <1>3, <1>4, <1>5, <1>6, <1>7, <1>8, <1>9, <1>10, <1>11, <1>12, <1>13
  DEF Next, Sequencer, PlaybackThread, DBusThread

LEMMA FullInit == Init => FullInv
<1>1. Init => Adjacent(seglist) /\ WalkInv
  BY DEF Init, Adjacent, WalkInv, IdleWalk
<1>2. QED BY <1>1, InitInv, LineInit DEF FullInv

LEMMA FullStep == FullInv /\ [Next]_vars => FullInv'
<1>1. Adjacent(seglist)' <=> Adjacent(seglist')
  BY DEF Adjacent
<1>2. QED BY <1>1, NextInv, LineStep, AdjacentStep, WalkStepInv DEF FullInv

LEMMA FullAlways == Spec => []FullInv
BY FullInit, FullStep, PTL DEF Spec

-----------------------------------------------------------------------------
(* The theorems about the line. *)

(* What a listed segment stands for, once the FIFO is drained. *)
LEMMA ListedFacts ==
  ASSUME FullInv, fifo = <<>>, NEW i \in 1 .. Len(seglist)
  PROVE  /\ Sound(seglist[i], written)
         /\ \A a \in Slots(seglist[i]) : ram[a] = Stamp(seglist[i], a)
         /\ i = Len(seglist) => seglist[i].hi = written
<1> DEFINE line == Line(seglist, fifo)
<1>1. /\ seglist \in Seq(Segment) /\ fifo \in Seq(FifoEntry)
      /\ Ordered(seglist) /\ written \in Nat /\ Len(seglist) \in Nat /\ Len(fifo) = 0
  BY DEF FullInv, Inv, TypeOK
<1>2. Len(line) = Len(seglist) /\ \A k \in 1 .. Len(seglist) : line[k] = seglist[k]
  <2>1. /\ Len(line) = Len(seglist) + Len(fifo)
        /\ \A k \in 1 .. Len(seglist) : line[k] = seglist[k]
    BY ONLY <1>1, LineIndex
  <2>2. QED BY <2>1, <1>1
<1>3. Numbered(line, written) /\ Shown(line, ram)
  BY DEF FullInv, LineInv
<1> HIDE DEF line
<1>4. \A k \in 1 .. Len(seglist) : Stretch(seglist[k]) /\ IsRecording(seglist[k])
  BY <1>1, RingAssumption DEF Ordered, Stretch, IsRecording
<1>5. Sound(seglist[i], written)
  BY <1>2, <1>3, <1>4 DEF Numbered
<1>6. ASSUME NEW a \in Slots(seglist[i])
      PROVE  ram[a] = Stamp(seglist[i], a)
  <2>1. ASSUME NEW k \in 1 .. Len(seglist), k > i, a \in Slots(seglist[k])
        PROVE  FALSE
    <3>1. video_segment_overlap(seglist[i], seglist[k])
      BY <2>1, <1>4, OverlapIsShared
    <3>2. QED BY <3>1, <2>1, <1>1, OrderedDisjoint
  <2>2. ~Covered(line, i, a)
    BY <2>1, <1>2 DEF Covered
  <2>3. QED BY <2>2, <1>2, <1>3, <1>4 DEF Shown
<1>7. i = Len(seglist) => seglist[i].hi = written
  <2> SUFFICES ASSUME i = Len(seglist) PROVE seglist[i].hi = written
    OBVIOUS
  <2>1. \A k \in 1 .. Len(line) : ~(k > i)
    BY <1>1, <1>2
  <2>2. QED BY <2>1, <1>2, <1>3, <1>4 DEF Numbered
<1>8. QED BY <1>5, <1>6, <1>7

(* Once the FIFO is drained, no frame of a listed segment has been         *)
(* recorded over: evicting from the head of the list                       *)
(* (video_segment_add) frees everything the sequencer took, for every size *)
(* of the region and every block size.                                     *)
THEOREM ListedSegmentsIntact == Spec => []ListedIntact
<1>1. FullInv => ListedIntact
  <2> SUFFICES ASSUME FullInv, fifo = <<>>,
                      NEW i \in 1 .. Len(seglist), NEW a \in Slots(seglist[i])
               PROVE  ram[a] <= seglist[i].hi
    BY DEF ListedIntact
  <2>1. Sound(seglist[i], written) /\ ram[a] = Stamp(seglist[i], a) /\ written \in Nat
    BY ListedFacts DEF FullInv, Inv, TypeOK
  <2>2. QED BY <2>1, StampBounds
<1>2. QED BY <1>1, FullAlways, PTL

(* Frame number by frame number, playback reads each listed take from its  *)
(* first frame to its last: offsets (video_segment_add), the sums of       *)
(* video_seglist_update and the search of video_segment_lookup agree with  *)
(* the memory, wherever blocks and segments wrap.                          *)
THEOREM PlaysInOrder == Spec => []PlaybackInOrder
<1>1. FullInv => PlaybackInOrder
  <2> SUFFICES ASSUME FullInv, fifo = <<>>
               PROVE  /\ \A i \in 1 .. Len(seglist) : \A j \in 0 .. seglist[i].nframes - 1 :
                           ram[video_segment_lookup(seglist, FramesBefore(seglist)[i - 1] + j)]
                             = TakeOf(seglist[i]).first + j
                      /\ seglist # <<>> => seglist[Len(seglist)].hi = written
    BY DEF PlaybackInOrder
  <2>1. /\ seglist \in Seq(Segment) /\ Ordered(seglist) /\ Adjacent(seglist)
        /\ written \in Nat /\ Len(seglist) \in Nat
    BY DEF FullInv, Inv, TypeOK
  <2>2. ASSUME NEW i \in 1 .. Len(seglist), NEW j \in 0 .. seglist[i].nframes - 1
        PROVE  ram[video_segment_lookup(seglist, FramesBefore(seglist)[i - 1] + j)]
                 = TakeOf(seglist[i]).first + j
    <3> DEFINE a == video_segment_lookup(seglist, FramesBefore(seglist)[i - 1] + j)
    <3>1. Sound(seglist[i], written) /\ \A b \in Slots(seglist[i]) : ram[b] = Stamp(seglist[i], b)
      BY ListedFacts
    <3>2. a \in Slots(seglist[i]) /\ Stamp(seglist[i], a) = seglist[i].hi - seglist[i].nframes + 1 + j
      BY <3>1, <2>1, LookupAddress
    <3> HIDE DEF a
    <3>3. ram[a] = seglist[i].hi - seglist[i].nframes + 1 + j
      BY <3>1, <3>2
    <3>4. TakeOf(seglist[i]).first = seglist[i].hi - seglist[i].nframes + 1
      BY DEF TakeOf
    <3>5. QED BY <3>3, <3>4 DEF a
  <2>3. ASSUME seglist # <<>>
        PROVE  seglist[Len(seglist)].hi = written
    <3>1. Len(seglist) \in 1 .. Len(seglist)
      BY <2>1, <2>3, EmptySeq
    <3>2. QED BY <3>1, ListedFacts
  <2>4. QED BY <2>2, <2>3
<1>2. QED BY <1>1, FullAlways, PTL

(* An addition evicts a segment only if one of its frames has been         *)
(* recorded over (video_segment_add): never one frame too early.           *)
THEOREM EvictionIsNeeded == Spec => EvictsOnlyDamaged
<1> DEFINE Needed ==
             fifo' # fifo =>
               \A i \in 1 .. Len(seglist) :
                 (\A j \in 1 .. Len(seglist') : seglist'[j] # seglist[i])
                   => \E a \in Slots(seglist[i]) : ram[a] > seglist[i].hi
<1>1. FullInv /\ [Next]_vars => [Needed]_vars
  <2> SUFFICES ASSUME FullInv, [Next]_vars, fifo' # fifo, NEW i \in 1 .. Len(seglist),
                      \A j \in 1 .. Len(seglist') : seglist'[j] # seglist[i]
               PROVE  \E a \in Slots(seglist[i]) : ram[a] > seglist[i].hi
    OBVIOUS
  <2>1. seglist' # seglist
    OBVIOUS
  <2>2. playback_region_add /\ IsRecording(Head(fifo))
    <3>1. ASSUME NEW size \in 1 .. RingSize, NEW m \in 1 .. 2 * size, Record(size, m)
          PROVE  FALSE
      BY <3>1, <2>1 DEF Record
    <3>2. ~RecordLive /\ ~video_segment_delete
      BY <2>1 DEF RecordLive, video_segment_delete
    <3>3. playback_region_add
      BY <3>1, <3>2, <2>1, StepCases, BystandersKeep
    <3>4. QED BY <3>3, <2>1 DEF playback_region_add
  <2> DEFINE seg  == NewSegment(fifo[1])
             n    == Len(seglist)
             line == Line(seglist, fifo)
  <2>3. /\ seglist \in Seq(Segment) /\ fifo \in Seq(FifoEntry) /\ n \in Nat
        /\ Len(fifo) \in Nat /\ Len(fifo) >= 1 /\ Inv
    BY <2>2 DEF FullInv, Inv, TypeOK, playback_region_add
  <2>4. /\ seg \in Segment /\ Stretch(seg)
        /\ \E k \in 0 .. n : Evicts(seglist, seg, k) /\ seglist' = Linked(seglist, seg, k)
    BY <2>2, <2>3, DrainedSegment
  <2>5. PICK k \in 0 .. n : Evicts(seglist, seg, k) /\ seglist' = Linked(seglist, seg, k)
    BY <2>4
  <2>6. /\ Len(line) = n + Len(fifo)
        /\ line[i] = seglist[i] /\ line[n + 1] = seg
    <3>1. 1 \in 1 .. Len(fifo)
      BY <2>3
    <3>2. QED BY <3>1, <2>3, LineIndex
  <2> HIDE DEF seg, line
  <2>7. i \in 1 .. k
    <3> SUFFICES ASSUME i > k PROVE FALSE
      BY <2>3
    <3> DEFINE j == i - k
    <3>1. j \in 1 .. n - k /\ i = j + k /\ j \in 1 .. n - k + 1
      BY <2>3
    <3> HIDE DEF j
    <3>2. j \in 1 .. Len(seglist') /\ seglist'[j] = seglist[i]
      BY <3>1, <2>3, <2>4, <2>5, LinkedSegments
    <3>3. QED BY <3>2
  <2>8. video_segment_overlap(seg, seglist[i])
    BY <2>5, <2>7 DEF Evicts
  <2>9. Stretch(seglist[i]) /\ IsRecording(seglist[i]) /\ IsRecording(seg)
    BY <2>4, RingAssumption DEF FullInv, Inv, Ordered, Stretch, IsRecording
  <2>10. PICK a \in Slots(seglist[i]) : a \in Slots(seg)
    BY <2>4, <2>8, <2>9, OverlapIsShared
  <2>11. Covered(line, i, a)
    <3>1. n + 1 \in 1 .. Len(line) /\ n + 1 > i
      BY <2>3, <2>6
    <3>2. QED BY <3>1, <2>6, <2>9, <2>10 DEF Covered
  <2>12. Damaged(line, ram)
    BY DEF FullInv, LineInv, line
  <2>13. i \in 1 .. Len(line)
    BY <2>3, <2>6
  <2>14. ram[a] > seglist[i].hi
    BY <2>6, <2>9, <2>10, <2>11, <2>12, <2>13 DEF Damaged
  <2>15. QED BY <2>14
<1>2. Spec => [][Needed]_vars
  BY <1>1, FullAlways, PTL DEF Spec
<1>3. QED BY <1>2 DEF EvictsOnlyDamaged

(* While no flush runs, the getter of videoSegments (dbus-params.c) stands *)
(* at a segment of the list and reports for it the frame number at which   *)
(* playback finds it.                                                      *)
THEOREM WalksAreConsistent == Spec => []WalkIsConsistent
<1>1. FullInv => WalkIsConsistent
  <2> SUFFICES ASSUME FullInv, walk.on, ~walk.flushed, walk.seg # <<>>
               PROVE  /\ LookupSegment(seglist, walk.offset) # 0
                      /\ <<seglist[LookupSegment(seglist, walk.offset)]>> = walk.seg
    BY DEF WalkIsConsistent
  <2>1. /\ seglist \in Seq(Segment) /\ Ordered(seglist) /\ Adjacent(seglist)
        /\ Len(seglist) \in Nat
    BY DEF FullInv, Inv, TypeOK
  <2>2. PICK i \in 1 .. Len(seglist) :
          walk.seg = <<seglist[i]>> /\ walk.offset = FramesBefore(seglist)[i - 1]
    BY DEF FullInv, WalkInv
  <2>3. /\ walk.offset \in Nat
        /\ FramesBefore(seglist)[i - 1] <= walk.offset
        /\ walk.offset < FramesBefore(seglist)[i]
    <3>1. /\ FramesBefore(seglist)[i - 1] \in Nat
          /\ FramesBefore(seglist)[i] = FramesBefore(seglist)[i - 1] + seglist[i].nframes
      BY <2>1, FrameNumbers
    <3>2. seglist[i].nframes \in Nat /\ seglist[i].nframes >= 1
      BY <2>1, ListCounted DEF Counted
    <3>3. QED BY <3>1, <3>2, <2>2
  <2>4. LookupSegment(seglist, walk.offset) = i
    BY <2>1, <2>3, LookupFinds
  <2>5. QED BY <2>1, <2>2, <2>4
<1>2. QED BY <1>1, FullAlways, PTL

-----------------------------------------------------------------------------
(* The list implements the log of takes. *)

Takes(list) == [i \in 1 .. Len(list) |-> TakeOf(list[i])]

(* The frames that the log holds are the frames of the list. *)
LEMMA HeldFrames ==
  ASSUME NEW list \in Seq(Segment)
  PROVE  Log!Held(Takes(list)) = FramesBefore(list)[Len(list)]
<1> DEFINE n == Len(list)
           b == FramesBefore(list)
           log == Takes(list)
           Body(f) == [i \in 0 .. Len(log) |-> IF i = 0 THEN 0 ELSE f[i - 1] + Log!Length(log[i])]
           sum == CHOOSE f : f = Body(f)
<1>1. Log!Held(log) = sum[Len(log)]
  BY DEF Log!Held
<1>2. Len(log) = n /\ n \in Nat /\ \A i \in 1 .. n : log[i] = TakeOf(list[i])
  BY DEF Takes
<1>3. ASSUME NEW i \in 1 .. n
      PROVE  Log!Length(log[i]) = list[i].nframes
  <2>1. list[i] \in Segment
    OBVIOUS
  <2>2. list[i].hi \in Nat /\ list[i].nframes \in Nat
    BY <2>1, ListCounted DEF Counted, Segment
  <2>3. Log!Length(log[i]) = TakeOf(list[i]).last - TakeOf(list[i]).first + 1
    BY <1>2 DEF Log!Length
  <2>4. /\ TakeOf(list[i]).last = list[i].hi
        /\ TakeOf(list[i]).first = list[i].hi - list[i].nframes + 1
    BY DEF TakeOf
  <2> HIDE DEF log
  <2>5. QED BY <2>2, <2>3, <2>4
<1>4. Adds(b, list, n)
  BY ListCounted, FramesBeforeAdds
<1> HIDE DEF log, b
<1>5. b = Body(b)
  <2>1. b = [i \in 0 .. n |-> b[i]]
    BY <1>4 DEF Adds
  <2>2. \A i \in 0 .. n : b[i] = IF i = 0 THEN 0 ELSE b[i - 1] + Log!Length(log[i])
    BY <1>3, <1>4 DEF Adds
  <2>3. QED BY <2>1, <2>2, <1>2
<1>6. sum = Body(sum)
  BY <1>5
<1> HIDE DEF sum
<1>7. sum[0] = 0 /\ \A i \in 1 .. n : sum[i] = sum[i - 1] + list[i].nframes
  BY <1>2, <1>3, <1>6
<1> DEFINE S == {k \in Nat : k <= n => sum[k] = b[k]}
<1>8. 0 \in S
  BY <1>4, <1>7 DEF Adds
<1>9. ASSUME NEW k \in Nat, k \in S
      PROVE  k + 1 \in S
  <2> SUFFICES ASSUME k + 1 <= n PROVE sum[k + 1] = b[k + 1]
    OBVIOUS
  <2> DEFINE j == k + 1
  <2>1. j \in 1 .. n /\ j - 1 = k /\ sum[k] = b[k]
    BY <1>9
  <2> HIDE DEF j
  <2>2. sum[j] = sum[j - 1] + list[j].nframes /\ b[j] = b[j - 1] + list[j].nframes
    BY <2>1, <1>4, <1>7 DEF Adds
  <2>3. QED BY <2>1, <2>2 DEF j
<1> HIDE DEF S
<1>10. n \in S
  BY <1>2, <1>8, <1>9, SetInduction
<1>11. QED BY <1>1, <1>2, <1>10 DEF S, log, b

(* Room for a segment after a list without gaps is room in the ring. *)
LEMMA RoomApart ==
  ASSUME NEW g \in Addr, NEW f \in Addr, NEW s \in Addr, NEW e \in Addr,
         NEW c \in Addr, NEW d \in Addr, c = RingAdd(e, 1),
         RingDist(g, f) <= RingDist(g, s) + RingDist(s, e),
         RingDist(g, s) + (RingDist(s, e) + 1) + (RingDist(c, d) + 1) <= RingSize
  PROVE  RingDist(c, g) > RingDist(c, d) /\ RingDist(g, c) > RingDist(g, f)
BY RegionFacts DEF RingDist, RingAdd

(* The segments after the first k, as a list of its own. *)
LEMMA RestFacts ==
  ASSUME NEW list \in Seq(Segment), Ordered(list), Adjacent(list), NEW k \in 0 .. Len(list)
  PROVE  /\ SubSeq(list, k + 1, Len(list)) \in Seq(Segment)
         /\ Len(SubSeq(list, k + 1, Len(list))) = Len(list) - k
         /\ \A i \in 1 .. Len(list) - k : SubSeq(list, k + 1, Len(list))[i] = list[i + k]
         /\ Ordered(SubSeq(list, k + 1, Len(list)))
         /\ Adjacent(SubSeq(list, k + 1, Len(list)))
         /\ SubSeq(Takes(list), k + 1, Len(list)) = Takes(SubSeq(list, k + 1, Len(list)))
<1> DEFINE n    == Len(list)
           rest == SubSeq(list, k + 1, n)
<1>1. n \in Nat /\ k \in Nat /\ k <= n
  OBVIOUS
<1>2. /\ rest \in Seq(Segment)
      /\ Len(rest) = n - k
      /\ \A i \in 1 .. n - k : rest[i] = list[i + k]
  <2>1. \A i \in k + 1 .. n : list[i] \in Segment
    BY <1>1
  <2>2. /\ rest \in Seq(Segment)
        /\ Len(rest) = IF k + 1 <= n THEN n - (k + 1) + 1 ELSE 0
        /\ \A i \in 1 .. n - (k + 1) + 1 : rest[i] = list[k + 1 + i - 1]
    BY <1>1, <2>1, SubSeqProperties
  <2>3. Len(rest) = n - k
    BY <1>1, <2>2
  <2>4. ASSUME NEW i \in 1 .. n - k
        PROVE  rest[i] = list[i + k]
    <3>1. i \in 1 .. n - (k + 1) + 1 /\ k + 1 + i - 1 = i + k
      BY <1>1
    <3>2. QED BY <2>2, <3>1
  <2>5. QED BY <2>2, <2>3, <2>4
<1>3. SubSeq(Takes(list), k + 1, n) = Takes(rest)
  <2>1. Takes(list) \in Seq({TakeOf(list[i]) : i \in 1 .. n}) /\ Len(Takes(list)) = n
        /\ \A i \in 1 .. n : Takes(list)[i] = TakeOf(list[i])
    BY <1>1 DEF Takes
  <2> DEFINE T == {TakeOf(list[i]) : i \in 1 .. n}
             log == Takes(list)
             part == SubSeq(log, k + 1, n)
  <2>2. log \in Seq(T) /\ Len(log) = n /\ \A i \in k + 1 .. n : log[i] \in T
    BY <2>1, <1>1
  <2> HIDE DEF T, log
  <2>3. /\ part \in Seq(T)
        /\ Len(part) = IF k + 1 <= n THEN n - (k + 1) + 1 ELSE 0
        /\ \A i \in 1 .. n - (k + 1) + 1 : part[i] = log[k + 1 + i - 1]
    BY <1>1, <2>2, SubSeqProperties
  <2> HIDE DEF part
  <2>4. Len(part) = n - k
    BY <1>1, <2>3
  <2>5. ASSUME NEW i \in 1 .. n - k
        PROVE  part[i] = TakeOf(rest[i])
    <3>1. i \in 1 .. n - (k + 1) + 1 /\ k + 1 + i - 1 = i + k /\ i + k \in 1 .. n
      BY <1>1
    <3>2. part[i] = log[i + k]
      BY <2>3, <3>1
    <3>3. QED BY <3>1, <3>2, <2>1, <1>2 DEF log
  <2>6. part = [i \in 1 .. n - k |-> part[i]]
    BY <2>3, <2>4
  <2>7. part = [i \in 1 .. n - k |-> TakeOf(rest[i])]
    BY <2>5, <2>6
  <2>8. QED BY <2>7, <1>2 DEF Takes, part, log
<1> HIDE DEF rest
<1>4. Ordered(rest)
  <2>1. CASE k = n
    <3>1. rest = <<>>
      BY <2>1, <1>1, <1>2, EmptySeq
    <3>2. QED BY <3>1, EmptyOrdered
  <2>2. CASE k # n
    <3>1. k \in 0 .. n - 1 /\ Len(list) \in Nat
      BY <2>2, <1>1
    <3>2. QED BY <3>1, <1>2, SuffixOrdered
  <2>3. QED BY <2>1, <2>2
<1>5. Adjacent(rest)
  <2> SUFFICES ASSUME NEW i \in 1 .. Len(rest), i + 1 \in 1 .. Len(rest)
               PROVE  rest[i + 1].start = RingAdd(rest[i].end, 1)
    BY DEF Adjacent
  <2> DEFINE j == i + k
  <2>1. i \in 1 .. n - k /\ i + 1 \in 1 .. n - k
    BY <1>2
  <2>2. (i + 1) + k = j + 1 /\ j \in 1 .. n /\ j + 1 \in 1 .. n
    BY <2>1, <1>1
  <2>3. rest[i] = list[j] /\ rest[i + 1] = list[j + 1]
    BY <2>1, <2>2, <1>2
  <2> HIDE DEF j
  <2>4. QED BY <2>2, <2>3 DEF Adjacent
<1>6. QED BY <1>2, <1>3, <1>4, <1>5 DEF rest

(* The frames from the first segment of a list to the end of its last.     *)
LEMMA HeldDist ==
  ASSUME NEW list \in Seq(Segment), Ordered(list), Adjacent(list), Len(list) >= 1
  PROVE  /\ Log!Held(Takes(list))
              = RingDist(list[1].start, list[Len(list)].start) + list[Len(list)].nframes
         /\ Log!Held(Takes(list)) \in Nat
<1> DEFINE n == Len(list)
<1>1. n \in 1 .. n
  OBVIOUS
<1>2. /\ FramesBefore(list)[n] = FramesBefore(list)[n - 1] + list[n].nframes
      /\ FramesBefore(list)[n] \in Nat
  BY <1>1, FrameNumbers
<1>3. FramesBefore(list)[n - 1] = RingDist(list[1].start, list[n].start)
  BY <1>1, FramesBeforeDist
<1>4. QED BY <1>2, <1>3, HeldFrames

(* What is left after the evictions has room for the new segment. *)
LEMMA RestHasRoom ==
  ASSUME NEW list \in Seq(Segment), Ordered(list), Adjacent(list),
         NEW seg \in Segment, Stretch(seg),
         list # <<>> => seg.start = RingAdd(list[Len(list)].end, 1),
         NEW k \in 0 .. Len(list), Evicts(list, seg, k)
  PROVE  Log!Held(Takes(SubSeq(list, k + 1, Len(list)))) + seg.nframes <= RingSize
<1> DEFINE n    == Len(list)
           rest == SubSeq(list, k + 1, n)
           new  == Linked(list, seg, k)
           r    == n - k
<1>1. /\ n \in Nat /\ k \in Nat /\ k <= n /\ r \in Nat
      /\ seg.nframes \in Nat /\ seg.nframes <= RingSize
  BY RegionFacts DEF Segment
<1>2. /\ rest \in Seq(Segment) /\ Len(rest) = r
      /\ \A i \in 1 .. r : rest[i] = list[i + k]
      /\ Ordered(rest) /\ Adjacent(rest)
  BY RestFacts
<1> HIDE DEF rest
<1>3. CASE r = 0
  <2>1. Log!Held(Takes(rest)) = FramesBefore(rest)[0]
    BY <1>2, <1>3, HeldFrames
  <2>2. FramesBefore(rest)[0] = 0
    BY <1>2, ListCounted, FramesBeforeAdds DEF Adds
  <2>3. QED BY <2>1, <2>2, <1>1 DEF rest
<1>4. CASE r # 0
  <2>1. /\ Len(new) = r + 1 /\ new[r + 1] = seg
        /\ \A i \in 1 .. r : new[i] = list[i + k]
    BY LinkedIndex
  <2>2. Ordered(new)
    BY LinkedOrdered
  <2> HIDE DEF new
  <2>3. 1 \in 1 .. r /\ r \in 1 .. r /\ r \in 1 .. r + 1 /\ r + 1 \in 1 .. r + 1 /\ r < r + 1
    BY <1>1, <1>4
  <2>4. new[1] = rest[1] /\ new[r] = rest[r]
    BY <2>1, <2>3, <1>2
  <2>5. /\ RingDist(rest[1].start, rest[r].start) + rest[r].nframes
             <= RingDist(rest[1].start, seg.start)
        /\ RingDist(rest[1].start, seg.start) + seg.nframes <= RingSize
    BY <2>1, <2>2, <2>3, <2>4 DEF Ordered
  <2>6. Log!Held(Takes(rest)) = RingDist(rest[1].start, rest[r].start) + rest[r].nframes
    <3>1. Len(rest) >= 1
      BY <1>1, <1>2, <1>4
    <3>2. QED BY <3>1, <1>2, HeldDist
  <2>7. /\ Log!Held(Takes(rest)) \in Nat
        /\ RingDist(rest[1].start, seg.start) \in Nat
    <3>1. Len(rest) >= 1
      BY <1>1, <1>2, <1>4
    <3>2. Log!Held(Takes(rest)) \in Nat
      BY <3>1, <1>2, HeldDist
    <3>3. rest[1].start \in Addr /\ seg.start \in Addr
      BY <2>3, <1>2 DEF Ordered, Stretch
    <3>4. QED BY <3>2, <3>3, RingDistType
  <2>8. Log!Held(Takes(rest)) + seg.nframes <= RingSize
    BY <2>5, <2>6, <2>7, <1>1, RegionFacts
  <2>9. QED BY <2>8 DEF rest
<1>5. QED BY <1>3, <1>4

(* With the last evicted segment there would not have been room. *)
LEMMA EvictedHadNoRoom ==
  ASSUME NEW list \in Seq(Segment), Ordered(list), Adjacent(list),
         NEW seg \in Segment, Stretch(seg),
         list # <<>> => seg.start = RingAdd(list[Len(list)].end, 1),
         NEW k \in 1 .. Len(list), video_segment_overlap(seg, list[k])
  PROVE  ~(Log!Held(Takes(SubSeq(list, k, Len(list)))) + seg.nframes <= RingSize)
<1> DEFINE n    == Len(list)
           rest == SubSeq(list, k, n)
           r    == n - k + 1
<1>1. n \in Nat /\ k \in Nat /\ 1 <= k /\ k <= n /\ k - 1 \in 0 .. n /\ k - 1 + 1 = k
      /\ r \in Nat /\ r >= 1 /\ n - (k - 1) = r
  OBVIOUS
<1>2. /\ rest \in Seq(Segment) /\ Len(rest) = r
      /\ \A i \in 1 .. r : rest[i] = list[i + (k - 1)]
      /\ Ordered(rest) /\ Adjacent(rest)
  <2> DEFINE m == k - 1
  <2>1. m \in 0 .. n /\ m + 1 = k /\ n - m = r
    BY <1>1
  <2> HIDE DEF m
  <2>2. /\ SubSeq(list, m + 1, n) \in Seq(Segment) /\ Len(SubSeq(list, m + 1, n)) = n - m
        /\ \A i \in 1 .. n - m : SubSeq(list, m + 1, n)[i] = list[i + m]
        /\ Ordered(SubSeq(list, m + 1, n)) /\ Adjacent(SubSeq(list, m + 1, n))
    BY <2>1, RestFacts
  <2>3. QED BY <2>1, <2>2 DEF m
<1> HIDE DEF rest
<1> DEFINE x == list[k]
           y == list[n]
<1>3. rest[1] = x /\ rest[r] = y
  BY <1>1, <1>2
<1>4. /\ k \in 1 .. n /\ n \in 1 .. n /\ list # <<>>
      /\ Stretch(x) /\ Stretch(y)
  BY <1>1 DEF Ordered
<1> HIDE DEF x, y
<1>5. /\ x.start \in Addr /\ x.end \in Addr /\ y.start \in Addr /\ y.end \in Addr
      /\ y.nframes = RingDist(y.start, y.end) + 1 /\ x.nframes = RingDist(x.start, x.end) + 1
      /\ seg.start \in Addr /\ seg.end \in Addr
      /\ seg.nframes = RingDist(seg.start, seg.end) + 1
      /\ seg.start = RingAdd(y.end, 1)
  BY <1>4 DEF Stretch, y
<1>6. Log!Held(Takes(rest)) = RingDist(x.start, y.start) + (RingDist(y.start, y.end) + 1)
  BY <1>1, <1>2, <1>3, <1>5, HeldDist
<1>7. RingDist(x.start, x.end) <= RingDist(x.start, y.start) + RingDist(y.start, y.end)
  <2>1. /\ RingDist(x.start, x.start) = 0
        /\ RingDist(x.start, x.end) \in Nat /\ RingDist(x.start, y.start) \in Nat
        /\ RingDist(y.start, y.end) \in Nat
    <3>1. RingDist(x.start, x.start) = 0
      BY <1>5, RegionFacts DEF RingDist
    <3>2. QED BY <3>1, <1>5, RingDistType
  <2>2. CASE r = 1
    <3>1. x = y
      BY <2>2, <1>3
    <3>2. QED BY <3>1, <2>1
  <2>3. CASE r # 1
    <3>1. 1 \in 1 .. r /\ r \in 1 .. r /\ 1 < r
      BY <2>3, <1>1
    <3>2. RingDist(x.start, x.start) + x.nframes <= RingDist(x.start, y.start)
      BY <3>1, <1>2, <1>3 DEF Ordered
    <3>3. QED BY <3>2, <2>1, <1>5
  <2>4. QED BY <2>2, <2>3
<1> SUFFICES ASSUME Log!Held(Takes(rest)) + seg.nframes <= RingSize
             PROVE  FALSE
  BY DEF rest
<1>8. /\ RingDist(seg.start, x.start) > RingDist(seg.start, seg.end)
      /\ RingDist(x.start, seg.start) > RingDist(x.start, x.end)
  BY <1>5, <1>6, <1>7, RoomApart
<1>9. PICK a \in Slots(seg) : a \in Slots(x)
  BY <1>4, OverlapIsShared DEF x
<1>10. /\ a \in Addr
       /\ RingDist(seg.start, a) <= RingDist(seg.start, seg.end)
       /\ RingDist(x.start, a) <= RingDist(x.start, x.end)
  BY <1>4, <1>9, SlotsDist
<1>11. \/ RingDist(seg.start, x.start) <= RingDist(seg.start, seg.end)
       \/ RingDist(x.start, seg.start) <= RingDist(x.start, x.end)
  BY <1>5, <1>10, SharedSlot
<1>12. /\ RingDist(seg.start, x.start) \in Nat /\ RingDist(seg.start, seg.end) \in Nat
       /\ RingDist(x.start, seg.start) \in Nat /\ RingDist(x.start, x.end) \in Nat
  BY <1>5, RingDistType
<1>13. QED BY <1>8, <1>11, <1>12

(* The take of a segment that playback_region_add links. *)
LEMMA NewTake ==
  ASSUME FullInv, playback_region_add, IsRecording(Head(fifo))
  PROVE  /\ TakeOf(NewSegment(fifo[1])) \in Log!Take
         /\ Log!Length(TakeOf(NewSegment(fifo[1]))) = NewSegment(fifo[1]).nframes
         /\ seglist # <<>> => seglist[Len(seglist)].hi < TakeOf(NewSegment(fifo[1])).first
         /\ seglist # <<>> => seglist[Len(seglist)].hi # TakeOf(NewSegment(fifo[1])).last
<1> DEFINE seg  == NewSegment(fifo[1])
           n    == Len(seglist)
           line == Line(seglist, fifo)
<1>1. /\ seglist \in Seq(Segment) /\ fifo \in Seq(FifoEntry) /\ fifo # <<>>
      /\ Ordered(seglist) /\ n \in Nat /\ Len(fifo) \in Nat /\ Len(fifo) >= 1
      /\ written \in Nat /\ written <= MaxFrames
      /\ Numbered(line, written)
  BY DEF FullInv, Inv, LineInv, TypeOK, playback_region_add
<1>2. seg \in Segment /\ Stretch(seg) /\ IsRecording(seg)
  <2>1. seg \in Segment /\ Stretch(seg)
    BY DrainedSegment DEF FullInv
  <2> HIDE DEF seg
  <2>2. QED BY <2>1, RingAssumption DEF Stretch, IsRecording
<1>3. /\ Len(line) = n + Len(fifo)
      /\ \A i \in 1 .. n : line[i] = seglist[i]
      /\ line[n + 1] = seg
  <2>1. 1 \in 1 .. Len(fifo)
    BY <1>1
  <2>2. QED BY <2>1, <1>1, LineIndex
<1> HIDE DEF seg, line
<1>4. n + 1 \in 1 .. Len(line)
  BY <1>1, <1>3
<1>5. /\ seg.nframes \in Nat /\ seg.nframes >= 1 /\ seg.hi \in Nat
      /\ seg.nframes <= seg.hi /\ seg.hi <= MaxFrames
  <2>1. Sound(seg, written)
    BY <1>1, <1>2, <1>3, <1>4 DEF Numbered
  <2>2. seg.nframes \in 1 .. RingSize /\ seg.hi \in Nat
    BY <1>2 DEF Segment
  <2>3. seg.nframes \in Nat /\ seg.nframes >= 1
    BY <2>2, RegionFacts
  <2>4. MaxFrames \in Nat
    BY RingAssumption
  <2>5. QED BY <2>1, <2>2, <2>3, <2>4, <1>1 DEF Sound
<1>6. TakeOf(seg) = [first |-> seg.hi - seg.nframes + 1, last |-> seg.hi]
  BY DEF TakeOf
<1>7. TakeOf(seg) \in Log!Take
  <2>1. /\ seg.hi - seg.nframes + 1 \in 1 .. MaxFrames
        /\ seg.hi \in 1 .. MaxFrames
        /\ seg.hi - seg.nframes + 1 <= seg.hi
    BY <1>5, RingAssumption
  <2>2. QED BY <2>1, <1>6 DEF Log!Take
<1>8. Log!Length(TakeOf(seg)) = seg.nframes
  BY <1>5, <1>6 DEF Log!Length
<1>9. ASSUME seglist # <<>>
      PROVE  seglist[n].hi < TakeOf(seg).first /\ seglist[n].hi # TakeOf(seg).last
  <2>1. n \in 1 .. n
    BY <1>1, <1>9, EmptySeq
  <2>2. n \in 1 .. Len(line) /\ n < n + 1
    BY <2>1, <1>1, <1>3
  <2>3. seglist[n] \in Segment /\ Stretch(seglist[n])
    BY <2>1, <1>1 DEF Ordered
  <2>4. IsRecording(seglist[n]) /\ seglist[n].hi \in Nat
    BY <2>3, RingAssumption DEF Stretch, IsRecording, Segment
  <2>5. seglist[n].hi + seg.nframes <= seg.hi
    BY <2>1, <2>2, <2>4, <1>1, <1>2, <1>3, <1>4 DEF Numbered
  <2>6. QED BY <2>4, <2>5, <1>5, <1>6
<1>10. QED BY <1>7, <1>8, <1>9 DEF seg

(* Linking a segment adds its take to the log, and pushes out what no      *)
(* longer fits.                                                            *)
LEMMA RegionAddAdds ==
  ASSUME FullInv, playback_region_add, IsRecording(Head(fifo))
  PROVE  Log!Next
<1> DEFINE seg  == NewSegment(fifo[1])
           take == TakeOf(seg)
           n    == Len(seglist)
           log  == Takes(seglist)
<1>1. seglist \in Seq(Segment) /\ n \in Nat /\ Ordered(seglist) /\ Adjacent(seglist) /\ Inv
  BY DEF FullInv, Inv, TypeOK
<1>2. /\ seg \in Segment /\ Stretch(seg)
      /\ seglist # <<>> => seg.start = RingAdd(seglist[n].end, 1)
      /\ \E k \in 0 .. n : Evicts(seglist, seg, k) /\ seglist' = Linked(seglist, seg, k)
  BY <1>1, DrainedSegment
<1>3. PICK k \in 0 .. n : Evicts(seglist, seg, k) /\ seglist' = Linked(seglist, seg, k)
  BY <1>2
<1>4. /\ take \in Log!Take
      /\ Log!Length(take) = seg.nframes
      /\ seglist # <<>> => seglist[n].hi < take.first
      /\ seglist # <<>> => seglist[n].hi # take.last
  BY NewTake
<1>5. take.last = seg.hi
  BY DEF TakeOf
<1>6. Len(log) = n /\ \A i \in 1 .. n : log[i] = TakeOf(seglist[i])
  BY <1>1 DEF Takes
<1>7. /\ SubSeq(log, k + 1, n) = Takes(SubSeq(seglist, k + 1, n))
      /\ SubSeq(seglist, k + 1, n) \in Seq(Segment)
      /\ Len(SubSeq(seglist, k + 1, n)) = n - k
      /\ \A i \in 1 .. n - k : SubSeq(seglist, k + 1, n)[i] = seglist[i + k]
  BY <1>1, RestFacts
<1> HIDE DEF seg
<1>8. /\ Len(seglist') = n - k + 1
      /\ \A i \in 1 .. n - k : seglist'[i] = seglist[i + k]
      /\ seglist'[n - k + 1] = seg
  BY <1>1, <1>2, <1>3, LinkedSegments
<1>9. Takes(seglist') = Append(SubSeq(log, k + 1, n), take)
  <2> DEFINE r == n - k
             part == Takes(SubSeq(seglist, k + 1, n))
  <2>1. r \in Nat
    BY <1>1
  <2>2. part = [i \in 1 .. r |-> TakeOf(seglist[i + k])]
    BY <1>7 DEF Takes
  <2>3. Takes(seglist') = [i \in 1 .. r + 1 |-> IF i = r + 1 THEN take ELSE TakeOf(seglist[i + k])]
    <3>1. \A i \in 1 .. r + 1 : TakeOf(seglist'[i]) = IF i = r + 1 THEN take ELSE TakeOf(seglist[i + k])
      <4> SUFFICES ASSUME NEW i \in 1 .. r + 1
                   PROVE  TakeOf(seglist'[i]) = IF i = r + 1 THEN take ELSE TakeOf(seglist[i + k])
        OBVIOUS
      <4>1. CASE i = r + 1
        BY <4>1, <1>8
      <4>2. CASE i # r + 1
        <5>1. i \in 1 .. r
          BY <4>2, <2>1
        <5>2. seglist'[i] = seglist[i + k]
          BY <5>1, <1>8
        <5>3. QED BY <5>2, <4>2
      <4>3. QED BY <4>1, <4>2
    <3>2. Takes(seglist') = [i \in 1 .. r + 1 |-> TakeOf(seglist'[i])]
      BY <1>8 DEF Takes
    <3>3. QED BY <3>1, <3>2
  <2>4. Append(part, take) = [i \in 1 .. r + 1 |-> IF i = r + 1 THEN take ELSE TakeOf(seglist[i + k])]
    <3> HIDE DEF r, take
    <3>1. QED BY <2>1, <2>2
  <2>5. QED BY <2>3, <2>4, <1>7
<1>10. Log!Held(Takes(SubSeq(seglist, k + 1, n))) + seg.nframes <= RingSize
  BY <1>1, <1>2, <1>3, RestHasRoom
<1>11. ASSUME k > 0
       PROVE  ~(Log!Held(SubSeq(log, k, n)) + seg.nframes <= RingSize)
  <2>1. k \in 1 .. n /\ video_segment_overlap(seg, seglist[k])
    BY <1>1, <1>3, <1>11 DEF Evicts
  <2>2. ~(Log!Held(Takes(SubSeq(seglist, k, n))) + seg.nframes <= RingSize)
    BY <2>1, <1>1, <1>2, EvictedHadNoRoom
  <2>3. SubSeq(log, k, n) = Takes(SubSeq(seglist, k, n))
    <3> DEFINE m == k - 1
    <3>1. m \in 0 .. n /\ m + 1 = k
      BY <2>1, <1>1
    <3> HIDE DEF m
    <3>2. SubSeq(log, m + 1, n) = Takes(SubSeq(seglist, m + 1, n))
      BY <3>1, <1>1, RestFacts
    <3>3. QED BY <3>1, <3>2
  <2>4. QED BY <2>2, <2>3
<1>12. ASSUME log # <<>>
       PROVE  log[n].last < take.first /\ log[n].last # take.last /\ n >= 1
  <2>1. n # 0
    BY <1>6, <1>12, <1>1 DEF Takes
  <2>2. seglist # <<>> /\ n \in 1 .. n /\ n >= 1
    BY <2>1, <1>1
  <2>3. log[n].last = seglist[n].hi
    <3>1. log[n] = TakeOf(seglist[n])
      BY <2>2, <1>6
    <3> HIDE DEF log, n
    <3>2. QED BY <3>1 DEF TakeOf
  <2>4. QED BY <2>2, <2>3, <1>4
<1>13. Takes(seglist') # log
  <2>1. Len(Takes(seglist')) = n - k + 1 /\ Takes(seglist')[n - k + 1] = take
    <3>1. n - k + 1 \in Nat /\ n - k + 1 \in 1 .. n - k + 1
      BY <1>1
    <3>2. QED BY <3>1, <1>8 DEF Takes
  <2> SUFFICES ASSUME Takes(seglist') = log PROVE FALSE
    OBVIOUS
  <2>2. n - k + 1 = n
    BY <2>1, <1>6
  <2>3. n >= 1 /\ log[n] = take
    BY <2>1, <2>2, <1>1
  <2>4. log # <<>>
    BY <2>3, <1>6
  <2>5. QED BY <2>3, <2>4, <1>12
<1> DEFINE takes == [i \in 1 .. Len(seglist) |-> TakeOf(seglist[i])]
<1>14. takes = log /\ takes' = Takes(seglist')
  BY DEF Takes
<1>15. Log!Add(take, k)
  <2>1. takes' = Append(SubSeq(takes, k + 1, Len(takes)), take)
    BY <1>6, <1>9, <1>14
  <2>2. takes # <<>> => takes[Len(takes)].last < take.first
    BY <1>6, <1>12, <1>14
  <2>3. Log!Held(SubSeq(takes, k + 1, Len(takes))) + Log!Length(take) <= RingSize
    BY <1>4, <1>6, <1>7, <1>10, <1>14
  <2>4. k > 0 => ~(Log!Held(SubSeq(takes, k, Len(takes))) + Log!Length(take) <= RingSize)
    BY <1>4, <1>6, <1>11, <1>14
  <2>5. k - 1 + 1 = k
    OBVIOUS
  <2> HIDE DEF take
  <2>6. QED BY <2>1, <2>2, <2>3, <2>4, <2>5 DEF Log!Add, Log!Without, Log!Fits
<1>16. k \in 0 .. Len(takes) /\ takes' # takes
  BY <1>6, <1>13, <1>14
<1> HIDE DEF take
<1>17. QED BY <1>4, <1>15, <1>16 DEF Log!Next

(* Deleting the head erases the oldest take. *)
LEMMA DeleteErases ==
  ASSUME Inv, video_segment_delete
  PROVE  Log!Next
<1> DEFINE takes == [i \in 1 .. Len(seglist) |-> TakeOf(seglist[i])]
           n == Len(seglist)
<1>1. seglist \in Seq(Segment) /\ seglist # <<>> /\ seglist' = Tail(seglist)
  BY DEF Inv, TypeOK, video_segment_delete
<1>2. /\ n \in Nat /\ n >= 1 /\ Len(seglist') = n - 1
      /\ \A i \in 1 .. n - 1 : seglist'[i] = seglist[i + 1]
  <2>1. n \in Nat /\ n >= 1
    BY <1>1
  <2>2. QED BY <2>1, <1>1, HeadTailProperties
<1>3. Len(takes) = n /\ takes # <<>>
  BY <1>2
<1>4. takes' = Tail(takes)
  <2>1. takes' = [i \in 1 .. n - 1 |-> TakeOf(seglist[i + 1])]
    BY <1>2
  <2>2. Tail(takes) = [i \in 1 .. n - 1 |-> TakeOf(seglist[i + 1])]
    BY <1>2
  <2>3. QED BY <2>1, <2>2
<1>5. takes' # takes
  <2>1. Len(takes') = n - 1
    BY <1>2
  <2>2. QED BY <2>1, <1>2, <1>3
<1>6. QED BY <1>3, <1>4, <1>5 DEF Log!Next, Log!Erase

(* The segment list is a log of takes with the capacity of the region:     *)
(* comparing addresses with the head of the ring evicts exactly the takes  *)
(* that no longer fit, and takes stay in the order they were shot          *)
(* (video_segment_add, video_segment_flush).                               *)
THEOREM RefinesRecording == Spec => ImplementsRecording
<1>1. Init => Log!Init
  BY DEF Init, Log!Init
<1> DEFINE takes == [i \in 1 .. Len(seglist) |-> TakeOf(seglist[i])]
<1>2. FullInv /\ [Next]_vars => [Log!Next]_takes
  <2> SUFFICES ASSUME FullInv, [Next]_vars
               PROVE  Log!Next \/ takes' = takes
    OBVIOUS
  <2>1. seglist' = seglist => takes' = takes
    OBVIOUS
  <2> HIDE DEF takes
  <2>2. ASSUME NEW size \in 1 .. RingSize, NEW m \in 1 .. 2 * size, Record(size, m)
        PROVE  takes' = takes
    BY <2>1, <2>2 DEF Record
  <2>3. CASE RecordLive
    BY <2>1, <2>3 DEF RecordLive
  <2>4. CASE playback_region_add
    <3>1. CASE IsRecording(Head(fifo))
      BY <2>4, <3>1, RegionAddAdds
    <3>2. CASE ~IsRecording(Head(fifo))
      BY <2>1, <2>4, <3>2 DEF playback_region_add
    <3>3. QED BY <3>1, <3>2
  <2>5. CASE video_segment_delete
    BY <2>5, DeleteErases DEF FullInv
  <2>6. CASE Bystanders
    BY <2>1, <2>6, BystandersKeep
  <2>7. QED BY <2>2, <2>3, <2>4, <2>5, <2>6, StepCases
<1>3. ImplementsRecording <=> Log!Init /\ [][Log!Next]_takes
  BY DEF ImplementsRecording, Log!Spec
<1>4. QED BY <1>1, <1>2, <1>3, FullAlways, PTL DEF Spec
=============================================================================
