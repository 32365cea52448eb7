------------------------------ MODULE Segments ------------------------------
(***************************************************************************)
(* Recorded video segments and their addresses (lib/segment.c).            *)
(*                                                                         *)
(* The recording region is the half-open interval [RecStart, RecStop) of   *)
(* video memory, used as a ring.  Addresses are counted in frames: the     *)
(* sequencer only reports addresses rec_start + k * framesz of a region    *)
(* that is a whole number of frames, so every division by framesz in the   *)
(* code is exact and framesz is 1 here.                                    *)
(*                                                                         *)
(* The doubly linked list of struct video_segment is a sequence, oldest    *)
(* segment first.  segno, frameno, totalsegs and totalframes are what      *)
(* video_seglist_update recomputes from the list on every change, so they  *)
(* are functions of the list (FramesBefore, TotalFrames, Len).             *)
(***************************************************************************)
EXTENDS Integers, Sequences

CONSTANTS
  RecStart,  (* first frame address of the recording region          *)
  RecStop    (* first frame address after the recording region       *)

ASSUME RegionAssumption ==
  /\ RecStart \in Nat
  /\ RecStop \in Nat
  /\ RecStart < RecStop

RingSize == RecStop - RecStart

Addr == RecStart .. RecStop - 1

(* The frame address j frames after a in the ring, for j <= RingSize. *)
RingAdd(a, j) == IF a + j >= RecStop THEN a + j - RingSize ELSE a + j

(* How many frames after a the address b is in the ring. *)
RingDist(a, b) == IF b >= a THEN b - a ELSE b - a + RingSize

-----------------------------------------------------------------------------
(* Operators marked "bug variant" are plausible mistakes in the operator   *)
(* that follows them; no specification uses them, the runs' properties are *)
(* shown to detect each one.                                               *)

(* Bug variant: the end taken as exclusive when the list holds inclusive ends. *)
IncludesPastEnd(seg, addr) ==
  IF seg.start <= seg.end
  THEN addr >= seg.start /\ addr <= seg.end + 1
  ELSE addr >= seg.start \/ addr <= seg.end + 1

(* Test if an address is included within the segment. *)
video_segment_includes(seg, addr) ==
  IF seg.start <= seg.end
  THEN addr >= seg.start /\ addr <= seg.end
  ELSE addr >= seg.start \/ addr <= seg.end

(* Bug variant: only the ends of the first segment are looked at.          *)
OverlapsByEndsOfFirst(a, b) ==
  \/ video_segment_includes(b, a.start)
  \/ video_segment_includes(b, a.end)

(* Test if two segments overlap. *)
video_segment_overlap(a, b) ==
  \/ video_segment_includes(a, b.start)
  \/ video_segment_includes(a, b.end)
  \/ video_segment_includes(b, a.start)
  \/ video_segment_includes(b, a.end)

(* Bug variant: the part after the end of the region is forgotten.         *)
SegmentLengthNoRollover(start, end) ==
  IF end >= start THEN 1 + (end - start) ELSE 1 + (RecStop - start)

(* Number of frames between start and end, both included. *)
SegmentLength(start, end) ==
  IF end >= start
  THEN 1 + (end - start)
  ELSE 1 + (RecStop - start) + (end - RecStart)

(* Bug variant: a completely filled block is not told apart.               *)
SegmentOffsetFullBlock(start, end, last) == RingDist(start, last) + 1

(* Frames from the segment's first address to its oldest frame, which      *)
(* follows the last one the sequencer wrote.                               *)
SegmentOffset(start, end, last) ==
  IF end >= start
  THEN IF last < end THEN (last - start) + 1 ELSE 0
  ELSE IF last < end THEN SegmentLength(start, end) - (end - last)
       ELSE IF last # end THEN (last - start) + 1 ELSE 0

-----------------------------------------------------------------------------
(* FramesBefore(list)[i]: frames of the first i segments; entry i - 1 is   *)
(* the frameno that video_seglist_update gives to segment i.               *)
FramesBefore(list) ==
  LET before[i \in 0 .. Len(list)] ==
        IF i = 0 THEN 0 ELSE before[i - 1] + list[i].nframes
  IN  before

TotalFrames(list) == FramesBefore(list)[Len(list)]

(* The segment of a logical frame number, 0 when no segment holds it.  The *)
(* code compares unsigned numbers, so a negative position matches nothing. *)
LookupSegment(list, position) ==
  LET before == FramesBefore(list)
      holds  == {i \in 1 .. Len(list) : before[i - 1] <= position /\ position < before[i]}
  IN  IF holds = {} THEN 0 ELSE CHOOSE i \in holds : TRUE

(* The address at which frame number position is stored. *)
video_segment_lookup(list, position) ==
  LET i        == LookupSegment(list, position)
      segframe == position - FramesBefore(list)[i - 1]
      relframe == (segframe + list[i].offset) % list[i].nframes
      ramaddr  == list[i].start + relframe
  IN  IF ramaddr >= RecStop THEN ramaddr - (RecStop - RecStart) ELSE ramaddr

-----------------------------------------------------------------------------
(* A new segment frees segments from the head of the list while the head   *)
(* overlaps it, and stops at the first that does not: k of them go.        *)
EvictsOne(list, seg, k) ==  (* bug variant: at most one *)
  k = IF list # <<>> /\ video_segment_overlap(seg, list[1]) THEN 1 ELSE 0

Evicts(list, seg, k) ==
  /\ \A i \in 1 .. k : video_segment_overlap(seg, list[i])
  /\ k < Len(list) => ~video_segment_overlap(seg, list[k + 1])

(* Bug variant: the new segment becomes the head. *)
LinkedAtHead(list, seg, k) == <<seg>> \o SubSeq(list, k + 1, Len(list))

(* The list after k evictions, with the new segment as its tail. *)
Linked(list, seg, k) == Append(SubSeq(list, k + 1, Len(list)), seg)
=============================================================================
