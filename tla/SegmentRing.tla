----------------------------- MODULE SegmentRing -----------------------------
(***************************************************************************)
(* The list of recorded segments and the three parties that touch it:      *)
(*                                                                         *)
(*   the recording sequencer of the FPGA (external), which fills the ring  *)
(*   block by block and posts one FIFO entry per segment;                  *)
(*   the playback thread (pipeline/playback.c), which drains the FIFO into *)
(*   the list under segmutex and empties the list on a flush command;      *)
(*   the D-Bus thread, which walks the list under segmutex to answer the   *)
(*   videoSegments parameter (pipeline/dbus-params.c).                     *)
(***************************************************************************)
EXTENDS Segments

CONSTANTS
  MaxFrames,   (* bound: frames recorded in a behaviour                      *)
  MaxFlushes,  (* bound: flush commands written in a behaviour               *)
  LiveAddr     (* a live display or calibration buffer, outside the region   *)

ASSUME RingAssumption ==
  /\ MaxFrames \in Nat
  /\ MaxFlushes \in Nat
  /\ LiveAddr \in Nat \ Addr

VARIABLES
  ram,       (* stamp of the frame stored at each address, 0 for none         *)
  written,   (* number of frames recorded so far: the newest stamp            *)
  wp,        (* where the sequencer's next block starts                       *)
  fifo,      (* entries of the metadata FIFO not yet read                     *)
  seglist,   (* the segment list, oldest first                                *)
  mutex,     (* holder of segmutex                                            *)
  thread,    (* where the playback thread is in its loop                      *)
  flushes,   (* flush commands in the playback pipe                           *)
  flushed,   (* flush commands written so far                                 *)
  walk       (* progress of the D-Bus getter                                  *)

vars == <<ram, written, wp, fifo, seglist, mutex, thread, flushes, flushed, walk>>

(* A listed segment.  hi is the stamp of its newest frame: a history       *)
(* variable that no code reads, kept for the properties.                   *)
Segment ==
  [start : Addr, end : Addr, nframes : 1 .. RingSize,
   offset : 0 .. RingSize - 1, hi : Nat]

FifoEntry == [start : Nat, end : Nat, last : Nat, hi : Nat]

(* A pointer to a segment of a list: <<>> past its end.                    *)
Pointer(list, i) == IF i <= Len(list) THEN <<list[i]>> ELSE <<>>

(* seg is <<>> past the end of the list, otherwise <<the segment pointed to>>. *)
IdleWalk == [on |-> FALSE, seg |-> <<>>, offset |-> 0, flushed |-> FALSE]

Init ==
  /\ ram = [a \in Addr |-> 0]
  /\ written = 0
  /\ wp = RecStart
  /\ fifo = <<>>
  /\ seglist = <<>>
  /\ mutex = "free"
  /\ thread = "poll"
  /\ flushes = 0
  /\ flushed = 0
  /\ walk = IdleWalk

-----------------------------------------------------------------------------
(* Recording events in a live or calibration region are not segments.      *)
IsRecording(event) == event.start # LiveAddr

(* The sequencer records m frames into a block of size frames that starts  *)
(* at wp, lapping it at most once (a second lap changes nothing the list   *)
(* can see), then posts the segment.  The next block starts after the last *)
(* address used.                                                           *)
Record(size, m) ==
  LET used == IF m > size THEN size ELSE m
      end  == RingAdd(wp, used - 1)
  IN
  /\ written + m <= MaxFrames
  /\ written' = written + m
  /\ ram' = [a \in Addr |->
               LET j == RingDist(wp, a)
               IN  IF j >= used THEN ram[a]
                   ELSE IF j + size < m THEN written + j + size + 1
                   ELSE written + j + 1]
  /\ fifo' = Append(fifo,
               [start |-> wp, end |-> end,
                last |-> RingAdd(wp, IF m > size THEN m - size - 1 ELSE m - 1),
                hi |-> written + m])
  /\ wp' = RingAdd(end, 1)
  /\ UNCHANGED <<seglist, mutex, thread, flushes, flushed, walk>>

(* A recording into a live display or calibration buffer, at most one of   *)
(* them waiting in the FIFO at a time.                                     *)
RecordLive ==
  /\ \A i \in 1 .. Len(fifo) : IsRecording(fifo[i])
  /\ fifo' = Append(fifo, [start |-> LiveAddr, end |-> LiveAddr, last |-> LiveAddr, hi |-> 0])
  /\ UNCHANGED <<ram, written, wp, seglist, mutex, thread, flushes, flushed, walk>>

-----------------------------------------------------------------------------
(* The playback thread: every turn of its loop drains the FIFO under       *)
(* segmutex, then takes one command.                                       *)

(* Bug variant: the FIFO is drained without segmutex.                      *)
DrainBeginUnlocked ==
  /\ thread = "poll"
  /\ thread' = "drain"
  /\ UNCHANGED <<ram, written, wp, fifo, seglist, mutex, flushes, flushed, walk>>

DrainBegin ==
  /\ thread = "poll"
  /\ mutex = "free"
  /\ mutex' = "playback"
  /\ thread' = "drain"
  /\ UNCHANGED <<ram, written, wp, fifo, seglist, flushes, flushed, walk>>

NewSegment(event) ==
  [start   |-> event.start,
   end     |-> event.end,
   nframes |-> SegmentLength(event.start, event.end),
   offset  |-> SegmentOffset(event.start, event.end, event.last),
   hi      |-> event.hi]

playback_region_add ==
  /\ thread = "drain"
  /\ fifo # <<>>
  /\ fifo' = Tail(fifo)
  /\ IF IsRecording(Head(fifo))
     THEN LET seg == NewSegment(Head(fifo))
          IN  \E k \in 0 .. Len(seglist) :
                /\ Evicts(seglist, seg, k)
                /\ seglist' = Linked(seglist, seg, k)
     ELSE UNCHANGED seglist
  /\ UNCHANGED <<ram, written, wp, mutex, thread, flushes, flushed, walk>>

DrainEnd ==
  /\ thread = "drain"
  /\ fifo = <<>>
  /\ mutex' = "free"
  /\ thread' = "command"
  /\ UNCHANGED <<ram, written, wp, fifo, seglist, flushes, flushed, walk>>

(* One command per turn; only the flush matters here.  The flush does not  *)
(* take segmutex.                                                          *)
Command ==
  /\ thread = "command"
  /\ IF flushes > 0
     THEN thread' = "flush" /\ flushes' = flushes - 1
     ELSE thread' = "poll" /\ UNCHANGED flushes
  /\ UNCHANGED <<ram, written, wp, fifo, seglist, mutex, flushed, walk>>

(* video_segment_flush deletes the head until the list is empty.           *)
video_segment_delete ==
  /\ thread = "flush"
  /\ seglist # <<>>
  /\ seglist' = Tail(seglist)
  /\ walk' = IF walk.on THEN [walk EXCEPT !.flushed = TRUE] ELSE walk
  /\ UNCHANGED <<ram, written, wp, fifo, mutex, thread, flushes, flushed>>

FlushEnd ==
  /\ thread = "flush"
  /\ seglist = <<>>
  /\ thread' = "poll"
  /\ UNCHANGED <<ram, written, wp, fifo, seglist, mutex, flushes, flushed, walk>>

-----------------------------------------------------------------------------
(* The D-Bus thread. *)

(* The flush method writes a command to the playback pipe.                 *)
playback_flush ==
  /\ flushed < MaxFlushes
  /\ flushed' = flushed + 1
  /\ flushes' = flushes + 1
  /\ UNCHANGED <<ram, written, wp, fifo, seglist, mutex, thread, walk>>

(* The getter of videoSegments: lock, visit each segment, unlock.  offset  *)
(* is the sum of the lengths visited so far, which it reports with each.   *)
WalkBegin ==
  /\ ~walk.on
  /\ mutex = "free"
  /\ mutex' = "dbus"
  /\ walk' = [on |-> TRUE, offset |-> 0, flushed |-> FALSE,
              seg |-> Pointer(seglist, 1)]
  /\ UNCHANGED <<ram, written, wp, fifo, seglist, thread, flushes, flushed>>

(* The successor of a segment in the list.  Following the next pointer of  *)
(* a freed segment is undefined; the walk ends there.                      *)
NextSegment(seg) ==
  LET at == {i \in 1 .. Len(seglist) : seglist[i] = seg}
  IN  IF at = {} THEN <<>>
      ELSE Pointer(seglist, (CHOOSE i \in at : TRUE) + 1)

WalkStep ==
  /\ walk.on
  /\ walk.seg # <<>>
  /\ walk' = [walk EXCEPT !.seg = NextSegment(walk.seg[1]),
                          !.offset = @ + walk.seg[1].nframes]
  /\ UNCHANGED <<ram, written, wp, fifo, seglist, mutex, thread, flushes, flushed>>

WalkEnd ==
  /\ walk.on
  /\ walk.seg = <<>>
  /\ walk' = IdleWalk
  /\ mutex' = "free"
  /\ UNCHANGED <<ram, written, wp, fifo, seglist, thread, flushes, flushed>>

-----------------------------------------------------------------------------
Sequencer == (\E size \in 1 .. RingSize : \E m \in 1 .. 2 * size : Record(size, m)) \/ RecordLive

PlaybackThread ==
  DrainBegin \/ playback_region_add \/ DrainEnd \/ Command \/ video_segment_delete \/ FlushEnd

DBusThread == playback_flush \/ WalkBegin \/ WalkStep \/ WalkEnd

Next == Sequencer \/ PlaybackThread \/ DBusThread

Spec == Init /\ [][Next]_vars
-----------------------------------------------------------------------------
(* Properties. *)

(* Listed segments lie in the recording region, their lengths between one  *)
(* frame and the whole ring and their offsets below it, although both are  *)
(* computed from three unchecked words of the FIFO (video_segment_add).    *)
TypeOK ==
  /\ ram \in [Addr -> Nat]
  /\ written \in Nat
  /\ wp \in Addr
  /\ fifo \in Seq(FifoEntry)
  /\ seglist \in Seq(Segment)
  /\ mutex \in {"free", "playback", "dbus"}
  /\ thread \in {"poll", "drain", "command", "flush"}
  /\ flushes \in Nat
  /\ flushed \in Nat
  /\ walk \in [on : BOOLEAN, seg : Seq(Segment), offset : Nat, flushed : BOOLEAN]

(* No frame of memory belongs to two listed segments, although an addition *)
(* only looks at the head of the list for segments to evict                *)
(* (video_segment_add).                                                    *)
NoSharedMemory ==
  \A i, j \in 1 .. Len(seglist) :
    i # j => ~video_segment_overlap(seglist[i], seglist[j])

(* The addresses of a segment's frames. *)
Slots(seg) == {a \in Addr : video_segment_includes(seg, a)}

(* Once the FIFO is drained, nothing the sequencer wrote since has         *)
(* replaced a frame of a segment that is still listed: eviction in         *)
(* video_segment_add frees enough.                                         *)
ListedIntact ==
  fifo = <<>> =>
    \A i \in 1 .. Len(seglist) : \A a \in Slots(seglist[i]) : ram[a] <= seglist[i].hi

(* An addition frees a segment only when the sequencer has overwritten one *)
(* of its frames: eviction frees no more than it must.                     *)
EvictsOnlyDamaged ==
  [][fifo' # fifo =>
       \A i \in 1 .. Len(seglist) :
         (\A j \in 1 .. Len(seglist') : seglist'[j] # seglist[i])
           => \E a \in Slots(seglist[i]) : ram[a] > seglist[i].hi]_vars

(* The run of frames that a listed segment stands for. *)
TakeOf(seg) == [first |-> seg.hi - seg.nframes + 1, last |-> seg.hi]

(* Frame numbers show each listed take from its first frame to its last,   *)
(* across block laps and the end of the region, and the last take ends     *)
(* with the newest frame: the offsets of video_segment_add and the search  *)
(* of video_segment_lookup agree with what the sequencer left in memory.   *)
PlaybackInOrder ==
  fifo = <<>> =>
    LET before == FramesBefore(seglist)
    IN  /\ \A i \in 1 .. Len(seglist) : \A j \in 0 .. seglist[i].nframes - 1 :
             ram[video_segment_lookup(seglist, before[i - 1] + j)] = TakeOf(seglist[i]).first + j
        /\ seglist # <<>> => seglist[Len(seglist)].hi = written

Log == INSTANCE Recording WITH
         Capacity <- RingSize,
         Frames   <- 1 .. MaxFrames,
         takes    <- [i \in 1 .. Len(seglist) |-> TakeOf(seglist[i])]

(* The list is a log of takes with the capacity of the region: comparing   *)
(* addresses with the head of the ring evicts exactly the takes that no    *)
(* longer fit, and takes stay in the order they were shot                  *)
(* (video_segment_add, video_segment_flush).                               *)
ImplementsRecording == Log!Spec

(* While no flush runs, the D-Bus getter only visits listed segments, and  *)
(* the offset it reports for a segment is the frame number at which        *)
(* playback finds it.                                                      *)
WalkIsConsistent ==
  walk.on /\ ~walk.flushed /\ walk.seg # <<>> =>
    LET i == LookupSegment(seglist, walk.offset)
    IN  i # 0 /\ <<seglist[i]>> = walk.seg

(* pipeline.h:167 gives segmutex to "Lock access to the segment list": a   *)
(* getter that holds it never stands on a segment that was freed.          *)
LockCoversList ==
  walk.on /\ walk.seg # <<>> => \E i \in 1 .. Len(seglist) : <<seglist[i]>> = walk.seg
=============================================================================
