------------------------------- MODULE Recover -------------------------------
(***************************************************************************)
(* cam-recover (cam-recover.c): rebuilds the list of recorded segments     *)
(* from the table that the FPGA keeps of its last recordings and dumps     *)
(* their frames to numbered files.  The camera may record all the while.   *)
(*                                                                         *)
(* A frame is the number it was recorded with; the table's entry of block  *)
(* number b is at b % Blocks, and blockno counts the blocks.  A readout    *)
(* through the copy engine takes whatever is in the engine's buffer (Late)  *)
(* when the engine is not ready after 1000 polls.  A file whose own write  *)
(* failed is empty, has a header only or ends within its frame (Cut).      *)
(***************************************************************************)
EXTENDS Segments, Tiff

CONSTANTS
  Blocks,      (* entries of the table                                     *)
  Sizes,       (* frames in a block that is recorded                       *)
  Options,     (* command lines                                            *)
  MaxRecorded, (* bound: frames recorded                                   *)
  MaxHitches   (* bound: errors and late readouts                          *)

(* An unused entry of the table is all zeros, which the code takes to lie   *)
(* outside of the region.                                                  *)
ASSUME RecoverAssumption ==
  /\ RecStart > 0
  /\ Blocks \in Nat \ {0}
  /\ Sizes \subseteq 1 .. RingSize
  /\ Options \subseteq [all : BOOLEAN, force : BOOLEAN, inspect : BOOLEAN, cwd : BOOLEAN,
                        fast : BOOLEAN, from : Nat, length : Nat]
  /\ {MaxRecorded, MaxHitches} \subseteq Nat

VARIABLES
  sequencer, (* the FPGA: recorded frames, write pointer, table            *)
  vram,      (* the frame at each address of the recording region          *)
  dump,      (* the program                                                *)
  dest,      (* the destination: whether it exists, the frame files in it  *)
  hitches

Late == -1
Cut == -2
recoverVars == <<sequencer, vram, dump, dest, hitches>>

(* kept: files of an earlier run may still be in the directory; stale:     *)
(* something was recorded since the program began to read the table.       *)
(* read counts the entries of the table it has read.                       *)
RecoverInit ==
  /\ sequencer = [frames |-> 0, wp |-> RecStart, blockno |-> 0,
                  data |-> [i \in 0 .. Blocks - 1 |-> [start |-> 0, end |-> 0, last |-> 0, no |-> 0]]]
  /\ vram = [a \in Addr |-> 0]
  /\ \E opt \in Options :
       dump = [pc |-> "load", opt |-> opt, list |-> <<>>, found |-> FALSE,
               next |-> opt.from, kept |-> FALSE, stale |-> FALSE,
               read |-> 0, startblock |-> 0]
  /\ dest \in {[exists |-> FALSE, files |-> {}],
               [exists |-> TRUE, files |-> {[n |-> 0, frame |-> MaxRecorded], [n |-> 9, frame |-> 1]}]}
  /\ dump.opt.cwd => dest.exists
  /\ hitches = 0

-----------------------------------------------------------------------------
(* The recording sequencer (external): m frames into a block of size       *)
(* frames, lapping it at most once, then the entry of the table.  Live     *)
(* display and calibration record outside of the region.  Bound: one block *)
(* once the table is being read, and nothing outside of the region once it *)
(* is read, when blockno and the table are not looked at again.            *)
Post(start, end, last) ==
  [sequencer EXCEPT !.blockno = @ + 1,
     !.data[sequencer.blockno % Blocks] =
       [start |-> start, end |-> end, last |-> last, no |-> sequencer.blockno]]

RecordBlock(size, m) ==
  LET wp   == sequencer.wp
      used == IF m > size THEN size ELSE m
      end  == RingAdd(wp, used - 1)
      at(k) == RingAdd(wp, (k - 1) % size)
  IN  /\ dump.pc # "exit" /\ ~dump.stale
      /\ sequencer.frames + m <= MaxRecorded
      /\ sequencer' = [Post(wp, end, at(m)) EXCEPT !.frames = @ + m, !.wp = RingAdd(end, 1)]
      /\ vram' = [a \in Addr |->
                    LET ks == {k \in 1 .. m : at(k) = a /\ k + size > m}
                    IN  IF ks = {} THEN vram[a] ELSE sequencer.frames + CHOOSE k \in ks : TRUE]
      /\ dump' = [dump EXCEPT !.stale = dump.pc # "load"]
      /\ UNCHANGED <<dest, hitches>>

RecordOutside ==
  /\ dump.pc \in {"load", "entries"} /\ ~dump.stale
  /\ sequencer.blockno < MaxRecorded
  /\ sequencer' = Post(RecStop, RecStop, RecStop)
  /\ dump' = [dump EXCEPT !.stale = dump.pc # "load"]
  /\ UNCHANGED <<vram, dest, hitches>>

-----------------------------------------------------------------------------
Hitch == hitches < MaxHitches /\ hitches' = hitches + 1

(* Bug variant: the table is read from its first entry on.                 *)
TableOrderFromFirst(startblock, i) == i

(* The table from its oldest block on.                                     *)
TableOrder(startblock, i) == (startblock + i) % Blocks

SaneEntry(entry, startblock) ==
  /\ {entry.start, entry.end, entry.last} \subseteq Addr
  /\ startblock <= entry.no
  /\ entry.no <= sequencer.blockno

NewestSegment(entry) ==
  [start   |-> entry.start, end |-> entry.end,
   nframes |-> SegmentLength(entry.start, entry.end),
   offset  |-> SegmentOffset(entry.start, entry.end, entry.last)]

video_segment_add(list, seg) ==
  Linked(list, seg, CHOOSE k \in 0 .. Len(list) : Evicts(list, seg, k))

(* The end of the whole region is taken for the address of its last frame. *)
WholeRegion ==
  <<[start |-> RecStart, end |-> RecStop, nframes |-> SegmentLength(RecStart, RecStop),
     offset |-> SegmentOffset(RecStart, RecStop, RecStop)]>>

WithList(found, list) ==
  [dump EXCEPT !.found = found, !.list = list, !.pc = IF dump.opt.inspect THEN "exit" ELSE "mkdir"]

(* The table may be missing in the FPGA's version.  The oldest block is    *)
(* settled when the table is found, blockno is read again with each entry. *)
OldestBlock == IF sequencer.blockno >= Blocks THEN sequencer.blockno - Blocks ELSE 0

load_segments ==
  /\ dump.pc = "load"
  /\ \/ dump' = WithList(FALSE, WholeRegion)
     \/ ~dump.opt.all /\ dump' = [dump EXCEPT !.pc = "entries", !.startblock = OldestBlock]
  /\ UNCHANGED <<sequencer, vram, dest, hitches>>

LoadEntry ==
  /\ dump.pc = "entries" /\ dump.read < Blocks
  /\ LET entry == sequencer.data[TableOrder(dump.startblock, dump.read)]
     IN  dump' = [dump EXCEPT !.read = @ + 1,
                    !.list = IF SaneEntry(entry, dump.startblock)
                             THEN video_segment_add(@, NewestSegment(entry)) ELSE @]
  /\ UNCHANGED <<sequencer, vram, dest, hitches>>

(* Nothing was found in the table: the whole region.                       *)
TableLoaded ==
  /\ dump.pc = "entries" /\ dump.read = Blocks
  /\ dump' = IF dump.list # <<>> THEN WithList(TRUE, dump.list) ELSE WithList(FALSE, WholeRegion)
  /\ UNCHANGED <<sequencer, vram, dest, hitches>>

-----------------------------------------------------------------------------
(* The directory must be new; with --force what is in it is removed first, *)
(* unless it is the root or the working directory, and it may be there.    *)
MakeDir ==
  /\ dump.pc = "mkdir"
  /\ \/ /\ ~dump.opt.force /\ ~dest.exists
        /\ dest' = [exists |-> TRUE, files |-> {}]
        /\ dump' = [dump EXCEPT !.pc = "list", !.kept = FALSE]
        /\ UNCHANGED hitches
     \/ /\ dump.opt.force
        /\ \E left \in SUBSET dest.files :
             /\ dest' = [exists |-> TRUE, files |-> left]
             /\ IF dump.opt.cwd THEN left = dest.files /\ UNCHANGED hitches
                ELSE IF left = {} THEN UNCHANGED hitches
                ELSE Hitch
             /\ dump' = [dump EXCEPT !.pc = "list", !.kept = left # {}]
     \/ /\ IF ~dump.opt.force /\ dest.exists THEN UNCHANGED hitches ELSE dest.files = {} /\ Hitch
        /\ dump' = [dump EXCEPT !.pc = "exit"]
        /\ UNCHANGED dest
  /\ UNCHANGED <<sequencer, vram>>

(* The list goes to segments.txt first.                                    *)
WriteList ==
  /\ dump.pc = "list"
  /\ \/ Hitch /\ dump' = [dump EXCEPT !.pc = "exit"]
     \/ UNCHANGED hitches /\ dump' = [dump EXCEPT !.pc = "frames"]
  /\ UNCHANGED <<sequencer, vram, dest>>

(* write_frame: the program does not look at its result.  A write of the   *)
(* header or of pixels that fails, or no memory for the frame, leaves the  *)
(* file cut short.                                                         *)
write_frame ==
  /\ dump.pc = "frames"
  /\ dump.next < dump.opt.length
  /\ LookupSegment(dump.list, dump.next) # 0
  /\ dump' = [dump EXCEPT !.next = @ + 1]
  /\ \E frame \in {vram[video_segment_lookup(dump.list, dump.next)], Late, Cut} :
       /\ dest' = [dest EXCEPT !.files = {f \in @ : f.n # dump.next} \cup
                                         {[n |-> dump.next, frame |-> frame]}]
       /\ frame = Late => dump.opt.fast
       /\ IF frame \in {Late, Cut} THEN Hitch ELSE UNCHANGED hitches
  /\ UNCHANGED <<sequencer, vram>>

(* The file cannot be created: one of that number that was there stays.    *)
NoFrameFile ==
  /\ dump.pc = "frames"
  /\ dump.next < dump.opt.length
  /\ LookupSegment(dump.list, dump.next) # 0
  /\ Hitch
  /\ dump' = [dump EXCEPT !.next = @ + 1]
  /\ UNCHANGED <<sequencer, vram, dest>>

DumpDone ==
  /\ dump.pc = "frames"
  /\ dump.next >= dump.opt.length \/ LookupSegment(dump.list, dump.next) = 0
  /\ dump' = [dump EXCEPT !.pc = "exit"]
  /\ UNCHANGED <<sequencer, vram, dest, hitches>>

RecoverNext ==
  \/ \E size \in Sizes : \E m \in 1 .. 2 * size : RecordBlock(size, m)
  \/ RecordOutside
  \/ load_segments \/ LoadEntry \/ TableLoaded
  \/ MakeDir \/ WriteList
  \/ write_frame \/ NoFrameFile \/ DumpDone

-----------------------------------------------------------------------------
RecoverTags(color) ==
  IF color THEN Baseline(2) \o CfaTags \o BayerTags ELSE Baseline(2) \o GreyTags

Sound == {f \in dest.files : f.frame \notin {Late, Cut}}

(* While nothing new is recorded, the frame files of a recovery that found *)
(* segments hold the frames in the order of recording, none twice, and     *)
(* past the last segment comes nothing: the last file is the newest frame. *)
(* A dump of all memory in which nothing failed leaves out no frame of the *)
(* region.  The header that is built for a file can be read.  Files that   *)
(* an earlier run left behind (a removal that failed, or the working       *)
(* directory), readouts that came late and files that the failure of their *)
(* own write cut short are excepted.                                       *)
RecoveredInOrder ==
  /\ dump.pc = "frames" /\ ~dump.stale /\ ~dump.kept =>
       /\ dump.found =>
            \A f, g \in Sound : f.n < g.n => f.frame < g.frame
       /\ dump.found /\ dump.pc = "frames" /\ LookupSegment(dump.list, dump.next) = 0 =>
            \A f \in Sound : f.n = dump.next - 1 => f.frame = sequencer.frames
       /\ ~dump.found /\ hitches = 0 /\ dump.opt.from = 0 /\ dump.pc = "frames"
            /\ LookupSegment(dump.list, dump.next) = 0 =>
            \A a \in Addr : \E f \in dest.files : f.frame = vram[a]
       /\ \A color \in BOOLEAN :
            Readable(tiff_build_header(1024, RecoverTags(color)), RecoverTags(color))
=============================================================================
