----------------------------- MODULE FrameFiles -----------------------------
(***************************************************************************)
(* Saving frames as files of their own (pipeline/dng.c) or as one raw file *)
(* (pipeline/raw.c).  A save first makes its directory, or opens its file; *)
(* then a probe on the queue of the save pipeline writes every buffer that *)
(* passes.  The file system may refuse a file, or take less than a whole   *)
(* buffer; the probes look at neither result of a write.                   *)
(*                                                                         *)
(* A path is absolute: the sequence of its segments, and whether it ends   *)
(* in "/".  A file or directory is the path that leads to it without dots. *)
(***************************************************************************)
EXTENDS Tiff

CONSTANTS
  Paths,      (* file names a user saves to                                *)
  Kinds,      (* what is saved: dng, tiff, tiffraw, raw12 or raw16         *)
  Serials,    (* lengths of the camera's serial number                     *)
  Cuts,       (* where a short write ends: bytes of the header that arrive *)
  MaxSaves,   (* bound: saves in a behaviour                               *)
  MaxBuffers, (* bound: buffers in a save                                  *)
  MaxTroubles (* bound: refused files and short writes                     *)

(* pipeline.h: what a camera reads of its serial number.                   *)
CAMERA_SERIAL_LENGTH == 32
TIFF_HDR_SIZE == 4096
FrameKinds == {"dng", "tiff", "tiffraw"}
RawKinds == {"raw12", "raw16"}

ASSUME FilesAssumption ==
  /\ Paths \subseteq [segs : Seq(STRING), slash : BOOLEAN]
  /\ Kinds \subseteq FrameKinds \cup RawKinds
  /\ Serials \subseteq 0 .. CAMERA_SERIAL_LENGTH
  /\ Cuts \subseteq 0 .. TIFF_HDR_SIZE
  /\ {MaxSaves, MaxBuffers, MaxTroubles} \subseteq Nat

VARIABLES
  save,     (* the save that is running, or the last one                   *)
  dirs,     (* directories                                                 *)
  files,    (* image files: directory, number, and what is in them         *)
  raws,     (* raw files: the save they are of, the buffers in them        *)
  camera,   (* serial number, colour, whether segments are listed          *)
  troubles  (* history: which writes failed, by save and buffer            *)

filesVars == <<save, dirs, files, raws, camera, troubles>>

NoSave == [on |-> FALSE, n |-> 0, kind |-> "dng", segs |-> <<>>, count |-> 0, buffers |-> 0]

FilesInit ==
  /\ save = NoSave
  /\ dirs = {}
  /\ files = {}
  /\ raws = {}
  /\ camera \in [serial : Serials, color : BOOLEAN, listed : {TRUE}, alive : {TRUE}]
  /\ troubles = {}

-----------------------------------------------------------------------------
(* Where a path leads.                                                     *)
Follow(place, seg) ==
  CASE seg = "."  -> place
    [] seg = ".." -> SubSeq(place, 1, Len(place) - 1)
    [] OTHER      -> Append(place, seg)

Resolved(segs) ==
  LET place[i \in 0 .. Len(segs)] ==
        IF i = 0 THEN <<>> ELSE Follow(place[i - 1], segs[i])
  IN  place[Len(segs)]

Upto(path, j) == Resolved(SubSeq(path.segs, 1, j))
Target(path) == Resolved(path.segs)

RawFiles == {r.segs : r \in raws}

(* The first j segments of a path do not lead through a file.              *)
Reached(path, j) == \A i \in 1 .. j - 1 : Upto(path, i) \notin RawFiles

(* dng_mkdir: the directories of a path, each made if nothing of its name  *)
(* is there, "." and ".." left alone; then the last one, which must not be *)
(* there yet - a path that ends in "/" has had its last one made by then.  *)
Prefixes(path, k) ==
  {Upto(path, j) :
     j \in {i \in 1 .. Len(path.segs) :
              /\ path.segs[i] \notin {".", ".."}
              /\ i < k
              /\ i < Len(path.segs) \/ path.slash
              /\ Reached(path, i)}} \ RawFiles

(* Bug variant: a last directory that exists is taken as made.             *)
MakesLastOrFinds(path) == TRUE

MakesLast(path) ==
  /\ Reached(path, Len(path.segs))
  /\ Target(path) \notin {<<>>} \cup dirs \cup RawFiles \cup Prefixes(path, Len(path.segs) + 1)

(* All of a path, or what comes before step k.                             *)
dng_mkdir(path) == dirs' = dirs \cup Prefixes(path, Len(path.segs) + 1) \cup {Target(path)}
MkdirStops(path, k) == dirs' = dirs \cup Prefixes(path, k)

Trouble(s, n) ==
  /\ Cardinality(troubles) < MaxTroubles
  /\ troubles' = troubles \cup {<<s, n>>}

SaveStarts(path, kind) ==
  save' = [save EXCEPT !.on = TRUE, !.n = @ + 1, !.kind = kind, !.segs = Target(path), !.buffers = 0]
SaveRefused == save' = [save EXCEPT !.n = @ + 1, !.buffers = 0]

(* cam_dng_sink, cam_tiff_sink and cam_tiffraw_sink; then the pipeline     *)
(* runs.  The file system may refuse any directory of the path, or to open *)
(* the last one.                                                           *)
FrameSink(path, kind) ==
  /\ ~save.on /\ camera.alive
  /\ save.n < MaxSaves
  /\ kind \in FrameKinds
  /\ \/ /\ MakesLast(path)
        /\ dng_mkdir(path)
        /\ \/ /\ save' = [on |-> TRUE, n |-> save.n + 1, kind |-> kind, segs |-> Target(path),
                          count |-> 0, buffers |-> 0]
              /\ UNCHANGED troubles
           \/ SaveRefused /\ Trouble(save.n + 1, 0)
     \/ /\ ~MakesLast(path)
        /\ MkdirStops(path, Len(path.segs) + 1)
        /\ SaveRefused
        /\ UNCHANGED troubles
     \/ /\ \E k \in 1 .. Len(path.segs) + 1 : MkdirStops(path, k)
        /\ SaveRefused
        /\ Trouble(save.n + 1, 0)
  /\ UNCHANGED <<files, raws, camera>>

(* cam_raw_sink: a file that is there is truncated.                        *)
Opens(path) ==
  /\ ~path.slash
  /\ Target(path) \notin {<<>>} \cup dirs
  /\ \A j \in 1 .. Len(path.segs) - 1 : Upto(path, j) \in {<<>>} \cup dirs

cam_raw_sink(path, kind) ==
  /\ ~save.on /\ camera.alive
  /\ save.n < MaxSaves
  /\ kind \in RawKinds
  /\ \/ /\ Opens(path)
        /\ raws' = {r \in raws : r.segs # Target(path)} \cup
                   {[segs |-> Target(path), by |-> save.n + 1, got |-> <<>>]}
        /\ SaveStarts(path, kind)
        /\ UNCHANGED troubles
     \/ /\ IF Opens(path) THEN Trouble(save.n + 1, 0) ELSE UNCHANGED troubles
        /\ SaveRefused
        /\ UNCHANGED raws
  /\ UNCHANGED <<dirs, files, camera>>

-----------------------------------------------------------------------------
Exif(serial) ==
  <<Tag(33434, 8), Tag(36864, 4), Tag(36868, 20), Tag(42033, serial + 1), Tag(51044, 8)>>
Sub(serial) == <<SubIfd(34665, Exif(serial))>>

dng_bayer_tags(serial) == Baseline(2) \o CfaTags \o Sub(serial) \o BayerTags
dng_greyscale_tags(serial) == Baseline(2) \o Sub(serial) \o GreyTags
tiff_rgb_tags(serial) == Baseline(6) \o Sub(serial)
tiff_grayscale_tags(serial) == Baseline(2) \o Sub(serial) \o <<Tag(50708, 21)>>
tiff_raw_tags(serial) == Baseline(2) \o Sub(serial) \o <<Tag(50708, 21)>>

FrameTags(kind, color, serial) ==
  CASE kind = "dng"  /\ color  -> dng_bayer_tags(serial)
    [] kind = "dng"  /\ ~color -> dng_greyscale_tags(serial)
    [] kind = "tiff" /\ color  -> tiff_rgb_tags(serial)
    [] kind = "tiff" /\ ~color -> tiff_grayscale_tags(serial)
    [] kind = "tiffraw"        -> tiff_raw_tags(serial)

(* A buffer reaches the probe.  The frame's metadata are those of the first *)
(* listed segment, whichever it is; with none listed the process dies of    *)
(* the null pointer.  A file is one write of header and frame: either both  *)
(* arrive, or some bytes of the header and not all of the frame (0).        *)
FrameProbe ==
  LET n == save.count + 1
      buffer == save.buffers + 1
      Written(header, frame) ==
        files' = {f \in files : f.segs # save.segs \/ f.n # n} \cup
                   {[segs |-> save.segs, n |-> n, save |-> save.n, header |-> header, frame |-> frame,
                     tags |-> <<save.kind, camera.color, camera.serial>>]}
  IN  /\ save.on /\ camera.alive
      /\ save.kind \in FrameKinds
      /\ save.buffers < MaxBuffers
      /\ camera.listed
      /\ save' = [save EXCEPT !.count = n, !.buffers = buffer]
      /\ \/ Trouble(save.n, buffer) /\ UNCHANGED files        \* the file cannot be created
         \/ Written(TIFF_HDR_SIZE, buffer) /\ UNCHANGED troubles
         \/ \E cut \in Cuts : Written(cut, 0) /\ Trouble(save.n, buffer)
      /\ UNCHANGED <<dirs, raws, camera>>

NoSegment ==
  /\ save.on /\ camera.alive /\ ~camera.listed
  /\ save.kind \in FrameKinds
  /\ camera' = [camera EXCEPT !.alive = FALSE]
  /\ UNCHANGED <<save, dirs, files, raws, troubles>>

(* raw12_probe and raw16_probe append to the file: the whole buffer, a     *)
(* part of it (0), or nothing.                                             *)
RawProbe ==
  LET buffer == save.buffers + 1
      Appended(got) ==
        raws' = {IF r.segs = save.segs THEN [r EXCEPT !.got = @ \o got] ELSE r : r \in raws}
  IN  /\ save.on /\ camera.alive
      /\ save.kind \in RawKinds
      /\ save.buffers < MaxBuffers
      /\ save' = [save EXCEPT !.buffers = buffer]
      /\ \/ Appended(<<buffer>>) /\ UNCHANGED troubles
         \/ \E part \in {<<0>>, <<>>} : Appended(part) /\ Trouble(save.n, buffer)
      /\ UNCHANGED <<dirs, files, camera>>

SaveEnds ==
  /\ save.on /\ camera.alive
  /\ save' = [save EXCEPT !.on = FALSE]
  /\ UNCHANGED <<dirs, files, raws, camera, troubles>>

(* The flush command empties the list of segments, also during a save.     *)
FlushSegments ==
  /\ camera.alive
  /\ camera' = [camera EXCEPT !.listed = FALSE]
  /\ UNCHANGED <<save, dirs, files, raws, troubles>>

FilesNext ==
  \/ \E path \in Paths, kind \in Kinds : FrameSink(path, kind) \/ cam_raw_sink(path, kind)
  \/ FrameProbe \/ NoSegment \/ RawProbe \/ SaveEnds \/ FlushSegments

-----------------------------------------------------------------------------
(* What a reader finds of a header of which only the first bytes arrived.  *)
TagsOf(f) == FrameTags(f.tags[1], f.tags[2], f.tags[3])
HeaderOf(f) == {e \in tiff_build_header(TIFF_HDR_SIZE, TagsOf(f)) : e.at + e.len <= f.header}

(* Only the write of a buffer itself can spoil its image file: otherwise   *)
(* the file is whole, and what was cut short is never another's frame.     *)
ImageOK(f) ==
  /\ f.frame \in {f.n, 0}
  /\ <<f.save, f.n>> \notin troubles => f.frame = f.n
  /\ f.frame = f.n => Readable(HeaderOf(f), TagsOf(f))

OneSaveEach == \A f, g \in files : g.segs = f.segs => g.save = f.save

(* Place i of a raw file holds buffer i, unless one up to it failed; what   *)
(* follows a failed one is still in order.                                  *)
RawOK(r) ==
  /\ \A i \in DOMAIN r.got : r.got[i] = i \/ \E k \in 1 .. i : <<r.by, k>> \in troubles
  /\ \A i, j \in DOMAIN r.got : i < j /\ r.got[i] # 0 /\ r.got[j] # 0 => r.got[i] < r.got[j]

(* The running save, or the last one, has put buffer n on file.            *)
OnFile(n) ==
  IF save.kind \in FrameKinds
  THEN \E f \in files : f.segs = save.segs /\ f.save = save.n /\ f.n = n /\ f.frame = n
  ELSE \E r \in raws : r.segs = save.segs /\ r.by = save.n /\ \E i \in DOMAIN r.got : r.got[i] = n

(* However often saves are tried, under whatever names, and whatever the   *)
(* file system refuses or cuts short: the image files of a directory are   *)
(* of one save, file number n has buffer n and every tag of its header, a  *)
(* raw file has the buffers of its save in order, and no buffer of a save  *)
(* is missing - each of these but for the buffers whose own write failed.  *)
FilesAreFrames ==
  /\ OneSaveEach
  /\ \A f \in files : ImageOK(f)
  /\ \A r \in raws : RawOK(r)
  /\ \A n \in 1 .. save.buffers : <<save.n, n>> \in troubles \/ OnFile(n)
=============================================================================
