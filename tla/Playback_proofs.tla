--------------------------- MODULE Playback_proofs ---------------------------
(***************************************************************************)
(* For every recording, every rate, every queue size and every number of   *)
(* calls: no seek leads to a negative position, the playback engine never  *)
(* goes to sleep in playback or in a save without a frame on its way, and  *)
(* a save drops no frame, whatever the number of buffers of its source.    *)
(*                                                                         *)
(* The engine is alive when an edge is waiting or a frame is being read    *)
(* out.  Only the thread itself enters playback or a save, and it renders  *)
(* before it sleeps again; only the thread consumes an edge, and then it   *)
(* renders.  So it is enough to follow the thread from its poll to the     *)
(* point where it is bound to render (Awaiting).                           *)
(*                                                                         *)
(* The same round, one frame at a time, bounds what is ahead of the buffer *)
(* level when a save looks at it (SaveInv, in the last part).              *)
(***************************************************************************)
EXTENDS Playback, TLAPS

LEMMA QuotientType ==
  ASSUME NEW a \in Int, NEW b \in Nat \ {0}
  PROVE  Quotient(a, b) \in Int
BY DEF Quotient

LEMMA RemainderType ==
  ASSUME NEW a \in Int, NEW b \in Nat \ {0}
  PROVE  Remainder(a, b) \in 1 - b .. b - 1
<1>1. \A x \in Int : x % b \in Int /\ 0 <= x % b /\ x % b <= b - 1
  BY SMT
<1>2. CASE a >= 0
  BY <1>1, <1>2 DEF Remainder
<1>3. CASE ~(a >= 0)
  BY <1>1, <1>3 DEF Remainder
<1> QED BY <1>2, <1>3

(* A seek that does something leads to a natural number.                   *)
LEMMA TargetType ==
  ASSUME NEW p \in PlayFields, NEW delta \in Int, Seeks(p, delta)
  PROVE  Target(p, delta) \in Nat
<1> DEFINE next == p.position + delta
<1>1. p.position \in Nat /\ p.start \in Nat /\ p.length \in Nat /\ p.length # 0 /\ p.loop \in BOOLEAN
  BY DEF PlayFields, Seeks
<1>2. \A x \in Int : x % p.length \in Int /\ 0 <= x % p.length /\ x % p.length <= p.length - 1
  BY <1>1
<1>3. CASE ~p.loop
  BY <1>1, <1>3 DEF Target
<1>4. CASE p.loop /\ delta > 0
  <2>1. (next - p.start) % p.length \in Nat
    BY <1>1, <1>2
  <2>2. Target(p, delta) = next \/ Target(p, delta) = p.start + ((next - p.start) % p.length)
    BY <1>4 DEF Target
  <2>3. next \in Nat
    BY <1>1, <1>4
  <2> HIDE DEF next
  <2> QED BY <1>1, <2>1, <2>2, <2>3
<1>5. CASE p.loop /\ ~(delta > 0)
  <2>1. (p.start - next) % p.length \in 0 .. p.length - 1
    BY <1>1, <1>2
  <2>2. \/ Target(p, delta) = next /\ next >= p.start
        \/ Target(p, delta) = (p.start + p.length) - ((p.start - next) % p.length)
    BY <1>5 DEF Target
  <2>3. next \in Int
    BY <1>1
  <2> HIDE DEF next
  <2> QED BY <1>1, <2>1, <2>2, <2>3
<1> QED BY <1>1, <1>3, <1>4, <1>5

(* A write to the pipe adds the command or drops it.                       *)
LEMMA WrittenType ==
  ASSUME NEW p \in Seq(Commands), Len(p) <= PipeSize, NEW command \in Commands
  PROVE  Written(p, command) \in Seq(Commands) /\ Len(Written(p, command)) <= PipeSize
BY PlaybackAssumption DEF Written

LEMMA CommandTypes ==
  /\ Live \in Commands /\ Flush \in Commands /\ Preroll \in Commands
  /\ Delay \in Commands /\ Exit \in Commands
  /\ \A d \in Int : Seek(d) \in Commands
  /\ \A command \in Commands : command.delta \in Int
BY DEF Commands, Live, Flush, Preroll, Delay, Exit, Seek

LEMMA AtPollType ==
  ASSUME NEW watchdog \in 1 .. WatchdogCount
  PROVE  AtPoll(watchdog) \in ThreadLocals
BY CommandTypes DEF AtPoll, ThreadLocals

LEMMA InitType == Init => TypeOK
<1> SUFFICES ASSUME Init PROVE TypeOK
  OBVIOUS
<1>1. play \in PlayFields
  BY PlaybackAssumption DEF Init, PlayFields
<1>2. PipeOK
  BY PlaybackAssumption DEF Init, PipeOK
<1>3. thread \in ThreadLocals
  BY PlaybackAssumption, AtPollType DEF Init
<1>4. save \in Levels /\ display \in DisplayFields
  BY DEF Init, Levels, DisplayFields
<1>5. source \in SourceFields
  BY PlaybackAssumption DEF Init, SourceFields
<1>6. caller \in CallerLocals
  BY DEF Init, NoCall, CallerLocals
<1> QED BY <1>1, <1>2, <1>3, <1>4, <1>5, <1>6 DEF Init, TypeOK

-----------------------------------------------------------------------------
(* What single assignments preserve.                                       *)
LEMMA DisplayUpdates ==
  ASSUME NEW d \in DisplayFields
  PROVE  /\ \A b \in BOOLEAN : [d EXCEPT !.irq = b] \in DisplayFields
         /\ \A b \in BOOLEAN : [d EXCEPT !.testpattern = b] \in DisplayFields
         /\ \A x \in {"none", "preroll", "frame"} : [d EXCEPT !.sync = x] \in DisplayFields
         /\ \A x \in {-1} \cup Nat : [d EXCEPT !.shown = x, !.sync = "frame"] \in DisplayFields
         /\ [d EXCEPT !.sync = "none", !.irq = TRUE] \in DisplayFields
         /\ d.irq \in BOOLEAN /\ d.testpattern \in BOOLEAN
         /\ d.sync \in {"none", "preroll", "frame"}
<1>1. \A b \in BOOLEAN : [d EXCEPT !.irq = b] \in DisplayFields
  BY DEF DisplayFields
<1>2. \A b \in BOOLEAN : [d EXCEPT !.testpattern = b] \in DisplayFields
  BY DEF DisplayFields
<1>3. \A x \in {"none", "preroll", "frame"} : [d EXCEPT !.sync = x] \in DisplayFields
  BY DEF DisplayFields
<1>4. \A x \in {-1} \cup Nat : [d EXCEPT !.shown = x, !.sync = "frame"] \in DisplayFields
  BY DEF DisplayFields
<1>5. [d EXCEPT !.sync = "none", !.irq = TRUE] \in DisplayFields
  BY DEF DisplayFields
<1>6. /\ d.irq \in BOOLEAN /\ d.testpattern \in BOOLEAN
      /\ d.sync \in {"none", "preroll", "frame"}
  BY DEF DisplayFields
<1> QED BY <1>1, <1>2, <1>3, <1>4, <1>5, <1>6

LEMMA ThreadFields ==
  ASSUME NEW t \in ThreadLocals
  PROVE  /\ t.cmd \in Commands /\ t.edge \in BOOLEAN /\ t.delta \in Int /\ t.target \in Nat
         /\ t.after \in {"poll", "fsync", "render", "sample"}
         /\ t.watchdog \in 1 .. WatchdogCount
         /\ \A x \in {"poll", "fsync", "load", "render", "sample", "done"} :
              [t EXCEPT !.pc = x] \in ThreadLocals
         /\ \A x \in {"read", "fsync"}, b \in BOOLEAN :
              [t EXCEPT !.pc = x, !.edge = b] \in ThreadLocals
         /\ \A c \in Commands : [t EXCEPT !.pc = "apply", !.cmd = c] \in ThreadLocals
         /\ \A x \in Nat, d \in Int :
              [t EXCEPT !.pc = "store", !.target = x, !.delta = d] \in ThreadLocals
         /\ \A x \in {"load", "wait"}, d \in Int, y \in {"render", "sample"} :
              [t EXCEPT !.pc = x, !.delta = d, !.after = y] \in ThreadLocals
         /\ \A d \in Int, y \in {"poll", "fsync"} :
              [t EXCEPT !.pc = "load", !.cmd = Delay, !.delta = d, !.edge = FALSE, !.after = y]
                \in ThreadLocals
<1>1. /\ t.cmd \in Commands /\ t.edge \in BOOLEAN /\ t.delta \in Int /\ t.target \in Nat
      /\ t.after \in {"poll", "fsync", "render", "sample"}
      /\ t.watchdog \in 1 .. WatchdogCount
  BY DEF ThreadLocals
<1>2. \A x \in {"poll", "fsync", "load", "render", "sample", "done"} :
        [t EXCEPT !.pc = x] \in ThreadLocals
  BY DEF ThreadLocals
<1>3. \A x \in {"read", "fsync"}, b \in BOOLEAN :
        [t EXCEPT !.pc = x, !.edge = b] \in ThreadLocals
  BY DEF ThreadLocals
<1>4. \A c \in Commands : [t EXCEPT !.pc = "apply", !.cmd = c] \in ThreadLocals
  <2> SUFFICES ASSUME NEW c \in Commands
               PROVE  [t EXCEPT !.pc = "apply", !.cmd = c] \in ThreadLocals
    OBVIOUS
  <2> QED BY DEF ThreadLocals
<1>5. \A x \in Nat, d \in Int :
        [t EXCEPT !.pc = "store", !.target = x, !.delta = d] \in ThreadLocals
  BY DEF ThreadLocals
<1>6. \A x \in {"load", "wait"}, d \in Int, y \in {"render", "sample"} :
        [t EXCEPT !.pc = x, !.delta = d, !.after = y] \in ThreadLocals
  BY DEF ThreadLocals
<1>7. \A d \in Int, y \in {"poll", "fsync"} :
        [t EXCEPT !.pc = "load", !.cmd = Delay, !.delta = d, !.edge = FALSE, !.after = y]
          \in ThreadLocals
  BY CommandTypes DEF ThreadLocals
<1> QED BY <1>1, <1>2, <1>3, <1>4, <1>5, <1>6, <1>7

LEMMA CommandDoneType ==
  ASSUME thread \in ThreadLocals, NEW edge \in BOOLEAN
  PROVE  CommandDone(edge) \in ThreadLocals
<1>1. AtPoll(thread.watchdog) \in ThreadLocals
  BY AtPollType, ThreadFields
<1> QED BY <1>1, ThreadFields DEF CommandDone

-----------------------------------------------------------------------------
(* Type correctness, one lemma per part of the code.  First the playback   *)
(* thread between two edges.                                               *)
LEMMA PollType ==
  ASSUME TypeOK, Poll \/ Timeout
  PROVE  TypeOK'
<1>1. CASE Poll
  <2>1. thread' \in ThreadLocals
    BY <1>1, ThreadFields, DisplayUpdates, Zenon DEF TypeOK, Poll
  <2> QED BY <1>1, <2>1, PlaybackAssumption DEF TypeOK, PipeOK, Poll
<1>2. CASE Timeout
  <2>1. thread.watchdog \in 1 .. WatchdogCount
    BY ThreadFields DEF TypeOK
  <2>2. (IF thread.watchdog = 1 THEN WatchdogCount ELSE thread.watchdog - 1) \in 1 .. WatchdogCount
    BY <2>1, PlaybackAssumption
  <2> QED
    BY <1>2, <2>2, AtPollType, PlaybackAssumption DEF TypeOK, PipeOK, Timeout
<1> QED BY <1>1, <1>2

LEMMA ReadType ==
  ASSUME TypeOK, ReadCommand, pipe # <<>>
  PROVE  TypeOK'
<1>1. Head(pipe) \in Commands /\ Tail(pipe) \in Seq(Commands) /\ Len(Tail(pipe)) <= PipeSize
  BY PlaybackAssumption DEF TypeOK, PipeOK
<1>2. thread' \in ThreadLocals /\ total' \in Nat
  <2>1. thread \in ThreadLocals /\ thread.edge \in BOOLEAN
    BY ThreadFields DEF TypeOK
  <2>2. CommandDone(thread.edge) \in ThreadLocals /\ AtPoll(thread.watchdog) \in ThreadLocals
    BY <2>1, CommandDoneType, AtPollType, ThreadFields
  <2>3. [AtPoll(thread.watchdog) EXCEPT !.pc = "done"] \in ThreadLocals
    BY <2>2, ThreadFields
  <2>4. [thread EXCEPT !.pc = "apply", !.cmd = Head(pipe)] \in ThreadLocals
    BY <1>1, <2>1, ThreadFields
  <2> QED BY <2>2, <2>3, <2>4 DEF ReadCommand, TypeOK
<1> QED BY <1>1, <1>2 DEF TypeOK, PipeOK, ReadCommand

LEMMA ApplyType ==
  ASSUME TypeOK, ApplyPreroll \/ ApplyLive \/ ApplySeek
  PROVE  TypeOK'
<1>1. thread \in ThreadLocals /\ thread.edge \in BOOLEAN /\ thread.cmd.delta \in Int
  BY ThreadFields, CommandTypes DEF TypeOK
<1>2. CASE ApplyPreroll
  <2>1. save' \in Levels
    BY <1>2 DEF TypeOK, ApplyPreroll, Levels
  <2>2. display' \in DisplayFields
    BY <1>2, DisplayUpdates DEF TypeOK, ApplyPreroll
  <2>3. thread' \in ThreadLocals
    BY <1>1, <1>2, CommandDoneType DEF ApplyPreroll
  <2> QED BY <1>2, <2>1, <2>2, <2>3 DEF TypeOK, PipeOK, ApplyPreroll
<1>3. CASE ApplyLive
  <2>1. thread' \in ThreadLocals
    BY <1>1, <1>3, CommandDoneType DEF ApplyLive
  <2> QED BY <1>3, <2>1 DEF TypeOK, PipeOK, ApplyLive
<1>4. CASE ApplySeek
  <2>1. \A edge \in BOOLEAN : SeekStep(edge) \in ThreadLocals
    BY <1>1, ThreadFields DEF SeekStep
  <2>2. thread' \in ThreadLocals
    BY <1>1, <1>4, <2>1, Zenon DEF ApplySeek
  <2> QED BY <1>4, <2>2 DEF TypeOK, PipeOK, ApplySeek
<1> QED BY <1>2, <1>3, <1>4

(* The two halves of a seek.                                               *)
LEMMA SeekType ==
  ASSUME TypeOK, SeekLoad \/ SeekStore
  PROVE  TypeOK'
<1>1. /\ thread \in ThreadLocals /\ thread.delta \in Int /\ thread.target \in Nat
      /\ [AtPoll(thread.watchdog) EXCEPT !.pc = thread.after] \in ThreadLocals
  BY AtPollType, ThreadFields DEF TypeOK
<1>2. CASE SeekLoad
  <2>1. PipeOK'
    BY <1>2, WrittenType, CommandTypes DEF TypeOK, PipeOK, SeekLoad
  <2>2. Seeks(play, thread.delta) => Target(play, thread.delta) \in Nat
    BY <1>1, TargetType DEF TypeOK
  <2>3. thread' \in ThreadLocals
    <3> DEFINE store(x, d) == [thread EXCEPT !.pc = "store", !.target = x, !.delta = d]
    <3>1. \A x \in Nat, d \in Int : store(x, d) \in ThreadLocals
      BY <1>1, ThreadFields
    <3>2. CASE Seeks(play, thread.delta)
      <4>1. thread' = store(Target(play, thread.delta), 0)
        BY <1>2, <3>2 DEF SeekLoad
      <4> HIDE DEF store
      <4> QED BY <2>2, <3>1, <3>2, <4>1
    <3>3. CASE ~Seeks(play, thread.delta)
      BY <1>1, <1>2, <3>3 DEF SeekLoad
    <3> QED BY <3>2, <3>3
  <2> QED BY <1>2, <2>1, <2>3 DEF TypeOK, SeekLoad
<1>3. CASE SeekStore
  <2>1. play' \in PlayFields
    BY <1>1, <1>3 DEF TypeOK, SeekStore, PlayFields
  <2>2. thread' \in ThreadLocals
    BY <1>1, <1>3 DEF SeekStore
  <2> QED BY <1>3, <2>1, <2>2 DEF TypeOK, PipeOK, SeekStore
<1> QED BY <1>2, <1>3

(* The frame-sync edge, by playstate.                                      *)
LEMMA FsyncType ==
  ASSUME TypeOK, FsyncIdle \/ FsyncPlay \/ FsyncPreroll \/ FsyncSave
  PROVE  TypeOK'
<1>1. AtPoll(WatchdogCount) \in ThreadLocals
  BY AtPollType, PlaybackAssumption
<1>2. Acknowledged \in DisplayFields
  BY DisplayUpdates DEF TypeOK, Acknowledged
<1>3. CASE FsyncIdle
  BY <1>1, <1>2, <1>3 DEF TypeOK, PipeOK, FsyncIdle
<1>4. CASE FsyncPlay
  <2> DEFINE nextcount == play.counter + play.rate
  <2>1. nextcount \in Int /\ InputRate \in Nat \ {0}
    BY PlaybackAssumption DEF TypeOK, PlayFields
  <2>2. Quotient(nextcount, InputRate) \in Int
    BY <2>1, QuotientType
  <2>3. Remainder(nextcount, InputRate) \in 1 - InputRate .. InputRate - 1
    BY <2>1, RemainderType
  <2>4. \A c \in 1 - InputRate .. InputRate - 1 : [play EXCEPT !.counter = c] \in PlayFields
    BY DEF TypeOK, PlayFields
  <2>5. play' \in PlayFields
    BY <1>4, <2>3, <2>4 DEF FsyncPlay
  <2>6. thread' \in ThreadLocals
    BY <1>1, <1>4, <2>2, ThreadFields DEF FsyncPlay
  <2> QED BY <1>2, <1>4, <2>5, <2>6 DEF TypeOK, PipeOK, FsyncPlay
<1>5. CASE FsyncPreroll
  <2>1. save' \in Levels
    BY <1>5 DEF TypeOK, FsyncPreroll, Sampled, Levels, SourceFields
  <2>2. (Acknowledged.testpattern /\ save.preroll > 1) \in BOOLEAN
    OBVIOUS
  <2>3. display' \in DisplayFields
    BY <1>2, <1>5, <2>2 DEF FsyncPreroll, DisplayFields
  <2> QED BY <1>1, <1>5, <2>1, <2>3 DEF TypeOK, PipeOK, FsyncPreroll
<1>6. CASE FsyncSave
  <2>1. thread' \in ThreadLocals
    <3> DEFINE t(x, d, y) == [AtPoll(WatchdogCount) EXCEPT !.pc = x, !.delta = d, !.after = y]
    <3>1. \A x \in {"load", "wait"}, d \in Int, y \in {"render", "sample"} : t(x, d, y) \in ThreadLocals
      BY <1>1, ThreadFields
    <3>2. CASE save.level > 2
      <4>1. thread' = t("load", 1, "sample")
        BY <1>6, <3>2 DEF FsyncSave
      <4> HIDE DEF t
      <4> QED BY <3>1, <4>1
    <3>3. CASE ~(save.level > 2)
      <4>1. thread' = t("wait", 1, "render")
        BY <1>6, <3>3 DEF FsyncSave
      <4> HIDE DEF t
      <4> QED BY <3>1, <4>1
    <3> QED BY <3>2, <3>3
  <2> QED BY <1>2, <1>6, <2>1 DEF TypeOK, PipeOK, FsyncSave
<1> QED BY <1>3, <1>4, <1>5, <1>6

LEMMA RenderType ==
  ASSUME TypeOK, WaitForBuffers \/ playback_frame_render
  PROVE  TypeOK'
<1>1. /\ thread \in ThreadLocals /\ display \in DisplayFields /\ save \in Levels
      /\ source.free \in Nat
      /\ \A n \in Nat : [save EXCEPT !.level = n] \in Levels
  BY DEF TypeOK, Levels, SourceFields
<1>2. CASE WaitForBuffers
  <2>1. save' \in Levels /\ thread' \in ThreadLocals
    BY <1>1, <1>2, ThreadFields DEF WaitForBuffers
  <2> QED BY <1>2, <2>1 DEF TypeOK, PipeOK, WaitForBuffers
<1>3. CASE playback_frame_render
  <2>1. AtPoll(thread.watchdog) \in ThreadLocals
    BY <1>1, AtPollType, ThreadFields
  <2>2. Frame(play.position) \in {-1} \cup Nat
    BY DEF TypeOK, PlayFields, Frame
  <2>3. save' \in Levels /\ display' \in DisplayFields
    BY <1>1, <1>3, <2>2, DisplayUpdates DEF playback_frame_render
  <2> QED BY <1>3, <2>1, <2>3 DEF TypeOK, PipeOK, playback_frame_render
<1> QED BY <1>2, <1>3

LEMMA ThreadType ==
  ASSUME TypeOK, ThreadStep, thread.pc = "read" => pipe # <<>>
  PROVE  TypeOK'
<1>1. ReadCommand => thread.pc = "read"
  BY DEF ReadCommand
<1> QED
  BY <1>1, PollType, ReadType, ApplyType, SeekType, FsyncType, RenderType DEF ThreadStep

(* The display and the video source.                                       *)
LEMMA VideoType ==
  ASSUME TypeOK, Video
  PROVE  TypeOK'
<1>1. CASE FrameDone
  <2>1. display' \in DisplayFields
    BY <1>1, DisplayUpdates DEF TypeOK, FrameDone
  <2>2. source' \in SourceFields
    BY <1>1, DisplayUpdates DEF TypeOK, FrameDone, SourceFields
  <2> QED BY <1>1, <2>1, <2>2 DEF TypeOK, PipeOK, FrameDone
<1>2. CASE LiveFrame
  <2>1. display' \in DisplayFields
    BY <1>2, DisplayUpdates DEF TypeOK, LiveFrame
  <2> QED BY <1>2, <2>1 DEF TypeOK, PipeOK, LiveFrame
<1>3. CASE Capture
  <2>1. \A b \in BOOLEAN : [source EXCEPT !.inflight = "none", !.dropped = b] \in SourceFields
    BY DEF TypeOK, SourceFields
  <2>2. (source.dropped \/ source.inflight = "frame") \in BOOLEAN
    OBVIOUS
  <2>3. \A n \in Nat : [source EXCEPT !.inflight = "none", !.free = n] \in SourceFields
    BY DEF TypeOK, SourceFields
  <2>4. source.free # 0 => source.free - 1 \in Nat
    BY DEF TypeOK, SourceFields
  <2>5. source' \in SourceFields
    <3>1. CASE source.free = 0
      BY <1>3, <2>1, <2>2, <3>1, Zenon DEF Capture
    <3>2. CASE source.free # 0
      BY <1>3, <2>3, <2>4, <3>2 DEF Capture
    <3> QED BY <3>1, <3>2
  <2> QED BY <1>3, <2>5 DEF TypeOK, PipeOK, Capture
<1>4. CASE Encode
  <2>1. source' \in SourceFields
    BY <1>4, PlaybackAssumption DEF TypeOK, Encode, SourceFields
  <2> QED BY <1>4, <2>1 DEF TypeOK, PipeOK, Encode
<1> QED BY <1>1, <1>2, <1>3, <1>4 DEF Video

(* The callers: the fields they store and the commands they write.         *)
LEMMA PipeUpdates ==
  ASSUME TypeOK, NEW command \in Commands, pipe' = Written(pipe, command)
  PROVE  PipeOK'
BY WrittenType DEF TypeOK, PipeOK

LEMMA DBusType ==
  ASSUME TypeOK, DBusThread
  PROVE  TypeOK'
<1>1. /\ caller.start \in Nat /\ caller.length \in Nat /\ caller.position \in Nat
      /\ caller.rate \in Int
      /\ \A x \in {"position", "write"} : [caller EXCEPT !.pc = x] \in CallerLocals
      /\ NoCall \in CallerLocals
  BY DEF TypeOK, CallerLocals, NoCall
<1>2. Call => calls' \in Nat
  BY DEF Call, TypeOK
<1>3. ASSUME NEW position \in Positions, NEW rate \in Rates, NEW loopcount \in Loopcounts,
             cam_video_playback(position, rate, loopcount)
      PROVE  TypeOK'
  <2>1. position \in Nat /\ rate \in Int /\ loopcount \in Nat /\ total \in Nat
    BY PlaybackAssumption DEF TypeOK
  <2>2. caller' \in CallerLocals
    BY <1>3, <2>1 DEF cam_video_playback, CallerLocals
  <2> QED BY <1>2, <1>3, <2>2 DEF TypeOK, PipeOK, cam_video_playback
<1>4. ASSUME NEW position \in Positions, NEW rate \in Rates, NEW loopcount \in Loopcounts,
             SetupPlayback(position, rate, loopcount)
      PROVE  TypeOK'
  <2>1. position \in Nat /\ rate \in Int /\ loopcount \in Nat /\ total \in Nat
    BY PlaybackAssumption DEF TypeOK
  <2>2. \A l \in BOOLEAN, n \in Nat :
          [play EXCEPT !.rate = rate, !.start = position, !.loop = l, !.length = n] \in PlayFields
    BY <2>1 DEF TypeOK, PlayFields
  <2>3. (IF loopcount = 0 THEN total ELSE loopcount) \in Nat
    BY <2>1
  <2>4. (loopcount # 0) \in BOOLEAN
    OBVIOUS
  <2>5. play' \in PlayFields
    BY <1>4, <2>2, <2>3, <2>4, Zenon DEF SetupPlayback
  <2> QED BY <1>2, <1>4, <2>5 DEF TypeOK, PipeOK, SetupPlayback
<1>5. CASE StoreRange
  <2> DEFINE range(r, c, n, m, l) ==
        [play EXCEPT !.rate = r, !.counter = c, !.start = n, !.length = m, !.loop = l]
  <2>0. \A r \in Int, c \in 1 - InputRate .. InputRate - 1, n, m \in Nat, l \in BOOLEAN :
          range(r, c, n, m, l) \in PlayFields
    BY DEF TypeOK, PlayFields
  <2>1. play' \in PlayFields
    <3>1. play' = range(caller.rate, 0, caller.start, caller.length, TRUE)
      BY <1>5 DEF StoreRange
    <3>2. 0 \in 1 - InputRate .. InputRate - 1
      BY PlaybackAssumption
    <3> HIDE DEF range
    <3> QED BY <1>1, <2>0, <3>1, <3>2
  <2> HIDE DEF range
  <2>2. caller' \in CallerLocals
    BY <1>1, <1>5 DEF StoreRange
  <2> QED BY <1>5, <2>1, <2>2 DEF TypeOK, PipeOK, StoreRange
<1>6. CASE StorePosition
  <2>1. play' \in PlayFields
    BY <1>1, <1>6 DEF TypeOK, StorePosition, PlayFields
  <2>2. caller' \in CallerLocals
    BY <1>1, <1>6 DEF StorePosition
  <2> QED BY <1>6, <2>1, <2>2 DEF TypeOK, PipeOK, StorePosition
<1>7. CASE WriteSeek
  <2>1. PipeOK'
    BY <1>7, PipeUpdates, CommandTypes DEF WriteSeek
  <2> QED BY <1>1, <1>7, <2>1 DEF TypeOK, WriteSeek
<1>8. CASE cam_video_livedisplay
  <2>1. PipeOK'
    BY <1>8, PipeUpdates, CommandTypes DEF cam_video_livedisplay
  <2> QED BY <1>2, <1>8, <2>1 DEF TypeOK, cam_video_livedisplay
<1>9. CASE cam_video_flush
  <2>1. PipeOK'
    BY <1>9, PipeUpdates, CommandTypes DEF cam_video_flush
  <2> QED BY <1>2, <1>9, <2>1 DEF TypeOK, cam_video_flush
<1>10. CASE cam_generic_setter
  <2>1. /\ \A n \in Int : [play EXCEPT !.position = n] \in PlayFields
        /\ \A n \in Int : [play EXCEPT !.rate = n] \in PlayFields
        /\ \A n \in Nat : [play EXCEPT !.start = n] \in PlayFields
        /\ \A n \in Nat : [play EXCEPT !.length = n] \in PlayFields
    BY DEF TypeOK, PlayFields
  <2>2. /\ Positions \cup {-1} \subseteq Int /\ Rates \subseteq Int
        /\ Positions \subseteq Nat /\ Loopcounts \subseteq Nat
    BY PlaybackAssumption
  <2>3. play' \in PlayFields
    BY <1>10, <2>1, <2>2 DEF cam_generic_setter
  <2> QED BY <1>2, <1>10, <2>3 DEF TypeOK, PipeOK, cam_generic_setter
<1> QED
  BY <1>3, <1>4, <1>5, <1>6, <1>7, <1>8, <1>9, <1>10 DEF DBusThread, Playing

LEMMA SignalType ==
  ASSUME TypeOK, Signals
  PROVE  TypeOK'
<1>1. Call => calls' \in Nat
  BY DEF Call, TypeOK
<1>2. ASSUME NEW delta \in Deltas, SignalSeek(delta)
      PROVE  TypeOK'
  <2>1. PipeOK'
    BY <1>2, PipeUpdates, CommandTypes, PlaybackAssumption DEF SignalSeek
  <2> QED BY <1>1, <1>2, <2>1 DEF TypeOK, SignalSeek
<1>3. ASSUME NEW position \in Positions \cup {0}, SignalPosition(position)
      PROVE  TypeOK'
  <2>1. PipeOK'
    BY <1>3, PipeUpdates, CommandTypes DEF SignalPosition
  <2>2. position \in Nat
    BY PlaybackAssumption
  <2> DEFINE moved(n, r) == [play EXCEPT !.position = n, !.rate = r]
  <2>3. \A n, r \in Int : moved(n, r) \in PlayFields
    BY DEF TypeOK, PlayFields
  <2>4. play' \in PlayFields
    <3>1. play' = moved(position, 0)
      BY <1>3 DEF SignalPosition
    <3> HIDE DEF moved
    <3> QED BY <2>2, <2>3, <3>1
  <2> HIDE DEF moved
  <2> QED BY <1>1, <1>3, <2>1, <2>4 DEF TypeOK, SignalPosition
<1>4. CASE SignalLive
  <2>1. PipeOK'
    BY <1>4, PipeUpdates, CommandTypes DEF SignalLive
  <2> QED BY <1>1, <1>4, <2>1 DEF TypeOK, SignalLive
<1> QED BY <1>2, <1>3, <1>4 DEF Signals

(* The main loop and its bus watch.                                        *)
LEMMA MainLoopType ==
  ASSUME TypeOK, MainLoop
  PROVE  TypeOK'
<1>1. \A x \in {"off", "ready", "playing", "ended"} : [source EXCEPT !.state = x] \in SourceFields
  BY DEF TypeOK, SourceFields
<1>2. ASSUME NEW mode \in {"pause", "live", "play", "save"}, NEW first \in Nat,
             StartPipeline(mode, first)
      PROVE  TypeOK'
  <2> DEFINE fresh(x, n, y, l) ==
        [source EXCEPT !.state = x, !.free = n, !.inflight = y, !.late = l]
  <2>0. \A x \in {"off", "ready"}, n \in Nat, y \in {"none", "frame"}, l \in BOOLEAN :
          fresh(x, n, y, l) \in SourceFields
    BY DEF TypeOK, SourceFields
  <2>1. source' \in SourceFields
    <3>1. source' = fresh("ready", NumBuffers, "none", source.late \/ PrerollWaits)
      BY <1>2 DEF StartPipeline
    <3>2. (source.late \/ PrerollWaits) \in BOOLEAN
      OBVIOUS
    <3> HIDE DEF fresh
    <3> QED BY <2>0, <3>1, <3>2, PlaybackAssumption
  <2> HIDE DEF fresh
  <2>2. display' \in DisplayFields
    BY <1>2, DisplayUpdates DEF TypeOK, StartPipeline
  <2> DEFINE whole(n, s, m, l) ==
        [play EXCEPT !.position = n, !.start = s, !.length = m, !.loop = l]
  <2>a. \A n \in Int, s, m \in Nat, l \in BOOLEAN : whole(n, s, m, l) \in PlayFields
    BY DEF TypeOK, PlayFields
  <2>b. first \in Int /\ total \in Nat /\ play \in PlayFields
    BY DEF TypeOK
  <2>3. whole(first, 0, total, TRUE) \in PlayFields
    <3> HIDE DEF whole
    <3> QED BY <2>a, <2>b
  <2>4. play' \in PlayFields
    BY <1>2, <2>3 DEF TypeOK, StartPipeline
  <2>5. calls' \in Nat
    BY <1>2 DEF TypeOK, StartPipeline
  <2> QED BY <1>2, <2>1, <2>2, <2>4, <2>5 DEF TypeOK, PipeOK, StartPipeline
<1>3. CASE SourcePlaying
  <2> DEFINE delayed == Written(pipe, Delay)
  <2>1. delayed \in Seq(Commands) /\ Len(delayed) <= PipeSize
    BY WrittenType, CommandTypes DEF TypeOK, PipeOK
  <2>2. \A c \in Commands : Written(delayed, c) \in Seq(Commands) /\ Len(Written(delayed, c)) <= PipeSize
    BY <2>1, WrittenType
  <2> HIDE DEF delayed
  <2>3. pipe' = delayed \/ \E c \in {Live, Seek(0), Preroll} : pipe' = Written(delayed, c)
    BY <1>3 DEF SourcePlaying, TypeOK, delayed
  <2>4. PipeOK'
    <3>1. Live \in Commands /\ Seek(0) \in Commands /\ Preroll \in Commands
      BY CommandTypes
    <3>2. CASE pipe' = delayed
      BY <2>1, <3>2 DEF PipeOK
    <3>3. ASSUME NEW c \in {Live, Seek(0), Preroll}, pipe' = Written(delayed, c)
          PROVE  PipeOK'
      BY <2>2, <3>1, <3>3 DEF PipeOK
    <3> QED BY <2>3, <3>2, <3>3
  <2> QED BY <1>1, <1>3, <2>4 DEF TypeOK, SourcePlaying
<1>4. CASE EndOfStream \/ LiveRecordingFails
  <2>1. calls' \in Nat
    BY <1>4 DEF TypeOK, EndOfStream, LiveRecordingFails, Call
  <2> QED BY <1>1, <1>4, <2>1 DEF TypeOK, PipeOK, EndOfStream, LiveRecordingFails
<1>5. CASE Teardown
  <2> DEFINE stopped(x, y) == [source EXCEPT !.state = x, !.inflight = y]
  <2>1. \A x \in {"off", "ready"}, y \in {"none", "frame"} : stopped(x, y) \in SourceFields
    BY DEF TypeOK, SourceFields
  <2>2. source' = stopped("off", "none")
    BY <1>5 DEF Teardown
  <2> HIDE DEF stopped
  <2>3. source' \in SourceFields
    BY <2>1, <2>2
  <2> QED BY <1>5, <2>3 DEF TypeOK, PipeOK, Teardown
<1>6. CASE playback_cleanup
  <2>1. PipeOK'
    BY <1>6, PipeUpdates, CommandTypes DEF playback_cleanup
  <2>2. calls' \in Nat
    BY <1>6 DEF TypeOK, playback_cleanup, Call
  <2> QED BY <1>6, <2>1, <2>2 DEF TypeOK, playback_cleanup
<1>7. 0 .. MaxFrames - 1 \subseteq Nat /\ 0 \in Nat
  BY PlaybackAssumption
<1> QED
  BY <1>2, <1>3, <1>4, <1>5, <1>6, <1>7 DEF MainLoop

-----------------------------------------------------------------------------
(* The engine between its poll and the point where it is bound to render,  *)
(* or has found that it need not.                                          *)
Awaiting ==
  \/ thread.pc \in {"poll", "read", "apply"}
  \/ thread.pc \in {"load", "store"} /\ thread.after = "poll"

Alive == display.irq \/ display.sync # "none"

(* Only a thread with a command to read reads one, the thread waits for    *)
(* buffers only to render, and a thread that waits for an edge in playback *)
(* or in a save has one coming.                                            *)
Engine ==
  /\ thread.pc = "read" => pipe # <<>>
  /\ thread.pc = "wait" => thread.after = "render"
  /\ Awaiting /\ playstate \in {"play", "filesave"} => Alive

Inv == TypeOK /\ Engine

LEMMA WrittenNonEmpty ==
  ASSUME NEW p \in Seq(Commands), NEW command, p # <<>>
  PROVE  Written(p, command) # <<>>
BY DEF Written

LEMMA NextType ==
  ASSUME Inv, [Next]_vars
  PROVE  TypeOK'
<1>1. CASE UNCHANGED vars
  BY <1>1 DEF Inv, TypeOK, PipeOK, vars
<1> QED
  BY <1>1, ThreadType, VideoType, DBusType, SignalType, MainLoopType DEF Inv, Engine, Next

(* Each thread step either stays on the way from poll to poll without      *)
(* touching the display, or leaves playback, or renders.                   *)
LEMMA ThreadEngine ==
  ASSUME Inv, ThreadStep
  PROVE  Engine'
<1>1. thread \in ThreadLocals /\ display \in DisplayFields
  BY DEF Inv, TypeOK
<1>2. CASE Poll
  BY <1>1, <1>2 DEF Inv, Engine, Awaiting, Alive, Poll, ThreadLocals
<1>3. CASE Timeout
  BY <1>3 DEF Inv, Engine, Awaiting, Alive, Timeout, AtPoll
<1>4. CASE ReadCommand
  <2>1. thread'.pc \in {"poll", "fsync", "apply", "done"}
    <3>1. CommandDone(thread.edge).pc \in {"poll", "fsync"}
      BY DEF CommandDone, AtPoll
    <3>2. [AtPoll(thread.watchdog) EXCEPT !.pc = "done"].pc = "done"
      BY DEF AtPoll
    <3>3. [thread EXCEPT !.pc = "apply", !.cmd = Head(pipe)].pc = "apply"
      BY <1>1 DEF ThreadLocals
    <3> QED BY <1>4, <3>1, <3>2, <3>3 DEF ReadCommand
  <2> QED BY <1>4, <2>1 DEF Inv, Engine, Awaiting, Alive, ReadCommand
<1>5. CASE ApplyPreroll
  <2>1. thread'.pc = "fsync"
    BY <1>5 DEF ApplyPreroll, CommandDone, AtPoll
  <2> QED BY <2>1 DEF Engine, Awaiting
<1>6. CASE ApplyLive
  <2>1. thread'.pc \in {"poll", "fsync"} /\ playstate' = "live"
    BY <1>6 DEF ApplyLive, CommandDone, AtPoll
  <2> QED BY <2>1 DEF Engine
<1>7. CASE ApplySeek
  <2>1. thread'.pc = "load"
    BY <1>1, <1>7 DEF ApplySeek, SeekStep, ThreadLocals
  <2>2. thread'.after = "poll" => playstate = "play"
    BY <1>1, <1>7 DEF ApplySeek, SeekStep, ThreadLocals
  <2> QED BY <1>7, <2>1, <2>2 DEF Inv, Engine, Awaiting, Alive, ApplySeek
<1>8. CASE SeekLoad
  <2>1. \/ thread'.pc = "store" /\ thread'.after = thread.after
        \/ thread'.pc = thread.after
    BY <1>1, <1>8 DEF SeekLoad, AtPoll, ThreadLocals
  <2>2. thread.after \in {"poll", "fsync", "render", "sample"}
    BY <1>1, ThreadFields
  <2> QED BY <1>8, <2>1, <2>2 DEF Inv, Engine, Awaiting, Alive, SeekLoad
<1>9. CASE SeekStore
  <2>1. thread'.pc = thread.after
    BY <1>9 DEF SeekStore, AtPoll
  <2>2. thread.after \in {"poll", "fsync", "render", "sample"}
    BY <1>1, ThreadFields
  <2> QED BY <1>9, <2>1, <2>2 DEF Inv, Engine, Awaiting, Alive, SeekStore
<1>10. CASE FsyncIdle
  BY <1>10 DEF Engine, FsyncIdle, AtPoll
<1>11. CASE FsyncPlay
  <2>1. thread'.pc = "load" /\ thread'.after = "render"
    BY <1>11 DEF FsyncPlay, AtPoll
  <2> QED BY <2>1 DEF Engine, Awaiting
<1>12. CASE FsyncPreroll
  <2>1. thread'.pc = "poll"
    BY <1>12 DEF FsyncPreroll, AtPoll
  <2>2. display'.sync = "preroll"
    BY <1>1, <1>12 DEF FsyncPreroll, Acknowledged, DisplayFields
  <2> QED BY <2>1, <2>2 DEF Engine, Alive
<1>13. CASE FsyncSave
  <2>1. \/ thread'.pc = "load" /\ thread'.after = "sample"
        \/ thread'.pc = "wait" /\ thread'.after = "render"
    BY <1>13 DEF FsyncSave, AtPoll
  <2> QED BY <2>1 DEF Engine, Awaiting
<1>14. CASE WaitForBuffers
  <2>1. thread'.pc = "load" /\ thread'.after = "render"
    BY <1>1, <1>14 DEF Inv, Engine, WaitForBuffers, ThreadLocals
  <2> QED BY <2>1 DEF Engine, Awaiting
<1>15. CASE playback_frame_render
  <2>1. thread'.pc = "poll"
    BY <1>15 DEF playback_frame_render, AtPoll
  <2>2. display'.sync = "frame"
    BY <1>1, <1>15 DEF playback_frame_render, DisplayFields
  <2> QED BY <2>1, <2>2 DEF Engine, Alive
<1> QED
  BY <1>2, <1>3, <1>4, <1>5, <1>6, <1>7, <1>8, <1>9, <1>10, <1>11, <1>12, <1>13, <1>14, <1>15
     DEF ThreadStep

(* Nobody else takes an edge or a command away from the thread, or enters  *)
(* playback or a save.                                                     *)
LEMMA OtherEngine ==
  ASSUME Inv, Video \/ DBusThread \/ Signals \/ MainLoop
  PROVE  Engine'
<1>1. display \in DisplayFields /\ pipe \in Seq(Commands)
  BY DEF Inv, TypeOK, PipeOK
<1>2. CASE Video
  <2>1. CASE FrameDone
    BY <1>1, <2>1 DEF Inv, Engine, Awaiting, Alive, FrameDone, DisplayFields
  <2>2. CASE LiveFrame
    BY <1>1, <2>2 DEF Inv, Engine, Awaiting, Alive, LiveFrame, DisplayFields
  <2>3. CASE Capture \/ Encode
    BY <2>3 DEF Inv, Engine, Awaiting, Alive, Capture, Encode
  <2> QED BY <1>2, <2>1, <2>2, <2>3 DEF Video
<1>3. ASSUME NEW c, pipe' = pipe \/ pipe' = Written(pipe, c),
             UNCHANGED <<playstate, thread, display>>
      PROVE  Engine'
  BY <1>1, <1>3, WrittenNonEmpty DEF Inv, Engine, Awaiting, Alive
<1>4. CASE DBusThread
  <2>1. CASE \E position \in Positions, rate \in Rates, loopcount \in Loopcounts :
               Playing(position, rate, loopcount)
    BY <1>3, <2>1 DEF Playing, cam_video_playback, SetupPlayback
  <2>2. CASE StoreRange \/ StorePosition \/ WriteSeek
    BY <1>3, <2>2 DEF StoreRange, StorePosition, WriteSeek
  <2>3. CASE cam_video_livedisplay \/ cam_video_flush \/ cam_generic_setter
    BY <1>3, <2>3 DEF cam_video_livedisplay, cam_video_flush, cam_generic_setter
  <2> QED BY <1>4, <2>1, <2>2, <2>3 DEF DBusThread
<1>5. CASE Signals
  BY <1>3, <1>5 DEF Signals, SignalSeek, SignalPosition, SignalLive
<1>6. CASE MainLoop
  <2>1. ASSUME NEW mode, NEW first, StartPipeline(mode, first)
        PROVE  Engine'
    BY <2>1 DEF Inv, Engine, StartPipeline
  <2>2. CASE SourcePlaying
    <3>1. Written(pipe, Delay) \in Seq(Commands)
      BY WrittenType, CommandTypes DEF Inv, TypeOK, PipeOK
    <3>2. pipe # <<>> => /\ Written(pipe, Delay) # <<>>
                        /\ \A c : Written(Written(pipe, Delay), c) # <<>>
      BY <1>1, <3>1, WrittenNonEmpty
    <3>3. pipe # <<>> => pipe' # <<>>
      BY <2>2, <3>2 DEF SourcePlaying, Inv, TypeOK
    <3> QED BY <2>2, <3>3 DEF Inv, Engine, Awaiting, Alive, SourcePlaying
  <2>3. CASE EndOfStream \/ LiveRecordingFails
    BY <2>3 DEF Inv, Engine, EndOfStream, LiveRecordingFails
  <2>4. CASE Teardown
    BY <1>3, <2>4 DEF Teardown
  <2>5. CASE playback_cleanup
    BY <1>3, <2>5 DEF playback_cleanup
  <2> QED BY <1>6, <2>1, <2>2, <2>3, <2>4, <2>5 DEF MainLoop
<1> QED BY <1>2, <1>4, <1>5, <1>6

LEMMA InitInv == Init => Inv
BY InitType DEF Inv, Engine, Init, AtPoll

LEMMA NextInv == Inv /\ [Next]_vars => Inv'
<1> SUFFICES ASSUME Inv, [Next]_vars PROVE Inv'
  OBVIOUS
<1>1. TypeOK'
  BY NextType
<1>2. Engine'
  <2>1. CASE UNCHANGED vars
    BY <2>1 DEF Inv, Engine, Awaiting, Alive, vars
  <2>2. CASE Next
    BY <2>2, ThreadEngine, OtherEngine DEF Next
  <2> QED BY <2>1, <2>2
<1> QED BY <1>1, <1>2 DEF Inv

LEMMA InvHolds == Spec => []Inv
<1> QED BY InitInv, NextInv, PTL DEF Spec

(* Whatever is asked of the engine and in whatever order, seeks lead to    *)
(* natural numbers, ranges stay natural numbers and the pipe holds commands*)
(* (playback_frame_seek, playback_thread).                                 *)
THEOREM TypeCorrect == Spec => []TypeOK
<1>1. Inv => TypeOK
  BY DEF Inv
<1> QED BY <1>1, InvHolds, PTL

(* The engine never goes to sleep in playback or in a save without a frame *)
(* on its way, for any number of commands, signals, pauses and restarts.   *)
THEOREM EngineAlive == Spec => []NeverStarves
<1>1. Inv => NeverStarves
  BY DEF Inv, Engine, Awaiting, Alive, NeverStarves
<1> QED BY <1>1, InvHolds, PTL
-----------------------------------------------------------------------------
(***************************************************************************)
(* No frame is dropped.  In a save one thing at a time goes round: a frame *)
(* is being read out, or its edge waits or was taken, or the thread is     *)
(* bound to render the next (OneRound).  So at most two frames are ahead   *)
(* of the level when it is looked at, and the level at which the thread    *)
(* does not wait is three (Buffers).  A save begins with all buffers free, *)
(* because its preroll comes once its source plays (OnePreroll).           *)
(***************************************************************************)
Bound ==
  \/ thread.pc \in {"wait", "render", "sample"}
  \/ thread.pc \in {"load", "store"} /\ thread.after \in {"render", "sample"}

Edged == thread.pc = "fsync" \/ (thread.pc \in {"read", "apply"} /\ thread.edge)

OneRound ==
  playstate = "filesave" =>
    /\ thread.pc \in {"load", "store"} => thread.after \in {"render", "sample"}
    /\ save.preroll = 3 => thread.pc = "fsync"
    /\ save.preroll # 3 =>
         /\ display.irq => display.sync = "none"
         /\ Edged => display.irq
         /\ Bound => ~display.irq /\ display.sync = "none" /\ save.preroll = 0

Taken == IF source.inflight = "none" THEN 0 ELSE 1

(* The level is that of a wait, which the thread did not look at again.    *)
Waited ==
  \/ thread.pc = "render"
  \/ thread.pc \in {"load", "store"} /\ thread.after = "render"

Buffers ==
  /\ source.inflight # "none" => source.state # "off"
  /\ source.inflight = "frame" => source.free >= 1
  /\ playstate = "filesave" /\ source.state # "off" =>
       /\ display.sync = "frame" => source.free >= 1 + Taken
       /\ save.preroll = 0 =>
            /\ display.sync # "none" => source.free >= save.level - 1 + Taken
            /\ display.sync = "none" /\ ~Bound => source.free >= save.level - 2 + Taken
            /\ Bound /\ thread.pc # "wait" => source.free >= 1 + Taken
            /\ Waited => source.free >= save.level - 1 + Taken

AllFree == source.free = NumBuffers /\ source.inflight = "none"

(* The prerolls to come: one the thread read, those in the pipe.           *)
Applying == thread.pc = "apply" /\ thread.cmd = Preroll

Queued == \E i \in 1 .. Len(pipe) : pipe[i] = Preroll

QueuedOnce == \A i, j \in 1 .. Len(pipe) : pipe[i] = Preroll /\ pipe[j] = Preroll => i = j

OnePreroll ==
  /\ Applying \/ Queued =>
       /\ playstate # "filesave" /\ source.state # "ready"
       /\ source.state # "off" => AllFree
       /\ QueuedOnce /\ ~(Applying /\ Queued)
  /\ source.state = "ready" => ~Applying /\ ~Queued /\ playstate # "filesave" /\ AllFree

SaveInv ==
  /\ OneRound
  /\ ~source.late => Buffers /\ OnePreroll /\ ~source.dropped

-----------------------------------------------------------------------------
(* What each step does to the fields that the invariant is about.          *)
LEMMA ThreadMoves ==
  ASSUME Inv
  PROVE  /\ Poll => /\ thread.pc = "poll" /\ UNCHANGED <<playstate, pipe, save, display, source>>
                    /\ \/ thread'.pc = "read" /\ thread'.edge = display.irq
                       \/ thread'.pc = "fsync" /\ display.irq
         /\ Timeout => /\ UNCHANGED <<playstate, pipe, save, display, source>>
                       /\ thread.pc = "poll" /\ thread'.pc = "poll"
         /\ ReadCommand =>
              /\ thread.pc = "read" /\ UNCHANGED <<playstate, save, display, source>>
              /\ \/ thread'.pc \in {"done", "poll"}
                 \/ thread'.pc = "fsync" /\ thread.edge
                 \/ thread'.pc = "apply" /\ thread'.edge = thread.edge /\ thread'.cmd = Head(pipe)
         /\ ApplyPreroll =>
              /\ Applying /\ playstate' = "filesave" /\ UNCHANGED <<pipe, source>>
              /\ display'.sync = display.sync
              /\ thread'.pc = "fsync" /\ save'.preroll = 3
         /\ ApplyLive \/ ApplySeek =>
              /\ playstate' # "filesave" /\ UNCHANGED <<pipe, source>> /\ thread'.pc # "apply"
         /\ SeekLoad \/ SeekStore =>
              /\ thread.pc \in {"load", "store"} /\ UNCHANGED <<playstate, save, display, source>>
              /\ \/ thread'.pc = "store" /\ thread'.after = thread.after
                 \/ thread'.pc = thread.after
         /\ FsyncIdle \/ FsyncPlay =>
              /\ playstate # "filesave" /\ UNCHANGED <<playstate, pipe, source>>
              /\ thread'.pc # "apply"
<1>1. thread \in ThreadLocals /\ save \in Levels /\ display \in DisplayFields
  BY DEF Inv, TypeOK
<1>2. Poll => /\ thread.pc = "poll" /\ UNCHANGED <<playstate, pipe, save, display, source>>
              /\ \/ thread'.pc = "read" /\ thread'.edge = display.irq
                 \/ thread'.pc = "fsync" /\ display.irq
  BY <1>1 DEF Poll, ThreadLocals
<1>3. Timeout => /\ UNCHANGED <<playstate, pipe, save, display, source>>
                 /\ thread.pc = "poll" /\ thread'.pc = "poll"
  BY DEF Timeout, AtPoll
<1>4. ReadCommand =>
        /\ thread.pc = "read" /\ UNCHANGED <<playstate, save, display, source>>
        /\ \/ thread'.pc \in {"done", "poll"}
           \/ thread'.pc = "fsync" /\ thread.edge
           \/ thread'.pc = "apply" /\ thread'.edge = thread.edge /\ thread'.cmd = Head(pipe)
  <2>1. \/ CommandDone(thread.edge).pc = "poll"
        \/ CommandDone(thread.edge).pc = "fsync" /\ thread.edge
    BY DEF CommandDone, AtPoll
  <2>2. [AtPoll(thread.watchdog) EXCEPT !.pc = "done"].pc = "done"
    BY DEF AtPoll
  <2>3. LET t == [thread EXCEPT !.pc = "apply", !.cmd = Head(pipe)]
        IN  t.pc = "apply" /\ t.cmd = Head(pipe) /\ t.edge = thread.edge
    BY <1>1 DEF ThreadLocals
  <2> QED BY <2>1, <2>2, <2>3 DEF ReadCommand
<1>5. ApplyPreroll =>
        /\ Applying /\ playstate' = "filesave" /\ UNCHANGED <<pipe, source>>
        /\ display'.sync = display.sync
        /\ thread'.pc = "fsync" /\ save'.preroll = 3
  BY <1>1 DEF ApplyPreroll, Applying, CommandDone, AtPoll, Levels, DisplayFields
<1>6. ApplyLive \/ ApplySeek =>
        /\ playstate' # "filesave" /\ UNCHANGED <<pipe, source>> /\ thread'.pc # "apply"
  <2>1. CommandDone(thread.edge).pc # "apply" /\ \A e : SeekStep(e).pc = "load"
    BY <1>1 DEF CommandDone, AtPoll, SeekStep, ThreadLocals
  <2> QED BY <2>1 DEF ApplyLive, ApplySeek
<1>7. SeekLoad \/ SeekStore =>
        /\ thread.pc \in {"load", "store"} /\ UNCHANGED <<playstate, save, display, source>>
        /\ \/ thread'.pc = "store" /\ thread'.after = thread.after
           \/ thread'.pc = thread.after
  BY <1>1 DEF SeekLoad, SeekStore, AtPoll, ThreadLocals
<1>8. FsyncIdle \/ FsyncPlay =>
        /\ playstate # "filesave" /\ UNCHANGED <<playstate, pipe, source>>
        /\ thread'.pc # "apply"
  <2>1. FsyncIdle => thread'.pc = "poll"
    BY DEF FsyncIdle, AtPoll
  <2>2. FsyncPlay => thread'.pc = "load"
    BY DEF FsyncPlay, AtPoll
  <2> QED BY <2>1, <2>2 DEF FsyncIdle, FsyncPlay
<1> QED BY <1>2, <1>3, <1>4, <1>5, <1>6, <1>7, <1>8

LEMMA SaveMoves ==
  ASSUME Inv
  PROVE  /\ FsyncPreroll =>
              /\ playstate' = playstate /\ UNCHANGED <<pipe, source>>
              /\ thread'.pc = "poll" /\ ~display'.irq /\ display'.sync = "preroll"
              /\ save.preroll \in 1 .. 3 /\ save'.preroll = save.preroll - 1
              /\ save.preroll = 1 /\ source.state # "off" => save'.level = source.free
         /\ FsyncSave =>
              /\ playstate = "filesave" /\ save.preroll = 0 /\ thread.pc = "fsync"
              /\ UNCHANGED <<playstate, pipe, save, source>>
              /\ ~display'.irq /\ display'.sync = display.sync
              /\ \/ save.level > 2 /\ thread'.pc = "load" /\ thread'.after = "sample"
                 \/ thread'.pc = "wait" /\ thread'.after = "render"
         /\ WaitForBuffers =>
              /\ UNCHANGED <<playstate, pipe, display, source>>
              /\ thread.pc = "wait" /\ thread'.pc = "load" /\ thread'.after = "render"
              /\ save'.preroll = save.preroll
              /\ source.state # "off" => source.free > 1 /\ save'.level = source.free
         /\ playback_frame_render =>
              /\ UNCHANGED <<playstate, pipe, source>>
              /\ thread'.pc = "poll" /\ display'.irq = display.irq /\ display'.sync = "frame"
              /\ save'.preroll = save.preroll
              /\ \/ thread.pc = "render" /\ save' = save
                 \/ thread.pc = "sample" /\ (source.state # "off" => save'.level = source.free)
<1>1. thread \in ThreadLocals /\ save \in Levels /\ display \in DisplayFields
  BY DEF Inv, TypeOK
<1>2. ASSUME FsyncPreroll
      PROVE  /\ playstate' = playstate /\ UNCHANGED <<pipe, source>>
             /\ thread'.pc = "poll" /\ ~display'.irq /\ display'.sync = "preroll"
             /\ save.preroll \in 1 .. 3 /\ save'.preroll = save.preroll - 1
             /\ save.preroll = 1 /\ source.state # "off" => save'.level = source.free
  <2>1. ~display'.irq /\ display'.sync = "preroll"
    BY <1>1, <1>2 DEF FsyncPreroll, Acknowledged, DisplayFields
  <2>2. save.preroll \in 1 .. 3
    BY <1>1, <1>2 DEF FsyncPreroll, Levels
  <2> QED BY <1>2, <2>1, <2>2 DEF FsyncPreroll, AtPoll, Sampled
<1>3. ASSUME FsyncSave
      PROVE  /\ playstate = "filesave" /\ save.preroll = 0 /\ thread.pc = "fsync"
             /\ UNCHANGED <<playstate, pipe, save, source>>
             /\ ~display'.irq /\ display'.sync = display.sync
             /\ \/ save.level > 2 /\ thread'.pc = "load" /\ thread'.after = "sample"
                \/ thread'.pc = "wait" /\ thread'.after = "render"
  <2>1. ~display'.irq /\ display'.sync = display.sync
    BY <1>1, <1>3 DEF FsyncSave, Acknowledged, DisplayFields
  <2>2. \/ save.level > 2 /\ thread'.pc = "load" /\ thread'.after = "sample"
        \/ thread'.pc = "wait" /\ thread'.after = "render"
    BY <1>3 DEF FsyncSave, AtPoll
  <2> QED BY <1>3, <2>1, <2>2 DEF FsyncSave
<1>4. ASSUME WaitForBuffers
      PROVE  /\ UNCHANGED <<playstate, pipe, display, source>>
             /\ thread.pc = "wait" /\ thread'.pc = "load" /\ thread'.after = "render"
             /\ save'.preroll = save.preroll
             /\ source.state # "off" => source.free > 1 /\ save'.level = source.free
  BY <1>1, <1>4 DEF WaitForBuffers, Inv, Engine, ThreadLocals, Levels
<1>5. ASSUME playback_frame_render
      PROVE  /\ UNCHANGED <<playstate, pipe, source>>
             /\ thread'.pc = "poll" /\ display'.irq = display.irq /\ display'.sync = "frame"
             /\ save'.preroll = save.preroll
             /\ \/ thread.pc = "render" /\ save' = save
                \/ thread.pc = "sample" /\ (source.state # "off" => save'.level = source.free)
  BY <1>1, <1>5 DEF playback_frame_render, AtPoll, DisplayFields, Levels
<1> QED BY <1>2, <1>3, <1>4, <1>5

-----------------------------------------------------------------------------
(* One thing at a time goes round in a save.                               *)
LEMMA ThreadRound ==
  ASSUME Inv, OneRound, ThreadStep
  PROVE  OneRound'
<1>1. thread.after \in {"poll", "fsync", "render", "sample"} /\ save.preroll \in 0 .. 3
  BY ThreadFields DEF Inv, TypeOK, Levels
<1>2. thread.pc = "read" => pipe # <<>>
  BY DEF Inv, Engine
<1>3. CASE Poll \/ Timeout
  BY <1>3, ThreadMoves DEF OneRound, Bound, Edged
<1>4. CASE ReadCommand
  BY <1>4, ThreadMoves DEF OneRound, Bound, Edged
<1>5. CASE ApplyPreroll
  BY <1>5, ThreadMoves DEF OneRound, Bound, Edged
<1>6. CASE ApplyLive \/ ApplySeek
  BY <1>6, ThreadMoves DEF OneRound
<1>7. CASE SeekLoad \/ SeekStore
  BY <1>1, <1>7, ThreadMoves DEF OneRound, Bound, Edged
<1>8. CASE FsyncIdle \/ FsyncPlay
  BY <1>8, ThreadMoves DEF OneRound
<1>9. CASE FsyncPreroll
  BY <1>1, <1>9, SaveMoves DEF OneRound, Bound, Edged
<1>10. CASE FsyncSave
  BY <1>10, SaveMoves DEF OneRound, Bound, Edged
<1>11. CASE WaitForBuffers
  BY <1>11, SaveMoves DEF OneRound, Bound, Edged
<1>12. CASE playback_frame_render
  BY <1>12, SaveMoves DEF OneRound, Bound, Edged, playback_frame_render
<1> QED
  BY <1>3, <1>4, <1>5, <1>6, <1>7, <1>8, <1>9, <1>10, <1>11, <1>12 DEF ThreadStep

(* The display, the source, and the callers and the main loop.             *)
LEMMA VideoMoves ==
  ASSUME Inv
  PROVE  /\ FrameDone =>
              /\ UNCHANGED <<playstate, pipe, thread, save>>
              /\ display.sync # "none" /\ source.inflight = "none"
              /\ display'.irq /\ display'.sync = "none"
              /\ source'.state = source.state /\ source'.free = source.free
              /\ source'.late = source.late /\ source'.dropped = source.dropped
              /\ source'.inflight = IF playstate = "filesave" /\ source.state # "off"
                                    THEN display.sync ELSE "none"
         /\ LiveFrame =>
              /\ playstate = "live" /\ UNCHANGED <<playstate, pipe, thread, save, source>>
         /\ Capture =>
              /\ UNCHANGED <<playstate, pipe, thread, save, display>>
              /\ source.inflight # "none" /\ source'.inflight = "none"
              /\ source'.state = source.state /\ source'.late = source.late
              /\ \/ source.free = 0 /\ source'.free = 0
                    /\ (source'.dropped <=> source.dropped \/ source.inflight = "frame")
                 \/ source.free # 0 /\ source'.free = source.free - 1
                    /\ source'.dropped = source.dropped
         /\ Encode =>
              /\ UNCHANGED <<playstate, pipe, thread, save, display>>
              /\ source.state # "off" /\ source.free < NumBuffers
              /\ source'.free = source.free + 1
              /\ source'.state = source.state /\ source'.inflight = source.inflight
              /\ source'.late = source.late /\ source'.dropped = source.dropped
<1>1. display \in DisplayFields /\ source \in SourceFields
  BY DEF Inv, TypeOK
<1>2. ASSUME FrameDone
      PROVE  /\ UNCHANGED <<playstate, pipe, thread, save>>
             /\ display.sync # "none" /\ source.inflight = "none"
             /\ display'.irq /\ display'.sync = "none"
             /\ source'.state = source.state /\ source'.free = source.free
             /\ source'.late = source.late /\ source'.dropped = source.dropped
             /\ source'.inflight = IF playstate = "filesave" /\ source.state # "off"
                                   THEN display.sync ELSE "none"
  <2>1. display'.irq /\ display'.sync = "none"
    BY <1>1, <1>2 DEF FrameDone, DisplayFields
  <2>2. CASE playstate = "filesave" /\ source.state # "off"
    BY <1>1, <1>2, <2>1, <2>2 DEF FrameDone, SourceFields
  <2>3. CASE ~(playstate = "filesave" /\ source.state # "off")
    BY <1>1, <1>2, <2>1, <2>3 DEF FrameDone
  <2> QED BY <2>2, <2>3
<1>3. LiveFrame => playstate = "live" /\ UNCHANGED <<playstate, pipe, thread, save, source>>
  BY DEF LiveFrame
<1>4. ASSUME Capture
      PROVE  /\ UNCHANGED <<playstate, pipe, thread, save, display>>
             /\ source.inflight # "none" /\ source'.inflight = "none"
             /\ source'.state = source.state /\ source'.late = source.late
             /\ \/ source.free = 0 /\ source'.free = 0
                   /\ (source'.dropped <=> source.dropped \/ source.inflight = "frame")
                \/ source.free # 0 /\ source'.free = source.free - 1
                   /\ source'.dropped = source.dropped
  <2>1. CASE source.free = 0
    BY <1>1, <1>4, <2>1 DEF Capture, SourceFields
  <2>2. CASE source.free # 0
    BY <1>1, <1>4, <2>2 DEF Capture, SourceFields
  <2> QED BY <2>1, <2>2
<1>5. Encode =>
        /\ UNCHANGED <<playstate, pipe, thread, save, display>>
        /\ source.state # "off" /\ source.free < NumBuffers
        /\ source'.free = source.free + 1
        /\ source'.state = source.state /\ source'.inflight = source.inflight
        /\ source'.late = source.late /\ source'.dropped = source.dropped
  BY <1>1 DEF Encode, SourceFields
<1> QED BY <1>2, <1>3, <1>4, <1>5

(* The callers, the signals and the end of the program write to the pipe,  *)
(* never a preroll, and change nothing else that the invariant is about.   *)
WritesCommand ==
  /\ pipe' = pipe \/ \E c \in Commands \ {Preroll} : pipe' = Written(pipe, c)
  /\ UNCHANGED <<playstate, thread, save, display, source>>

LEMMA CallerMoves ==
  ASSUME DBusThread \/ Signals \/ playback_cleanup
  PROVE  WritesCommand
<1>1. /\ Live \in Commands \ {Preroll} /\ Flush \in Commands \ {Preroll}
      /\ Exit \in Commands \ {Preroll}
      /\ \A d \in Int : Seek(d) \in Commands \ {Preroll}
  BY CommandTypes DEF Live, Flush, Exit, Seek, Preroll
<1>2. Deltas \subseteq Int
  BY PlaybackAssumption
<1>3. CASE DBusThread
  <2>1. ASSUME NEW position, NEW rate, NEW loopcount, Playing(position, rate, loopcount)
        PROVE  WritesCommand
    BY <2>1 DEF WritesCommand, Playing, cam_video_playback, SetupPlayback
  <2>2. CASE StoreRange \/ StorePosition \/ cam_generic_setter
    BY <2>2 DEF WritesCommand, StoreRange, StorePosition, cam_generic_setter
  <2>3. CASE WriteSeek \/ cam_video_livedisplay \/ cam_video_flush
    BY <1>1, <2>3 DEF WritesCommand, WriteSeek, cam_video_livedisplay, cam_video_flush
  <2> QED BY <1>3, <2>1, <2>2, <2>3 DEF DBusThread
<1>4. CASE Signals
  <2>1. ASSUME NEW delta \in Deltas, SignalSeek(delta)
        PROVE  WritesCommand
    <3>1. Seek(delta) \in Commands \ {Preroll}
      BY <1>1, <1>2
    <3> QED BY <2>1, <3>1 DEF WritesCommand, SignalSeek
  <2>2. ASSUME NEW position, SignalPosition(position)
        PROVE  WritesCommand
    <3>1. Seek(0) \in Commands \ {Preroll}
      BY <1>1
    <3> QED BY <2>2, <3>1 DEF WritesCommand, SignalPosition
  <2>3. CASE SignalLive
    BY <1>1, <2>3 DEF WritesCommand, SignalLive
  <2> QED BY <1>4, <2>1, <2>2, <2>3 DEF Signals
<1>5. CASE playback_cleanup
  BY <1>1, <1>5 DEF WritesCommand, playback_cleanup
<1> QED BY <1>3, <1>4, <1>5

LEMMA MainLoopMoves ==
  ASSUME Inv
  PROVE  /\ \A mode, first : StartPipeline(mode, first) =>
              /\ playstate' = "pause" /\ UNCHANGED <<pipe, thread, save>>
              /\ source'.state = "ready" /\ source'.free = NumBuffers
              /\ source'.inflight = "none" /\ source'.dropped = source.dropped
              /\ (source'.late <=> source.late \/ Applying \/ Queued)
         /\ SourcePlaying =>
              /\ UNCHANGED <<playstate, thread, save, display>>
              /\ source.state = "ready" /\ source'.state = "playing"
              /\ source'.free = source.free /\ source'.inflight = source.inflight
              /\ source'.late = source.late /\ source'.dropped = source.dropped
         /\ EndOfStream \/ LiveRecordingFails =>
              /\ playstate' # "filesave" /\ UNCHANGED <<pipe, thread>>
              /\ source.state = "playing" /\ source'.state = "ended"
              /\ source'.free = source.free /\ source'.inflight = source.inflight
              /\ source'.late = source.late /\ source'.dropped = source.dropped
         /\ Teardown =>
              /\ UNCHANGED <<playstate, pipe, thread, save, display>>
              /\ source'.state = "off" /\ source'.inflight = "none"
              /\ source'.free = source.free
              /\ source'.late = source.late /\ source'.dropped = source.dropped
<1>1. source \in SourceFields
  BY DEF Inv, TypeOK
<1>2. ASSUME NEW mode, NEW first, StartPipeline(mode, first)
      PROVE  /\ playstate' = "pause" /\ UNCHANGED <<pipe, thread, save>>
             /\ source'.state = "ready" /\ source'.free = NumBuffers
             /\ source'.inflight = "none" /\ source'.dropped = source.dropped
             /\ (source'.late <=> source.late \/ Applying \/ Queued)
  <2>1. PrerollWaits <=> Applying \/ Queued
    BY DEF PrerollWaits, Applying, Queued
  <2>2. source'.late <=> source.late \/ PrerollWaits
    BY <1>1, <1>2 DEF StartPipeline, SourceFields
  <2> QED BY <1>1, <1>2, <2>1, <2>2 DEF StartPipeline, SourceFields
<1>3. SourcePlaying =>
        /\ UNCHANGED <<playstate, thread, save, display>>
        /\ source.state = "ready" /\ source'.state = "playing"
        /\ source'.free = source.free /\ source'.inflight = source.inflight
        /\ source'.late = source.late /\ source'.dropped = source.dropped
  BY <1>1 DEF SourcePlaying, SourceFields
<1>4. EndOfStream \/ LiveRecordingFails =>
        /\ playstate' # "filesave" /\ UNCHANGED <<pipe, thread>>
        /\ source.state = "playing" /\ source'.state = "ended"
        /\ source'.free = source.free /\ source'.inflight = source.inflight
        /\ source'.late = source.late /\ source'.dropped = source.dropped
  BY <1>1 DEF EndOfStream, LiveRecordingFails, SourceFields
<1>5. Teardown =>
        /\ UNCHANGED <<playstate, pipe, thread, save, display>>
        /\ source'.state = "off" /\ source'.inflight = "none"
        /\ source'.free = source.free
        /\ source'.late = source.late /\ source'.dropped = source.dropped
  BY <1>1 DEF Teardown, SourceFields
<1> QED BY <1>2, <1>3, <1>4, <1>5

LEMMA OtherRound ==
  ASSUME Inv, OneRound, Video \/ DBusThread \/ Signals \/ MainLoop
  PROVE  OneRound'
<1>1. CASE Video
  BY <1>1, VideoMoves DEF Video, OneRound, Bound, Edged
<1>2. CASE DBusThread \/ Signals \/ playback_cleanup
  BY <1>2, CallerMoves DEF WritesCommand, OneRound, Bound, Edged
<1>3. CASE SourcePlaying \/ Teardown
  BY <1>3, MainLoopMoves DEF OneRound, Bound, Edged
<1>4. ASSUME NEW mode, NEW first, StartPipeline(mode, first)
      PROVE  OneRound'
  BY <1>4, MainLoopMoves DEF OneRound
<1>5. CASE EndOfStream \/ LiveRecordingFails
  BY <1>5, MainLoopMoves DEF OneRound
<1> QED BY <1>1, <1>2, <1>3, <1>4, <1>5 DEF MainLoop

-----------------------------------------------------------------------------
(* One preroll at a time.                                                  *)
LEMMA WrittenKeepsPrerolls ==
  ASSUME Inv, pipe' = pipe \/ \E c \in Commands \ {Preroll} : pipe' = Written(pipe, c)
  PROVE  (Queued' => Queued) /\ (QueuedOnce => QueuedOnce')
<1>1. pipe \in Seq(Commands)
  BY DEF Inv, TypeOK, PipeOK
<1>2. CASE pipe' = pipe
  BY <1>2 DEF Queued, QueuedOnce
<1>3. ASSUME NEW c \in Commands \ {Preroll}, pipe' = Append(pipe, c)
      PROVE  (Queued' => Queued) /\ (QueuedOnce => QueuedOnce')
  <2>1. /\ Len(pipe') = Len(pipe) + 1 /\ Len(pipe) \in Nat
        /\ \A i \in 1 .. Len(pipe) : pipe'[i] = pipe[i]
        /\ pipe'[Len(pipe) + 1] # Preroll
    BY <1>1, <1>3
  <2>2. \A i \in 1 .. Len(pipe') : pipe'[i] = Preroll => i \in 1 .. Len(pipe) /\ pipe[i] = Preroll
    BY <2>1
  <2> QED BY <2>2 DEF Queued, QueuedOnce
<1> QED BY <1>2, <1>3 DEF Written

LEMMA WrittenQueuesOne ==
  ASSUME Inv, ~Queued, NEW p \in Seq(Commands), p = Written(pipe, Delay),
         pipe' = p \/ \E c \in Commands : pipe' = Written(p, c)
  PROVE  QueuedOnce'
<1>1. pipe \in Seq(Commands) /\ Delay # Preroll /\ Delay \in Commands
  BY CommandTypes DEF Inv, TypeOK, PipeOK, Delay, Preroll
<1>2. \A i \in 1 .. Len(pipe) : pipe[i] # Preroll
  BY DEF Queued
<1>3. Len(p) \in Nat /\ \A i \in 1 .. Len(p) : p[i] # Preroll
  <2>1. CASE p = pipe
    BY <1>1, <1>2, <2>1
  <2>2. CASE p = Append(pipe, Delay)
    BY <1>1, <1>2, <2>2
  <2> QED BY <2>1, <2>2 DEF Written
<1>4. CASE pipe' = p
  BY <1>3, <1>4 DEF QueuedOnce
<1>5. ASSUME NEW c \in Commands, pipe' = Append(p, c)
      PROVE  QueuedOnce'
  <2>1. Len(pipe') = Len(p) + 1 /\ \A i \in 1 .. Len(p) : pipe'[i] = p[i]
    BY <1>5
  <2>2. \A i \in 1 .. Len(pipe') : pipe'[i] = Preroll => i = Len(p) + 1
    BY <1>3, <2>1
  <2> QED BY <2>2 DEF QueuedOnce
<1> QED BY <1>4, <1>5 DEF Written

LEMMA ReadPreroll ==
  ASSUME Inv, OnePreroll, ReadCommand
  PROVE  OnePreroll'
<1>1. /\ pipe \in Seq(Commands) /\ pipe # <<>> /\ thread.pc = "read"
      /\ pipe' = Tail(pipe) /\ UNCHANGED <<playstate, source>>
  BY DEF Inv, TypeOK, PipeOK, Engine, ReadCommand
<1>2. /\ Len(pipe) \in Nat /\ Len(pipe) >= 1 /\ Len(pipe') = Len(pipe) - 1
      /\ \A i \in 1 .. Len(pipe') : pipe'[i] = pipe[i + 1] /\ i + 1 \in 1 .. Len(pipe)
      /\ Head(pipe) = pipe[1] /\ 1 \in 1 .. Len(pipe)
  BY <1>1
<1>3. (Queued' => Queued) /\ (QueuedOnce => QueuedOnce')
  BY <1>2 DEF Queued, QueuedOnce
<1>4. QueuedOnce /\ Head(pipe) = Preroll => ~Queued'
  BY <1>2 DEF Queued, QueuedOnce
<1>5. Applying' => Head(pipe) = Preroll
  BY ThreadMoves DEF Applying
<1>6. Head(pipe) = Preroll => Queued
  BY <1>2 DEF Queued
<1>7. ~Applying
  BY <1>1 DEF Applying
<1> QED BY <1>1, <1>3, <1>4, <1>5, <1>6, <1>7 DEF OnePreroll, AllFree

LEMMA ThreadPreroll ==
  ASSUME Inv, OnePreroll, ThreadStep
  PROVE  OnePreroll'
<1>1. CASE ReadCommand
  BY <1>1, ReadPreroll
<1>2. CASE ApplyPreroll
  <2>1. ~Applying' /\ ~Queued'
    BY <1>2, ThreadMoves DEF OnePreroll, Applying, Queued
  <2> QED BY <1>2, <2>1, ThreadMoves DEF OnePreroll
<1>3. ASSUME ~Applying', playstate' = playstate \/ playstate' # "filesave", UNCHANGED source,
             pipe' = pipe \/ \E c \in Commands \ {Preroll} : pipe' = Written(pipe, c)
      PROVE  OnePreroll'
  BY <1>3, WrittenKeepsPrerolls DEF OnePreroll, AllFree
<1>4. CASE Poll \/ Timeout \/ ApplyLive \/ ApplySeek \/ FsyncIdle \/ FsyncPlay
  BY <1>3, <1>4, ThreadMoves DEF Applying
<1>5. CASE SeekLoad \/ SeekStore
  <2>1. Live \in Commands \ {Preroll}
    BY CommandTypes DEF Live, Preroll
  <2>2. thread.after # "apply"
    BY ThreadFields DEF Inv, TypeOK
  <2>3. ~Applying'
    BY <1>5, <2>2, ThreadMoves DEF Applying
  <2> QED BY <1>3, <1>5, <2>1, <2>3, ThreadMoves DEF SeekLoad, SeekStore
<1>6. CASE FsyncPreroll \/ FsyncSave \/ WaitForBuffers \/ playback_frame_render
  BY <1>3, <1>6, SaveMoves DEF Applying
<1> QED BY <1>1, <1>2, <1>4, <1>5, <1>6 DEF ThreadStep

LEMMA OtherPreroll ==
  ASSUME Inv, Buffers, OnePreroll, ~source'.late, Video \/ DBusThread \/ Signals \/ MainLoop
  PROVE  OnePreroll'
<1>1. source.free \in Nat /\ NumBuffers \in Nat
  BY PlaybackAssumption DEF Inv, TypeOK, SourceFields
<1>2. UNCHANGED pipe => (Queued' <=> Queued) /\ (QueuedOnce' <=> QueuedOnce)
  BY DEF Queued, QueuedOnce
<1>3. UNCHANGED thread => (Applying' <=> Applying)
  BY DEF Applying
<1>4. CASE FrameDone
  BY <1>2, <1>3, <1>4, VideoMoves DEF OnePreroll, AllFree
<1>5. CASE LiveFrame
  BY <1>2, <1>3, <1>5, VideoMoves DEF OnePreroll, AllFree
<1>6. CASE Capture
  BY <1>2, <1>3, <1>6, VideoMoves DEF Buffers, OnePreroll, AllFree
<1>7. CASE Encode
  BY <1>1, <1>2, <1>3, <1>7, VideoMoves DEF OnePreroll, AllFree
<1>8. CASE DBusThread \/ Signals \/ playback_cleanup
  BY <1>3, <1>8, CallerMoves, WrittenKeepsPrerolls DEF WritesCommand, OnePreroll, AllFree
<1>9. CASE SourcePlaying
  <2> DEFINE p == Written(pipe, Delay)
  <2>1. p \in Seq(Commands)
    BY WrittenType, CommandTypes DEF Inv, TypeOK, PipeOK
  <2>2. Live \in Commands /\ Seek(0) \in Commands /\ Preroll \in Commands
    BY CommandTypes
  <2>3. pipe' = p \/ \E c \in Commands : pipe' = Written(p, c)
    BY <1>9, <2>2 DEF SourcePlaying, Inv, TypeOK
  <2>4. ~Applying /\ ~Queued /\ playstate # "filesave" /\ AllFree
    BY <1>9 DEF SourcePlaying, OnePreroll
  <2> HIDE DEF p
  <2>5. QueuedOnce'
    BY <2>1, <2>3, <2>4, WrittenQueuesOne DEF p
  <2> QED BY <1>3, <1>9, <2>4, <2>5, MainLoopMoves DEF OnePreroll, AllFree
<1>10. CASE Teardown \/ EndOfStream \/ LiveRecordingFails
  BY <1>2, <1>3, <1>10, MainLoopMoves DEF OnePreroll, AllFree
<1>11. ASSUME NEW mode, NEW first, StartPipeline(mode, first)
       PROVE  OnePreroll'
  BY <1>2, <1>3, <1>11, MainLoopMoves DEF OnePreroll, AllFree
<1> QED
  BY <1>4, <1>5, <1>6, <1>7, <1>8, <1>9, <1>10, <1>11 DEF Video, MainLoop

-----------------------------------------------------------------------------
(* The frames on their way find a buffer.                                  *)
LEMMA SaveNumbers ==
  ASSUME Inv
  PROVE  /\ source.free \in Nat /\ save.level \in Nat /\ save.preroll \in 0 .. 3
         /\ source.inflight \in {"none", "preroll", "frame"}
         /\ display.sync \in {"none", "preroll", "frame"}
         /\ thread.after \in {"poll", "fsync", "render", "sample"}
         /\ Taken \in {0, 1}
BY ThreadFields DEF Inv, TypeOK, SourceFields, Levels, DisplayFields, Taken

LEMMA ThreadBuffers ==
  ASSUME Inv, OneRound, Buffers, OnePreroll, ThreadStep
  PROVE  Buffers'
<1>1. NumBuffers >= 1 /\ NumBuffers \in Nat
  BY PlaybackAssumption
<1>2. UNCHANGED source /\ Taken' = Taken
  BY DEF ThreadStep, Poll, Timeout, ReadCommand, ApplyPreroll, ApplyLive, ApplySeek, SeekLoad,
         SeekStore, FsyncIdle, FsyncPlay, FsyncPreroll, FsyncSave, WaitForBuffers,
         playback_frame_render, Taken
<1>3. CASE Poll \/ Timeout \/ ReadCommand
  <2>1. UNCHANGED <<playstate, save, display>> /\ ~Bound /\ ~Bound' /\ ~Waited'
    BY <1>3, ThreadMoves DEF Bound, Waited
  <2> QED BY <1>2, <2>1 DEF Buffers
<1>4. CASE ApplyPreroll
  <2>1. source.state # "off" => source.free = NumBuffers /\ Taken = 0
    BY <1>4, ThreadMoves DEF OnePreroll, AllFree, Taken
  <2>2. save'.preroll = 3
    BY <1>4, ThreadMoves
  <2> QED BY <1>1, <1>2, <2>1, <2>2 DEF Buffers
<1>5. CASE ApplyLive \/ ApplySeek \/ FsyncIdle \/ FsyncPlay
  <2>1. playstate' # "filesave"
    BY <1>5, ThreadMoves
  <2> QED BY <1>2, <2>1 DEF Buffers
<1>6. CASE SeekLoad \/ SeekStore
  <2>1. UNCHANGED <<playstate, save, display>>
    BY <1>6, ThreadMoves
  <2>2. playstate = "filesave" => Bound /\ thread.pc # "wait" /\ Bound' /\ (Waited' => Waited)
    BY <1>6, SaveNumbers, ThreadMoves DEF OneRound, Bound, Waited
  <2> QED BY <1>2, <2>1, <2>2 DEF Buffers
<1>7. CASE FsyncPreroll
  <2>1. ~Bound' /\ ~Waited' /\ UNCHANGED playstate /\ display'.sync = "preroll"
    BY <1>7, SaveMoves DEF Bound, Waited
  <2>2. save'.preroll = 0 /\ source.state # "off" => save'.level = source.free
    BY <1>7, SaveMoves
  <2> QED BY <1>2, <2>1, <2>2, SaveNumbers DEF Buffers
<1>8. CASE FsyncSave
  <2>1. /\ playstate = "filesave" /\ save.preroll = 0 /\ ~Bound /\ display.sync = "none"
        /\ UNCHANGED <<playstate, save>> /\ display'.sync = "none"
    BY <1>8, SaveMoves DEF OneRound, Bound, Edged
  <2>2. Bound' /\ ~Waited' /\ (thread'.pc # "wait" => save.level > 2)
    BY <1>8, SaveMoves DEF Bound, Waited
  <2> QED BY <1>2, <2>1, <2>2, SaveNumbers DEF Buffers
<1>9. CASE WaitForBuffers
  <2>1. /\ UNCHANGED <<playstate, display>> /\ Bound /\ Bound' /\ save'.preroll = save.preroll
        /\ source.state # "off" => source.free > 1 /\ save'.level = source.free
    BY <1>9, SaveMoves DEF Bound
  <2>2. playstate = "filesave" => display.sync = "none"
    BY <2>1, <1>9, SaveMoves DEF OneRound
  <2> QED BY <1>2, <2>1, <2>2, SaveNumbers DEF Buffers
<1>10. CASE playback_frame_render
  <2>1. /\ UNCHANGED playstate /\ Bound /\ ~Bound' /\ ~Waited' /\ display'.sync = "frame"
        /\ save'.preroll = save.preroll /\ thread.pc # "wait"
        /\ \/ Waited /\ save' = save
           \/ source.state # "off" => save'.level = source.free
    BY <1>10, SaveMoves DEF Bound, Waited
  <2>2. playstate = "filesave" => save.preroll = 0
    BY <2>1, SaveNumbers DEF OneRound, Bound
  <2> QED BY <1>2, <2>1, <2>2, SaveNumbers DEF Buffers
<1> QED
  BY <1>3, <1>4, <1>5, <1>6, <1>7, <1>8, <1>9, <1>10 DEF ThreadStep

LEMMA VideoBuffers ==
  ASSUME Inv, OneRound, Buffers, Video
  PROVE  Buffers' /\ (~source.dropped => ~source'.dropped)
<1>1. UNCHANGED thread => (Bound' <=> Bound) /\ (Waited' <=> Waited)
  BY DEF Bound, Waited
<1>2. Waited => Bound
  BY DEF Bound, Waited
<1>3. CASE FrameDone
  <2>1. /\ UNCHANGED <<playstate, thread, save>> /\ display'.sync = "none"
        /\ source'.state = source.state /\ source'.free = source.free
        /\ display.sync # "none" /\ Taken = 0
    BY <1>3, VideoMoves DEF Taken
  <2>2. CASE playstate = "filesave" /\ source.state # "off"
    <3>1. source'.inflight = display.sync /\ Taken' = 1
      BY <1>3, <2>2, VideoMoves DEF Taken
    <3>2. save.preroll = 0 => ~Bound
      BY <2>1, <2>2 DEF OneRound
    <3> QED BY <1>1, <1>2, <1>3, <2>1, <2>2, <3>1, <3>2, SaveNumbers, VideoMoves DEF Buffers
  <2>3. CASE ~(playstate = "filesave" /\ source.state # "off")
    BY <1>3, <2>1, <2>3, VideoMoves DEF Buffers
  <2> QED BY <2>2, <2>3
<1>4. CASE LiveFrame
  BY <1>4, VideoMoves DEF Buffers
<1>5. CASE Capture
  <2>1. /\ UNCHANGED <<playstate, thread, save, display>> /\ Taken = 1 /\ Taken' = 0
        /\ source'.state = source.state /\ source'.inflight = "none"
    BY <1>5, VideoMoves DEF Taken
  <2>2. source'.free >= source.free - 1 /\ source'.free \in Int
    BY <1>5, SaveNumbers, VideoMoves
  <2>3. ~source.dropped => ~source'.dropped
    BY <1>5, VideoMoves DEF Buffers
  <2>4. Buffers'
    <3> SUFFICES ASSUME playstate = "filesave", source.state # "off"
                 PROVE  /\ display.sync = "frame" => source'.free >= 1
                        /\ save.preroll = 0 =>
                             /\ display.sync # "none" => source'.free >= save.level - 1
                             /\ display.sync = "none" /\ ~Bound => source'.free >= save.level - 2
                             /\ Bound /\ thread.pc # "wait" => source'.free >= 1
                             /\ Waited => source'.free >= save.level - 1
      BY <1>1, <2>1, <2>2, SaveNumbers DEF Buffers
    <3> QED BY <2>1, <2>2, SaveNumbers DEF Buffers
  <2> QED BY <2>3, <2>4
<1>6. CASE Encode
  <2>1. /\ UNCHANGED <<playstate, thread, save, display>> /\ Taken' = Taken
        /\ source'.state = source.state /\ source'.inflight = source.inflight
        /\ source'.dropped = source.dropped /\ source'.free = source.free + 1
    BY <1>6, VideoMoves DEF Taken
  <2>2. Bound' = Bound /\ Waited' = Waited
    BY <2>1 DEF Bound, Waited
  <2> QED BY <2>1, <2>2, SaveNumbers DEF Buffers
<1> QED BY <1>3, <1>4, <1>5, <1>6 DEF Video

LEMMA OtherBuffers ==
  ASSUME Inv, OneRound, Buffers, OnePreroll, DBusThread \/ Signals \/ MainLoop
  PROVE  Buffers' /\ (~source.dropped => ~source'.dropped)
<1>1. UNCHANGED thread => (Bound' <=> Bound) /\ (Waited' <=> Waited)
  BY DEF Bound, Waited
<1>2. source'.inflight = source.inflight => Taken' = Taken
  BY DEF Taken
<1>3. CASE DBusThread \/ Signals \/ playback_cleanup
  BY <1>1, <1>2, <1>3, CallerMoves DEF WritesCommand, Buffers
<1>4. CASE SourcePlaying
  BY <1>1, <1>4, MainLoopMoves DEF OnePreroll, AllFree, Buffers
<1>5. CASE Teardown
  BY <1>5, MainLoopMoves DEF Buffers
<1>6. CASE EndOfStream \/ LiveRecordingFails
  BY <1>6, MainLoopMoves DEF Buffers
<1>7. ASSUME NEW mode, NEW first, StartPipeline(mode, first)
      PROVE  Buffers' /\ (~source.dropped => ~source'.dropped)
  BY <1>7, MainLoopMoves DEF Buffers
<1> QED BY <1>3, <1>4, <1>5, <1>6, <1>7 DEF MainLoop

-----------------------------------------------------------------------------
LEMMA InitSave == Init => SaveInv
BY PlaybackAssumption
   DEF Init, SaveInv, OneRound, Buffers, OnePreroll, QueuedOnce, Queued, Applying, AtPoll

(* late is never taken back.                                               *)
LEMMA LateStays ==
  ASSUME Inv, Next, ~source'.late
  PROVE  ~source.late
<1>1. ThreadStep => UNCHANGED source
  BY DEF ThreadStep, Poll, Timeout, ReadCommand, ApplyPreroll, ApplyLive, ApplySeek, SeekLoad,
         SeekStore, FsyncIdle, FsyncPlay, FsyncPreroll, FsyncSave, WaitForBuffers,
         playback_frame_render
<1>2. Video => source'.late = source.late
  BY VideoMoves DEF Video
<1>3. DBusThread \/ Signals \/ playback_cleanup => UNCHANGED source
  BY CallerMoves DEF WritesCommand
<1>4. MainLoop => ~source.late
  BY <1>3, MainLoopMoves DEF MainLoop
<1> QED BY <1>1, <1>2, <1>3, <1>4 DEF Next

LEMMA NextSave == Inv /\ SaveInv /\ [Next]_vars => SaveInv'
<1> SUFFICES ASSUME Inv, SaveInv, [Next]_vars PROVE SaveInv'
  OBVIOUS
<1>1. CASE UNCHANGED vars
  BY <1>1 DEF vars, SaveInv, OneRound, Bound, Edged, Buffers, Taken, Waited, OnePreroll, AllFree,
              Applying, Queued, QueuedOnce
<1>2. CASE Next
  <2>1. OneRound'
    BY <1>2, ThreadRound, OtherRound DEF SaveInv, Next
  <2>2. ASSUME ~source'.late
        PROVE  Buffers' /\ OnePreroll' /\ ~source'.dropped
    <3>1. ~source.late /\ OneRound /\ Buffers /\ OnePreroll /\ ~source.dropped
      BY <1>2, <2>2, LateStays DEF SaveInv
    <3>2. CASE ThreadStep
      <4>1. UNCHANGED source
        BY <3>2 DEF ThreadStep, Poll, Timeout, ReadCommand, ApplyPreroll, ApplyLive, ApplySeek,
             SeekLoad, SeekStore, FsyncIdle, FsyncPlay, FsyncPreroll, FsyncSave, WaitForBuffers,
             playback_frame_render
      <4> QED BY <3>1, <3>2, <4>1, ThreadBuffers, ThreadPreroll
    <3>3. CASE Video
      BY <2>2, <3>1, <3>3, VideoBuffers, OtherPreroll
    <3>4. CASE DBusThread \/ Signals \/ MainLoop
      BY <2>2, <3>1, <3>4, OtherBuffers, OtherPreroll
    <3> QED BY <1>2, <3>2, <3>3, <3>4 DEF Next
  <2> QED BY <2>1, <2>2 DEF SaveInv
<1> QED BY <1>1, <1>2

(* No frame of a save reaches the video source when all of its buffers are *)
(* taken, whatever their number and whenever the encoder returns them, as  *)
(* long as no preroll is left over from an earlier save (playback_thread,  *)
(* playback_fsync, buflevel in pipeline.h).                                *)
THEOREM NoFramesDropped == Spec => []NoFrameDropped
<1>1. SaveInv => NoFrameDropped
  BY DEF SaveInv, NoFrameDropped
<1>2. Spec => []SaveInv
  BY InvHolds, InitSave, NextSave, PTL DEF Spec
<1> QED BY <1>1, <1>2, PTL
=============================================================================
