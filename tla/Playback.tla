------------------------------ MODULE Playback ------------------------------
(***************************************************************************)
(* The playback engine of cam-pipeline (pipeline/playback.c): a thread     *)
(* that polls the frame-sync GPIO and a command pipe, and the functions    *)
(* through which the D-Bus thread, the GStreamer bus watch, the main loop  *)
(* and two POSIX signals steer it.  The play fields of pipeline_state are  *)
(* shared without a lock: a seek loads them in one step and stores the new *)
(* position in a later one, and a caller may write in between.             *)
(*                                                                         *)
(* The segment list is only its number of frames here: SegmentRing has the *)
(* list, and the map from frame numbers to memory.                         *)
(***************************************************************************)
EXTENDS Integers, Sequences

CONSTANTS
  MaxFrames,   (* frames in memory once a recording has been drained         *)
  InputRate,   (* source.rate: display frames per second                     *)
  Positions,   (* positions the callers ask for                              *)
  Rates,       (* playback rates the callers ask for                         *)
  Loopcounts,  (* loopcounts the callers ask for, 0 for none                 *)
  Deltas,      (* seek distances queued with SIGUSR1                         *)
  PipeSize,    (* commands the pipe holds                                    *)
  NumBuffers,  (* output buffers of the video source                         *)
  WatchdogCount,
  MaxCalls     (* bound: D-Bus calls, signals and failed live recordings; a  *)
               (* pipeline start and a parameter written count as two        *)

ASSUME PlaybackAssumption ==
  /\ MaxFrames \in Nat \ {0}
  /\ InputRate \in Nat \ {0}
  /\ Positions \subseteq Nat
  /\ Rates \subseteq Int
  /\ Loopcounts \subseteq Nat
  /\ Deltas \subseteq Int
  /\ PipeSize \in Nat
  /\ NumBuffers \in Nat \ {0}
  /\ WatchdogCount \in Nat \ {0}
  /\ MaxCalls \in Nat

VARIABLES
  playstate,  (* PLAYBACK_STATE_xxx                                          *)
  play,       (* position and the play fields of pipeline_state              *)
  total,      (* seglist.totalframes                                         *)
  pipe,       (* commands in the pipe                                        *)
  thread,     (* the playback thread's locals                                *)
  save,       (* preroll, and buflevel as last sampled                       *)
  display,    (* the FPGA's display registers and the frame-sync GPIO        *)
  source,     (* the GStreamer video source and its free output buffers      *)
  runmode,    (* PIPELINE_MODE_xxx; "save" stands for every file format      *)
  caller,     (* the D-Bus playback call in progress                         *)
  calls       (* calls made so far                                           *)

vars == <<playstate, play, total, pipe, thread, save, display, source, runmode, caller, calls>>

-----------------------------------------------------------------------------
(* Commands.  EXIT, LIVE, FLUSH, PREROLL and DELAY are the five smallest   *)
(* integers in the code and every other integer is a relative seek.        *)
Seek(d)  == [cmd |-> "seek", delta |-> d]
Live     == [cmd |-> "live", delta |-> 0]
Flush    == [cmd |-> "flush", delta |-> 0]
Preroll  == [cmd |-> "preroll", delta |-> 0]
Delay    == [cmd |-> "delay", delta |-> 0]
Exit     == [cmd |-> "exit", delta |-> 0]

(* Both ends of the pipe are non-blocking and no write is checked: what    *)
(* does not fit is lost.                                                   *)
Written(p, command) == IF Len(p) < PipeSize THEN Append(p, command) ELSE p

(* The quotient and the remainder of C, which round toward zero.           *)
Quotient(a, b)  == IF a >= 0 THEN a \div b ELSE -((-a) \div b)
Remainder(a, b) == IF a >= 0 THEN a % b ELSE -((-a) % b)

(* Bug variant: a forward wrap forgets where the loop starts.              *)
TargetFromZero(p, delta) ==
  LET next == p.position + delta
  IN  IF delta > 0 /\ next >= p.start + p.length THEN next % p.length
      ELSE IF next < p.start THEN p.start
      ELSE next

(* Bug variant: a reverse seek does not stop at the start of the loop.     *)
TargetUnbounded(p, delta) == p.position + delta

(* Where a seek by delta frames leads.                                     *)
Target(p, delta) ==
  LET playend == p.start + p.length
      next    == p.position + delta
  IN  IF (delta > 0 /\ next < playend) \/ (delta < 0 /\ next >= p.start) THEN next
      ELSE IF ~p.loop THEN p.start
      ELSE IF delta > 0 THEN p.start + ((next - p.start) % p.length)
      ELSE playend - ((p.start - next) % p.length)

(* A seek does nothing by zero frames, in an empty range or, instead of    *)
(* dividing by zero, from a negative position.                             *)
Seeks(p, delta) == p.position >= 0 /\ p.length # 0 /\ delta # 0

(* A seek past either end of a range that does not loop: back to live.     *)
ReturnsToLive(p, delta) ==
  /\ Seeks(p, delta) /\ ~p.loop
  /\ \/ delta > 0 /\ p.position + delta >= p.start + p.length
     \/ delta < 0 /\ p.position + delta < p.start

(* The frame the FPGA is told to show for a position: -1 stands for the    *)
(* first address of memory, shown when no segment holds the position.      *)
Frame(position) == IF position \in 0 .. total - 1 THEN position ELSE -1

-----------------------------------------------------------------------------
(* The thread at the top of its loop.                                      *)
AtPoll(watchdog) ==
  [pc |-> "poll", cmd |-> Delay, edge |-> FALSE, delta |-> 0, target |-> 0,
   after |-> "poll", watchdog |-> watchdog]

NoCall == [pc |-> "none", start |-> 0, length |-> 0, position |-> 0, rate |-> 0]

Init ==
  /\ playstate = "pause"
  /\ play = [position |-> 0, start |-> 0, length |-> 0, loop |-> FALSE,
             rate |-> 0, counter |-> 0]
  /\ total = 0
  /\ pipe = <<>>
  /\ thread = AtPoll(WatchdogCount)
  /\ save = [preroll |-> 0, level |-> 0]
  /\ display = [irq |-> FALSE, sync |-> "none", shown |-> -1, testpattern |-> FALSE]
  /\ source = [state |-> "off", free |-> NumBuffers, inflight |-> "none",
               dropped |-> FALSE, late |-> FALSE]
  /\ runmode = "pause"
  /\ caller = NoCall
  /\ calls = 0

-----------------------------------------------------------------------------
(* The playback thread. *)

(* poll() returns because an edge or a command is there.  Recordings found *)
(* in the FIFO are added to the list before anything else is looked at.    *)
Poll ==
  /\ thread.pc = "poll"
  /\ display.irq \/ pipe # <<>>
  /\ total' \in {total, MaxFrames}
  /\ thread' = [thread EXCEPT !.pc = IF pipe # <<>> THEN "read" ELSE "fsync",
                              !.edge = display.irq]
  /\ UNCHANGED <<playstate, play, pipe, save, display, source, runmode, caller, calls>>

(* poll() times out.  When the watchdog runs out, the code prints a        *)
(* warning, reads the manual_sync register and starts the watchdog again.  *)
Timeout ==
  /\ thread.pc = "poll"
  /\ ~display.irq /\ pipe = <<>>
  /\ total' \in {total, MaxFrames}
  /\ thread' = AtPoll(IF thread.watchdog = 1 THEN WatchdogCount ELSE thread.watchdog - 1)
  /\ UNCHANGED <<playstate, play, pipe, save, display, source, runmode, caller, calls>>

(* After a command: render when poll() or the command raised an edge.      *)
CommandDone(edge) ==
  IF edge THEN [AtPoll(thread.watchdog) EXCEPT !.pc = "fsync"] ELSE AtPoll(thread.watchdog)

(* Read one command.  The commands that sleep before they take effect, and *)
(* those that seek, are carried out in later steps.                        *)
ReadCommand ==
  /\ thread.pc = "read"
  /\ pipe' = Tail(pipe)
  /\ LET command == Head(pipe)
     IN  \/ /\ command.cmd = "exit"
            /\ thread' = [AtPoll(thread.watchdog) EXCEPT !.pc = "done"]
            /\ total' = 0
         \/ /\ command.cmd = "flush"
            /\ thread' = CommandDone(thread.edge)
            /\ total' = 0
         \/ /\ command.cmd = "delay"
            /\ thread' = CommandDone(thread.edge)
            /\ UNCHANGED total
         \/ /\ command.cmd \in {"preroll", "live", "seek"}
            /\ thread' = [thread EXCEPT !.pc = "apply", !.cmd = command]
            /\ UNCHANGED total
  /\ UNCHANGED <<playstate, play, save, display, source, runmode, caller, calls>>

ApplyPreroll ==
  /\ thread.pc = "apply" /\ thread.cmd = Preroll
  /\ playstate' = "filesave"
  /\ save' = [save EXCEPT !.preroll = 3]
  /\ display' = [display EXCEPT !.testpattern = TRUE]
  /\ thread' = CommandDone(TRUE)
  /\ UNCHANGED <<play, total, pipe, source, runmode, caller, calls>>

ApplyLive ==
  /\ thread.pc = "apply" /\ thread.cmd = Live
  /\ playstate' = "live"
  /\ thread' = CommandDone(thread.edge)
  /\ UNCHANGED <<play, total, pipe, save, display, source, runmode, caller, calls>>

SeekStep(edge) ==
  [thread EXCEPT !.pc = "load", !.cmd = Delay, !.delta = thread.cmd.delta,
                 !.edge = FALSE, !.after = IF edge THEN "fsync" ELSE "poll"]

(* Bug variant: entering playback does not fake a frame-sync edge.         *)
ApplySeekNoEdge ==
  /\ thread.pc = "apply" /\ thread.cmd.cmd = "seek"
  /\ playstate' = "play"
  /\ thread' = SeekStep(thread.edge)
  /\ UNCHANGED <<play, total, pipe, save, display, source, runmode, caller, calls>>

(* A seek enters playback if need be, and fakes an edge to render.         *)
ApplySeek ==
  /\ thread.pc = "apply" /\ thread.cmd.cmd = "seek"
  /\ playstate' = "play"
  /\ thread' = SeekStep(thread.edge \/ playstate # "play")
  /\ UNCHANGED <<play, total, pipe, save, display, source, runmode, caller, calls>>

(* playback_frame_seek computes the new position and may send the thread   *)
(* itself a command.                                                       *)
SeekLoad ==
  /\ thread.pc = "load"
  /\ pipe' = IF ReturnsToLive(play, thread.delta) THEN Written(pipe, Live) ELSE pipe
  /\ thread' = IF Seeks(play, thread.delta)
               THEN [thread EXCEPT !.pc = "store", !.target = Target(play, thread.delta), !.delta = 0]
               ELSE [AtPoll(thread.watchdog) EXCEPT !.pc = thread.after]
  /\ UNCHANGED <<playstate, play, total, save, display, source, runmode, caller, calls>>

SeekStore ==
  /\ thread.pc = "store"
  /\ play' = [play EXCEPT !.position = thread.target]
  /\ thread' = [AtPoll(thread.watchdog) EXCEPT !.pc = thread.after]
  /\ UNCHANGED <<playstate, total, pipe, save, display, source, runmode, caller, calls>>

(* playback_fsync, by playstate.  The edge is acknowledged first and the   *)
(* watchdog restarted.                                                     *)
Acknowledged == [display EXCEPT !.irq = FALSE]

FsyncIdle ==
  /\ thread.pc = "fsync"
  /\ playstate \in {"pause", "live"}
  /\ display' = Acknowledged
  /\ thread' = AtPoll(WatchdogCount)
  /\ UNCHANGED <<playstate, play, total, pipe, save, source, runmode, caller, calls>>

(* A delta-sigma sets the frame rate.                                      *)
FsyncPlay ==
  /\ thread.pc = "fsync"
  /\ playstate = "play"
  /\ display' = Acknowledged
  /\ LET nextcount == play.counter + play.rate
     IN  /\ play' = [play EXCEPT !.counter = Remainder(nextcount, InputRate)]
         /\ thread' = [AtPoll(WatchdogCount) EXCEPT
                         !.pc = "load", !.delta = Quotient(nextcount, InputRate), !.after = "render"]
  /\ UNCHANGED <<playstate, total, pipe, save, source, runmode, caller, calls>>

(* The buffer level a save sees: 10, whatever the source says, without one.*)
Sampled == IF source.state = "off" THEN 10 ELSE source.free

FsyncPreroll ==
  /\ thread.pc = "fsync"
  /\ playstate = "filesave" /\ save.preroll > 0
  /\ display' = [Acknowledged EXCEPT !.sync = "preroll", !.testpattern = @ /\ save.preroll > 1]
  /\ save' = [preroll |-> save.preroll - 1,
              level   |-> IF save.preroll = 1 THEN Sampled ELSE save.level]
  /\ thread' = AtPoll(WatchdogCount)
  /\ UNCHANGED <<playstate, play, total, pipe, source, runmode, caller, calls>>

(* With the level high the next frame is played at once, otherwise the     *)
(* thread sleeps until buffers are free or the source is gone.             *)
FsyncSave ==
  /\ thread.pc = "fsync"
  /\ playstate = "filesave" /\ save.preroll = 0
  /\ display' = Acknowledged
  /\ thread' = [AtPoll(WatchdogCount) EXCEPT
                  !.pc = IF save.level > 2 THEN "load" ELSE "wait",
                  !.delta = 1,
                  !.after = IF save.level > 2 THEN "sample" ELSE "render"]
  /\ UNCHANGED <<playstate, play, total, pipe, save, source, runmode, caller, calls>>

(* Bug variant: one free buffer is taken for enough.                       *)
WaitForAnyBuffer ==
  /\ thread.pc = "wait"
  /\ source.state # "off" => source.free > 0
  /\ save' = IF source.state = "off" THEN save ELSE [save EXCEPT !.level = source.free]
  /\ thread' = [thread EXCEPT !.pc = "load"]
  /\ UNCHANGED <<playstate, play, total, pipe, display, source, runmode, caller, calls>>

WaitForBuffers ==
  /\ thread.pc = "wait"
  /\ source.state # "off" => source.free > 1
  /\ save' = IF source.state = "off" THEN save ELSE [save EXCEPT !.level = source.free]
  /\ thread' = [thread EXCEPT !.pc = "load"]
  /\ UNCHANGED <<playstate, play, total, pipe, display, source, runmode, caller, calls>>

(* Bug variant: the frame's address is set but the display is not told.    *)
RenderQuietly ==
  /\ thread.pc \in {"render", "sample"}
  /\ display' = [display EXCEPT !.sync = "frame"]
  /\ thread' = AtPoll(thread.watchdog)
  /\ UNCHANGED <<playstate, play, total, pipe, save, source, runmode, caller, calls>>

(* Show the frame at the current position; a save that did not have to     *)
(* wait then samples the level.                                            *)
playback_frame_render ==
  /\ thread.pc \in {"render", "sample"}
  /\ display' = [display EXCEPT !.shown = Frame(play.position), !.sync = "frame"]
  /\ save' = IF thread.pc = "sample" /\ source.state # "off"
             THEN [save EXCEPT !.level = source.free] ELSE save
  /\ thread' = AtPoll(thread.watchdog)
  /\ UNCHANGED <<playstate, play, total, pipe, source, runmode, caller, calls>>

-----------------------------------------------------------------------------
(* The display and the video source (external).  In playback the display   *)
(* reads out one frame per manual sync and raises an edge; in live display *)
(* it runs freely.  The source puts each frame of a save into a free       *)
(* buffer, no later than the frame after it.                               *)
FrameDone ==
  /\ display.sync # "none"
  /\ source.inflight = "none"
  /\ display' = [display EXCEPT !.sync = "none", !.irq = TRUE]
  /\ source' = IF playstate = "filesave" /\ source.state # "off"
               THEN [source EXCEPT !.inflight = display.sync] ELSE source
  /\ UNCHANGED <<playstate, play, total, pipe, thread, save, runmode, caller, calls>>

LiveFrame ==
  /\ playstate = "live"
  /\ ~display.irq
  /\ display' = [display EXCEPT !.irq = TRUE]
  /\ UNCHANGED <<playstate, play, total, pipe, thread, save, source, runmode, caller, calls>>

Capture ==
  /\ source.inflight # "none"
  /\ source' = IF source.free = 0
               THEN [source EXCEPT !.inflight = "none", !.dropped = @ \/ source.inflight = "frame"]
               ELSE [source EXCEPT !.inflight = "none", !.free = @ - 1]
  /\ UNCHANGED <<playstate, play, total, pipe, thread, save, display, runmode, caller, calls>>

Encode ==
  /\ source.state # "off"
  /\ source.free < NumBuffers
  /\ source' = [source EXCEPT !.free = @ + 1]
  /\ UNCHANGED <<playstate, play, total, pipe, thread, save, display, runmode, caller, calls>>

-----------------------------------------------------------------------------
(* The D-Bus thread. *)

Call == calls < MaxCalls /\ calls' = calls + 1

(* The playback method, in live display or playback: playback_loop, or     *)
(* playback_play without a loopcount.  The fields are stored one after the *)
(* other, then the thread is told to seek by zero frames.                  *)
cam_video_playback(position, rate, loopcount) ==
  /\ Call
  /\ caller = NoCall
  /\ playstate \in {"live", "play"}
  /\ caller' = [pc |-> "range", position |-> position, rate |-> rate,
                start  |-> IF loopcount = 0 THEN 0 ELSE position,
                length |-> IF loopcount = 0 \/ loopcount > total THEN total ELSE loopcount]
  /\ UNCHANGED <<playstate, play, total, pipe, thread, save, display, source, runmode>>

StoreRange ==
  /\ caller.pc = "range"
  /\ play' = [play EXCEPT !.rate = caller.rate, !.counter = 0, !.start = caller.start,
                          !.length = caller.length, !.loop = TRUE]
  /\ caller' = [caller EXCEPT !.pc = "position"]
  /\ UNCHANGED <<playstate, total, pipe, thread, save, display, source, runmode, calls>>

StorePosition ==
  /\ caller.pc = "position"
  /\ play' = [play EXCEPT !.position = caller.position]
  /\ caller' = [caller EXCEPT !.pc = "write"]
  /\ UNCHANGED <<playstate, total, pipe, thread, save, display, source, runmode, calls>>

WriteSeek ==
  /\ caller.pc = "write"
  /\ pipe' = Written(pipe, Seek(0))
  /\ runmode' = "play"
  /\ caller' = NoCall
  /\ UNCHANGED <<playstate, play, total, thread, save, display, source, calls>>

(* The playback method while paused and not saving: it sets the range up   *)
(* for the restart of the pipeline that it asks for, but not the position. *)
SetupPlayback(position, rate, loopcount) ==
  /\ Call
  /\ caller = NoCall
  /\ playstate \notin {"live", "play"}
  /\ runmode # "save"
  /\ play' = [play EXCEPT !.rate = rate, !.start = position, !.loop = loopcount # 0,
                          !.length = IF loopcount = 0 THEN total ELSE loopcount]
  /\ UNCHANGED <<playstate, total, pipe, thread, save, display, source, runmode, caller>>

(* The livedisplay method, when the geometry did not change.               *)
cam_video_livedisplay ==
  /\ Call
  /\ caller = NoCall
  /\ playstate \in {"live", "play"}
  /\ runmode' = "live"
  /\ pipe' = Written(pipe, Live)
  /\ UNCHANGED <<playstate, play, total, thread, save, display, source, caller>>

cam_video_flush ==
  /\ Call
  /\ caller = NoCall
  /\ pipe' = Written(pipe, Flush)
  /\ UNCHANGED <<playstate, play, total, thread, save, display, source, runmode, caller>>

(* The set method stores one parameter as it is, in any state; a negative  *)
(* position stands for live display (pipeline.h).                          *)
cam_generic_setter ==
  /\ calls + 2 <= MaxCalls
  /\ calls' = calls + 2
  /\ caller = NoCall
  /\ \/ \E position \in Positions \cup {-1} : play' = [play EXCEPT !.position = position]
     \/ \E rate \in Rates : play' = [play EXCEPT !.rate = rate]
     \/ \E start \in Positions : play' = [play EXCEPT !.start = start]
     \/ \E length \in Loopcounts : play' = [play EXCEPT !.length = length]
  /\ UNCHANGED <<playstate, total, pipe, thread, save, display, source, runmode, caller>>

-----------------------------------------------------------------------------
(* The signals, which only the playback thread receives.                   *)

SignalSeek(delta) ==
  /\ Call
  /\ thread.pc # "done"
  /\ playstate = "play"
  /\ pipe' = Written(pipe, Seek(delta))
  /\ UNCHANGED <<playstate, play, total, thread, save, display, source, runmode, caller>>

SignalPosition(position) ==
  /\ Call
  /\ thread.pc # "done"
  /\ playstate = "play"
  /\ play' = [play EXCEPT !.position = position, !.rate = 0]
  /\ pipe' = Written(pipe, Seek(0))
  /\ UNCHANGED <<playstate, total, thread, save, display, source, runmode, caller>>

SignalLive ==
  /\ Call
  /\ thread.pc # "done"
  /\ playstate = "play"
  /\ pipe' = Written(pipe, Live)
  /\ UNCHANGED <<playstate, play, total, thread, save, display, source, runmode, caller>>

-----------------------------------------------------------------------------
(* The main loop and its bus watch, as far as the playback engine sees     *)
(* them.                                                                   *)

(* Pause, build a pipeline for the next mode; a save sets the whole        *)
(* recording up as the range and its first frame as the position.  late is *)
(* a history variable: the preroll of an earlier save was still to come.   *)
PrerollWaits ==
  \/ thread.pc = "apply" /\ thread.cmd = Preroll
  \/ \E i \in 1 .. Len(pipe) : pipe[i] = Preroll

StartPipeline(mode, first) ==
  /\ calls + 2 <= MaxCalls
  /\ calls' = calls + 2
  /\ source.state = "off"
  /\ thread.pc # "done"
  /\ playstate' = "pause"
  /\ runmode' = mode
  /\ source' = [source EXCEPT !.state = "ready", !.free = NumBuffers, !.inflight = "none",
                            !.late = @ \/ PrerollWaits]
  /\ play' = IF mode = "save"
             THEN [play EXCEPT !.position = first, !.start = 0, !.length = total, !.loop = TRUE]
             ELSE play
  /\ display' = IF mode = "pause" THEN display ELSE [display EXCEPT !.testpattern = FALSE]
  /\ UNCHANGED <<total, pipe, thread, save, caller>>

(* The source reached PLAYING: unblock the playback engine.                *)
SourcePlaying ==
  /\ source.state = "ready"
  /\ source' = [source EXCEPT !.state = "playing"]
  /\ LET delayed == Written(pipe, Delay)
     IN  pipe' = CASE runmode = "live"  -> Written(delayed, Live)
                   [] runmode = "play"  -> Written(delayed, Seek(0))
                   [] runmode = "save"  -> Written(delayed, Preroll)
                   [] runmode = "pause" -> delayed
  /\ UNCHANGED <<playstate, play, total, thread, save, display, runmode, caller, calls>>

(* End of stream: the bus watch pauses at once.                            *)
EndOfStream ==
  /\ source.state = "playing"
  /\ playstate' = "pause"
  /\ source' = [source EXCEPT !.state = "ended"]
  /\ UNCHANGED <<play, total, pipe, thread, save, display, runmode, caller, calls>>

(* An error of the recording of live video counts as live display, even    *)
(* when playback was entered since; the main loop tears down the pipeline. *)
LiveRecordingFails ==
  /\ Call
  /\ source.state = "playing"
  /\ runmode \in {"live", "play"}
  /\ playstate' = "live"
  /\ source' = [source EXCEPT !.state = "ended"]
  /\ UNCHANGED <<play, total, pipe, thread, save, display, runmode, caller>>

(* Garbage collect the pipeline, after its end or after an error.          *)
Teardown ==
  /\ source.state # "off"
  /\ source' = [source EXCEPT !.state = "off", !.inflight = "none"]
  /\ UNCHANGED <<playstate, play, total, pipe, thread, save, display, runmode, caller, calls>>

playback_cleanup ==
  /\ Call
  /\ source.state = "off"
  /\ pipe' = Written(pipe, Exit)
  /\ UNCHANGED <<playstate, play, total, thread, save, display, source, runmode, caller>>
-----------------------------------------------------------------------------
ThreadStep ==
  \/ Poll \/ Timeout \/ ReadCommand \/ ApplyPreroll \/ ApplyLive \/ ApplySeek
  \/ SeekLoad \/ SeekStore \/ FsyncIdle \/ FsyncPlay \/ FsyncPreroll \/ FsyncSave
  \/ WaitForBuffers \/ playback_frame_render

Video == FrameDone \/ LiveFrame \/ Capture \/ Encode

Playing(position, rate, loopcount) ==
  cam_video_playback(position, rate, loopcount) \/ SetupPlayback(position, rate, loopcount)

DBusThread ==
  \/ \E position \in Positions, rate \in Rates, loopcount \in Loopcounts :
       Playing(position, rate, loopcount)
  \/ StoreRange \/ StorePosition \/ WriteSeek
  \/ cam_video_livedisplay \/ cam_video_flush \/ cam_generic_setter

Signals ==
  \/ \E delta \in Deltas : SignalSeek(delta)
  \/ \E position \in Positions \cup {0} : SignalPosition(position)
  \/ SignalLive

MainLoop ==
  \/ \E mode \in {"pause", "live", "play"} : StartPipeline(mode, 0)
  \/ \E first \in 0 .. MaxFrames - 1 : StartPipeline("save", first)
  \/ SourcePlaying \/ EndOfStream \/ LiveRecordingFails \/ Teardown \/ playback_cleanup

Next == ThreadStep \/ Video \/ DBusThread \/ Signals \/ MainLoop

(* The scheduler runs the playback thread whenever it can run, a call once *)
(* begun is finished, and the display reads out every frame it is told to. *)
(* Nothing is assumed of the encoder, nor of new calls.                    *)
Fairness ==
  /\ WF_vars(ThreadStep)
  /\ WF_vars(StoreRange) /\ WF_vars(StorePosition) /\ WF_vars(WriteSeek)
  /\ WF_vars(FrameDone) /\ WF_vars(Capture)

Spec == Init /\ [][Next]_vars /\ Fairness

-----------------------------------------------------------------------------
(* Properties. *)

PlayFields ==
  [position : Int, start : Nat, length : Nat, loop : BOOLEAN, rate : Int,
   counter : 1 - InputRate .. InputRate - 1]

Commands ==
  {Live, Flush, Preroll, Delay, Exit} \cup [cmd : {"seek"}, delta : Int]

ThreadLocals ==
  [pc : {"poll", "read", "apply", "load", "store", "fsync", "wait", "render", "sample", "done"},
   cmd : Commands, edge : BOOLEAN, delta : Int, target : Nat,
   after : {"poll", "fsync", "render", "sample"}, watchdog : 1 .. WatchdogCount]

Levels == [preroll : 0 .. 3, level : Nat]

DisplayFields ==
  [irq : BOOLEAN, sync : {"none", "preroll", "frame"}, shown : {-1} \cup Nat,
   testpattern : BOOLEAN]

SourceFields ==
  [state : {"off", "ready", "playing", "ended"}, free : Nat,
   inflight : {"none", "preroll", "frame"}, dropped : BOOLEAN, late : BOOLEAN]

CallerLocals ==
  [pc : {"none", "range", "position", "write"}, start : Nat, length : Nat,
   position : Nat, rate : Int]

PipeOK == pipe \in Seq(Commands) /\ Len(pipe) <= PipeSize

(* A seek never leads to a negative position, whatever the range and the   *)
(* calls (playback_frame_seek), and the remainder of the delta-sigma stays *)
(* below the input rate (playback_fsync).                                  *)
TypeOK ==
  /\ playstate \in {"pause", "live", "play", "filesave"}
  /\ play \in PlayFields
  /\ total \in Nat
  /\ PipeOK
  /\ thread \in ThreadLocals
  /\ save \in Levels
  /\ display \in DisplayFields
  /\ source \in SourceFields
  /\ runmode \in {"pause", "live", "play", "save"}
  /\ caller \in CallerLocals
  /\ calls \in Nat

(* The engine feeds itself: it renders on edges and every render causes    *)
(* the next one.  Whenever it goes back to poll in playback or in a save,  *)
(* an edge is waiting or a frame is being read out, whatever pauses,       *)
(* commands and restarts came in between; otherwise it would stop for good.*)
NeverStarves ==
  thread.pc = "poll" /\ playstate \in {"play", "filesave"} => display.irq \/ display.sync # "none"

(* pipeline.h:182 keeps buflevel "for frame drop avoidance": no frame of a *)
(* save reaches the video source when all of its buffers are taken,        *)
(* although the thread looks at the level up to two frames ahead.  That is *)
(* as long as the thread began each save before the next pipeline was      *)
(* built: with two prerolls to come it would leave the first save for      *)
(* playback and enter the next with buffers taken.                         *)
NoFrameDropped == ~source.late => ~source.dropped

InLoop(position) == position \in play.start .. play.start + play.length - 1

Forward ==
  playstate = "play" /\ play.rate > 0 /\ play.length > 0 /\ play.position >= 0

(* Once the callers are done, forward playback ends up inside the range it *)
(* was given and loops there, even if a seek in progress overwrote the     *)
(* position a call had just stored.                                        *)
Settles ==
  <>[](thread.pc = "poll" /\ Forward =>
         play.loop /\ InLoop(play.position))

(* README.md:90 reports the position as "the current frame number being    *)
(* displayed": once the callers are done, the frame on display during      *)
(* playback is the one the position names.                                 *)
PositionIsShown ==
  <>[](thread.pc = "poll" /\ playstate = "play" => display.shown = Frame(play.position))

(* README.md:129-130: a loopcount serves "to limit playback to a subset of *)
(* the captured frames".  A seek in a looping range never leaves the range *)
(* (playback_frame_seek).                                                  *)
SeekStaysInLoop ==
  [][thread.pc = "load" /\ thread'.pc = "store" /\ play.loop /\ InLoop(play.position)
       => InLoop(thread'.target)]_vars
=============================================================================
