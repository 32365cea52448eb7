------------------------------ MODULE Pipeline ------------------------------
(***************************************************************************)
(* The life of the video pipeline (pipeline/cam-pipeline.c): the main loop *)
(* builds one GStreamer pipeline after the other and sleeps on the read    *)
(* end of the signal pipe while one runs; the GLib thread runs the bus     *)
(* watch and the D-Bus handlers (pipeline/dbus-video.c), one at a time;    *)
(* POSIX signals arrive in between; the playback thread carries out the    *)
(* commands it is sent.  request is state->args.mode, the mode of the next *)
(* pipeline, runmode that of the current one; both are written from        *)
(* several threads without a lock.  "save" stands for every file format.   *)
(***************************************************************************)
EXTENDS Integers, Sequences

CONSTANTS
  FrameCount,  (* frames a save asks for                                     *)
  MaxPipe,     (* bound: commands waiting for the playback thread            *)
  MaxCalls,    (* bound: D-Bus calls and signals                             *)
  MaxFaults    (* bound: pipelines that fail to start or report an error     *)

ASSUME PipelineAssumption ==
  /\ FrameCount \in Nat \ {0}
  /\ MaxPipe \in Nat \ {0}
  /\ MaxCalls \in Nat
  /\ MaxFaults \in Nat

VARIABLES
  request,       (* state->args.mode                                         *)
  runmode,       (* state->runmode                                           *)
  playstate,     (* state->playstate                                         *)
  main,          (* where the main loop is, and the mode it has copied       *)
  gst,           (* the GStreamer pipeline                                   *)
  bus,           (* its messages that the bus watch has not seen             *)
  chars,         (* the signal pipe                                          *)
  pipe,          (* commands for the playback thread                         *)
  caller,        (* the D-Bus handler in progress                            *)
  catch_sigint,
  calls, faults  (* so far                                                   *)

vars == <<request, runmode, playstate, main, gst, bus, chars, pipe, caller,
          catch_sigint, calls, faults>>

Display == {"pause", "live", "play"}
Modes   == Display \cup {"save"}

Has(queue, x) == \E i \in 1 .. Len(queue) : queue[i] = x

(* gst.left counts the frames a save still has to encode.  gst.told and    *)
(* gst.granted are history variables: whether the current pipeline failed  *)
(* or anybody asked for its end, and how many saves were accepted and not  *)
(* started.                                                                *)
Init ==
  /\ request = "pause"
  /\ runmode = "pause"
  /\ playstate = "pause"
  /\ main = [pc |-> "copy", mode |-> "pause"]
  /\ gst = [state |-> "none", left |-> 0, told |-> FALSE, granted |-> 0]
  /\ bus = <<>>
  /\ chars = <<>>
  /\ pipe = <<>>
  /\ caller = "none"
  /\ catch_sigint = FALSE
  /\ calls = 0
  /\ faults = 0

-----------------------------------------------------------------------------
(* The main loop. *)

Copy ==
  /\ main.pc = "copy"
  /\ main' = [pc |-> "pause", mode |-> request]
  /\ UNCHANGED <<request, runmode, playstate, gst, bus, chars, pipe, caller, catch_sigint, calls, faults>>

playback_pause ==
  /\ main.pc = "pause"
  /\ playstate' = "pause"
  /\ main' = [main EXCEPT !.pc = IF main.mode = "save" THEN "home" ELSE "launch"]
  /\ UNCHANGED <<request, runmode, gst, bus, chars, pipe, caller, catch_sigint, calls, faults>>

(* Bug variant: the request to save stays.                                 *)
HomeForgotten ==
  /\ main.pc = "home"
  /\ main' = [main EXCEPT !.pc = "launch"]
  /\ UNCHANGED <<request, runmode, playstate, gst, bus, chars, pipe, caller, catch_sigint, calls, faults>>

(* Before a save: choose the mode to go to after it.                       *)
Home ==
  /\ main.pc = "home"
  /\ request' = IF runmode # "save" THEN runmode ELSE "play"
  /\ main' = [main EXCEPT !.pc = "launch"]
  /\ UNCHANGED <<runmode, playstate, gst, bus, chars, pipe, caller, catch_sigint, calls, faults>>

Launch ==
  /\ main.pc = "launch"
  /\ runmode' = main.mode
  /\ gst' = [state |-> "starting", left |-> IF main.mode = "save" THEN FrameCount ELSE 0,
             told |-> FALSE,
             granted |-> IF main.mode = "save" THEN gst.granted - 1 ELSE gst.granted]
  /\ main' = [main EXCEPT !.pc = "start"]
  /\ UNCHANGED <<request, playstate, bus, chars, pipe, caller, catch_sigint, calls, faults>>

(* cam_filesave, cam_pipeline or cam_videotest failed.  Without a pipeline *)
(* even for the test pattern, the program ends.                            *)
LaunchFails ==
  /\ main.pc = "launch"
  /\ faults < MaxFaults
  /\ faults' = faults + 1
  /\ runmode' = main.mode
  /\ request' = IF main.mode \in {"live", "play"} THEN "pause" ELSE request
  /\ gst' = [gst EXCEPT !.granted = IF main.mode = "save" THEN @ - 1 ELSE @]
  /\ main' = [main EXCEPT !.pc = IF main.mode = "pause" THEN "done" ELSE "next"]
  /\ UNCHANGED <<playstate, bus, chars, pipe, caller, catch_sigint, calls>>

IsPlaying == gst.state \in {"playing", "draining", "ended", "failed"}

Started ==
  /\ main.pc = "start"
  /\ IsPlaying
  /\ main' = [main EXCEPT !.pc = "run"]
  /\ UNCHANGED <<request, runmode, playstate, gst, bus, chars, pipe, caller, catch_sigint, calls, faults>>

(* PLAYING was not reached in ten seconds, or was reached and left again   *)
(* before the main loop came to look.                                      *)
StartFails ==
  /\ main.pc = "start"
  /\ \/ gst.state = "starting" /\ faults < MaxFaults /\ faults' = faults + 1
     \/ gst.state = "paused" /\ UNCHANGED faults
  /\ main' = [main EXCEPT !.pc = "ready"]
  /\ gst' = [gst EXCEPT !.told = TRUE]
  /\ UNCHANGED <<request, runmode, playstate, bus, chars, pipe, caller, catch_sigint, calls>>

(* Read one character: 0 ends the pipeline, a signal number asks its       *)
(* sources for an end of stream.                                           *)
Read ==
  /\ main.pc = "run"
  /\ chars # <<>>
  /\ chars' = Tail(chars)
  /\ IF Head(chars) = "end"
     THEN main' = [main EXCEPT !.pc = "ready"] /\ UNCHANGED gst
     ELSE /\ gst' = IF gst.state = "playing" THEN [gst EXCEPT !.state = "draining"] ELSE gst
          /\ UNCHANGED main
  /\ UNCHANGED <<request, runmode, playstate, bus, pipe, caller, catch_sigint, calls, faults>>

(* Garbage collect the pipeline: READY first, which reports to the bus     *)
(* that PLAYING was left, then NULL, which flushes the bus.                *)
Ready ==
  /\ main.pc = "ready"
  /\ bus' = IF IsPlaying THEN Append(bus, "left") ELSE bus
  /\ gst' = [gst EXCEPT !.state = "ready"]
  /\ main' = [main EXCEPT !.pc = "null"]
  /\ UNCHANGED <<request, runmode, playstate, chars, pipe, caller, catch_sigint, calls, faults>>

Null ==
  /\ main.pc = "null"
  /\ bus' = <<>>
  /\ gst' = [gst EXCEPT !.state = "none", !.left = 0, !.told = FALSE]
  /\ main' = [main EXCEPT !.pc = "next"]
  /\ UNCHANGED <<request, runmode, playstate, chars, pipe, caller, catch_sigint, calls, faults>>

Again ==
  /\ main.pc = "next"
  /\ main' = [pc |-> IF catch_sigint THEN "done" ELSE "copy", mode |-> "pause"]
  /\ UNCHANGED <<request, runmode, playstate, gst, bus, chars, pipe, caller, catch_sigint, calls, faults>>

-----------------------------------------------------------------------------
(* GStreamer (external). *)

ReachPlaying ==
  /\ gst.state = "starting"
  /\ gst' = [gst EXCEPT !.state = "playing"]
  /\ bus' = Append(bus, "playing")
  /\ UNCHANGED <<request, runmode, playstate, main, chars, pipe, caller, catch_sigint, calls, faults>>

(* A save encodes one frame; the source ends the stream after the last.    *)
Encode ==
  /\ gst.state = "playing"
  /\ gst.left > 0
  /\ playstate # "pause"
  /\ gst' = [gst EXCEPT !.left = @ - 1, !.state = IF gst.left = 1 THEN "ended" ELSE @]
  /\ bus' = IF gst.left = 1 THEN Append(bus, "eos") ELSE bus
  /\ UNCHANGED <<request, runmode, playstate, main, chars, pipe, caller, catch_sigint, calls, faults>>

Drain ==
  /\ gst.state = "draining"
  /\ gst' = [gst EXCEPT !.state = "ended"]
  /\ bus' = Append(bus, "eos")
  /\ UNCHANGED <<request, runmode, playstate, main, chars, pipe, caller, catch_sigint, calls, faults>>

Fail ==
  /\ gst.state \in {"playing", "draining"}
  /\ faults < MaxFaults
  /\ faults' = faults + 1
  /\ gst' = [gst EXCEPT !.state = "failed", !.told = TRUE]
  /\ bus' = Append(bus, "error")
  /\ UNCHANGED <<request, runmode, playstate, main, chars, pipe, caller, catch_sigint, calls>>

-----------------------------------------------------------------------------
(* The bus watch, on the GLib thread like the D-Bus handlers.              *)
Message(x) ==
  /\ caller = "none"
  /\ bus # <<>>
  /\ Head(bus) = x

(* Bug variant: the playback engine is sent what was asked for last, not   *)
(* what the pipeline was built for.                                        *)
SourcePlayingByRequest ==
  /\ Message("playing")
  /\ bus' = Tail(bus)
  /\ Len(pipe) < MaxPipe
  /\ pipe' = IF gst.state \notin {"ready", "none"} /\ request # "pause"
             THEN Append(pipe, request) ELSE pipe
  /\ UNCHANGED <<request, runmode, playstate, main, gst, chars, caller, catch_sigint, calls, faults>>

(* Bug variant: the playback engine is sent a command in every mode.       *)
SourcePlayingInPause ==
  /\ Message("playing")
  /\ bus' = Tail(bus)
  /\ Len(pipe) < MaxPipe
  /\ pipe' = IF gst.state \notin {"ready", "none"} THEN Append(pipe, runmode) ELSE pipe
  /\ UNCHANGED <<request, runmode, playstate, main, gst, chars, caller, catch_sigint, calls, faults>>

(* The video source is playing, unless the main loop already cleared it:   *)
(* unblock the playback engine.                                            *)
SourcePlaying ==
  /\ Message("playing")
  /\ bus' = Tail(bus)
  /\ Len(pipe) < MaxPipe
  /\ pipe' = IF gst.state \notin {"ready", "none"} /\ runmode # "pause"
             THEN Append(pipe, runmode) ELSE pipe
  /\ UNCHANGED <<request, runmode, playstate, main, gst, chars, caller, catch_sigint, calls, faults>>

EndOfStream ==
  /\ Message("eos")
  /\ playstate' = "pause"
  /\ gst' = IF IsPlaying THEN [gst EXCEPT !.state = "paused"] ELSE gst
  /\ bus' = IF IsPlaying THEN Append(Tail(bus), "left") ELSE Tail(bus)
  /\ UNCHANGED <<request, runmode, main, chars, pipe, caller, catch_sigint, calls, faults>>

(* Bug variant: leaving PLAYING is only logged.                            *)
LeftPlayingLogged ==
  /\ Message("left")
  /\ bus' = Tail(bus)
  /\ UNCHANGED <<request, runmode, playstate, main, gst, chars, pipe, caller, catch_sigint, calls, faults>>

LeftPlaying ==
  /\ Message("left")
  /\ bus' = Tail(bus)
  /\ chars' = Append(chars, "end")
  /\ UNCHANGED <<request, runmode, playstate, main, gst, pipe, caller, catch_sigint, calls, faults>>

(* An error of a live recording counts as live display going on.           *)
Error ==
  /\ Message("error")
  /\ bus' = Tail(bus)
  /\ chars' = Append(chars, "end")
  /\ playstate' \in IF main.mode = "live" THEN {playstate, "live"} ELSE {playstate}
  /\ UNCHANGED <<request, runmode, main, gst, pipe, caller, catch_sigint, calls, faults>>

-----------------------------------------------------------------------------
(* The playback thread takes a command (Playback has the whole engine).    *)
Command ==
  /\ pipe # <<>>
  /\ pipe' = Tail(pipe)
  /\ playstate' = IF Head(pipe) = "save" THEN "filesave" ELSE Head(pipe)
  /\ UNCHANGED <<request, runmode, main, gst, bus, chars, caller, catch_sigint, calls, faults>>

-----------------------------------------------------------------------------
(* The D-Bus handlers.  Each stores the mode it wants and then looks at    *)
(* what the pipeline does; the main loop may run in between.               *)
Call ==
  /\ calls < MaxCalls
  /\ calls' = calls + 1
  /\ caller = "none"

Write(signo) ==
  /\ chars' = Append(chars, signo)
  /\ gst' = [gst EXCEPT !.told = @ \/ gst.state # "none"]

(* playback and livedisplay.                                               *)
AskMode(mode) ==
  /\ Call
  /\ request' = mode
  /\ caller' = mode
  /\ UNCHANGED <<runmode, playstate, main, gst, bus, chars, pipe, catch_sigint, faults>>

(* They command the playback thread when it displays video already; a      *)
(* change of live geometry needs a new pipeline, and so does a pause,      *)
(* unless a file is being saved.                                           *)
AnswerMode ==
  /\ caller \in {"live", "play"}
  /\ IF playstate \in {"live", "play"}
     THEN \/ /\ Len(pipe) < MaxPipe
             /\ runmode' = caller
             /\ pipe' = Append(pipe, caller)
             /\ caller' = "none"
          \/ /\ caller = "live"
             /\ caller' = "restart"
             /\ UNCHANGED <<runmode, pipe>>
     ELSE /\ caller' = IF runmode # "save" THEN "restart" ELSE "none"
          /\ UNCHANGED <<runmode, pipe>>
  /\ UNCHANGED <<request, playstate, main, gst, bus, chars, catch_sigint, calls, faults>>

(* pause, liverecord, and reset, which pauses.                             *)
AskRestart(mode) ==
  /\ Call
  /\ request' = mode
  /\ caller' = "restart"
  /\ UNCHANGED <<runmode, playstate, main, gst, bus, chars, pipe, catch_sigint, faults>>

(* stop, and the restarts after a new LCD geometry or a full file.         *)
AskAgain ==
  /\ Call
  /\ caller' = "restart"
  /\ UNCHANGED <<request, runmode, playstate, main, gst, bus, chars, pipe, catch_sigint, faults>>

(* recordfile: refused while encoding is in progress.                      *)
cam_video_recordfile ==
  /\ Call
  /\ runmode # "save"
  /\ caller' = "save"
  /\ UNCHANGED <<request, runmode, playstate, main, gst, bus, chars, pipe, catch_sigint, faults>>

AskSave ==
  /\ caller = "save"
  /\ request' = "save"
  /\ gst' = [gst EXCEPT !.granted = @ + 1]
  /\ caller' = "restart"
  /\ UNCHANGED <<runmode, playstate, main, bus, chars, pipe, catch_sigint, calls, faults>>

cam_pipeline_restart ==
  /\ caller = "restart"
  /\ Write("hup")
  /\ caller' = "none"
  /\ UNCHANGED <<request, runmode, playstate, main, bus, pipe, catch_sigint, calls, faults>>

(* Signals, in the middle of a handler too.                                *)
handle_sighup ==
  /\ calls < MaxCalls /\ calls' = calls + 1
  /\ runmode # "save"
  /\ Write("hup")
  /\ UNCHANGED <<request, runmode, playstate, main, bus, pipe, caller, catch_sigint, faults>>

(* Bug variant: SIGINT only raises the flag; nothing wakes the main loop.  *)
SigintFlags ==
  /\ ~catch_sigint
  /\ catch_sigint' = TRUE
  /\ UNCHANGED <<request, runmode, playstate, main, gst, bus, chars, pipe, caller, calls, faults>>

(* SIGINT or SIGTERM; one of them is enough (a bound).                     *)
handle_sigint ==
  /\ ~catch_sigint
  /\ catch_sigint' = TRUE
  /\ Write("int")
  /\ UNCHANGED <<request, runmode, playstate, main, bus, pipe, caller, calls, faults>>

-----------------------------------------------------------------------------
MainLoop ==
  \/ Copy \/ playback_pause \/ Home \/ Launch \/ LaunchFails \/ Started \/ StartFails
  \/ Read \/ Ready \/ Null \/ Again

GStreamer == ReachPlaying \/ Encode \/ Drain \/ Fail

BusWatch == SourcePlaying \/ EndOfStream \/ LeftPlaying \/ Error

Calls ==
  \/ \E mode \in {"live", "play"} : AskMode(mode)
  \/ \E mode \in {"pause", "live"} : AskRestart(mode)
  \/ AskAgain \/ cam_video_recordfile

Handlers == AnswerMode \/ AskSave \/ cam_pipeline_restart

Next ==
  \/ MainLoop \/ GStreamer \/ BusWatch \/ Command \/ Calls \/ Handlers
  \/ handle_sighup \/ handle_sigint

(* Every thread runs when it can, and GStreamer reaches PLAYING, delivers  *)
(* the frames of a save and answers an end of stream, or fails.            *)
Fairness ==
  /\ WF_vars(MainLoop) /\ WF_vars(BusWatch) /\ WF_vars(Command) /\ WF_vars(Handlers)
  /\ WF_vars(ReachPlaying) /\ WF_vars(Encode) /\ WF_vars(Drain)

Spec == Init /\ [][Next]_vars /\ Fairness

-----------------------------------------------------------------------------
(* Properties. *)

MainFields ==
  [pc : {"copy", "pause", "home", "launch", "start", "run", "ready", "null", "next", "done"},
   mode : Modes]

GstFields ==
  [state : {"none", "starting", "playing", "draining", "ended", "paused", "failed", "ready"},
   left : 0 .. FrameCount, told : BOOLEAN, granted : Int]

Messages   == {"playing", "eos", "left", "error"}
Characters == {"hup", "int", "end"}
Orders     == {"live", "play", "save"}

(* Every thread, queue and message keeps to its values: the modes of       *)
(* PIPELINE_MODE_xxx and PLAYBACK_STATE_xxx, and a playback engine that is *)
(* never commanded to pause (cam_bus_watch).                               *)
TypeOK ==
  /\ request \in Modes
  /\ runmode \in Modes
  /\ playstate \in {"pause", "live", "play", "filesave"}
  /\ main \in MainFields
  /\ gst \in GstFields
  /\ bus \in Seq(Messages)
  /\ chars \in Seq(Characters)
  /\ pipe \in Seq(Orders)
  /\ caller \in {"none", "live", "play", "save", "restart"}
  /\ catch_sigint \in BOOLEAN
  /\ calls \in 0 .. MaxCalls
  /\ faults \in 0 .. MaxFaults

(* A character that ends the pipeline, or a message that becomes one, is   *)
(* on its way.                                                             *)
Coming ==
  \/ Has(chars, "end")
  \/ gst.state = "draining"
  \/ gst.state = "ended" /\ Has(bus, "eos")
  \/ gst.state = "paused" /\ Has(bus, "left")
  \/ gst.state = "failed" /\ Has(bus, "error")

(* The main loop never sleeps on a pipeline that has stopped with nothing  *)
(* on its way to wake it: the read in main has no timeout.                 *)
EndIsComing == main.pc = "run" /\ gst.state # "playing" => Coming

(* No save is started that recordfile did not accept: the mode to go to    *)
(* after a save is never a save (main, "Unless it would cause a loop").    *)
SavesAreAsked == gst.granted >= 0

(* A save ends: once nobody calls, the pipeline leaves it for good.        *)
SavesEnd == <>[](runmode # "save") \/ <>(main.pc = "done")

(* SIGINT and SIGTERM end the program, wherever its threads are.           *)
Exits == catch_sigint ~> main.pc = "done"

(* Once nobody calls, the playback engine does what the running pipeline   *)
(* was built for, whichever commands were still queued when it started.    *)
(* Pausing is left out: nothing takes back a command queued before it.     *)
DisplayFollowsMode ==
  <>[](main.pc = "run" /\ gst.state = "playing" /\ bus = <<>> /\ pipe = <<>> /\ runmode # "pause"
         => playstate = IF runmode = "save" THEN "filesave" ELSE runmode)

(* README.md:295-296 of the pipeline: "Recording will continue until the   *)
(* end of the selected video has been reached, or an error occurs".  A     *)
(* save stops early only when it failed or was asked to stop since it      *)
(* began.                                                                  *)
SaveIsComplete ==
  main.pc = "null" /\ main.mode = "save" /\ ~gst.told => gst.left = 0

(* README.md:301-303 of the pipeline: after an eof it will "reconfigure    *)
(* the pipeline and return to either playback or live display mode".  When *)
(* nothing is asked or fails any more, it settles.                         *)
Recovers == <>[](main.pc \in {"run", "done"})
=============================================================================
