---------------------------- MODULE PlaybackLoss ----------------------------
(***************************************************************************)
(* The playback engine of Playback when an edge of the frame-sync GPIO can *)
(* be lost: the display reads a frame out and nobody is told.  The thread  *)
(* has a watchdog for this case (pipeline/playback.c).                     *)
(***************************************************************************)
EXTENDS Playback

FrameLost ==
  /\ display.sync = "frame"
  /\ display' = [display EXCEPT !.sync = "none"]
  /\ UNCHANGED <<playstate, play, total, pipe, thread, save, source, runmode, caller, calls>>

LossyNext == Next \/ FrameLost

LossySpec == Init /\ [][LossyNext]_vars /\ Fairness

(* Playback waits for an edge and no frame is being read out: only the     *)
(* watchdog could start it again.                                          *)
Stalled == playstate = "play" /\ ~display.irq /\ display.sync = "none"

(* playback.c:748 announces "Playback watchdog expired - retrying frame!": *)
(* when playback has lost its edge, the frame is displayed again, unless   *)
(* playback ends first.                                                    *)
RetriesFrame == Stalled ~> ~Stalled
=============================================================================
