----------------------------- MODULE MCPlayback -----------------------------
(***************************************************************************)
(* Values for the model checking of Playback.  With two display frames per *)
(* second, rate 3 alternates between steps of one and two frames and rate  *)
(* -1 steps one frame back at every other edge; the seeks are one frame    *)
(* forward and a whole recording of two frames back.                       *)
(***************************************************************************)
EXTENDS Playback

MCRates == {-1, 3}

MCDeltas == {-2, 1}

MCReverse == {-2}
=============================================================================
