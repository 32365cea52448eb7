----------------------------- MODULE Recording -----------------------------
(***************************************************************************)
(* What the segment list promises to its readers: a log of takes.  A take  *)
(* is an unbroken run of frames, numbered in the order they were shot.     *)
(* The log holds at most Capacity frames.  A new take is appended and      *)
(* pushes out the oldest takes, whole, and only as many as it must.        *)
(* Addresses, blocks, offsets and roll-overs do not appear.                *)
(***************************************************************************)
EXTENDS Integers, Sequences

CONSTANTS
  Capacity,  (* frames the log can hold                                    *)
  Frames     (* numbers of the frames that can be shot                     *)

VARIABLE
  takes      (* the takes in the log, oldest first                         *)

Take == {take \in [first : Frames, last : Frames] : take.first <= take.last}

Length(take) == take.last - take.first + 1

(* Frames of a sequence of takes. *)
Held(log) ==
  LET sum[i \in 0 .. Len(log)] == IF i = 0 THEN 0 ELSE sum[i - 1] + Length(log[i])
  IN  sum[Len(log)]

Fits(log, take) == Held(log) + Length(take) <= Capacity

(* The log without its k oldest takes. *)
Without(k) == SubSeq(takes, k + 1, Len(takes))

-----------------------------------------------------------------------------
Init == takes = <<>>

Add(take, k) ==
  /\ takes' = Append(Without(k), take)
  /\ takes # <<>> => takes[Len(takes)].last < take.first
  /\ Fits(Without(k), take)
  /\ k > 0 => ~Fits(Without(k - 1), take)

(* A flush erases the log take by take, the oldest first. *)
Erase ==
  /\ takes # <<>>
  /\ takes' = Tail(takes)

Next ==
  /\ takes' # takes
  /\ Erase \/ \E take \in Take, k \in 0 .. Len(takes) : Add(take, k)

Spec == Init /\ [][Next]_takes
=============================================================================
