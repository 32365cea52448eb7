------------------------------ MODULE PmicLink ------------------------------
(***************************************************************************)
(* Request and reply over the serial line to the power controller          *)
(* (pcUtil/comms.c).  A thread sends a command and waits at most five      *)
(* seconds for a packet whose first byte is that command.  The receive     *)
(* thread puts packets into a ring of BUFFER_COUNT slots, and whichever    *)
(* thread comes first takes the oldest.  PmicFrame models the bytes: a     *)
(* frame that meets another one on the line is lost.                       *)
(***************************************************************************)
EXTENDS Integers, Sequences

CONSTANTS
  Threads,      (* that send commands                                        *)
  Commands,     (* records with a field op, the byte that a reply repeats    *)
  BufferCount,  (* BUFFER_COUNT                                              *)
  MaxLosses     (* bound: frames lost by themselves                          *)

ASSUME LinkAssumption ==
  /\ BufferCount \in Nat /\ BufferCount > 1
  /\ MaxLosses \in Nat
  /\ \A cmd \in Commands : cmd = [op |-> cmd.op, arg |-> cmd.arg]

VARIABLES
  request,   (* what each thread is asking, and how far it is                *)
  inbox,     (* commands the controller has received                         *)
  replies,   (* its answers on the way                                       *)
  ring,      (* rxBuffer                                                     *)
  readIndex, writeIndex,
  unread,    (* history: packets received and not taken or lost since        *)
  overrun,   (* history: the ring was written when it was full               *)
  quiet,     (* history: no time ran out, nothing was lost, one at a time    *)
  last,      (* history: number of the last answer taken                     *)
  count,     (* commands sent so far                                         *)
  losses     (* frames lost so far                                           *)

linkVars == <<request, inbox, replies, ring, readIndex, writeIndex, unread,
              overrun, quiet, last, count, losses>>

Slot == 0 .. BufferCount - 1

Idle == [pc |-> "idle"]

(* Content of a slot never written.                                        *)
NoReply == [op |-> "none", value |-> 0, id |-> 0]

LinkInit ==
  /\ request = [t \in Threads |-> Idle]
  /\ inbox = <<>>
  /\ replies = <<>>
  /\ ring = [s \in Slot |-> NoReply]
  /\ readIndex = 0
  /\ writeIndex = 0
  /\ unread = <<>>
  /\ overrun = FALSE
  /\ quiet = TRUE
  /\ last = 0
  /\ count = 0
  /\ losses = 0

Busy == {t \in Threads : request[t].pc \in {"sending", "waiting", "blocked"}}
Sending == {t \in Threads : request[t].pc = "sending"}

(* Start to send.  Nothing keeps two threads from writing at once: mixed   *)
(* marks the frames that share the line.                                   *)
Transmit(t, cmd) ==
  /\ request[t].pc = "idle"
  /\ request' = [u \in Threads |->
       IF u = t THEN [pc |-> "sending", cmd |-> cmd, mixed |-> Sending # {}]
       ELSE IF u \in Sending THEN [request[u] EXCEPT !.mixed = TRUE]
       ELSE request[u]]
  /\ quiet' = (quiet /\ Busy = {} /\ inbox = <<>> /\ replies = <<>> /\ unread = <<>>)
  /\ UNCHANGED <<inbox, replies, ring, readIndex, writeIndex, unread, overrun, last, count, losses>>

(* The frame is out; it arrives or is lost.                                *)
Sent(t) ==
  /\ request[t].pc = "sending"
  /\ count' = count + 1
  /\ request' = [request EXCEPT ![t] = [pc |-> "waiting", cmd |-> @.cmd, id |-> count']]
  /\ \/ inbox' = Append(inbox, [cmd |-> request[t].cmd, id |-> count'])
        /\ UNCHANGED <<quiet, losses>>
     \/ /\ request[t].mixed \/ losses < MaxLosses
        /\ losses' = IF request[t].mixed THEN losses ELSE losses + 1
        /\ quiet' = FALSE
        /\ UNCHANGED inbox
  /\ UNCHANGED <<replies, ring, readIndex, writeIndex, unread, overrun, last>>

Empty == readIndex = writeIndex

(* pthread_cond_timedwait.                                                 *)
Wait(t) ==
  /\ request[t].pc = "waiting"
  /\ Empty
  /\ request' = [request EXCEPT ![t].pc = "blocked"]
  /\ UNCHANGED <<inbox, replies, ring, readIndex, writeIndex, unread, overrun, quiet, last, count, losses>>

(* Bug variant: after the time the thread waits again.                     *)
TimeOutAgain(t) ==
  /\ request[t].pc = "blocked"
  /\ request' = [request EXCEPT ![t].pc = "waiting"]
  /\ quiet' = FALSE
  /\ UNCHANGED <<inbox, replies, ring, readIndex, writeIndex, unread, overrun, last, count, losses>>

(* A packet that comes together with the end of the time is left alone.    *)
TimeOut(t) ==
  /\ request[t].pc = "blocked"
  /\ request' = [request EXCEPT ![t] = [pc |-> "answered", cmd |-> @.cmd, id |-> @.id, ok |-> FALSE,
                                            value |-> 0, from |-> 0]]
  /\ quiet' = FALSE
  /\ UNCHANGED <<inbox, replies, ring, readIndex, writeIndex, unread, overrun, last, count, losses>>

Advance(index) == IF index + 1 >= BufferCount THEN 0 ELSE index + 1

(* Bug variant: an answer to another command is left in the ring.          *)
TakeOwn(t) ==
  LET packet == ring[readIndex]
      own    == packet.op = request[t].cmd.op
  IN /\ request[t].pc \in {"waiting", "blocked"}
     /\ ~Empty
     /\ readIndex' = IF own THEN Advance(readIndex) ELSE readIndex
     /\ request' = [request EXCEPT ![t] =
          [pc |-> "answered", cmd |-> @.cmd, id |-> @.id, ok |-> own,
           value |-> packet.value, from |-> packet.id]]
     /\ last' = packet.id
     /\ unread' = IF own THEN Tail(unread) ELSE unread
     /\ UNCHANGED <<inbox, replies, ring, writeIndex, overrun, quiet, count, losses>>

(* rxDataReceive, and the comparison each command function makes.          *)
Take(t) ==
  LET packet == ring[readIndex]
  IN /\ request[t].pc \in {"waiting", "blocked"}
     /\ ~Empty
     /\ readIndex' = Advance(readIndex)
     /\ request' = [request EXCEPT ![t] =
          [pc |-> "answered", cmd |-> @.cmd, id |-> @.id, ok |-> packet.op = @.cmd.op,
           value |-> packet.value, from |-> packet.id]]
     /\ last' = packet.id
     /\ unread' = Tail(unread)
     /\ UNCHANGED <<inbox, replies, ring, writeIndex, overrun, quiet, count, losses>>

(* Bug variant: the ring starts over one slot early.                       *)
AcceptPacketEarlyWrap ==
  /\ replies # <<>>
  /\ replies' = Tail(replies)
  /\ ring' = [ring EXCEPT ![writeIndex] = Head(replies)]
  /\ writeIndex' = IF writeIndex + 1 >= BufferCount - 1 THEN 0 ELSE writeIndex + 1
  /\ IF Len(unread) = BufferCount - 1
     THEN overrun' = TRUE /\ unread' = <<>>
     ELSE overrun' = overrun /\ unread' = Append(unread, Head(replies))
  /\ UNCHANGED <<request, inbox, readIndex, quiet, last, count, losses>>

(* Bug variant: the index is advanced before the packet is stored.         *)
AcceptPacketAfter ==
  /\ replies # <<>>
  /\ replies' = Tail(replies)
  /\ writeIndex' = Advance(writeIndex)
  /\ ring' = [ring EXCEPT ![writeIndex'] = Head(replies)]
  /\ IF Len(unread) = BufferCount - 1
     THEN overrun' = TRUE /\ unread' = <<>>
     ELSE overrun' = overrun /\ unread' = Append(unread, Head(replies))
  /\ UNCHANGED <<request, inbox, readIndex, quiet, last, count, losses>>

(* rxThread.  A ring that is full looks empty afterwards: its packets are  *)
(* lost.                                                                   *)
AcceptPacket ==
  /\ replies # <<>>
  /\ replies' = Tail(replies)
  /\ ring' = [ring EXCEPT ![writeIndex] = Head(replies)]
  /\ writeIndex' = Advance(writeIndex)
  /\ IF Len(unread) = BufferCount - 1
     THEN overrun' = TRUE /\ unread' = <<>>
     ELSE overrun' = overrun /\ unread' = Append(unread, Head(replies))
  /\ UNCHANGED <<request, inbox, readIndex, quiet, last, count, losses>>

(* The controller carries out the command at the head of its inbox and     *)
(* answers with a value; or the answer is lost.                            *)
Answer(value) ==
  /\ inbox # <<>>
  /\ inbox' = Tail(inbox)
  /\ \/ /\ replies' = Append(replies, [op |-> Head(inbox).cmd.op, value |-> value, id |-> Head(inbox).id])
        /\ UNCHANGED <<losses, quiet>>
     \/ /\ losses < MaxLosses
        /\ losses' = losses + 1
        /\ quiet' = FALSE
        /\ UNCHANGED replies
  /\ UNCHANGED <<request, ring, readIndex, writeIndex, unread, overrun, last, count>>

Thread(t) == Sent(t) \/ Wait(t) \/ TimeOut(t) \/ Take(t)

-----------------------------------------------------------------------------
(* Properties. *)

Packet == {NoReply} \cup [op : {cmd.op : cmd \in Commands}, value : Int, id : Nat]

LinkTypeOK ==
  /\ \A t \in Threads :
       /\ request[t].pc \in {"idle", "sending", "waiting", "blocked", "answered"}
       /\ request[t].pc # "idle" => request[t].cmd \in Commands
  /\ \A i \in 1 .. Len(inbox) : inbox[i].cmd \in Commands /\ inbox[i].id \in 1 .. count
  /\ \A i \in 1 .. Len(replies) : replies[i] \in Packet
  /\ ring \in [Slot -> Packet]
  /\ readIndex \in Slot
  /\ writeIndex \in Slot
  /\ Len(unread) \in Slot
  /\ count \in Nat

Wrapped(k) == IF k >= BufferCount THEN k - BufferCount ELSE k

Distance(from, to) == IF from <= to THEN to - from ELSE to - from + BufferCount

(* The two indices make the ring a queue: between them lie exactly the     *)
(* packets that came since it was last written when full and were not      *)
(* taken, oldest first (comms.c:456-477, 616-620).                         *)
RingIsQueue ==
  /\ Distance(readIndex, writeIndex) = Len(unread)
  /\ \A i \in 1 .. Len(unread) : ring[Wrapped(readIndex + i - 1)] = unread[i]

(* No answer is taken twice, and none after a later one, however full the  *)
(* ring ran (comms.c:467-477).                                             *)
AnswersInOrder ==
  [][\A t \in Threads :
       request[t].pc # "answered" /\ request'[t].pc = "answered" =>
         request'[t].from = 0 \/ request'[t].from > last]_linkVars

(* As long as no time ran out, no frame was lost and each command was      *)
(* answered before the next was sent, an answer belongs to its question    *)
(* (comms.c:34-258).                                                       *)
QuietAnswersBelong ==
  quiet => \A t \in Threads : request[t].pc = "answered" =>
                                 request[t].ok /\ request[t].from = request[t].id
=============================================================================
