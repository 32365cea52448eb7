----------------------------- MODULE Pmic_proofs -----------------------------
(***************************************************************************)
(* The serial line to the power controller, its bytes, its daemon and the  *)
(* firmware update.  For every number of threads, requests, losses and     *)
(* slots: the ring is a queue, answers are taken in the order of their     *)
(* questions, and as long as nothing is lost or late each answer belongs   *)
(* to its question.  For every file, memory layout and number of attempts: *)
(* an update that reports success has loaded the file, and a part of it is *)
(* never run.                                                              *)
(*                                                                         *)
(* Order needs the whole way of a question in the invariant: what is       *)
(* unread is older than what is on the line, and that than what the        *)
(* controller has yet to answer (Ordered).  Belonging needs that a quiet   *)
(* line carries one question at most (Quiet).  Loading needs both, and     *)
(* what each place of the update promises of the memory: the pages erased, *)
(* then the records before this one and nothing else (Ready, Reached).     *)
(*                                                                         *)
(* For every set of packets: frames that have the line to themselves are   *)
(* delivered.  The state machine has received a part of the one frame on   *)
(* the line, its checksum is that of this part, and the rest is with the   *)
(* writer (Carrying, Received).                                            *)
(***************************************************************************)
EXTENDS MCPmic, FiniteSetTheorems, WellFoundedInduction, TLAPS

Question == [cmd : Commands, id : Nat]
Reply == [op : {cmd.op : cmd \in Commands}, value : Int, id : Nat]

Requested ==
  {Idle}
  \cup [pc : {"sending"}, cmd : Commands, mixed : BOOLEAN]
  \cup [pc : {"waiting", "blocked"}, cmd : Commands, id : Nat]
  \cup [pc : {"answered"}, cmd : Commands, id : Nat, ok : BOOLEAN, value : Int, from : Nat]

Typed ==
  /\ request \in [Threads -> Requested]
  /\ inbox \in Seq(Question) /\ replies \in Seq(Reply) /\ unread \in Seq(Reply)
  /\ ring \in [Slot -> Packet]
  /\ readIndex \in Slot /\ writeIndex \in Slot
  /\ Len(unread) \in Slot
  /\ quiet \in BOOLEAN /\ overrun \in BOOLEAN
  /\ last \in Nat /\ count \in Nat /\ losses \in Nat

Increasing(q) == \A i, j \in 1 .. Len(q) : i < j => q[i].id < q[j].id
Before(q, r) == \A i \in 1 .. Len(q), j \in 1 .. Len(r) : q[i].id < r[j].id
Between(low, q, high) == \A i \in 1 .. Len(q) : low < q[i].id /\ q[i].id <= high

Ordered ==
  /\ last <= count
  /\ Increasing(unread) /\ Increasing(replies) /\ Increasing(inbox)
  /\ Before(unread, replies) /\ Before(unread, inbox) /\ Before(replies, inbox)
  /\ Between(last, unread, count) /\ Between(last, replies, count) /\ Between(last, inbox, count)

Nobody == inbox = <<>> /\ replies = <<>> /\ unread = <<>>

(* The question of a thread that waits, wherever it is by now.             *)
Underway(r) ==
  \/ Len(inbox) = 1 /\ replies = <<>> /\ unread = <<>> /\ inbox[1].cmd = r.cmd /\ inbox[1].id = r.id
  \/ inbox = <<>> /\ Len(replies) = 1 /\ unread = <<>> /\ replies[1].op = r.cmd.op /\ replies[1].id = r.id
  \/ inbox = <<>> /\ replies = <<>> /\ Len(unread) = 1 /\ unread[1].op = r.cmd.op /\ unread[1].id = r.id

Quiet ==
  quiet =>
    /\ \A t, u \in Busy : t = u
    /\ \A t \in Threads :
         /\ request[t].pc = "sending" => ~request[t].mixed /\ Nobody
         /\ request[t].pc \in {"waiting", "blocked"} => Underway(request[t])
         /\ request[t].pc = "answered" => request[t].ok /\ request[t].from = request[t].id

LinkInv == Typed /\ RingIsQueue /\ Ordered /\ Quiet

-----------------------------------------------------------------------------
(* Queues. *)

LEMMA AppendFacts ==
  ASSUME NEW S, NEW q \in Seq(S), NEW x \in S
  PROVE  /\ Append(q, x) \in Seq(S)
         /\ Len(Append(q, x)) = Len(q) + 1
         /\ Append(q, x)[Len(q) + 1] = x
         /\ \A i \in 1 .. Len(q) : Append(q, x)[i] = q[i]
  OBVIOUS

LEMMA TailFacts ==
  ASSUME NEW S, NEW q \in Seq(S), q # <<>>
  PROVE  /\ Tail(q) \in Seq(S)
         /\ Len(q) >= 1 /\ Len(Tail(q)) = Len(q) - 1
         /\ Head(q) = q[1] /\ q[1] \in S
         /\ \A i \in 1 .. Len(Tail(q)) : Tail(q)[i] = q[i + 1]
  OBVIOUS

LEMMA EmptyFacts ==
  ASSUME NEW S, NEW q \in Seq(S)
  PROVE  Len(q) \in Nat /\ (q = <<>> <=> Len(q) = 0)
  OBVIOUS

LEMMA ElementFacts ==
  ASSUME NEW S, NEW q \in Seq(S), NEW i \in 1 .. Len(q)
  PROVE  q[i] \in S
  OBVIOUS

(* What numbered sequences keep when one that is newer than all is added.  *)
LEMMA Added ==
  ASSUME NEW S, \A s \in S : s.id \in Nat,
         NEW q \in Seq(S), NEW x \in S
  PROVE  /\ Increasing(q) /\ (\A i \in 1 .. Len(q) : q[i].id < x.id) => Increasing(Append(q, x))
         /\ \A low, high \in Nat : Between(low, q, high) /\ low < x.id /\ x.id <= high =>
                                    Between(low, Append(q, x), high)
         /\ \A r : Before(r, q) /\ (\A i \in 1 .. Len(r) : r[i].id < x.id) => Before(r, Append(q, x))
         /\ \A r : Before(q, r) /\ (\A i \in 1 .. Len(r) : x.id < r[i].id) => Before(Append(q, x), r)
<1> DEFINE p == Append(q, x)
<1>1. /\ p \in Seq(S) /\ Len(q) \in Nat /\ Len(p) = Len(q) + 1
      /\ p[Len(q) + 1] = x /\ \A i \in 1 .. Len(q) : p[i] = q[i]
  BY AppendFacts, EmptyFacts
<1>2. \A i \in 1 .. Len(p) : i \in 1 .. Len(q) \/ i = Len(q) + 1
  BY <1>1
<1> HIDE DEF p
<1>3. Increasing(q) /\ (\A i \in 1 .. Len(q) : q[i].id < x.id) => Increasing(p)
  <2> SUFFICES ASSUME Increasing(q), \A i \in 1 .. Len(q) : q[i].id < x.id,
                      NEW i \in 1 .. Len(p), NEW j \in 1 .. Len(p), i < j
               PROVE  p[i].id < p[j].id
    BY DEF Increasing
  <2>1. i \in 1 .. Len(q)
    BY <1>1
  <2> QED BY <1>1, <1>2, <2>1 DEF Increasing
<1>4. \A low, high \in Nat : Between(low, q, high) /\ low < x.id /\ x.id <= high => Between(low, p, high)
  BY <1>1, <1>2 DEF Between
<1>5. \A r : Before(r, q) /\ (\A i \in 1 .. Len(r) : r[i].id < x.id) => Before(r, p)
  BY <1>1, <1>2 DEF Before
<1>6. \A r : Before(q, r) /\ (\A i \in 1 .. Len(r) : x.id < r[i].id) => Before(p, r)
  BY <1>1, <1>2 DEF Before
<1> QED BY <1>3, <1>4, <1>5, <1>6 DEF p

(* What they keep when their oldest is taken.                              *)
LEMMA Dropped ==
  ASSUME NEW S, NEW q \in Seq(S), q # <<>>, Increasing(q)
  PROVE  /\ Increasing(Tail(q))
         /\ \A i \in 1 .. Len(Tail(q)) : q[1].id < Tail(q)[i].id
         /\ \A low, high : Between(low, q, high) => Between(low, Tail(q), high)
         /\ \A r : Before(r, q) => Before(r, Tail(q))
         /\ \A r : Before(q, r) => Before(Tail(q), r)
<1> DEFINE p == Tail(q)
<1>1. /\ p \in Seq(S) /\ Len(q) \in Nat /\ Len(p) \in Nat /\ Len(q) >= 1 /\ Len(p) = Len(q) - 1
      /\ \A i \in 1 .. Len(p) : p[i] = q[i + 1] /\ i + 1 \in 1 .. Len(q)
  BY TailFacts, EmptyFacts
<1>2. 1 \in 1 .. Len(q) /\ \A i, j \in 1 .. Len(p) : i < j => i + 1 < j + 1
  BY <1>1
<1> HIDE DEF p
<1>3. Increasing(p)
  BY <1>1, <1>2 DEF Increasing
<1>4. \A i \in 1 .. Len(p) : q[1].id < p[i].id
  <2> TAKE i \in 1 .. Len(p)
  <2>1. 1 < i + 1 /\ i + 1 \in 1 .. Len(q) /\ p[i] = q[i + 1]
    BY <1>1
  <2> QED BY <1>2, <2>1 DEF Increasing
<1>5. \A low, high : Between(low, q, high) => Between(low, p, high)
  BY <1>1 DEF Between
<1>6. /\ \A r : Before(r, q) => Before(r, p)
      /\ \A r : Before(q, r) => Before(p, r)
  BY <1>1 DEF Before
<1> QED BY <1>3, <1>4, <1>5, <1>6 DEF p

LEMMA Numbers ==
  /\ \A s \in Question : s.id \in Nat
  /\ \A s \in Reply : s.id \in Nat
  BY DEF Question, Reply

(* The ring's index arithmetic.                                            *)
LEMMA AdvanceIs ==
  ASSUME NEW index \in Slot
  PROVE  Advance(index) \in Slot /\ Advance(index) = Wrapped(index + 1)
  BY LinkAssumption DEF Advance, Wrapped, Slot

-----------------------------------------------------------------------------
(* Initially. *)

LEMMA LinkInitInv == LinkInit => LinkInv
<1> SUFFICES ASSUME LinkInit PROVE LinkInv
  OBVIOUS
<1>1. Typed
  BY LinkAssumption DEF LinkInit, Typed, Requested, Slot, Packet
<1>2. RingIsQueue
  BY LinkAssumption DEF LinkInit, RingIsQueue, Distance
<1>3. Ordered
  BY DEF LinkInit, Ordered, Increasing, Before, Between
<1>4. Quiet
  BY DEF LinkInit, Quiet, Busy, Idle, Nobody
<1> QED BY <1>1, <1>2, <1>3, <1>4 DEF LinkInv

-----------------------------------------------------------------------------
(* The threads. *)

(* What a thread does that leaves the line alone.                          *)
LEMMA LineUnchanged ==
  ASSUME LinkInv,
         UNCHANGED <<inbox, replies, ring, readIndex, writeIndex, unread, overrun, last, count>>
  PROVE  RingIsQueue' /\ Ordered'
<1>1. RingIsQueue'
  BY DEF LinkInv, RingIsQueue
<1>2. Ordered'
  BY DEF LinkInv, Ordered, Increasing, Before, Between
<1> QED BY <1>1, <1>2

LEMMA TransmitInv ==
  ASSUME LinkInv, NEW t \in Threads, NEW cmd \in Commands, Transmit(t, cmd)
  PROVE  LinkInv'
<1>1. /\ UNCHANGED <<inbox, replies, ring, readIndex, writeIndex, unread, overrun, last, count, losses>>
      /\ quiet' = (quiet /\ Busy = {} /\ inbox = <<>> /\ replies = <<>> /\ unread = <<>>)
      /\ request[t].pc = "idle"
  BY DEF Transmit
<1>2. Typed'
  <2> DEFINE new == [pc |-> "sending", cmd |-> cmd, mixed |-> Sending # {}]
  <2>1. quiet' \in BOOLEAN
    BY <1>1
  <2>2. new \in [pc : {"sending"}, cmd : Commands, mixed : BOOLEAN]
    OBVIOUS
  <2>3. ASSUME NEW u \in Sending
        PROVE  [request[u] EXCEPT !.mixed = TRUE] \in [pc : {"sending"}, cmd : Commands, mixed : BOOLEAN]
    <3>1. request[u] \in Requested /\ request[u].pc = "sending"
      BY DEF Sending, LinkInv, Typed
    <3>2. request[u] \in [pc : {"sending"}, cmd : Commands, mixed : BOOLEAN]
      BY <3>1 DEF Requested, Idle
    <3> QED BY <3>2
  <2>4. request' = [u \in Threads |->
           IF u = t THEN new
           ELSE IF u \in Sending THEN [request[u] EXCEPT !.mixed = TRUE] ELSE request[u]]
    BY DEF Transmit
  <2> HIDE DEF new
  <2>5. \A u \in Threads : (IF u = t THEN new
           ELSE IF u \in Sending THEN [request[u] EXCEPT !.mixed = TRUE] ELSE request[u]) \in Requested
    BY <2>2, <2>3 DEF Requested, LinkInv, Typed
  <2>6. request' \in [Threads -> Requested]
    BY <2>4, <2>5
  <2> QED BY <1>1, <2>1, <2>6 DEF LinkInv, Typed
<1>3. RingIsQueue' /\ Ordered'
  BY <1>1, LineUnchanged
<1>4. Quiet'
  <2> SUFFICES ASSUME quiet' PROVE Quiet'
    BY DEF Quiet
  <2>1. Busy = {} /\ Nobody /\ Nobody'
    BY <1>1 DEF Nobody
  <2>2. Sending = {}
    BY <2>1 DEF Busy, Sending
  <2>3. \A u \in Threads :
          request'[u] = IF u = t THEN [pc |-> "sending", cmd |-> cmd, mixed |-> FALSE] ELSE request[u]
    BY <2>2 DEF Transmit
  <2>4. \A u \in Busy' : u = t
    BY <2>1, <2>3 DEF Busy
  <2>5. \A u \in Threads \ {t} : request[u].pc \notin {"sending", "waiting", "blocked"}
    BY <2>1 DEF Busy
  <2>6. quiet /\ \A u \in Threads : request[u].pc = "answered" => request[u].ok /\ request[u].from = request[u].id
    BY <1>1 DEF LinkInv, Quiet
  <2> QED BY <2>1, <2>3, <2>4, <2>5, <2>6 DEF Quiet
<1> QED BY <1>2, <1>3, <1>4 DEF LinkInv

LEMMA SentInv ==
  ASSUME LinkInv, NEW t \in Threads, Sent(t)
  PROVE  LinkInv'
<1> DEFINE question == [cmd |-> request[t].cmd, id |-> count + 1]
           r        == [pc |-> "waiting", cmd |-> request[t].cmd, id |-> count + 1]
<1>1. /\ request[t].pc = "sending"
      /\ count' = count + 1
      /\ request' = [request EXCEPT ![t] = r]
      /\ UNCHANGED <<replies, ring, readIndex, writeIndex, unread, overrun, last>>
  BY DEF Sent
<1>2. \/ inbox' = Append(inbox, question) /\ UNCHANGED <<quiet, losses>>
      \/ inbox' = inbox /\ quiet' = FALSE /\ losses' \in {losses, losses + 1}
  BY DEF Sent
<1>3. /\ request \in [Threads -> Requested] /\ count \in Nat
      /\ inbox \in Seq(Question) /\ replies \in Seq(Reply) /\ unread \in Seq(Reply)
  BY DEF LinkInv, Typed
<1>4. request[t].cmd \in Commands
  BY <1>1, <1>3 DEF Requested, Idle
<1>5. question \in Question /\ r \in Requested
  BY <1>3, <1>4 DEF Question, Requested
<1>6. question.id = count + 1 /\ question.cmd = request[t].cmd
  OBVIOUS
<1>7. r.pc = "waiting" /\ r.cmd = request[t].cmd /\ r.id = count + 1
  OBVIOUS
<1> HIDE DEF question, r
<1>8. Append(inbox, question) \in Seq(Question)
  BY <1>3, <1>5
<1>9. Typed'
  <2>1. request' \in [Threads -> Requested]
    BY <1>1, <1>3, <1>5
  <2>2. quiet' \in BOOLEAN
    BY <1>2 DEF LinkInv, Typed
  <2>3. inbox' \in Seq(Question)
    BY <1>2, <1>3, <1>8
  <2>4. losses' \in Nat
    BY <1>2 DEF LinkInv, Typed
  <2> QED BY <1>1, <1>3, <2>1, <2>2, <2>3, <2>4 DEF LinkInv, Typed
<1>10. RingIsQueue'
  BY <1>1 DEF LinkInv, RingIsQueue
<1>11. Ordered'
  <2>1. /\ \A i \in 1 .. Len(inbox) : inbox[i].id \in Nat
        /\ \A i \in 1 .. Len(replies) : replies[i].id \in Nat
        /\ \A i \in 1 .. Len(unread) : unread[i].id \in Nat
        /\ last \in Nat
    BY <1>3, Numbers, ElementFacts DEF LinkInv, Typed
  <2>2. /\ last' <= count'
        /\ Between(last, inbox, count') /\ Between(last, unread, count') /\ Between(last, replies, count')
    <3>1. /\ last <= count
          /\ Between(last, inbox, count) /\ Between(last, unread, count) /\ Between(last, replies, count)
      BY DEF LinkInv, Ordered
    <3>2. last' = last /\ count' = count + 1 /\ count \in Nat /\ last \in Nat
      BY <1>1, <1>3, <2>1
    <3>3. last' <= count'
      BY <3>1, <3>2
    <3>4. Between(last, inbox, count')
      BY <2>1, <3>1, <3>2 DEF Between
    <3>5. Between(last, unread, count')
      BY <2>1, <3>1, <3>2 DEF Between
    <3>6. Between(last, replies, count')
      BY <2>1, <3>1, <3>2 DEF Between
    <3> QED BY <3>3, <3>4, <3>5, <3>6
  <2>3. CASE inbox' = inbox
    BY <1>1, <2>2, <2>3 DEF LinkInv, Ordered, Increasing, Before, Between
  <2>4. CASE inbox' = Append(inbox, question)
    <3>1. /\ \A i \in 1 .. Len(inbox) : inbox[i].id < question.id
          /\ \A i \in 1 .. Len(replies) : replies[i].id < question.id
          /\ \A i \in 1 .. Len(unread) : unread[i].id < question.id
          /\ last < question.id /\ question.id <= count' /\ count' \in Nat
      <4>1. last <= count /\ Between(last, inbox, count) /\ Between(last, replies, count) /\ Between(last, unread, count)
        BY DEF LinkInv, Ordered
      <4>2. count \in Nat /\ count' = count + 1 /\ question.id = count + 1
        BY <1>1, <1>3, <1>6
      <4>3. \A i \in 1 .. Len(inbox) : inbox[i].id < question.id
        BY <2>1, <4>1, <4>2 DEF Between
      <4>4. \A i \in 1 .. Len(replies) : replies[i].id < question.id
        BY <2>1, <4>1, <4>2 DEF Between
      <4>5. \A i \in 1 .. Len(unread) : unread[i].id < question.id
        BY <2>1, <4>1, <4>2 DEF Between
      <4> QED BY <2>1, <4>1, <4>2, <4>3, <4>4, <4>5
    <3>2. /\ Increasing(inbox') /\ Between(last, inbox', count')
          /\ Before(replies, inbox') /\ Before(unread, inbox')
      BY <1>3, <1>5, <2>1, <2>2, <2>4, <3>1, Numbers, Added DEF LinkInv, Ordered
    <3> QED BY <1>1, <2>2, <3>2 DEF LinkInv, Ordered, Increasing, Before, Between
  <2> QED BY <1>2, <2>3, <2>4
<1>12. Quiet'
  <2> SUFFICES ASSUME quiet' PROVE Quiet'
    BY DEF Quiet
  <2>1. quiet /\ inbox' = Append(inbox, question)
    BY <1>2
  <2>2. Nobody /\ \A u, v \in Busy : u = v
    BY <1>1, <2>1 DEF LinkInv, Quiet
  <2>3. \A u \in Threads : request'[u] = IF u = t THEN r ELSE request[u]
    BY <1>1, <1>3
  <2>4. t \in Busy /\ Busy' = Busy
    BY <1>1, <1>7, <2>3 DEF Busy
  <2>5. Len(inbox') = 1 /\ inbox'[1] = question
    BY <2>1, <2>2 DEF Nobody
  <2>6. Underway(request[t])'
    BY <1>1, <1>6, <1>7, <2>2, <2>3, <2>5 DEF Underway, Nobody
  <2>7. \A u \in Threads \ {t} : request[u].pc \notin {"sending", "waiting", "blocked"}
    BY <2>2, <2>4 DEF Busy
  <2>8. \A u \in Threads : request[u].pc = "answered" => request[u].ok /\ request[u].from = request[u].id
    BY <2>1 DEF LinkInv, Quiet
  <2> QED BY <1>7, <2>2, <2>3, <2>4, <2>6, <2>7, <2>8 DEF Quiet
<1> QED BY <1>9, <1>10, <1>11, <1>12 DEF LinkInv

LEMMA WaitInv ==
  ASSUME LinkInv, NEW t \in Threads, Wait(t)
  PROVE  LinkInv'
<1>1. /\ request[t].pc = "waiting"
      /\ request' = [request EXCEPT ![t].pc = "blocked"]
      /\ UNCHANGED <<inbox, replies, ring, readIndex, writeIndex, unread, overrun, quiet, last, count, losses>>
  BY DEF Wait
<1>2. request \in [Threads -> Requested]
  BY DEF LinkInv, Typed
<1>3. request[t] \in [pc : {"waiting", "blocked"}, cmd : Commands, id : Nat]
  BY <1>1, <1>2 DEF Requested, Idle
<1>4. /\ request'[t] \in Requested
      /\ request'[t].pc = "blocked" /\ request'[t].cmd = request[t].cmd /\ request'[t].id = request[t].id
      /\ \A u \in Threads \ {t} : request'[u] = request[u]
  BY <1>1, <1>2, <1>3 DEF Requested
<1>5. Typed'
  <2>1. request' \in [Threads -> Requested]
    BY <1>1, <1>2, <1>4
  <2> QED BY <1>1, <2>1 DEF LinkInv, Typed
<1>6. RingIsQueue' /\ Ordered'
  BY <1>1, LineUnchanged
<1>7. Quiet'
  <2>1. Busy' = Busy
    BY <1>1, <1>4 DEF Busy
  <2>2. Nobody' = Nobody
    BY <1>1 DEF Nobody
  <2>3. quiet => Underway(request[t])
    BY <1>1 DEF LinkInv, Quiet
  <2>4. Underway(request[t]) => Underway(request[t])'
    BY <1>1, <1>4 DEF Underway
  <2>5. \A u \in Threads \ {t} : Underway(request[u]) => Underway(request[u])'
    BY <1>1, <1>4 DEF Underway
  <2> QED BY <1>1, <1>4, <2>1, <2>2, <2>3, <2>4, <2>5 DEF LinkInv, Quiet
<1> QED BY <1>5, <1>6, <1>7 DEF LinkInv

LEMMA TimeOutInv ==
  ASSUME LinkInv, NEW t \in Threads, TimeOut(t)
  PROVE  LinkInv'
<1> DEFINE r == [pc |-> "answered", cmd |-> request[t].cmd, id |-> request[t].id, ok |-> FALSE,
                 value |-> 0, from |-> 0]
<1>1. /\ request[t].pc = "blocked" /\ request' = [request EXCEPT ![t] = r] /\ quiet' = FALSE
      /\ UNCHANGED <<inbox, replies, ring, readIndex, writeIndex, unread, overrun, last, count, losses>>
  BY DEF TimeOut
<1>2. request \in [Threads -> Requested]
  BY DEF LinkInv, Typed
<1>3. request[t] \in [pc : {"waiting", "blocked"}, cmd : Commands, id : Nat]
  BY <1>1, <1>2 DEF Requested, Idle
<1>4. r \in Requested
  BY <1>3 DEF Requested
<1> HIDE DEF r
<1>5. Typed'
  <2>1. request' \in [Threads -> Requested]
    BY <1>1, <1>2, <1>4
  <2> QED BY <1>1, <2>1 DEF LinkInv, Typed
<1>6. RingIsQueue' /\ Ordered'
  BY <1>1, LineUnchanged
<1>7. Quiet'
  BY <1>1 DEF Quiet
<1> QED BY <1>5, <1>6, <1>7 DEF LinkInv

-----------------------------------------------------------------------------
(* The ring. *)

LEMMA RingArithmetic ==
  ASSUME NEW r \in Slot, NEW w \in Slot
  PROVE  /\ Distance(r, w) \in 0 .. BufferCount - 1
         /\ r # w => Distance(Wrapped(r + 1), w) = Distance(r, w) - 1
         /\ Distance(r, w) = BufferCount - 1 => Distance(r, Wrapped(w + 1)) = 0
         /\ Distance(r, w) # BufferCount - 1 => Distance(r, Wrapped(w + 1)) = Distance(r, w) + 1
         /\ \A i \in 1 .. Distance(r, w) : Wrapped(r + i - 1) # w /\ Wrapped(r + i - 1) \in Slot
<1>1. /\ BufferCount \in Nat /\ BufferCount > 1
      /\ r \in 0 .. BufferCount - 1 /\ w \in 0 .. BufferCount - 1
  BY LinkAssumption DEF Slot
<1>2. /\ Distance(r, w) \in 0 .. BufferCount - 1
      /\ r # w => Distance(Wrapped(r + 1), w) = Distance(r, w) - 1
  BY <1>1 DEF Distance, Wrapped
<1>3. Distance(r, w) = BufferCount - 1 => Distance(r, Wrapped(w + 1)) = 0
  BY <1>1 DEF Distance, Wrapped
<1>4. Distance(r, w) # BufferCount - 1 => Distance(r, Wrapped(w + 1)) = Distance(r, w) + 1
  BY <1>1 DEF Distance, Wrapped
<1>5. ASSUME NEW i \in 1 .. Distance(r, w)
      PROVE  Wrapped(r + i - 1) # w /\ Wrapped(r + i - 1) \in Slot
  BY <1>1 DEF Distance, Wrapped, Slot
<1> QED BY <1>2, <1>3, <1>4, <1>5

(* What lies between the indices.                                          *)
LEMMA RingFacts ==
  ASSUME LinkInv
  PROVE  /\ BufferCount \in Nat /\ BufferCount > 1
         /\ readIndex \in 0 .. BufferCount - 1 /\ writeIndex \in 0 .. BufferCount - 1
         /\ Len(unread) \in 0 .. BufferCount - 1 /\ unread \in Seq(Reply)
         /\ Len(unread) = Distance(readIndex, writeIndex)
         /\ \A i \in 1 .. Len(unread) : ring[Wrapped(readIndex + i - 1)] = unread[i]
         /\ ~Empty => unread # <<>> /\ Len(unread) >= 1 /\ ring[readIndex] = unread[1]
<1>1. BufferCount \in Nat /\ BufferCount > 1
  BY LinkAssumption
<1>2. /\ readIndex \in 0 .. BufferCount - 1 /\ writeIndex \in 0 .. BufferCount - 1
      /\ Len(unread) \in 0 .. BufferCount - 1 /\ unread \in Seq(Reply)
  BY DEF LinkInv, Typed, Slot
<1>3. /\ Len(unread) = Distance(readIndex, writeIndex)
      /\ \A i \in 1 .. Len(unread) : ring[Wrapped(readIndex + i - 1)] = unread[i]
  BY DEF LinkInv, RingIsQueue
<1>4. ASSUME ~Empty
      PROVE  Len(unread) >= 1
  BY <1>1, <1>2, <1>3, <1>4 DEF Empty, Distance
<1>5. Wrapped(readIndex + 1 - 1) = readIndex
  BY <1>1, <1>2 DEF Wrapped
<1>6. ASSUME ~Empty
      PROVE  ring[readIndex] = unread[1]
  <2>1. 1 \in 1 .. Len(unread)
    BY <1>2, <1>4, <1>6
  <2> QED BY <1>3, <1>5, <2>1
<1>7. ASSUME ~Empty
      PROVE  unread # <<>>
  BY <1>2, <1>4, <1>7, EmptyFacts
<1> QED BY <1>1, <1>2, <1>3, <1>4, <1>6, <1>7

LEMMA TakeInv ==
  ASSUME LinkInv, NEW t \in Threads, Take(t)
  PROVE  LinkInv'
<1> DEFINE packet == unread[1]
           r == [pc |-> "answered", cmd |-> request[t].cmd, id |-> request[t].id,
                 ok |-> packet.op = request[t].cmd.op, value |-> packet.value, from |-> packet.id]
<1>1. ~Empty /\ request[t].pc \in {"waiting", "blocked"}
  BY DEF Take
<1>2. /\ unread # <<>> /\ Len(unread) >= 1 /\ ring[readIndex] = packet
      /\ unread \in Seq(Reply)
  BY <1>1, RingFacts
<1>3. /\ readIndex' = Advance(readIndex) /\ last' = packet.id /\ unread' = Tail(unread)
      /\ request' = [request EXCEPT ![t] = r]
      /\ UNCHANGED <<inbox, replies, ring, writeIndex, overrun, quiet, count, losses>>
  BY <1>2 DEF Take
<1>4. packet \in Reply
  BY <1>2, TailFacts
<1>5. /\ request \in [Threads -> Requested] /\ readIndex \in Slot
      /\ inbox \in Seq(Question) /\ replies \in Seq(Reply) /\ count \in Nat
  BY DEF LinkInv, Typed
<1>6. request[t] \in [pc : {"waiting", "blocked"}, cmd : Commands, id : Nat]
  BY <1>1, <1>5 DEF Requested, Idle
<1>7. /\ r \in Requested
      /\ r.pc = "answered" /\ r.id = request[t].id /\ r.from = packet.id
      /\ r.ok <=> packet.op = request[t].cmd.op
  <2>1. (packet.op = request[t].cmd.op) \in BOOLEAN
    OBVIOUS
  <2>2. packet.value \in Int /\ packet.id \in Nat
    BY <1>4 DEF Reply
  <2>3. r \in Requested
    BY <1>6, <2>1, <2>2 DEF Requested
  <2> QED BY <2>3
<1> HIDE DEF r, packet
<1>8. /\ Tail(unread) \in Seq(Reply) /\ Len(Tail(unread)) = Len(unread) - 1
      /\ \A i \in 1 .. Len(Tail(unread)) : Tail(unread)[i] = unread[i + 1]
  BY <1>2, TailFacts
<1>9. Typed'
  <2>1. request' \in [Threads -> Requested]
    BY <1>3, <1>5, <1>7
  <2>2. readIndex' \in Slot
    BY <1>3, <1>5, AdvanceIs
  <2>3. Len(unread') \in Slot
    BY <1>2, <1>3, <1>8, RingFacts DEF Slot
  <2>4. last' \in Nat
    BY <1>3, <1>4, Numbers
  <2> QED BY <1>3, <1>8, <2>1, <2>2, <2>3, <2>4 DEF LinkInv, Typed
<1>10. RingIsQueue'
  <2>1. Advance(readIndex) = Wrapped(readIndex + 1)
    BY <1>5, AdvanceIs
  <2>2. Distance(readIndex', writeIndex) = Len(unread) - 1
    <3>1. readIndex \in Slot /\ writeIndex \in Slot /\ readIndex # writeIndex
      BY <1>1, RingFacts DEF Empty, Slot
    <3> QED BY <1>3, <2>1, <3>1, RingFacts, RingArithmetic
  <2>3. ASSUME NEW i \in 1 .. Len(unread')
        PROVE  ring[Wrapped(readIndex' + i - 1)] = unread'[i]
    <3>1. i + 1 \in 1 .. Len(unread) /\ i < BufferCount - 1
      BY <1>2, <1>3, <1>8, RingFacts
    <3>2. Wrapped(Wrapped(readIndex + 1) + i - 1) = Wrapped(readIndex + (i + 1) - 1)
      BY <3>1, RingFacts DEF Wrapped
    <3>3. ring[Wrapped(readIndex + (i + 1) - 1)] = unread[i + 1]
      BY <3>1, RingFacts
    <3> QED BY <1>3, <1>8, <2>1, <3>2, <3>3
  <2> QED BY <1>3, <1>8, <2>2, <2>3 DEF RingIsQueue
<1>11. Ordered'
  <2>1. 1 \in 1 .. Len(unread)
    BY <1>2, EmptyFacts
  <2>2. packet.id <= count
    BY <2>1 DEF LinkInv, Ordered, Between, packet
  <2>3. /\ Increasing(Tail(unread))
        /\ \A i \in 1 .. Len(Tail(unread)) : packet.id < Tail(unread)[i].id
        /\ Between(last, Tail(unread), count)
        /\ Before(Tail(unread), replies) /\ Before(Tail(unread), inbox)
    BY <1>2, Dropped DEF LinkInv, Ordered, packet
  <2>4. Between(packet.id, Tail(unread), count)
    BY <2>3 DEF Between
  <2>5. Between(packet.id, replies, count) /\ Between(packet.id, inbox, count)
    BY <2>1 DEF LinkInv, Ordered, Before, Between, packet
  <2> QED BY <1>3, <2>2, <2>3, <2>4, <2>5 DEF LinkInv, Ordered, Increasing, Before, Between
<1>12. Quiet'
  <2> SUFFICES ASSUME quiet' PROVE Quiet'
    BY DEF Quiet
  <2>1. quiet
    BY <1>3
  <2>2. Underway(request[t]) /\ \A u, v \in Busy : u = v
    BY <1>1, <2>1 DEF LinkInv, Quiet
  <2>3. packet.op = request[t].cmd.op /\ packet.id = request[t].id
    BY <1>2, <2>2 DEF Underway, packet
  <2>4. \A u \in Threads : request'[u] = IF u = t THEN r ELSE request[u]
    BY <1>3, <1>5
  <2>5. \A u \in Threads \ {t} : request[u].pc \notin {"sending", "waiting", "blocked"}
    BY <1>1, <2>2 DEF Busy
  <2>6. \A u \in Threads : request[u].pc = "answered" => request[u].ok /\ request[u].from = request[u].id
    BY <2>1 DEF LinkInv, Quiet
  <2>7. Busy' = {}
    BY <1>7, <2>4, <2>5 DEF Busy
  <2> QED BY <1>7, <2>3, <2>4, <2>5, <2>6, <2>7 DEF Quiet
<1> QED BY <1>9, <1>10, <1>11, <1>12 DEF LinkInv

(* Something is on the line only when nobody sends and the line is quiet   *)
(* for the one that waits.                                                 *)
LEMMA OneQuestion ==
  ASSUME LinkInv, quiet, ~Nobody, NEW t \in Threads
  PROVE  /\ request[t].pc # "sending"
         /\ request[t].pc \in {"waiting", "blocked"} => Underway(request[t])
         /\ request[t].pc = "answered" => request[t].ok /\ request[t].from = request[t].id
  BY DEF LinkInv, Quiet

LEMMA AcceptPacketInv ==
  ASSUME LinkInv, AcceptPacket
  PROVE  LinkInv'
<1> DEFINE packet == replies[1]
<1>1. /\ replies # <<>> /\ replies \in Seq(Reply) /\ unread \in Seq(Reply)
      /\ writeIndex \in Slot /\ ring \in [Slot -> Packet]
  BY DEF LinkInv, Typed, AcceptPacket
<1>2. /\ Tail(replies) \in Seq(Reply) /\ Head(replies) = packet /\ packet \in Reply
      /\ Len(replies) >= 1 /\ Len(Tail(replies)) = Len(replies) - 1 /\ 1 \in 1 .. Len(replies)
  BY <1>1, TailFacts, EmptyFacts
<1>3. /\ replies' = Tail(replies)
      /\ ring' = [ring EXCEPT ![writeIndex] = packet]
      /\ writeIndex' = Advance(writeIndex)
      /\ UNCHANGED <<request, inbox, readIndex, quiet, last, count, losses>>
  BY <1>2 DEF AcceptPacket
<1>4. \/ Len(unread) = BufferCount - 1 /\ overrun' = TRUE /\ unread' = <<>>
      \/ Len(unread) # BufferCount - 1 /\ overrun' = overrun /\ unread' = Append(unread, packet)
  BY <1>2 DEF AcceptPacket
<1> HIDE DEF packet
<1>5. /\ Append(unread, packet) \in Seq(Reply) /\ Len(Append(unread, packet)) = Len(unread) + 1
      /\ Append(unread, packet)[Len(unread) + 1] = packet
      /\ \A i \in 1 .. Len(unread) : Append(unread, packet)[i] = unread[i]
  BY <1>1, <1>2, AppendFacts
<1>6. writeIndex' \in Slot /\ writeIndex' = Wrapped(writeIndex + 1)
  BY <1>1, <1>3, AdvanceIs
<1>7. packet \in Packet
  BY <1>2 DEF Reply, Packet
<1>8. Typed'
  <2>1. ring' \in [Slot -> Packet]
    BY <1>1, <1>3, <1>7
  <2>2. unread' \in Seq(Reply)
    <3>1. <<>> \in Seq(Reply)
      OBVIOUS
    <3> QED BY <1>4, <1>5, <3>1, Zenon
  <2>4. Len(unread') \in Slot
    <3>1. Len(unread) \in 0 .. BufferCount - 1 /\ BufferCount \in Nat /\ BufferCount > 1
      BY RingFacts
    <3> QED BY <1>4, <1>5, <3>1 DEF Slot
  <2>3. overrun' \in BOOLEAN
    BY <1>4 DEF LinkInv, Typed
  <2> QED BY <1>2, <1>3, <1>6, <2>1, <2>2, <2>3, <2>4 DEF LinkInv, Typed
<1>9. RingIsQueue'
  <2>0. readIndex \in Slot
    BY RingFacts DEF Slot
  <2>1. CASE Len(unread) = BufferCount - 1
    <3>1. unread' = <<>>
      BY <1>4, <2>1
    <3>2. Distance(readIndex, writeIndex') = 0
        BY <1>1, <1>6, <2>1, <2>0, RingFacts, RingArithmetic
    <3> QED BY <1>3, <3>1, <3>2 DEF RingIsQueue
  <2>2. CASE Len(unread) # BufferCount - 1
    <3>1. unread' = Append(unread, packet)
      BY <1>4, <2>2
    <3>2. Distance(readIndex, writeIndex') = Len(unread) + 1
      BY <1>1, <1>6, <2>2, <2>0, RingFacts, RingArithmetic
    <3>3. Wrapped(readIndex + (Len(unread) + 1) - 1) = writeIndex
      BY <2>2, RingFacts DEF Distance, Wrapped
    <3>4. ASSUME NEW i \in 1 .. Len(unread)
          PROVE  Wrapped(readIndex + i - 1) # writeIndex /\ Wrapped(readIndex + i - 1) \in Slot
      BY <1>1, <2>0, RingFacts, RingArithmetic
    <3>5. ASSUME NEW i \in 1 .. Len(unread')
          PROVE  ring'[Wrapped(readIndex + i - 1)] = unread'[i]
      <4>1. CASE i = Len(unread) + 1
        BY <1>1, <1>3, <1>5, <3>1, <3>3, <4>1
      <4>2. CASE i # Len(unread) + 1
        <5>1. i \in 1 .. Len(unread)
          BY <1>5, <3>1, <4>2, RingFacts
        <5>2. ring'[Wrapped(readIndex + i - 1)] = ring[Wrapped(readIndex + i - 1)]
          BY <1>1, <1>3, <3>4, <5>1
        <5> QED BY <1>5, <3>1, <5>1, <5>2, RingFacts
      <4> QED BY <4>1, <4>2
    <3> QED BY <1>3, <1>5, <3>1, <3>2, <3>5 DEF RingIsQueue
  <2> QED BY <2>1, <2>2
<1>10. Ordered'
  <2>1. /\ Increasing(Tail(replies))
        /\ \A i \in 1 .. Len(Tail(replies)) : packet.id < Tail(replies)[i].id
        /\ Between(last, Tail(replies), count)
        /\ Before(unread, Tail(replies)) /\ Before(Tail(replies), inbox)
    BY <1>1, Dropped DEF LinkInv, Ordered, packet
  <2>2. CASE unread' = <<>>
    BY <1>3, <2>1, <2>2 DEF LinkInv, Ordered, Increasing, Before, Between
  <2>3. CASE unread' = Append(unread, packet)
    <3>1. /\ \A i \in 1 .. Len(unread) : unread[i].id < packet.id
          /\ \A i \in 1 .. Len(inbox) : packet.id < inbox[i].id
          /\ last < packet.id /\ packet.id <= count
      BY <1>2 DEF LinkInv, Ordered, Before, Between, packet
    <3>2. last \in Nat /\ count \in Nat
      BY DEF LinkInv, Typed
    <3>3. /\ Increasing(Append(unread, packet)) /\ Between(last, Append(unread, packet), count)
          /\ Before(Append(unread, packet), Tail(replies)) /\ Before(Append(unread, packet), inbox)
      BY <1>1, <1>2, <2>1, <3>1, <3>2, Numbers, Added DEF LinkInv, Ordered
    <3> QED BY <1>3, <2>1, <2>3, <3>3 DEF LinkInv, Ordered, Increasing, Before, Between
  <2> QED BY <1>4, <2>2, <2>3
<1>11. Quiet'
  <2> SUFFICES ASSUME quiet' PROVE Quiet'
    BY DEF Quiet
  <2>1. quiet /\ ~Nobody /\ request' = request
    BY <1>1, <1>3 DEF Nobody
  <2>2. Busy' = Busy /\ \A t, u \in Busy : t = u
    BY <2>1 DEF LinkInv, Quiet, Busy
  <2>3. ASSUME NEW t \in Threads, Underway(request[t])
        PROVE  Underway(request[t])'
    <3>1. /\ inbox = <<>> /\ Len(replies) = 1 /\ unread = <<>>
          /\ packet.op = request[t].cmd.op /\ packet.id = request[t].id
      BY <1>1, <2>3 DEF Underway, packet
    <3>2. replies' = <<>>
      BY <1>2, <1>3, <3>1, EmptyFacts
    <3>3. Len(unread) = 0 /\ Len(unread) # BufferCount - 1
      BY <1>1, <3>1, EmptyFacts, LinkAssumption
    <3>4. Len(unread') = 1 /\ unread'[1] = packet
      BY <1>4, <1>5, <3>3
    <3> QED BY <1>3, <3>1, <3>2, <3>4 DEF Underway
  <2> QED BY <2>1, <2>2, <2>3, OneQuestion DEF Quiet
<1> QED BY <1>8, <1>9, <1>10, <1>11 DEF LinkInv

-----------------------------------------------------------------------------
(* The controller. *)

LEMMA AnswerInv ==
  ASSUME LinkInv, NEW value \in Int, Answer(value)
  PROVE  LinkInv'
<1> DEFINE question == inbox[1]
           packet == [op |-> question.cmd.op, value |-> value, id |-> question.id]
<1>1. /\ inbox # <<>> /\ inbox \in Seq(Question) /\ replies \in Seq(Reply)
      /\ losses \in Nat /\ count \in Nat /\ last \in Nat
  BY DEF LinkInv, Typed, Answer
<1>2. /\ Tail(inbox) \in Seq(Question) /\ Head(inbox) = question /\ question \in Question
      /\ Len(inbox) >= 1 /\ Len(Tail(inbox)) = Len(inbox) - 1 /\ 1 \in 1 .. Len(inbox)
  BY <1>1, TailFacts, EmptyFacts
<1>3. /\ inbox' = Tail(inbox)
      /\ UNCHANGED <<request, ring, readIndex, writeIndex, unread, overrun, last, count>>
  BY DEF Answer
<1>4. \/ replies' = Append(replies, packet) /\ UNCHANGED <<losses, quiet>>
      \/ replies' = replies /\ losses' = losses + 1 /\ quiet' = FALSE
  BY <1>2 DEF Answer
<1>5. packet \in Reply /\ packet.id = question.id /\ packet.op = question.cmd.op
  BY <1>2 DEF Reply, Question
<1> HIDE DEF packet
<1>6. /\ Append(replies, packet) \in Seq(Reply) /\ Len(Append(replies, packet)) = Len(replies) + 1
      /\ Append(replies, packet)[Len(replies) + 1] = packet
  BY <1>1, <1>5, AppendFacts
<1> HIDE DEF question
<1>7. Typed'
  <2>1. replies' \in Seq(Reply)
    BY <1>1, <1>4, <1>6, Zenon
  <2>2. quiet' \in BOOLEAN
    BY <1>4 DEF LinkInv, Typed
  <2>3. losses' \in Nat
    BY <1>1, <1>4
  <2> QED BY <1>2, <1>3, <2>1, <2>2, <2>3 DEF LinkInv, Typed
<1>8. RingIsQueue'
  BY <1>3 DEF LinkInv, RingIsQueue
<1>9. Ordered'
  <2>1. /\ Increasing(Tail(inbox))
        /\ \A i \in 1 .. Len(Tail(inbox)) : question.id < Tail(inbox)[i].id
        /\ Between(last, Tail(inbox), count)
        /\ Before(unread, Tail(inbox)) /\ Before(replies, Tail(inbox))
    BY <1>1, Dropped DEF LinkInv, Ordered, question
  <2>2. CASE replies' = replies
    BY <1>3, <2>1, <2>2 DEF LinkInv, Ordered, Increasing, Before, Between
  <2>3. CASE replies' = Append(replies, packet)
    <3>1. /\ \A i \in 1 .. Len(replies) : replies[i].id < packet.id
          /\ \A i \in 1 .. Len(unread) : unread[i].id < packet.id
          /\ last < packet.id /\ packet.id <= count
      BY <1>2, <1>5 DEF LinkInv, Ordered, Before, Between, question
    <3>2. /\ Increasing(Append(replies, packet)) /\ Between(last, Append(replies, packet), count)
          /\ Before(unread, Append(replies, packet)) /\ Before(Append(replies, packet), Tail(inbox))
      BY <1>1, <1>5, <2>1, <3>1, Numbers, Added DEF LinkInv, Ordered
    <3> QED BY <1>3, <2>1, <2>3, <3>2 DEF LinkInv, Ordered, Increasing, Before, Between
  <2> QED BY <1>4, <2>2, <2>3
<1>10. Quiet'
  <2> SUFFICES ASSUME quiet' PROVE Quiet'
    BY DEF Quiet
  <2>1. quiet /\ ~Nobody /\ request' = request /\ replies' = Append(replies, packet)
    BY <1>1, <1>3, <1>4 DEF Nobody
  <2>2. Busy' = Busy /\ \A t, u \in Busy : t = u
    BY <2>1 DEF LinkInv, Quiet, Busy
  <2>3. ASSUME NEW t \in Threads, Underway(request[t])
        PROVE  Underway(request[t])'
    <3>1. /\ Len(inbox) = 1 /\ replies = <<>> /\ unread = <<>>
          /\ question.cmd = request[t].cmd /\ question.id = request[t].id
      BY <1>1, <2>3 DEF Underway, question
    <3>2. inbox' = <<>>
      BY <1>2, <1>3, <3>1, EmptyFacts
    <3>3. Len(replies') = 1 /\ replies'[1] = packet
      BY <1>6, <2>1, <3>1, EmptyFacts, <1>1
    <3> QED BY <1>3, <1>5, <3>1, <3>2, <3>3 DEF Underway
  <2> QED BY <2>1, <2>2, <2>3, OneQuestion DEF Quiet
<1> QED BY <1>7, <1>8, <1>9, <1>10 DEF LinkInv

-----------------------------------------------------------------------------
(* The daemon. *)

(* A thread that has its answer is done with the line.                     *)
LEMMA DoneInv ==
  ASSUME LinkInv, NEW t \in Threads,
         request[t].pc = "answered", request' = [request EXCEPT ![t] = Idle],
         UNCHANGED <<inbox, replies, ring, readIndex, writeIndex, unread, overrun, quiet, last, count, losses>>
  PROVE  LinkInv'
<1>1. /\ request[t].pc = "answered" /\ request' = [request EXCEPT ![t] = Idle]
      /\ UNCHANGED <<inbox, replies, ring, readIndex, writeIndex, unread, overrun, quiet, last, count, losses>>
  OBVIOUS
<1>2. request \in [Threads -> Requested]
  BY DEF LinkInv, Typed
<1>3. \A u \in Threads : request'[u] = IF u = t THEN Idle ELSE request[u]
  BY <1>1, <1>2
<1>4. Typed'
  <2>1. request' \in [Threads -> Requested]
    BY <1>1, <1>2 DEF Requested
  <2> QED BY <1>1, <2>1 DEF LinkInv, Typed
<1>5. RingIsQueue' /\ Ordered'
  BY <1>1, LineUnchanged
<1>6. Quiet'
  <2> SUFFICES ASSUME quiet' PROVE Quiet'
    BY DEF Quiet
  <2>1. quiet /\ Nobody' = Nobody
    BY <1>1 DEF Nobody
  <2>2. Busy' = Busy /\ \A v, u \in Busy : v = u
    BY <1>1, <1>3, <2>1 DEF LinkInv, Quiet, Busy, Idle
  <2>3. \A u \in Threads \ {t} : Underway(request[u]) => Underway(request[u])'
    BY <1>1, <1>3 DEF Underway
  <2> QED BY <1>3, <2>1, <2>2, <2>3 DEF LinkInv, Quiet, Idle
<1> QED BY <1>4, <1>5, <1>6 DEF LinkInv

LEMMA RespondInv ==
  ASSUME LinkInv, NEW t \in Threads, Respond(t)
  PROVE  LinkInv'
  BY DoneInv DEF Respond

LEMMA LinkSameInv ==
  ASSUME LinkInv, UNCHANGED linkVars
  PROVE  LinkInv'
<1>1. UNCHANGED <<request, inbox, replies, ring, readIndex, writeIndex, unread, overrun, quiet,
                  last, count, losses>>
  BY DEF linkVars
<1>2. Typed'
  BY <1>1 DEF LinkInv, Typed
<1>3. RingIsQueue' /\ Ordered'
  BY <1>1, LineUnchanged
<1>4. Quiet'
  BY <1>1 DEF LinkInv, Quiet, Busy, Nobody, Underway
<1> QED BY <1>2, <1>3, <1>4 DEF LinkInv

(* A step of the daemon as one of the steps above.                         *)
LEMMA DaemonSteps ==
  ASSUME [DaemonNext]_<<linkVars, daemonVars>>
  PROVE  \/ UNCHANGED linkVars
         \/ \E t \in Threads : \/ \E cmd \in Commands : Transmit(t, cmd)
                               \/ Sent(t) \/ Wait(t) \/ TimeOut(t) \/ Take(t) \/ Respond(t)
         \/ \E value \in Int : Answer(value)
         \/ AcceptPacket
<1> USE DaemonAssumption
<1>1. ASSUME NEW t \in Clients, DaemonThread(t)
      PROVE  \E u \in Threads : Sent(u) \/ Wait(u) \/ TimeOut(u) \/ Take(u) \/ Respond(u)
  BY <1>1 DEF DaemonThread, Thread
<1>2. ASSUME NEW t \in Clients, NEW cmd \in Requests, ClientRequest(t, cmd)
      PROVE  \E u \in Threads : \E c \in Commands : Transmit(u, c)
  BY <1>2 DEF ClientRequest
<1>3. ASSUME ControllerAnswers
      PROVE  \E value \in Int : Answer(value)
  BY <1>3 DEF ControllerAnswers
<1>4. ASSUME NEW t \in Clients, Accept(t) \/ Disconnect(t)
      PROVE  UNCHANGED linkVars
  BY <1>4 DEF Accept, Disconnect
<1> QED BY <1>1, <1>2, <1>3, <1>4 DEF DaemonNext

LEMMA DaemonNextInv == LinkInv /\ [DaemonNext]_<<linkVars, daemonVars>> => LinkInv'
  BY DaemonSteps, LinkSameInv, TransmitInv, SentInv, WaitInv, TimeOutInv, TakeInv, RespondInv,
     AnswerInv, AcceptPacketInv

-----------------------------------------------------------------------------
(* Between its indices the ring holds exactly the packets that came since  *)
(* it was last written when full and were not taken, oldest first, for any *)
(* number of slots (comms.c:456-477, 616-620).                             *)
THEOREM RingQueues == DaemonSpec => []RingIsQueue
<1>1. LinkInv => RingIsQueue
  BY DEF LinkInv
<1> QED BY <1>1, LinkInitInv, DaemonNextInv, PTL DEF DaemonSpec

(* As long as no time ran out and nothing was lost, an answer belongs to   *)
(* its question (comms.c:34-258).                                          *)
THEOREM QuietBelongs == DaemonSpec => []QuietAnswersBelong
<1>1. LinkInv => QuietAnswersBelong
  BY DEF LinkInv, Quiet, QuietAnswersBelong
<1> QED BY <1>1, LinkInitInv, DaemonNextInv, PTL DEF DaemonSpec

(* No answer is taken twice, and none after a later one: in a step that    *)
(* ends a thread's wait with an answer, the answer is the oldest unread    *)
(* one, and newer than any taken before (comms.c:467-477).                 *)
THEOREM AnswersOrdered == DaemonSpec => AnswersInOrder
<1> DEFINE Fresh == \A t \in Threads :
                      request[t].pc # "answered" /\ request'[t].pc = "answered" =>
                        request'[t].from = 0 \/ request'[t].from > last
<1>1. LinkInv /\ [DaemonNext]_<<linkVars, daemonVars>> => [Fresh]_linkVars
  <2> SUFFICES ASSUME LinkInv, [DaemonNext]_<<linkVars, daemonVars>>, ~UNCHANGED linkVars
               PROVE  Fresh
    OBVIOUS
  <2>1. request \in [Threads -> Requested]
    BY DEF LinkInv, Typed
  <2>2. ASSUME NEW t \in Threads, Take(t)
        PROVE  Fresh
    <3>1. ~Empty /\ request' = [request EXCEPT ![t] =
            [pc |-> "answered", cmd |-> @.cmd, id |-> @.id, ok |-> ring[readIndex].op = @.cmd.op,
             value |-> ring[readIndex].value, from |-> ring[readIndex].id]]
      BY <2>2 DEF Take
    <3>2. 1 \in 1 .. Len(unread) /\ ring[readIndex] = unread[1]
      BY <3>1, RingFacts
    <3>3. ring[readIndex].id > last
      BY <3>2 DEF LinkInv, Ordered, Between
    <3> QED BY <2>1, <3>1, <3>3
  <2>3. ASSUME NEW t \in Threads, TimeOut(t)
        PROVE  Fresh
    BY <2>1, <2>3 DEF TimeOut
  <2>4. ASSUME NEW t \in Threads, NEW cmd \in Commands, Transmit(t, cmd)
        PROVE  Fresh
    <3> TAKE u \in Threads
    <3>1. CASE u \in Sending /\ u # t
      <4>1. request[u] \in [pc : {"sending"}, cmd : Commands, mixed : BOOLEAN]
        BY <2>1, <3>1 DEF Sending, Requested, Idle
      <4>2. request'[u] = [request[u] EXCEPT !.mixed = TRUE]
        BY <2>4, <3>1 DEF Transmit
      <4> QED BY <4>1, <4>2
    <3>2. CASE u \notin Sending \/ u = t
      BY <2>4, <3>2 DEF Transmit
    <3> QED BY <3>1, <3>2
  <2>5. ASSUME NEW t \in Threads, Sent(t) \/ Wait(t) \/ Respond(t)
        PROVE  Fresh
    <3>1. CASE Sent(t)
      BY <2>1, <3>1 DEF Sent
    <3>2. CASE Wait(t)
      <4>1. request[t] \in [pc : {"waiting", "blocked"}, cmd : Commands, id : Nat]
        BY <2>1, <3>2 DEF Wait, Requested, Idle
      <4> QED BY <2>1, <3>2, <4>1 DEF Wait
    <3>3. CASE Respond(t)
      BY <2>1, <3>3 DEF Respond, Idle
    <3> QED BY <2>5, <3>1, <3>2, <3>3
  <2>6. ASSUME NEW value \in Int, Answer(value)
        PROVE  Fresh
    BY <2>6 DEF Answer
  <2>7. CASE AcceptPacket
    BY <2>7 DEF AcceptPacket
  <2> QED BY DaemonSteps, <2>2, <2>3, <2>4, <2>5, <2>6, <2>7
<1> QED BY <1>1, LinkInitInv, DaemonNextInv, PTL DEF DaemonSpec, AnswersInOrder

-----------------------------------------------------------------------------
(* Pages and files of an update.                                           *)

Region == IvtPages \cup UserPages

(* A set of numbers that is not empty has a least member; a set of numbers *)
(* up to n a greatest one.                                                 *)
LEMMA LeastNumber ==
  ASSUME NEW T \in SUBSET Nat, T # {}
  PROVE  \E m \in T : \A k \in T : m <= k
<1> DEFINE R == OpToRel(<, Nat)
<1>1. IsWellFoundedOn(R, Nat)
  BY NatLessThanWellFounded
<1>2. \A x, y \in Nat : <<x, y>> \in R <=> x < y
  BY DEF OpToRel
<1> HIDE DEF R
<1>3. PICK m \in T : \A k \in T : ~(<<k, m>> \in R)
  BY <1>1, WFMin
<1>4. ASSUME NEW k \in T
      PROVE  m <= k
  <2>1. k \in Nat /\ m \in Nat
    OBVIOUS
  <2>2. ~(k < m)
    BY <1>2, <1>3, <2>1
  <2> QED BY <2>1, <2>2
<1> QED BY <1>4

LEMMA GreatestNumber ==
  ASSUME NEW n \in Nat, NEW T \in SUBSET (1 .. n), T # {}
  PROVE  \E m \in T : \A k \in T : k <= m
<1> DEFINE D == {n - k : k \in T}
<1>0. \A k \in T : n - k \in Nat
  OBVIOUS
<1>1. D \in SUBSET Nat /\ D # {}
  BY <1>0
<1>2. PICK d \in D : \A e \in D : d <= e
  BY <1>1, LeastNumber
<1>3. PICK m \in T : d = n - m
  OBVIOUS
<1>4. ASSUME NEW k \in T
      PROVE  k <= m
  <2>1. n - k \in D
    OBVIOUS
  <2>2. k \in Int /\ m \in Int
    OBVIOUS
  <2> QED BY <1>2, <1>3, <2>1, <2>2
<1> QED BY <1>4

(* A cell lies in one page.                                                *)
LEMMA PageIs ==
  ASSUME NEW a \in Nat, NEW page \in Nat
  PROVE  a \in page * PageSize .. page * PageSize + PageSize - 1 <=> Page(a) = page
<1>1. PageSize \in Nat /\ PageSize > 0
  BY UpdateAssumption
<1> DEFINE q == a \div PageSize
           s == a % PageSize
<1>2. q \in Nat /\ s \in 0 .. PageSize - 1 /\ a = PageSize * q + s
  BY <1>1
<1> HIDE DEF q, s
<1>3. page * PageSize \in Nat /\ PageSize * q \in Nat
  BY <1>1, <1>2
<1>4. q < page => PageSize * q + PageSize <= page * PageSize
  <2> SUFFICES ASSUME q < page PROVE PageSize * q + PageSize <= page * PageSize
    OBVIOUS
  <2>1. PICK d \in Nat : page = q + 1 + d
    <3>1. page - q - 1 \in Nat /\ page = q + 1 + (page - q - 1)
      BY <1>2
    <3> QED BY <3>1
  <2>2. page * PageSize = PageSize * q + PageSize + d * PageSize /\ d * PageSize >= 0
    BY <1>1, <1>2, <2>1
  <2>3. d * PageSize \in Nat
    BY <1>1, <2>1
  <2> QED BY <1>1, <1>3, <2>2, <2>3
<1>5. page < q => page * PageSize + PageSize <= PageSize * q
  <2> SUFFICES ASSUME page < q PROVE page * PageSize + PageSize <= PageSize * q
    OBVIOUS
  <2>1. PICK d \in Nat : q = page + 1 + d
    <3>1. q - page - 1 \in Nat /\ q = page + 1 + (q - page - 1)
      BY <1>2
    <3> QED BY <3>1
  <2>2. PageSize * q = page * PageSize + PageSize + d * PageSize /\ d * PageSize >= 0
    BY <1>1, <1>2, <2>1
  <2>3. d * PageSize \in Nat
    BY <1>1, <2>1
  <2> QED BY <1>1, <1>3, <2>2, <2>3
<1>6. q = page => page * PageSize = PageSize * q
  BY <1>1, <1>2
<1>7. q = page <=> a \in page * PageSize .. page * PageSize + PageSize - 1
  <2>1. CASE q = page
    BY <1>1, <1>2, <1>3, <1>6, <2>1
  <2>2. CASE q < page
    BY <1>1, <1>2, <1>3, <1>4, <2>2
  <2>3. CASE page < q
    BY <1>1, <1>2, <1>3, <1>5, <2>3
  <2> QED BY <1>2, <2>1, <2>2, <2>3
<1> QED BY <1>7 DEF q, Page

LEMMA InCells ==
  ASSUME NEW S, S \subseteq Nat
  PROVE  \A a : a \in Cells(S) <=> a \in Nat /\ Page(a) \in S
<1>1. PageSize \in Nat /\ PageSize > 0
  BY UpdateAssumption
<1> TAKE a
<1>2. ASSUME a \in Cells(S)
      PROVE  a \in Nat /\ Page(a) \in S
  <2>1. PICK page \in S : a \in page * PageSize .. page * PageSize + PageSize - 1
    BY <1>2 DEF Cells
  <2>2. page \in Nat /\ page * PageSize \in Nat
    BY <1>1
  <2>3. a \in Nat
    BY <1>1, <2>1, <2>2
  <2> QED BY <2>1, <2>2, <2>3, PageIs
<1>3. ASSUME a \in Nat, Page(a) \in S
      PROVE  a \in Cells(S)
  <2>1. Page(a) \in Nat
    BY <1>3
  <2>2. a \in Page(a) * PageSize .. Page(a) * PageSize + PageSize - 1
    BY <1>3, <2>1, PageIs
  <2> QED BY <1>3, <2>2 DEF Cells
<1> QED BY <1>2, <1>3

(* Every page of the memory to load has its place in the order.            *)
LEMMA OrderIsWhole ==
  /\ Region \subseteq Nat
  /\ Len(EraseOrder) \in Nat /\ Len(EraseOrder) >= 1
  /\ \A i \in 1 .. Len(EraseOrder) : EraseOrder[i] \in Region
  /\ \A page \in Region : \E i \in 1 .. Len(EraseOrder) : EraseOrder[i] = page
<1> DEFINE n == Cardinality(Region)
           below(p) == {q \in Region : q < p}
           rank == [p \in Region |-> Cardinality(below(p))]
<1>1. Region \subseteq Nat /\ IsFiniteSet(Region) /\ Region # {}
  BY UpdateAssumption DEF Region
<1>2. n \in Nat /\ n >= 1
  <2>1. n \in Nat
    BY <1>1, FS_CardinalityType
  <2>2. n # 0
    BY <1>1, FS_EmptySet
  <2> QED BY <2>1, <2>2
<1> HIDE DEF n
<1>3. ASSUME NEW p \in Region
      PROVE  /\ IsFiniteSet(below(p)) /\ Cardinality(below(p)) \in 0 .. n - 1
  <2>1. below(p) \in SUBSET Region /\ p \notin below(p)
    BY <1>1
  <2>2. IsFiniteSet(below(p)) /\ Cardinality(below(p)) <= n /\ (n = Cardinality(below(p)) => Region = below(p))
    BY <1>1, <2>1, FS_Subset DEF n
  <2>3. Cardinality(below(p)) \in Nat
    BY <2>2, FS_CardinalityType
  <2>4. Cardinality(below(p)) # n
    BY <2>1, <2>2
  <2> QED BY <1>2, <2>2, <2>3, <2>4
<1>4. ASSUME NEW p \in Region, NEW q \in Region, p < q
      PROVE  Cardinality(below(p)) < Cardinality(below(q))
  <2>0. p \in Nat /\ q \in Nat /\ \A r \in Region : r \in Nat /\ (r < p => r < q)
    BY <1>1, <1>4
  <2>1. below(p) \in SUBSET below(q) /\ p \in below(q) /\ p \notin below(p)
    <3>1. ~(p < p)
      BY <2>0
    <3> QED BY <1>4, <2>0, <3>1, Zenon
  <2>2. IsFiniteSet(below(q))
    BY <1>3
  <2>3. /\ Cardinality(below(p)) <= Cardinality(below(q))
        /\ Cardinality(below(q)) = Cardinality(below(p)) => below(q) = below(p)
    BY <2>1, <2>2, FS_Subset
  <2>4. Cardinality(below(p)) \in Nat /\ Cardinality(below(q)) \in Nat
    BY <1>2, <1>3
  <2> HIDE DEF below
  <2> QED BY <2>1, <2>3, <2>4
<1> HIDE DEF below
<1>5. \A p, q \in Region : Cardinality(below(p)) = Cardinality(below(q)) => p = q
  <2> SUFFICES ASSUME NEW p \in Region, NEW q \in Region, Cardinality(below(p)) = Cardinality(below(q)), p # q
               PROVE  FALSE
    OBVIOUS
  <2>1. p < q \/ q < p
    BY <1>1
  <2>2. Cardinality(below(p)) \in Nat
    BY <1>2, <1>3
  <2> QED BY <1>4, <2>1, <2>2
<1>6. rank \in Injection(Region, 0 .. n - 1)
  <2>1. rank \in [Region -> 0 .. n - 1]
    BY <1>3
  <2>2. \A p, q \in Region : rank[p] = rank[q] => p = q
    BY <1>5
  <2> QED BY <2>1, <2>2 DEF Injection, IsInjective
<1>7. IsFiniteSet(0 .. n - 1) /\ Cardinality(0 .. n - 1) = n
  BY <1>2, FS_Interval
<1>8. rank \in Surjection(Region, 0 .. n - 1)
  BY <1>6, <1>7, FS_Injection DEF n
<1>9. \A k \in 0 .. n - 1 : \E p \in Region : rank[p] = k
  BY <1>8 DEF Surjection
<1>10. /\ Len(EraseOrder) = n
       /\ \A i \in 1 .. n : EraseOrder[i] = CHOOSE p \in Region : Cardinality(below(p)) = i - 1
  <2>1. EraseOrder = [i \in 1 .. n |-> CHOOSE p \in Region : Cardinality(below(p)) = i - 1]
    BY Zenon DEF EraseOrder, Region, n, below
  <2>2. Len(EraseOrder) = n
    BY <1>2, <2>1
  <2> QED BY <2>1, <2>2, Zenon
<1>11. ASSUME NEW p \in Region
       PROVE  EraseOrder[Cardinality(below(p)) + 1] = p /\ Cardinality(below(p)) + 1 \in 1 .. n
  <2>1. Cardinality(below(p)) + 1 \in 1 .. n /\ (Cardinality(below(p)) + 1) - 1 = Cardinality(below(p))
    BY <1>2, <1>3
  <2>2. EraseOrder[Cardinality(below(p)) + 1] = CHOOSE q \in Region : Cardinality(below(q)) = Cardinality(below(p))
    BY <1>10, <2>1
  <2> QED BY <1>5, <2>1, <2>2
<1>12. ASSUME NEW i \in 1 .. n
       PROVE  EraseOrder[i] \in Region
  <2>1. i - 1 \in 0 .. n - 1
    BY <1>2
  <2>2. \E p \in Region : Cardinality(below(p)) = i - 1
    BY <1>9, <2>1
  <2> QED BY <1>10, <2>2
<1> QED BY <1>1, <1>2, <1>10, <1>11, <1>12

LEMMA RecordsAre ==
  ASSUME file \in Files
  PROVE  /\ Len(file) \in Nat
         /\ \A i \in 1 .. Len(file) :
              /\ file[i] \in Record
              /\ file[i].type \in {"data", "extend", "eof", "bad"}
              /\ file[i].type = "data" => file[i].address \in Nat /\ file[i].length \in 0 .. PageSize
              /\ file[i].type = "extend" => file[i].base \in Nat
<1>1. file \in Seq(Record)
  BY UpdateAssumption
<1>2. Len(file) \in Nat /\ \A i \in 1 .. Len(file) : file[i] \in Record
  BY <1>1
<1>3. \A r \in Record : /\ r.type \in {"data", "extend", "eof", "bad"}
                        /\ r.type = "data" => r.address \in Nat /\ r.length \in 0 .. PageSize
                        /\ r.type = "extend" => r.base \in Nat
  BY DEF Record
<1> QED BY <1>2, <1>3

LEMMA AddressIs ==
  ASSUME file \in Files, NEW i \in 1 .. Len(file), file[i].type = "data"
  PROVE  Address(i) \in Nat
<1> DEFINE before == {j \in 1 .. i - 1 : file[j].type = "extend"}
<1>1. Len(file) \in Nat /\ file[i].address \in Nat
  BY RecordsAre
<1>2. before \in SUBSET (1 .. i - 1) /\ i - 1 \in Nat
  BY <1>1
<1>3. \A j \in before : file[j].base \in Nat
  <2> TAKE j \in before
  <2>1. j \in 1 .. Len(file) /\ file[j].type = "extend"
    BY <1>1
  <2> QED BY <2>1, RecordsAre
<1>4. addressHi(i) = IF before = {} THEN 0
                     ELSE file[CHOOSE j \in before : \A k \in before : k <= j].base
  BY DEF addressHi
<1> HIDE DEF before
<1>5. addressHi(i) \in Nat
  <2>1. CASE before = {}
    BY <1>4, <2>1
  <2>2. CASE before # {}
    <3>1. \E j \in before : \A k \in before : k <= j
      BY <1>2, <2>2, GreatestNumber
    <3>2. (CHOOSE j \in before : \A k \in before : k <= j) \in before
      BY <3>1
    <3> QED BY <1>3, <1>4, <2>2, <3>2
  <2> QED BY <2>1, <2>2
<1> QED BY <1>1, <1>5 DEF Address

LEMMA LinesAre ==
  ASSUME file \in Files, NEW i \in 1 .. Len(file)
  PROVE  /\ i \in Lines <=> file[i].type # "extend"
         /\ file[i].type # "extend" =>
              IntelHexReadLine(i) = IF file[i].type \in {"data", "eof"}
                                    THEN [ok |-> TRUE, at |-> i,
                                          length |-> IF file[i].type = "data" THEN file[i].length ELSE 0]
                                    ELSE [ok |-> FALSE, at |-> i, length |-> 0]
<1> DEFINE first(j) == file[j].type # "extend" /\ \A k \in i .. j - 1 : file[k].type = "extend"
<1>1. Len(file) \in Nat /\ i \in 1 .. Len(file)
  BY RecordsAre
<1>2. ASSUME file[i].type # "extend"
      PROVE  RecordAt(i) = i
  <2>1. i \in i .. Len(file) /\ first(i)
    BY <1>1, <1>2
  <2>2. ASSUME NEW j \in i .. Len(file), first(j)
        PROVE  j = i
    <3>1. j # i => i \in i .. j - 1
      BY <1>1
    <3> QED BY <1>2, <2>2, <3>1
  <2>3. \E j \in i .. Len(file) : file[j].type # "extend"
    BY <1>2, <2>1
  <2>4. RecordAt(i) = CHOOSE j \in i .. Len(file) : first(j)
    BY <2>3 DEF RecordAt
  <2> HIDE DEF first
  <2> QED BY <2>1, <2>2, <2>4
<1>3. ASSUME file[i].type = "extend"
      PROVE  RecordAt(i) # i
  <2>1. CASE \E j \in i .. Len(file) : file[j].type # "extend"
    <3> DEFINE S == {j \in i .. Len(file) : file[j].type # "extend"}
    <3>1. S \in SUBSET Nat /\ S # {}
      BY <1>1, <2>1
    <3>2. PICK m \in S : \A k \in S : m <= k
      BY <3>1, LeastNumber
    <3>3. m \in i .. Len(file) /\ file[m].type # "extend"
      OBVIOUS
    <3>4. ASSUME NEW k \in i .. m - 1
          PROVE  file[k].type = "extend"
      <4>1. k \in i .. Len(file) /\ ~(m <= k)
        BY <1>1, <3>3
      <4> QED BY <3>2, <4>1
    <3>5. RecordAt(i) = CHOOSE j \in i .. Len(file) : first(j)
      BY <2>1 DEF RecordAt
    <3>6. first(m)
      BY <3>3, <3>4
    <3>7. first(RecordAt(i))
      <4> HIDE DEF first
      <4> QED BY <3>3, <3>5, <3>6
    <3> QED BY <1>3, <3>7
  <2>2. CASE ~\E j \in i .. Len(file) : file[j].type # "extend"
    <3>1. RecordAt(i) = 0
      BY <2>2 DEF RecordAt
    <3> QED BY <1>1, <3>1
  <2> QED BY <2>1, <2>2
<1>4. IntelHexReadLine(i).at = RecordAt(i)
  BY DEF IntelHexReadLine
<1>5. i \in Lines <=> file[i].type # "extend"
  BY <1>2, <1>3, <1>4 DEF Lines
<1>6. ASSUME file[i].type # "extend"
      PROVE  IntelHexReadLine(i) = IF file[i].type \in {"data", "eof"}
                                    THEN [ok |-> TRUE, at |-> i,
                                          length |-> IF file[i].type = "data" THEN file[i].length ELSE 0]
                                    ELSE [ok |-> FALSE, at |-> i, length |-> 0]
  <2>1. RecordAt(i) = i /\ i # 0
    BY <1>1, <1>2, <1>6
  <2> QED BY <2>1 DEF IntelHexReadLine
<1> QED BY <1>5, <1>6

(* Where the loop over the file goes on.                                   *)
Passed(i, j) == \A k \in DataRecords : i <= k /\ k < j => ~Flashable(Address(k))

LEMMA NextIs ==
  ASSUME file \in Files, NEW i \in Nat \ {0}
  PROVE  \/ /\ NextData(i) \in DataRecords /\ NextData(i) >= i
            /\ file[NextData(i)].length > 0 /\ Flashable(Address(NextData(i)))
            /\ Passed(i, NextData(i))
         \/ NextData(i) = 0 /\ (WellFormed => Passed(i, Len(file) + 1))
<1> DEFINE stops == {j \in Lines : j >= i /\ ~Skipped(j)}
           least == CHOOSE s \in stops : \A k \in stops : s <= k
<1>1. Len(file) \in Nat /\ i \in Nat /\ i >= 1
  BY RecordsAre
<1>2. stops \in SUBSET Nat /\ stops \in SUBSET Lines /\ Lines \in SUBSET (1 .. Len(file))
  BY <1>1 DEF Lines
<1>3. ASSUME NEW k \in DataRecords, i <= k, k \notin stops
      PROVE  ~Flashable(Address(k))
  <2>1. k \in 1 .. Len(file) /\ file[k].type = "data"
    BY DEF DataRecords
  <2>2. k \in Lines
    BY <2>1, LinesAre
  <2>3. Skipped(k) /\ IntelHexReadLine(k).at = k
    BY <1>1, <1>3, <2>1, <2>2 DEF Lines
  <2> QED BY <2>3 DEF Skipped
<1>4. CASE stops = {}
  <2>1. NextData(i) = 0
    BY <1>4 DEF NextData
  <2>2. Passed(i, Len(file) + 1)
    BY <1>3, <1>4 DEF Passed
  <2> QED BY <2>1, <2>2
<1>5. CASE stops # {}
  <2>1. least \in stops /\ \A k \in stops : least <= k
    BY <1>2, <1>5, LeastNumber
  <2>2. NextData(i) = IF IntelHexReadLine(least).length = 0 THEN 0 ELSE least
    BY <1>5 DEF NextData
  <2>3. least \in 1 .. Len(file) /\ least \in Lines /\ least >= i /\ ~Skipped(least)
    BY <1>2, <2>1
  <2> HIDE DEF least
  <2>4. file[least].type # "extend"
    BY <2>3, LinesAre
  <2>5. /\ IntelHexReadLine(least).at = least
        /\ IntelHexReadLine(least).length =
             IF file[least].type = "data" THEN file[least].length ELSE 0
        /\ file[least].type = "data" => IntelHexReadLine(least).ok
    <3>1. file[least].type \notin {"data", "eof"} => file[least].type # "data"
      OBVIOUS
    <3> QED BY <2>3, <2>4, LinesAre
  <2>6. Passed(i, least)
    <3> SUFFICES ASSUME NEW k \in DataRecords, i <= k, k < least
                 PROVE  ~Flashable(Address(k))
      BY DEF Passed
    <3>1. k \in Nat /\ ~(least <= k)
      BY <2>3 DEF DataRecords
    <3>2. k \notin stops
      BY <2>1, <3>1
    <3> QED BY <1>3, <3>2
  <2>7. CASE IntelHexReadLine(least).length # 0
    <3>1. file[least].type = "data" /\ file[least].length # 0 /\ NextData(i) = least
      BY <2>2, <2>5, <2>7
    <3>2. file[least].length \in Nat
      BY <2>3, <3>1, RecordsAre, UpdateAssumption
    <3>3. Flashable(Address(least))
      <4>1. IntelHexReadLine(least).ok /\ IntelHexReadLine(least).length > 0
        BY <2>5, <3>1, <3>2
      <4> QED BY <2>3, <2>5, <4>1 DEF Skipped
    <3>4. least \in DataRecords
      BY <2>3, <3>1 DEF DataRecords
    <3> QED BY <2>3, <2>6, <3>1, <3>2, <3>3, <3>4
  <2>8. CASE IntelHexReadLine(least).length = 0
    <3>1. NextData(i) = 0
      BY <2>2, <2>8
    <3>2. ASSUME WellFormed
          PROVE  Passed(i, Len(file) + 1)
      <4>1. file[least].type # "data"
        <5>1. least \in DataRecords => file[least].length > 0
          BY <3>2 DEF WellFormed
        <5>2. file[least].type = "data" => file[least].length = 0
          BY <2>5, <2>8
        <5> QED BY <2>3, <5>1, <5>2 DEF DataRecords
      <4>2. least = Len(file)
        BY <2>3, <2>4, <3>2, <4>1 DEF WellFormed
      <4>3. \A k \in DataRecords : k \in 1 .. Len(file) /\ k # least
        BY <4>1 DEF DataRecords
      <4>4. \A k \in DataRecords : k < Len(file) + 1 => k < least
        BY <1>1, <4>2, <4>3
      <4> QED BY <2>6, <4>2, <4>3, <4>4 DEF Passed
    <3> QED BY <3>1, <3>2
  <2> QED BY <2>7, <2>8
<1> QED BY <1>4, <1>5

(* The file stays, and with it all that is read from it.                   *)
LEMMA FileStays ==
  ASSUME file' = file
  PROVE  /\ DataRecords' = DataRecords /\ (\A i : Address(i)' = Address(i))
         /\ \A i : CellsOf(i)' = CellsOf(i)
         /\ \A i : NextData(i)' = NextData(i)
         /\ WellFormed' = WellFormed
         /\ \A a : Image(a)' = Image(a)
<1>1. \A i : RecordAt(i)' = RecordAt(i)
  BY DEF RecordAt
<1>2. \A i : addressHi(i)' = addressHi(i)
  BY DEF addressHi
<1>3. \A i : Address(i)' = Address(i)
  BY <1>2 DEF Address
<1>4. \A i : CellsOf(i)' = CellsOf(i)
  BY <1>3 DEF CellsOf
<1>5. \A i : IntelHexReadLine(i)' = IntelHexReadLine(i)
  BY <1>1 DEF IntelHexReadLine
<1>6. \A i : Skipped(i)' = Skipped(i)
  BY <1>3, <1>5 DEF Skipped, Flashable
<1>7. Lines' = Lines
  BY <1>5 DEF Lines
<1>8. \A i : NextData(i)' = NextData(i)
  <2> DEFINE stops(i) == {j \in Lines : j >= i /\ ~Skipped(j)}
             least(S) == CHOOSE s \in S : \A k \in S : s <= k
  <2> TAKE i
  <2>1. stops(i)' = stops(i)
    BY <1>6, <1>7
  <2>2. PICK m : m = least(stops(i))
    OBVIOUS
  <2>3. m = least(stops(i)')
    BY <2>1, <2>2
  <2> HIDE DEF least
  <2>4. NextData(i) = IF stops(i) = {} \/ IntelHexReadLine(m).length = 0 THEN 0 ELSE m
    BY <2>2 DEF NextData, least
  <2>5. NextData(i)' = IF stops(i)' = {} \/ IntelHexReadLine(m)'.length = 0 THEN 0 ELSE m
    BY <2>3 DEF NextData, least
  <2> HIDE DEF stops
  <2> QED BY <1>5, <2>1, <2>4, <2>5
<1>9. DataRecords' = DataRecords
  BY DEF DataRecords
<1>10. \A a : Image(a)' = Image(a)
  <2> DEFINE records(a) == {i \in DataRecords : a \in CellsOf(i)}
             one(S) == CHOOSE i \in S : TRUE
  <2> TAKE a
  <2>1. records(a)' = records(a)
    BY <1>4, <1>9
  <2>2. Image(a) = IF records(a) = {} \/ ~Flashable(a) THEN 0 ELSE one(records(a))
    BY DEF Image
  <2>3. Image(a)' = IF records(a)' = {} \/ ~Flashable(a) THEN 0 ELSE one(records(a)')
    BY DEF Image, Flashable
  <2> HIDE DEF records, one
  <2> QED BY <2>1, <2>2, <2>3
<1>11. WellFormed' = WellFormed
  BY <1>3, <1>4, <1>9 DEF WellFormed, Flashable
<1> QED BY <1>3, <1>4, <1>8, <1>9, <1>10, <1>11

-----------------------------------------------------------------------------
(* What an update has done to the flash memory so far.                     *)

Sofar(n) == {a \in Nat : \E k \in DataRecords : k < n /\ a \in CellsOf(k)}

PartIn(n, page) == {a \in CellsOf(n) : Page(a) = page}

(* The records before n, and the part of record n in its first page.       *)
Half(n) == Sofar(n) \cup PartIn(n, Page(Address(n)))

Holds(done) == \A a \in Cells(Region) : flash[a] = IF a \in done THEN Image(a) ELSE 0

ErasedTo(n) ==
  \A a \in Cells(Region) : (\E k \in 1 .. n : EraseOrder[k] = Page(a)) => flash[a] = 0

FlashTyped == flash \in [Cells(Pages) -> Int]

LEMMA RegionCells ==
  /\ \A a : a \in Cells(Region) <=> Flashable(a)
  /\ \A a : a \in Cells(Region) => a \in Nat /\ a \in Cells(Pages) /\ Page(a) \in Region
  /\ \A a \in Cells(BootPages) : a \in Nat /\ a \in Cells(Pages) /\ Page(a) \notin Region
<1>1. Region \subseteq Nat /\ BootPages \subseteq Nat /\ Pages \subseteq Nat
  BY UpdateAssumption DEF Region, Pages
<1>2. \A a : a \in Cells(Region) <=> Flashable(a)
  BY DEF Region, Flashable
<1>3. Region \subseteq Pages /\ BootPages \subseteq Pages /\ Region \cap BootPages = {}
  BY UpdateAssumption DEF Region, Pages
<1>4. /\ \A a : a \in Cells(Region) <=> a \in Nat /\ Page(a) \in Region
      /\ \A a : a \in Cells(BootPages) <=> a \in Nat /\ Page(a) \in BootPages
      /\ \A a : a \in Cells(Pages) <=> a \in Nat /\ Page(a) \in Pages
  BY <1>1, InCells
<1> QED BY <1>2, <1>3, <1>4

LEMMA RecordCells ==
  ASSUME file \in Files, NEW j \in DataRecords
  PROVE  /\ j \in 1 .. Len(file) /\ file[j].type = "data" /\ j \in Nat
         /\ Address(j) \in Nat /\ file[j].length \in 0 .. PageSize
         /\ CellsOf(j) \subseteq Nat
         /\ \A a \in CellsOf(j) : Address(j) <= a /\ a <= Address(j) + file[j].length - 1
<1>1. j \in 1 .. Len(file) /\ file[j].type = "data" /\ Len(file) \in Nat
  BY RecordsAre DEF DataRecords
<1>2. Address(j) \in Nat /\ file[j].length \in 0 .. PageSize /\ PageSize \in Nat
  BY <1>1, AddressIs, RecordsAre, UpdateAssumption
<1> QED BY <1>1, <1>2 DEF CellsOf

LEMMA ImageIs ==
  ASSUME file \in Files, WellFormed, NEW a \in Cells(Region)
  PROVE  /\ \A j \in DataRecords : a \in CellsOf(j) => Image(a) = j
         /\ (\A j \in DataRecords : a \notin CellsOf(j)) => Image(a) = 0
<1> DEFINE records == {i \in DataRecords : a \in CellsOf(i)}
<1>1. Image(a) = IF records = {} THEN 0 ELSE CHOOSE i \in records : TRUE
  BY RegionCells DEF Image
<1>2. ASSUME NEW j \in DataRecords, a \in CellsOf(j)
      PROVE  Image(a) = j
  <2>1. \A i \in DataRecords : a \in CellsOf(i) => i = j
    BY <1>2 DEF WellFormed
  <2>2. records = {j}
    BY <1>2, <2>1
  <2> HIDE DEF records
  <2> QED BY <1>1, <2>2
<1>3. ASSUME \A j \in DataRecords : a \notin CellsOf(j)
      PROVE  Image(a) = 0
  BY <1>1, <1>3
<1> QED BY <1>2, <1>3

(* Records that the loop passes over have nothing to load.                 *)
LEMMA HoldsOn ==
  ASSUME file \in Files, WellFormed, NEW i \in Nat, NEW j \in Nat, i <= j,
         Passed(i, j), Holds(Sofar(i))
  PROVE  Holds(Sofar(j))
<1> SUFFICES ASSUME NEW a \in Cells(Region)
             PROVE  a \in Sofar(i) <=> a \in Sofar(j)
  BY DEF Holds
<1>1. a \in Nat /\ Flashable(a)
  BY RegionCells
<1>2. ASSUME NEW k \in DataRecords, a \in CellsOf(k), k < j
      PROVE  k < i
  <2>1. Flashable(Address(k))
    BY <1>1, <1>2 DEF WellFormed
  <2>2. ~(i <= k) /\ k \in Nat
    BY <1>2, <2>1, RecordCells DEF Passed
  <2> QED BY <2>2
<1>3. \A k \in DataRecords : k \in Nat
  BY RecordCells
<1>4. \A k \in DataRecords : k < i => k < j
  BY <1>3
<1> QED BY <1>1, <1>2, <1>4 DEF Sofar

LEMMA HoldsAll ==
  ASSUME file \in Files, WellFormed, NEW i \in Nat, i <= Len(file) + 1,
         Passed(i, Len(file) + 1), Holds(Sofar(i))
  PROVE  FlashIsImage
<1>1. Len(file) \in Nat
  BY RecordsAre
<1>2. Holds(Sofar(Len(file) + 1))
  BY <1>1, HoldsOn
<1> SUFFICES ASSUME NEW a \in Cells(Region)
             PROVE  flash[a] = Image(a)
  BY DEF FlashIsImage, Region
<1>3. a \in Nat
  BY RegionCells
<1>4. \A k \in DataRecords : k < Len(file) + 1
  BY <1>1 DEF DataRecords
<1>5. a \notin Sofar(Len(file) + 1) => Image(a) = 0
  BY <1>3, <1>4, ImageIs DEF Sofar
<1> QED BY <1>2, <1>5 DEF Holds

LEMMA HoldsNothing ==
  ASSUME file \in Files, ErasedTo(Len(EraseOrder))
  PROVE  Holds(Sofar(1))
<1> SUFFICES ASSUME NEW a \in Cells(Region)
             PROVE  flash[a] = 0 /\ a \notin Sofar(1)
  BY DEF Holds
<1>1. \E k \in 1 .. Len(EraseOrder) : EraseOrder[k] = Page(a)
  BY RegionCells, OrderIsWhole
<1>2. \A k \in DataRecords : ~(k < 1)
  BY RecordCells DEF DataRecords
<1> QED BY <1>1, <1>2 DEF ErasedTo, Sofar

(* A command that the controller does not know.                            *)
LEMMA IgnoreInv ==
  ASSUME LinkInv, inbox # <<>>, inbox' = Tail(inbox), quiet' = FALSE,
         UNCHANGED <<request, replies, ring, readIndex, writeIndex, unread, overrun, last, count, losses>>
  PROVE  LinkInv'
<1>1. inbox \in Seq(Question)
  BY DEF LinkInv, Typed
<1>2. Typed'
  <2>1. Tail(inbox) \in Seq(Question)
    BY <1>1, TailFacts
  <2> QED BY <2>1 DEF LinkInv, Typed
<1>3. RingIsQueue'
  BY DEF LinkInv, RingIsQueue
<1>4. Ordered'
  <2>1. /\ Increasing(Tail(inbox)) /\ Between(last, Tail(inbox), count)
        /\ Before(unread, Tail(inbox)) /\ Before(replies, Tail(inbox))
    BY <1>1, Dropped DEF LinkInv, Ordered
  <2> QED BY <2>1 DEF LinkInv, Ordered, Increasing, Before, Between
<1>5. Quiet'
  BY DEF Quiet
<1> QED BY <1>2, <1>3, <1>4, <1>5 DEF LinkInv

(* A new process: an empty ring, and what is left of the answers.          *)
LEMMA LaunchInv ==
  ASSUME LinkInv, \A t \in Threads : request[t] = Idle, NEW k \in 0 .. Len(replies),
         readIndex' = 0, writeIndex' = 0, ring' = [s \in Slot |-> NoReply], unread' = <<>>,
         replies' = SubSeq(replies, k + 1, Len(replies)),
         UNCHANGED <<request, inbox, overrun, quiet, last, count, losses>>
  PROVE  LinkInv'
<1> DEFINE rest == SubSeq(replies, k + 1, Len(replies))
<1>1. /\ BufferCount \in Nat /\ BufferCount > 1
      /\ replies \in Seq(Reply) /\ Len(replies) \in Nat /\ k \in Nat /\ k <= Len(replies)
  BY LinkAssumption DEF LinkInv, Typed
<1>2. /\ rest \in Seq(Reply) /\ Len(rest) = Len(replies) - k
      /\ \A i \in 1 .. Len(rest) : rest[i] = replies[i + k] /\ i + k \in 1 .. Len(replies)
  <2>1. k + 1 \in 1 .. Len(replies) + 1
    BY <1>1
  <2>2. CASE k = Len(replies)
    <3>1. rest = <<>>
      BY <1>1, <2>2
    <3> QED BY <1>1, <2>2, <3>1
  <2>3. CASE k # Len(replies)
    <3>1. /\ Len(rest) = Len(replies) - (k + 1) + 1
          /\ \A i \in 1 .. Len(replies) - k : rest[i] = replies[(k + 1) + i - 1]
      BY <1>1, <2>3
    <3>2. rest \in Seq(Reply)
      BY <1>1, <2>3
    <3>3. Len(rest) = Len(replies) - k
      BY <1>1, <3>1
    <3> HIDE DEF rest
    <3>4. \A i \in 1 .. Len(rest) : (k + 1) + i - 1 = i + k /\ i + k \in 1 .. Len(replies)
      BY <1>1, <3>3
    <3> QED BY <3>1, <3>2, <3>3, <3>4
  <2> QED BY <2>2, <2>3
<1>3. replies' = rest
  OBVIOUS
<1> HIDE DEF rest
<1>4. Typed'
  <2>1. ring' \in [Slot -> Packet] /\ 0 \in Slot /\ Len(unread') \in Slot /\ unread' \in Seq(Reply)
    BY <1>1 DEF Slot, Packet
  <2> QED BY <1>2, <1>3, <2>1 DEF LinkInv, Typed
<1>5. RingIsQueue'
  BY <1>1 DEF RingIsQueue, Distance
<1>6. Ordered'
  <2>1. Increasing(rest)
    <3> SUFFICES ASSUME NEW i \in 1 .. Len(rest), NEW j \in 1 .. Len(rest), i < j
                 PROVE  rest[i].id < rest[j].id
      BY DEF Increasing
    <3>1. i + k < j + k
      BY <1>1, <1>2
    <3> QED BY <1>2, <3>1 DEF LinkInv, Ordered, Increasing
  <2>2. Before(rest, inbox) /\ Between(last, rest, count)
    BY <1>2 DEF LinkInv, Ordered, Before, Between
  <2>3. Increasing(unread') /\ Before(unread', replies') /\ Before(unread', inbox') /\ Between(last, unread', count)
    BY DEF Increasing, Before, Between
  <2>4. last <= count /\ Increasing(inbox) /\ Between(last, inbox, count)
    BY DEF LinkInv, Ordered
  <2> QED BY <1>3, <2>1, <2>2, <2>3, <2>4 DEF Ordered, Increasing, Before, Between
<1>7. Quiet'
  BY DEF Quiet, Busy, Idle
<1> QED BY <1>4, <1>5, <1>6, <1>7 DEF LinkInv

-----------------------------------------------------------------------------
(* The invariant of an update.                                             *)

Options == {"-u", "-i", "-v"}

JobTyped ==
  /\ file \in Files /\ FlashTyped /\ controller \in {"app", "boot"}
  /\ processes \in Nat /\ fooled \in Nat /\ fooled <= processes
  /\ \/ job = NoJob
     \/ job \in [pc : {"ask", "jump", "erase", "program", "second", "run"}, option : Options,
                 line : Nat, ok : BOOLEAN]
     \/ job \in [pc : {"exit"}, option : Options, line : Nat, ok : BOOLEAN, value : Int]
  /\ job.pc # "none" => processes >= 1
  /\ job.pc \notin {"none", "exit", "ask"} => job.option = "-u"
  /\ job.pc = "erase" => job.line \in 1 .. Len(EraseOrder)
  /\ job.pc \in {"program", "second"} =>
       job.line \in DataRecords /\ file[job.line].length > 0 /\ Flashable(Address(job.line))

(* The process asks what its place says, and its question is the newest.   *)
Asking ==
  /\ \A t \in Threads : t # Updater => request[t] = Idle
  /\ job.pc \in {"none", "exit"} => request[Updater] = Idle
  /\ request[Updater].pc # "idle" => request[Updater].cmd = Command
  /\ request[Updater].pc \in {"waiting", "blocked", "answered"} =>
       request[Updater].id = count /\ count >= 1
  /\ \A i \in 1 .. Len(inbox) : inbox[i].cmd \in UpdateCommands
  /\ request[Updater].pc \in {"waiting", "blocked"} =>
       \A i \in 1 .. Len(inbox) : inbox[i].id = count => inbox[i].cmd = Command

Boot == \A a \in Cells(BootPages) : flash[a] = -1

(* What the flash memory is before the command of a place is carried out,  *)
(* and after.                                                              *)
Ready ==
  /\ job.pc = "erase" => job.line = 1 \/ ErasedTo(job.line - 1)
  /\ job.pc = "program" => Holds(Sofar(job.line))
  /\ job.pc = "second" => Holds(Half(job.line))
  /\ job.pc = "run" => FlashIsImage

Reached ==
  /\ job.pc = "erase" => ErasedTo(job.line)
  /\ job.pc = "program" => Holds(Half(job.line))
  /\ job.pc = "second" => Holds(Sofar(job.line + 1))
  /\ job.pc = "run" => FlashIsImage

(* Once the first page is erased, commands of earlier attempts are behind. *)
Begun == job.pc \in {"program", "second", "run"} \/ (job.pc = "erase" /\ job.line > 1)

OwnAnswer ==
  \/ \E i \in 1 .. Len(replies) : replies[i].id = count
  \/ \E i \in 1 .. Len(unread) : unread[i].id = count

Finished == job.pc = "run" \/ (job.pc = "exit" /\ job.option = "-u" /\ job.ok)

Jump(cmd) == cmd.op = "JUMP_TO_PGM"

Loading ==
  WellFormed /\ fooled # processes =>
    /\ Begun /\ request[Updater].pc \in {"idle", "sending"} => inbox = <<>> /\ Ready
    /\ Begun /\ request[Updater].pc \in {"waiting", "blocked"} =>
         \/ inbox = <<>>
         \/ Len(inbox) = 1 /\ inbox[1].id = count /\ Ready
    /\ request[Updater].pc \in {"waiting", "blocked"} /\ OwnAnswer => Reached
    /\ request[Updater].pc = "answered" /\ request[Updater].from = count => inbox = <<>> /\ Reached
    /\ Finished => FlashIsImage /\ \A i \in 1 .. Len(inbox) : Jump(inbox[i].cmd)

Running ==
  WellFormed /\ fooled = 0 =>
    /\ controller = "app" => FlashIsOld \/ FlashIsImage
    /\ \A i \in 1 .. Len(inbox) : Jump(inbox[i].cmd) => i = 1 /\ FlashIsImage

UpdateInv == LinkInv /\ JobTyped /\ Asking /\ Boot /\ Loading /\ Running

(* Pages grow with addresses, and less than a page further on is at most   *)
(* the next one.                                                           *)
LEMMA PagesGrow ==
  ASSUME NEW a \in Nat, NEW b \in Nat, a <= b
  PROVE  /\ Page(a) \in Nat /\ Page(b) \in Nat /\ Page(a) <= Page(b)
         /\ b < a + PageSize => Page(b) \in {Page(a), Page(a) + 1}
<1> DEFINE q == Page(a)
           r == Page(b)
<1>1. PageSize \in Nat /\ PageSize > 0
  BY UpdateAssumption
<1>2. q \in Nat /\ r \in Nat
  BY <1>1 DEF Page
<1>3. /\ q * PageSize \in Nat /\ r * PageSize \in Nat
      /\ q * PageSize <= a /\ a <= q * PageSize + PageSize - 1
      /\ r * PageSize <= b /\ b <= r * PageSize + PageSize - 1
  <2>1. q * PageSize \in Nat /\ r * PageSize \in Nat
    BY <1>1, <1>2
  <2>2. a \in q * PageSize .. q * PageSize + PageSize - 1 /\ b \in r * PageSize .. r * PageSize + PageSize - 1
    BY <1>2, PageIs
  <2> HIDE DEF q, r
  <2> QED BY <1>1, <2>1, <2>2
<1> HIDE DEF q, r
<1>4. \A x, d \in Nat : (x + 1 + d) * PageSize >= x * PageSize + PageSize
  <2> TAKE x, d \in Nat
  <2>1. (x + 1 + d) * PageSize = x * PageSize + PageSize + d * PageSize
    BY <1>1
  <2>2. d * PageSize \in Nat /\ x * PageSize \in Nat
    BY <1>1
  <2> QED BY <1>1, <2>1, <2>2
<1>5. q <= r
  <2> SUFFICES ASSUME r < q PROVE FALSE
    BY <1>2
  <2>1. q - r - 1 \in Nat /\ q = r + 1 + (q - r - 1)
    BY <1>2
  <2>2. q * PageSize >= r * PageSize + PageSize
    BY <1>2, <1>4, <2>1
  <2> QED BY <1>1, <1>3, <2>2
<1>6. ASSUME b < a + PageSize
      PROVE  r \in {q, q + 1}
  <2> SUFFICES ASSUME q + 1 < r PROVE FALSE
    BY <1>2, <1>5
  <2>1. r - (q + 1) - 1 \in Nat /\ r = (q + 1) + 1 + (r - (q + 1) - 1) /\ q + 1 \in Nat
    BY <1>2
  <2>2. r * PageSize >= (q + 1) * PageSize + PageSize
    BY <1>4, <2>1
  <2>3. (q + 1) * PageSize = q * PageSize + PageSize
    BY <1>1, <1>2
  <2> QED BY <1>1, <1>3, <1>6, <2>2, <2>3
<1> QED BY <1>2, <1>5, <1>6 DEF q, r

(* What has been loaded when a block, or the last of a record, is written. *)
LEMMA WholeRecord ==
  ASSUME file \in Files, NEW j \in DataRecords, file[j].length > 0
  PROVE  /\ \A a \in Nat : a \in Sofar(j + 1) <=> a \in Sofar(j) \/ a \in CellsOf(j)
         /\ \A a \in CellsOf(j) : Page(a) \in {Page(Address(j)), Page(Address(j)) + 1}
         /\ Page(Address(j)) = Page(Address(j) + file[j].length - 1) =>
              \A a \in CellsOf(j) : Page(a) = Page(Address(j))
<1>1. /\ j \in Nat /\ Address(j) \in Nat /\ file[j].length \in 0 .. PageSize /\ PageSize \in Nat
      /\ CellsOf(j) \subseteq Nat
      /\ \A a \in CellsOf(j) : Address(j) <= a /\ a <= Address(j) + file[j].length - 1
  BY RecordCells, UpdateAssumption
<1>2. \A k \in DataRecords : k < j + 1 <=> k < j \/ k = j
  <2>1. \A k \in DataRecords : k \in Nat
    BY RecordCells
  <2> QED BY <1>1, <2>1
<1>3. \A a \in Nat : a \in Sofar(j + 1) <=> a \in Sofar(j) \/ a \in CellsOf(j)
  BY <1>2 DEF Sofar
<1>4. ASSUME NEW a \in CellsOf(j)
      PROVE  /\ Page(a) \in {Page(Address(j)), Page(Address(j)) + 1}
             /\ Page(Address(j)) = Page(Address(j) + file[j].length - 1) => Page(a) = Page(Address(j))
  <2> DEFINE end == Address(j) + file[j].length - 1
  <2>1. /\ a \in Nat /\ end \in Nat /\ Address(j) <= a /\ a <= end
        /\ a < Address(j) + PageSize
    BY <1>1
  <2> HIDE DEF end
  <2>2. Page(a) \in {Page(Address(j)), Page(Address(j)) + 1}
    BY <1>1, <2>1, PagesGrow
  <2>3. /\ Page(Address(j)) \in Nat /\ Page(a) \in Nat /\ Page(end) \in Nat
        /\ Page(Address(j)) <= Page(a) /\ Page(a) <= Page(end)
    BY <1>1, <2>1, PagesGrow
  <2>4. Page(Address(j)) = Page(end) => Page(a) = Page(Address(j))
    BY <2>3
  <2> QED BY <2>2, <2>4 DEF end
<1> QED BY <1>3, <1>4

LEMMA HoldsSame ==
  ASSUME NEW D, NEW E, \A a \in Cells(Region) : a \in D <=> a \in E, Holds(D)
  PROVE  Holds(E)
  BY DEF Holds

LEMMA HoldsHalf ==
  ASSUME file \in Files, NEW j \in DataRecords, file[j].length > 0, Holds(Half(j)),
         Page(Address(j)) = Page(Address(j) + file[j].length - 1)
  PROVE  Holds(Sofar(j + 1))
<1>1. \A a \in Cells(Region) : a \in Half(j) <=> a \in Sofar(j + 1)
  <2> TAKE a \in Cells(Region)
  <2>1. a \in Nat
    BY RegionCells
  <2> QED BY <2>1, WholeRecord DEF Half, PartIn
<1> QED BY <1>1, HoldsSame

(* The loop goes on behind what is loaded.                                 *)
LEMMA GoesOn ==
  ASSUME file \in Files, NEW i \in Nat, i >= 1, i <= Len(file) + 1, WellFormed, Holds(Sofar(i))
  PROVE  /\ NextData(i) # 0 => Holds(Sofar(NextData(i)))
         /\ NextData(i) = 0 => FlashIsImage
<1>1. i \in Nat \ {0} /\ Len(file) \in Nat
  BY RecordsAre
<1>2. ASSUME NextData(i) # 0
      PROVE  Holds(Sofar(NextData(i)))
  <2>1. NextData(i) \in DataRecords /\ NextData(i) >= i /\ Passed(i, NextData(i))
    BY <1>1, <1>2, NextIs
  <2>2. NextData(i) \in Nat
    BY <2>1, RecordCells
  <2> QED BY <2>1, <2>2, HoldsOn
<1>3. ASSUME NextData(i) = 0
      PROVE  FlashIsImage
  <2>1. 0 \notin DataRecords
    BY DEF DataRecords
  <2>2. Passed(i, Len(file) + 1)
    BY <1>1, <1>3, <2>1, NextIs
  <2> QED BY <2>2, HoldsAll
<1> QED BY <1>2, <1>3

(* What a command does to the flash memory.                                *)
LEMMA WrittenIs ==
  ASSUME FlashTyped, NEW cmd \in UpdateCommands
  PROVE  /\ cmd.op = "ERASE_PAGE" =>
              /\ cmd.arg \in Region
              /\ \A a \in Cells(Pages) : Written(cmd)[a] = IF Page(a) = cmd.arg THEN 0 ELSE flash[a]
         /\ cmd.op = "WRITE_DATA" =>
              \A a \in Cells(Pages) :
                Written(cmd)[a] = IF Page(a) = cmd.arg.page /\ a \in CellsOf(cmd.arg.record) /\ flash[a] = 0
                                  THEN cmd.arg.record ELSE flash[a]
         /\ cmd.op \notin {"ERASE_PAGE", "WRITE_DATA"} => Written(cmd) = flash
         /\ Written(cmd) \in [Cells(Pages) -> Int]
<1>1. flash \in [Cells(Pages) -> Int] /\ DOMAIN flash = Cells(Pages)
  BY DEF FlashTyped
<1>2. CASE cmd.op = "ERASE_PAGE"
  <2>1. cmd.arg \in Region
    BY <1>2 DEF UpdateCommands, Region
  <2>2. Written(cmd) = [a \in Cells(Pages) |-> IF Page(a) = cmd.arg THEN 0 ELSE flash[a]]
    BY <1>1, <1>2 DEF Written
  <2> QED BY <1>1, <1>2, <2>1, <2>2
<1>3. CASE cmd.op = "WRITE_DATA"
  <2>1. cmd.arg.record \in Int
    BY <1>3 DEF UpdateCommands
  <2>2. Written(cmd) = [a \in Cells(Pages) |->
            IF Page(a) = cmd.arg.page /\ a \in CellsOf(cmd.arg.record) /\ flash[a] = 0
            THEN cmd.arg.record ELSE flash[a]]
    BY <1>1, <1>3 DEF Written
  <2> QED BY <1>1, <1>3, <2>1, <2>2
<1>4. CASE cmd.op \notin {"ERASE_PAGE", "WRITE_DATA"}
  BY <1>1, <1>4 DEF Written
<1> QED BY <1>2, <1>3, <1>4

(* The bootloader is out of reach of every command.                        *)
LEMMA BootWritten ==
  ASSUME FlashTyped, Boot, NEW cmd \in UpdateCommands
  PROVE  \A a \in Cells(BootPages) : Written(cmd)[a] = -1
<1> TAKE a \in Cells(BootPages)
<1>1. a \in Cells(Pages) /\ Page(a) \notin Region /\ flash[a] = -1
  BY RegionCells DEF Boot
<1>2. CASE cmd.op = "ERASE_PAGE"
  BY <1>1, <1>2, WrittenIs
<1>3. CASE cmd.op = "WRITE_DATA"
  BY <1>1, <1>3, WrittenIs
<1>4. CASE cmd.op \notin {"ERASE_PAGE", "WRITE_DATA"}
  BY <1>1, <1>4, WrittenIs
<1> QED BY <1>2, <1>3, <1>4

LEMMA PageErased ==
  ASSUME FlashTyped, NEW cmd \in UpdateCommands, NEW n \in 1 .. Len(EraseOrder),
         cmd.op = "ERASE_PAGE", cmd.arg = EraseOrder[n], flash' = Written(cmd),
         n = 1 \/ ErasedTo(n - 1)
  PROVE  ErasedTo(n)'
<1> SUFFICES ASSUME NEW a \in Cells(Region), NEW k \in 1 .. n, EraseOrder[k] = Page(a)
             PROVE  flash'[a] = 0
  BY DEF ErasedTo
<1>1. a \in Cells(Pages) /\ n \in Nat
  BY RegionCells, OrderIsWhole
<1>2. flash'[a] = IF Page(a) = EraseOrder[n] THEN 0 ELSE flash[a]
  BY <1>1, WrittenIs
<1>3. CASE k = n
  BY <1>2, <1>3
<1>4. CASE k # n
  <2>1. n # 1 /\ k \in 1 .. n - 1
    BY <1>1, <1>4
  <2> QED BY <1>2, <2>1 DEF ErasedTo
<1> QED BY <1>3, <1>4

LEMMA BlockWritten ==
  ASSUME FlashTyped, file \in Files, WellFormed, NEW cmd \in UpdateCommands, NEW D, Holds(D),
         NEW j \in DataRecords, NEW page,
         cmd.op = "WRITE_DATA", cmd.arg = [record |-> j, page |-> page]
  PROVE  \A a \in Cells(Region) :
           Written(cmd)[a] = IF a \in D \cup PartIn(j, page) THEN Image(a) ELSE 0
<1> TAKE a \in Cells(Region)
<1>1. a \in Cells(Pages) /\ j # 0
  BY RegionCells DEF DataRecords
<1>2. Written(cmd)[a] = IF Page(a) = page /\ a \in CellsOf(j) /\ flash[a] = 0 THEN j ELSE flash[a]
  BY <1>1, WrittenIs
<1>3. flash[a] = IF a \in D THEN Image(a) ELSE 0
  BY DEF Holds
<1>4. a \in CellsOf(j) => Image(a) = j
  BY ImageIs
<1>5. a \in PartIn(j, page) <=> a \in CellsOf(j) /\ Page(a) = page
  BY DEF PartIn
<1>6. CASE a \in PartIn(j, page)
  BY <1>2, <1>3, <1>4, <1>5, <1>6
<1>7. CASE a \notin PartIn(j, page)
  BY <1>2, <1>3, <1>5, <1>7
<1> QED BY <1>6, <1>7

LEMMA SofarStays ==
  ASSUME file' = file
  PROVE  \A n : Sofar(n)' = Sofar(n) /\ Half(n)' = Half(n)
<1>1. \A n : Sofar(n)' = Sofar(n)
  BY FileStays DEF Sofar
<1>2. \A n, page : PartIn(n, page)' = PartIn(n, page)
  BY FileStays DEF PartIn
<1>3. \A n : Half(n)' = Half(n)
  <2> TAKE n
  <2> DEFINE page == Page(Address(n))
  <2>1. page' = page
    BY FileStays DEF Page
  <2>2. PartIn(n, page)' = PartIn(n, page)
    BY <2>1, FileStays DEF PartIn
  <2> QED BY <1>1, <2>2 DEF Half
<1> QED BY <1>1, <1>3

(* Steps of the line leave the memory and the place of the process alone.  *)
LEMMA FlashStays ==
  ASSUME file' = file, flash' = flash
  PROVE  /\ WellFormed' = WellFormed /\ FlashIsImage' = FlashIsImage /\ FlashIsOld' = FlashIsOld
         /\ Boot' = Boot /\ FlashTyped' = FlashTyped
         /\ \A n : Holds(Sofar(n))' = Holds(Sofar(n))
         /\ \A n : Holds(Half(n))' = Holds(Half(n))
         /\ \A n : ErasedTo(n)' = ErasedTo(n)
<1>1. WellFormed' = WellFormed /\ \A a : Image(a)' = Image(a)
  BY FileStays
<1>2. FlashIsImage' = FlashIsImage
  BY <1>1 DEF FlashIsImage
<1>3. FlashIsOld' = FlashIsOld /\ Boot' = Boot /\ FlashTyped' = FlashTyped
  BY DEF FlashIsOld, Boot, FlashTyped
<1>4. \A n : Holds(Sofar(n))' = Holds(Sofar(n)) /\ Holds(Half(n))' = Holds(Half(n))
  BY <1>1, SofarStays DEF Holds
<1>5. \A n : ErasedTo(n)' = ErasedTo(n)
  BY DEF ErasedTo
<1> QED BY <1>1, <1>2, <1>3, <1>4, <1>5

LEMMA PlaceStays ==
  ASSUME UNCHANGED <<file, job, controller, flash, processes, fooled>>, JobTyped
  PROVE  /\ JobTyped' /\ Ready' = Ready /\ Reached' = Reached /\ Begun' = Begun /\ Finished' = Finished
         /\ Command' = Command
         /\ WellFormed' = WellFormed /\ FlashIsImage' = FlashIsImage /\ FlashIsOld' = FlashIsOld
         /\ Boot' = Boot
<1>1. UNCHANGED job /\ file' = file /\ flash' = flash
  OBVIOUS
<1>2. Begun' = Begun /\ Finished' = Finished
  BY <1>1 DEF Begun, Finished
<1>3. Ready' = Ready /\ Reached' = Reached
  BY <1>1, FlashStays DEF Ready, Reached
<1>4. Command' = Command
  BY <1>1, FileStays DEF Command, Page
<1>5. JobTyped'
  <2>1. DataRecords' = DataRecords /\ \A i : Address(i)' = Address(i)
    BY <1>1, FileStays
  <2> QED BY <1>1, <2>1, FlashStays DEF JobTyped, Flashable
<1> QED BY <1>1, <1>2, <1>3, <1>4, <1>5, FlashStays

(* An answer to the newest question leaves none behind it.                 *)
LEMMA NewestAnswered ==
  ASSUME LinkInv, OwnAnswer
  PROVE  inbox = <<>>
<1>1. inbox \in Seq(Question) /\ replies \in Seq(Reply) /\ unread \in Seq(Reply) /\ count \in Nat
  BY DEF LinkInv, Typed
<1>2. SUFFICES ASSUME 1 \in 1 .. Len(inbox)
               PROVE  FALSE
  BY <1>1
<1>3. inbox[1].id <= count /\ inbox[1].id \in Nat
  BY <1>1, <1>2, ElementFacts, Numbers DEF LinkInv, Ordered, Between
<1>4. CASE \E i \in 1 .. Len(replies) : replies[i].id = count
  BY <1>1, <1>2, <1>3, <1>4 DEF LinkInv, Ordered, Before
<1>5. CASE \E i \in 1 .. Len(unread) : unread[i].id = count
  BY <1>1, <1>2, <1>3, <1>5 DEF LinkInv, Ordered, Before
<1> QED BY <1>4, <1>5 DEF OwnAnswer

LEMMA NoneNewer ==
  ASSUME LinkInv
  PROVE  /\ count \in Nat
         /\ \A i \in 1 .. Len(inbox) : inbox[i].id <= count
         /\ \A i \in 1 .. Len(replies) : replies[i].id <= count
         /\ \A i \in 1 .. Len(unread) : unread[i].id <= count
  BY DEF LinkInv, Typed, Ordered, Between

LEMMA CommandIs ==
  ASSUME JobTyped, job.pc \notin {"none", "exit"}
  PROVE  /\ Command \in UpdateCommands /\ Command \in Commands
         /\ job.pc \in {"ask", "jump"} => Command.op \in {"GET_APP_VERSION", "IS_IN_BOOTLOADER", "JUMP_TO_BOOTLOADER"}
         /\ job.pc = "erase" => Command = [op |-> "ERASE_PAGE", arg |-> EraseOrder[job.line]]
         /\ job.pc = "program" =>
              Command = [op |-> "WRITE_DATA", arg |-> [record |-> job.line, page |-> Page(Address(job.line))]]
         /\ job.pc = "second" =>
              Command = [op |-> "WRITE_DATA", arg |-> [record |-> job.line, page |-> Page(Address(job.line)) + 1]]
         /\ job.pc = "run" => Command.op = "JUMP_TO_PGM"
<1>1. job.pc \in {"ask", "jump", "erase", "program", "second", "run"}
  BY DEF JobTyped, NoJob
<1>2. CASE job.pc \in {"ask", "jump", "run"}
  BY <1>2, UpdateAssumption DEF Command, UpdateCommands
<1>3. CASE job.pc = "erase"
  <2>1. Command = [op |-> "ERASE_PAGE", arg |-> EraseOrder[job.line]]
    BY <1>3 DEF Command
  <2>2. EraseOrder[job.line] \in IvtPages \cup UserPages
    BY <1>3, OrderIsWhole DEF JobTyped, Region
  <2>3. Command \in UpdateCommands
    BY <2>1, <2>2 DEF UpdateCommands
  <2> QED BY <1>3, <2>1, <2>3, UpdateAssumption
<1>4. CASE job.pc \in {"program", "second"}
  <2> DEFINE page == Page(Address(job.line))
  <2>1. file \in Files /\ job.line \in DataRecords /\ Flashable(Address(job.line))
    BY <1>4 DEF JobTyped
  <2>2. job.line \in 1 .. Len(file) /\ page \in IvtPages \cup UserPages /\ page \in Nat
    <3>1. Address(job.line) \in Cells(Region) /\ Region \subseteq Nat
      BY <2>1, RegionCells, OrderIsWhole
    <3>2. job.line \in 1 .. Len(file)
      BY <2>1, RecordCells
    <3> QED BY <3>1, <3>2, RegionCells DEF Region
  <2>3. Command = [op |-> "WRITE_DATA", arg |-> [record |-> job.line,
                    page |-> page + (IF job.pc = "program" THEN 0 ELSE 1)]]
    <3>1. page + 0 = page
      BY <2>2
    <3> QED BY <1>4, <3>1 DEF Command
  <2> HIDE DEF page
  <2>4. ASSUME NEW part \in {0, 1}
        PROVE  [op |-> "WRITE_DATA", arg |-> [record |-> job.line, page |-> page + part]] \in UpdateCommands
    <3> DEFINE block(i, p, q) == [op |-> "WRITE_DATA", arg |-> [record |-> i, page |-> p + q]]
               blocks(f) == {block(i, p, q) : i \in 1 .. Len(f), p \in IvtPages \cup UserPages, q \in {0, 1}}
    <3>1. UNION {blocks(f) : f \in Files} \subseteq UpdateCommands
      BY DEF UpdateCommands
    <3> HIDE DEF block
    <3>2. block(job.line, page, part) \in blocks(file)
      BY <2>2, <2>4
    <3> HIDE DEF blocks
    <3>3. block(job.line, page, part) \in UpdateCommands
      BY <2>1, <3>1, <3>2
    <3> QED BY <3>3 DEF block
  <2>5. Command \in UpdateCommands
    BY <1>4, <2>3, <2>4
  <2> QED BY <1>4, <2>3, <2>5, <2>2, UpdateAssumption DEF page, Command
<1> QED BY <1>1, <1>2, <1>3, <1>4

-----------------------------------------------------------------------------
(* The controller carries out a command.                                   *)

LEMMA ExecuteMoves ==
  ASSUME UpdateInv, Execute
  PROVE  /\ LinkInv'
         /\ inbox # <<>> /\ Len(inbox) >= 1 /\ Len(inbox') = Len(inbox) - 1
         /\ \A i \in 1 .. Len(inbox') : inbox'[i] = inbox[i + 1] /\ i + 1 \in 1 .. Len(inbox)
         /\ Len(inbox') = 0 => inbox' = <<>>
         /\ UNCHANGED <<request, unread, count, file, job, processes, fooled>>
         /\ inbox[1].cmd \in UpdateCommands
         /\ \/ flash' = flash /\ controller' = controller /\ replies' = replies
            \/ /\ Obeys(inbox[1].cmd) /\ flash' = Written(inbox[1].cmd)
               /\ controller' = Reset(inbox[1].cmd)
               /\ \/ replies' = replies
                  \/ /\ Len(replies') = Len(replies) + 1 /\ replies'[Len(replies) + 1].id = inbox[1].id
                     /\ \A i \in 1 .. Len(replies) : replies'[i] = replies[i]
<1>1. LinkInv /\ inbox \in Seq(Question) /\ replies \in Seq(Reply) /\ inbox # <<>>
  BY DEF UpdateInv, LinkInv, Typed, Execute
<1>2. /\ Tail(inbox) \in Seq(Question) /\ Len(inbox) >= 1 /\ Len(Tail(inbox)) = Len(inbox) - 1
      /\ Head(inbox) = inbox[1] /\ inbox[1] \in Question
      /\ \A i \in 1 .. Len(Tail(inbox)) : Tail(inbox)[i] = inbox[i + 1]
  BY <1>1, TailFacts
<1>3. Len(inbox) \in Nat
  BY <1>1, EmptyFacts
<1>4. \A i \in 1 .. Len(Tail(inbox)) : i + 1 \in 1 .. Len(inbox)
  BY <1>2, <1>3
<1>5. Len(Tail(inbox)) = 0 => Tail(inbox) = <<>>
  BY <1>2, EmptyFacts
<1>6. inbox[1].cmd \in UpdateCommands
  <2>1. 1 \in 1 .. Len(inbox)
    BY <1>2, <1>3
  <2> QED BY <2>1 DEF UpdateInv, Asking
<1>7. UNCHANGED <<request, unread, count, file, job, processes, fooled>> /\ inbox' = Tail(inbox)
  BY DEF Execute, Answer
<1>8. CASE Obeys(inbox[1].cmd)
  <2>1. PICK value \in {0, 1} : Answer(value)
    BY <1>2, <1>8 DEF Execute
  <2>2. LinkInv'
    BY <1>1, <2>1, AnswerInv
  <2>3. flash' = Written(inbox[1].cmd) /\ controller' = Reset(inbox[1].cmd)
    BY <1>2, <1>8 DEF Execute
  <2>4. replies' = replies \/ replies' = Append(replies, [op |-> inbox[1].cmd.op, value |-> value, id |-> inbox[1].id])
    BY <1>2, <2>1 DEF Answer
  <2>5. [op |-> inbox[1].cmd.op, value |-> value, id |-> inbox[1].id] \in Reply
    BY <1>2 DEF Reply, Question
  <2>6. \/ replies' = replies
        \/ /\ Len(replies') = Len(replies) + 1 /\ replies'[Len(replies) + 1].id = inbox[1].id
           /\ \A i \in 1 .. Len(replies) : replies'[i] = replies[i]
    BY <1>1, <2>4, <2>5, AppendFacts
  <2> QED BY <1>1, <1>2, <1>4, <1>5, <1>6, <1>7, <1>8, <2>2, <2>3, <2>6
<1>9. CASE ~Obeys(inbox[1].cmd)
  <2>1. /\ inbox' = Tail(inbox) /\ quiet' = FALSE
        /\ UNCHANGED <<request, replies, ring, readIndex, writeIndex, unread, overrun, last, count, losses,
                       controller, flash>>
    BY <1>2, <1>9 DEF Execute
  <2>2. LinkInv'
    BY <1>1, <2>1, IgnoreInv
  <2> QED BY <1>1, <1>2, <1>4, <1>5, <1>6, <1>7, <2>1, <2>2
<1> QED BY <1>8, <1>9

(* The process's own command, when it is carried out, does what its place  *)
(* asks for.                                                               *)
LEMMA OwnCommandDone ==
  ASSUME JobTyped, job.pc \notin {"none", "exit"}, WellFormed, UNCHANGED <<file, job>>,
         flash' = Written(Command), Begun => Ready
  PROVE  Reached'
<1>1. /\ file \in Files /\ FlashTyped /\ Command \in UpdateCommands
      /\ job.pc = "erase" => job.line \in 1 .. Len(EraseOrder)
      /\ job.pc \in {"program", "second"} => job.line \in DataRecords /\ file[job.line].length > 0
  BY CommandIs DEF JobTyped
<1>2. CASE job.pc = "erase"
  <2>1. job.line = 1 \/ ErasedTo(job.line - 1)
    <3>1. ~(job.line > 1) => job.line = 1
      BY <1>1, <1>2, OrderIsWhole
    <3> QED BY <1>2, <3>1 DEF Begun, Ready
  <2>2. PICK n : n = job.line
    OBVIOUS
  <2>3. ErasedTo(n)'
    BY <1>1, <1>2, <2>1, <2>2, CommandIs, PageErased
  <2>4. ErasedTo(job.line)'
    BY <2>2, <2>3 DEF ErasedTo
  <2> QED BY <1>2, <2>4 DEF Reached
<1>3. CASE job.pc \in {"program", "second"}
  <2> DEFINE j == job.line
             page == Page(Address(j))
  <2>1. j \in DataRecords /\ file[j].length > 0
    BY <1>1, <1>3
  <2>2. \A a : Image(a)' = Image(a)
    BY FileStays
  <2>3. CASE job.pc = "program"
    <3>1. Holds(Sofar(j))
      BY <2>3 DEF Begun, Ready
    <3>2. \A a \in Cells(Region) : flash'[a] = IF a \in Half(j) THEN Image(a) ELSE 0
      BY <1>1, <2>1, <2>3, <3>1, CommandIs, BlockWritten DEF Half
    <3>3. Half(j)' = Half(j)
      BY SofarStays
    <3> HIDE DEF j
    <3>4. Holds(Half(j))'
      BY <2>2, <3>2, <3>3 DEF Holds
    <3> QED BY <2>3, <3>4 DEF Reached, j
  <2>4. CASE job.pc = "second"
    <3>1. Holds(Half(j))
      BY <2>4 DEF Begun, Ready
    <3>2. \A a \in Cells(Region) :
            flash'[a] = IF a \in Half(j) \cup PartIn(j, page + 1) THEN Image(a) ELSE 0
      BY <1>1, <2>1, <2>4, <3>1, CommandIs, BlockWritten
    <3>3. \A a \in Cells(Region) : a \in Half(j) \cup PartIn(j, page + 1) <=> a \in Sofar(j + 1)
      <4> TAKE a \in Cells(Region)
      <4>1. a \in Nat
        BY RegionCells
      <4> HIDE DEF j
      <4> QED BY <1>1, <2>1, <4>1, WholeRecord DEF Half, PartIn
    <3>4. Sofar(j + 1)' = Sofar(j + 1)
      BY SofarStays
    <3> HIDE DEF j
    <3>5. Holds(Sofar(j + 1))'
      BY <2>2, <3>2, <3>3, <3>4 DEF Holds
    <3> QED BY <2>4, <3>5 DEF Reached, j
  <2> QED BY <1>3, <2>3, <2>4
<1>4. CASE job.pc = "run"
  <2>1. Command.op = "JUMP_TO_PGM"
    BY <1>4, CommandIs
  <2>2. flash' = flash
    BY <1>1, <2>1, WrittenIs
  <2>3. FlashIsImage
    BY <1>4 DEF Begun, Ready
  <2> QED BY <1>4, <2>2, <2>3, FlashStays DEF Reached
<1>5. CASE job.pc \notin {"erase", "program", "second", "run"}
  BY <1>5 DEF Reached
<1> QED BY <1>2, <1>3, <1>4, <1>5

LEMMA ExecuteInv ==
  ASSUME UpdateInv, Execute
  PROVE  UpdateInv'
<1> DEFINE cmd == inbox[1].cmd
<1>1. /\ LinkInv /\ JobTyped /\ Asking /\ Boot /\ Loading /\ Running /\ FlashTyped /\ file \in Files
  BY DEF UpdateInv, JobTyped
<1>2. /\ LinkInv'
      /\ inbox # <<>> /\ Len(inbox) >= 1 /\ Len(inbox') = Len(inbox) - 1
      /\ \A i \in 1 .. Len(inbox') : inbox'[i] = inbox[i + 1] /\ i + 1 \in 1 .. Len(inbox)
      /\ Len(inbox') = 0 => inbox' = <<>>
      /\ UNCHANGED <<request, unread, count, file, job, processes, fooled>>
      /\ cmd \in UpdateCommands
  BY ExecuteMoves
<1>3. \/ flash' = flash /\ controller' = controller /\ replies' = replies
      \/ /\ Obeys(cmd) /\ flash' = Written(cmd) /\ controller' = Reset(cmd)
         /\ \/ replies' = replies
            \/ /\ Len(replies') = Len(replies) + 1 /\ replies'[Len(replies) + 1].id = inbox[1].id
               /\ \A i \in 1 .. Len(replies) : replies'[i] = replies[i]
  BY ExecuteMoves
<1>4. Len(inbox) \in Nat /\ Len(replies) \in Nat /\ 1 \in 1 .. Len(inbox)
  <2>1. Len(inbox) \in Nat /\ Len(replies) \in Nat
    BY <1>1, EmptyFacts DEF LinkInv, Typed
  <2> QED BY <1>2, <2>1
<1>5. Len(inbox') \in Nat /\ \A i \in 1 .. Len(inbox') : i + 1 # 1
  BY <1>2, <1>4
<1> HIDE DEF cmd
<1>6. JobTyped'
  <2>1. FlashTyped'
    <3>1. flash' = flash \/ flash' \in [Cells(Pages) -> Int]
      BY <1>1, <1>2, <1>3, WrittenIs
    <3> QED BY <1>1, <3>1 DEF FlashTyped
  <2>2. controller' \in {"app", "boot"}
    BY <1>1, <1>3 DEF JobTyped, Reset
  <2>3. DataRecords' = DataRecords /\ \A i : Address(i)' = Address(i)
    BY <1>2, FileStays
  <2> QED BY <1>1, <1>2, <2>1, <2>2, <2>3 DEF JobTyped, Flashable
<1>7. Asking'
  <2>1. Command' = Command
    BY <1>2, FileStays DEF Command, Page
  <2> QED BY <1>1, <1>2, <2>1 DEF Asking
<1>8. Boot'
  BY <1>1, <1>2, <1>3, BootWritten DEF Boot
<1>9. Loading'
  <2> SUFFICES ASSUME WellFormed', fooled' # processes'
               PROVE  Loading'
    BY DEF Loading
  <2>1. WellFormed /\ fooled # processes
    BY <1>2, FileStays
  <2>2. ~OwnAnswer
    BY <1>1, <1>2, NewestAnswered
  <2>3. ~(Begun /\ request[Updater].pc \in {"idle", "sending"})
    BY <1>1, <1>2, <2>1 DEF Loading
  <2>4. Begun' = Begun /\ Finished' = Finished
    BY <1>2 DEF Begun, Finished
  <2>5. ASSUME Begun, request[Updater].pc \in {"waiting", "blocked"}
        PROVE  inbox' = <<>> /\ Ready /\ inbox[1].id = count
    BY <1>1, <1>2, <2>1, <2>5 DEF Loading
  <2>6. ASSUME request[Updater].pc \in {"waiting", "blocked"}, OwnAnswer'
        PROVE  Reached'
    <3>1. inbox[1].id = count /\ Obeys(cmd) /\ flash' = Written(cmd)
      <4>1. \A i \in 1 .. Len(unread) : unread[i].id # count
        BY <2>2 DEF OwnAnswer
      <4>2. \A i \in 1 .. Len(replies) : replies[i].id # count
        BY <2>2 DEF OwnAnswer
      <4>3. PICK i \in 1 .. Len(replies') : replies'[i].id = count
        BY <1>2, <2>6, <4>1 DEF OwnAnswer
      <4>4. replies' # replies
        BY <4>2, <4>3
      <4>5. i \in 1 .. Len(replies) \/ i = Len(replies) + 1
        BY <1>3, <1>4, <4>3, <4>4
      <4> QED BY <1>3, <4>2, <4>3, <4>4, <4>5
    <3>2. cmd = Command
      BY <1>1, <1>4, <2>6, <3>1 DEF Asking, cmd
    <3>3. job.pc \notin {"none", "exit"}
      BY <1>1, <2>6 DEF Asking, Idle
    <3> QED BY <1>1, <1>2, <2>1, <2>5, <2>6, <3>1, <3>2, <3>3, OwnCommandDone
  <2>7. ~(request[Updater].pc = "answered" /\ request[Updater].from = count)
    BY <1>1, <1>2, <2>1 DEF Loading
  <2>8. ASSUME Finished
        PROVE  FlashIsImage' /\ \A i \in 1 .. Len(inbox') : Jump(inbox'[i].cmd)
    <3>1. FlashIsImage /\ \A i \in 1 .. Len(inbox) : Jump(inbox[i].cmd)
      BY <1>1, <2>1, <2>8 DEF Loading
    <3>2. cmd.op = "JUMP_TO_PGM"
      BY <1>4, <3>1 DEF Jump, cmd
    <3>3. flash' = flash
      BY <1>1, <1>2, <1>3, <3>2, WrittenIs
    <3> QED BY <1>2, <3>1, <3>3, FlashStays
  <2> QED BY <1>2, <2>3, <2>4, <2>5, <2>6, <2>7, <2>8 DEF Loading
<1>10. Running'
  <2> SUFFICES ASSUME WellFormed', fooled' = 0
               PROVE  Running'
    BY DEF Running
  <2>1. WellFormed /\ fooled = 0
    BY <1>2, FileStays
  <2>2. /\ controller = "app" => FlashIsOld \/ FlashIsImage
        /\ \A i \in 1 .. Len(inbox) : Jump(inbox[i].cmd) => i = 1 /\ FlashIsImage
    BY <1>1, <2>1 DEF Running
  <2>3. \A i \in 1 .. Len(inbox') : ~Jump(inbox'[i].cmd)
    BY <1>2, <1>5, <2>2
  <2>4. ASSUME controller' = "app"
        PROVE  (FlashIsOld \/ FlashIsImage)'
    <3>1. CASE flash' = flash /\ controller' = controller
      BY <1>2, <2>2, <2>4, <3>1, FlashStays
    <3>2. CASE Obeys(cmd) /\ flash' = Written(cmd) /\ controller' = Reset(cmd)
      <4>1. CASE cmd.op = "JUMP_TO_PGM"
        <5>1. FlashIsImage
          BY <1>4, <2>2, <4>1 DEF Jump, cmd
        <5>2. flash' = flash
          BY <1>1, <1>2, <3>2, <4>1, WrittenIs
        <5> QED BY <1>2, <5>1, <5>2, FlashStays
      <4>2. CASE cmd.op # "JUMP_TO_PGM"
        <5>1. controller = "app"
          BY <2>4, <3>2, <4>2 DEF Reset
        <5>2. cmd.op \notin {"ERASE_PAGE", "WRITE_DATA"}
          BY <3>2, <5>1 DEF Obeys
        <5>3. flash' = flash
          BY <1>1, <1>2, <3>2, <5>2, WrittenIs
        <5> QED BY <1>2, <2>2, <5>1, <5>3, FlashStays
      <4> QED BY <4>1, <4>2
    <3> QED BY <1>3, <3>1, <3>2
  <2> QED BY <2>3, <2>4 DEF Running
<1> QED BY <1>2, <1>6, <1>7, <1>8, <1>9, <1>10 DEF UpdateInv

-----------------------------------------------------------------------------
(* The line.                                                               *)

LEMMA LineKeeps ==
  ASSUME UpdateInv, UNCHANGED updateVars, LinkInv', Asking', Loading', Running'
  PROVE  UpdateInv'
<1>1. UNCHANGED <<file, job, controller, flash, processes, fooled>> /\ JobTyped /\ Boot
  BY DEF UpdateInv, updateVars
<1>2. JobTyped' /\ Boot'
  BY <1>1, PlaceStays
<1> QED BY <1>2 DEF UpdateInv

(* What such steps leave alone, and the invariant of before.               *)
LEMMA LineFacts ==
  ASSUME UpdateInv, UNCHANGED updateVars
  PROVE  /\ LinkInv /\ JobTyped /\ Asking /\ Loading /\ Running
         /\ UNCHANGED <<file, job, controller, flash, processes, fooled>>
         /\ Ready' = Ready /\ Reached' = Reached /\ Begun' = Begun /\ Finished' = Finished
         /\ Command' = Command
         /\ WellFormed' = WellFormed /\ FlashIsImage' = FlashIsImage /\ FlashIsOld' = FlashIsOld
         /\ request \in [Threads -> Requested] /\ Updater \in Threads
         /\ \A t \in Threads : t # Updater => request[t] = Idle
<1>1. UNCHANGED <<file, job, controller, flash, processes, fooled>>
  BY DEF updateVars
<1>2. LinkInv /\ JobTyped /\ Asking /\ Loading /\ Running
  BY DEF UpdateInv
<1>3. request \in [Threads -> Requested] /\ Updater \in Threads /\ \A t \in Threads : t # Updater => request[t] = Idle
  BY <1>2, UpdateAssumption DEF LinkInv, Typed, Asking
<1> QED BY <1>1, <1>2, <1>3, PlaceStays

(* The queue stays, and what is Running with it.                           *)
LEMMA RunningStays ==
  ASSUME UpdateInv, UNCHANGED updateVars, inbox' = inbox
  PROVE  Running'
<1>1. /\ Running /\ UNCHANGED <<controller, fooled>>
      /\ WellFormed' = WellFormed /\ FlashIsImage' = FlashIsImage /\ FlashIsOld' = FlashIsOld
  BY LineFacts
<1>2. ASSUME WellFormed, fooled = 0
      PROVE  /\ controller = "app" => FlashIsOld \/ FlashIsImage
             /\ \A i \in 1 .. Len(inbox) : Jump(inbox[i].cmd) => i = 1 /\ FlashIsImage
  BY <1>1, <1>2 DEF Running
<1> QED BY <1>1, <1>2 DEF Running

LEMMA AskInv ==
  ASSUME UpdateInv, Ask
  PROVE  UpdateInv'
<1>1. UNCHANGED updateVars /\ job.pc \notin {"none", "exit"} /\ Transmit(Updater, Command)
  BY DEF Ask
<1>2. Command \in Commands
  BY <1>1, LineFacts, CommandIs
<1>3. LinkInv'
  BY <1>1, <1>2, LineFacts, TransmitInv
<1>4. /\ request[Updater].pc = "idle"
      /\ request' = [u \in Threads |->
           IF u = Updater THEN [pc |-> "sending", cmd |-> Command, mixed |-> Sending # {}]
           ELSE IF u \in Sending THEN [request[u] EXCEPT !.mixed = TRUE]
           ELSE request[u]]
      /\ UNCHANGED <<inbox, replies, unread, count>>
  BY <1>1 DEF Transmit
<1>5. /\ request'[Updater].pc = "sending" /\ request'[Updater].cmd = Command
      /\ \A t \in Threads : t # Updater => request'[t] = Idle
  <2>1. \A t \in Threads : t # Updater => t \notin Sending
    BY <1>1, LineFacts DEF Sending, Idle
  <2> QED BY <1>1, <1>4, <2>1, LineFacts
<1>6. Asking'
  BY <1>1, <1>4, <1>5, LineFacts DEF Asking
<1>7. Loading'
  <2> SUFFICES ASSUME WellFormed', fooled' # processes'
               PROVE  Loading'
    BY DEF Loading
  <2>1. WellFormed /\ fooled # processes
    BY <1>1, LineFacts
  <2>2. /\ Begun => inbox = <<>> /\ Ready
        /\ Finished => FlashIsImage /\ \A i \in 1 .. Len(inbox) : Jump(inbox[i].cmd)
    BY <1>1, <1>4, <2>1, LineFacts DEF Loading
  <2> QED BY <1>1, <1>4, <1>5, <2>2, LineFacts DEF Loading
<1> QED BY <1>1, <1>3, <1>4, <1>6, <1>7, RunningStays, LineKeeps

LEMMA UpdateSentInv ==
  ASSUME UpdateInv, UNCHANGED updateVars, Sent(Updater)
  PROVE  UpdateInv'
<1>1. LinkInv'
  BY LineFacts, SentInv
<1>2. /\ request[Updater].pc = "sending" /\ count' = count + 1
      /\ request' = [request EXCEPT ![Updater] = [pc |-> "waiting", cmd |-> @.cmd, id |-> count']]
      /\ inbox' = inbox \/ inbox' = Append(inbox, [cmd |-> request[Updater].cmd, id |-> count'])
      /\ UNCHANGED <<replies, unread>>
  BY DEF Sent
<1>3. /\ request[Updater].cmd = Command /\ job.pc \notin {"none", "exit"}
      /\ Command \in UpdateCommands /\ Command \in Commands
  <2>1. request[Updater].cmd = Command /\ job.pc \notin {"none", "exit"}
    BY <1>2, LineFacts DEF Asking, Idle
  <2> QED BY <2>1, LineFacts, CommandIs
<1>4. /\ request'[Updater] = [pc |-> "waiting", cmd |-> Command, id |-> count']
      /\ \A t \in Threads : t # Updater => request'[t] = Idle
  BY <1>2, <1>3, LineFacts
<1>5. /\ count \in Nat /\ inbox \in Seq(Question) /\ Len(inbox) \in Nat
      /\ \A i \in 1 .. Len(inbox) : inbox[i].id <= count /\ inbox[i].id \in Nat
      /\ \A i \in 1 .. Len(replies) : replies[i].id <= count
      /\ \A i \in 1 .. Len(unread) : unread[i].id <= count
  <2>1. inbox \in Seq(Question)
    BY LineFacts DEF LinkInv, Typed
  <2> QED BY <2>1, LineFacts, NoneNewer, EmptyFacts, ElementFacts, Numbers
<1>6. \/ inbox' = inbox
      \/ /\ Len(inbox') = Len(inbox) + 1
         /\ inbox'[Len(inbox) + 1] = [cmd |-> Command, id |-> count']
         /\ \A i \in 1 .. Len(inbox) : inbox'[i] = inbox[i]
  <2>1. [cmd |-> Command, id |-> count'] \in Question
    BY <1>2, <1>3, <1>5 DEF Question
  <2> QED BY <1>2, <1>3, <1>5, <2>1, AppendFacts
<1>7. \A i \in 1 .. Len(inbox') :
        \/ i \in 1 .. Len(inbox) /\ inbox'[i] = inbox[i] /\ inbox'[i].id # count'
        \/ i = Len(inbox') /\ inbox'[i] = [cmd |-> Command, id |-> count'] /\ Len(inbox') = Len(inbox) + 1
  <2>1. \A i \in 1 .. Len(inbox) : inbox[i].id # count'
    BY <1>2, <1>5
  <2>2. CASE inbox' = inbox
    BY <2>1, <2>2
  <2>3. CASE inbox' # inbox
    <3>1. \A i \in 1 .. Len(inbox') : i \in 1 .. Len(inbox) \/ i = Len(inbox) + 1
      BY <1>5, <1>6, <2>3
    <3> QED BY <1>6, <2>1, <2>3, <3>1
  <2> QED BY <2>2, <2>3
<1>8. Asking'
  <2>1. count' >= 1
    BY <1>2, <1>5
  <2>2. \A i \in 1 .. Len(inbox') : inbox'[i].cmd \in UpdateCommands
    BY <1>3, <1>7, LineFacts DEF Asking
  <2>3. \A i \in 1 .. Len(inbox') : inbox'[i].id = count' => inbox'[i].cmd = Command
    BY <1>7
  <2> QED BY <1>3, <1>4, <2>1, <2>2, <2>3, LineFacts DEF Asking
<1>9. ~OwnAnswer'
  BY <1>2, <1>5 DEF OwnAnswer
<1>10. Loading'
  <2> SUFFICES ASSUME WellFormed', fooled' # processes'
               PROVE  Loading'
    BY DEF Loading
  <2>1. Begun => inbox = <<>> /\ Ready
    BY <1>2, LineFacts DEF Loading
  <2>2. Begun => inbox' = <<>> \/ (Len(inbox') = 1 /\ inbox'[1].id = count')
    BY <1>6, <2>1
  <2>3. Finished => FlashIsImage /\ \A i \in 1 .. Len(inbox) : Jump(inbox[i].cmd)
    BY LineFacts DEF Loading
  <2>4. Finished => \A i \in 1 .. Len(inbox') : Jump(inbox'[i].cmd)
    <3>1. Finished => Jump(Command)
      BY <1>3, LineFacts, CommandIs DEF Finished, Jump
    <3> QED BY <1>7, <2>3, <3>1
  <2> QED BY <1>4, <1>9, <2>1, <2>2, <2>3, <2>4, LineFacts DEF Loading
<1>11. Running'
  <2> SUFFICES ASSUME WellFormed', fooled' = 0
               PROVE  Running'
    BY DEF Running
  <2>1. /\ controller = "app" => FlashIsOld \/ FlashIsImage
        /\ \A i \in 1 .. Len(inbox) : Jump(inbox[i].cmd) => i = 1 /\ FlashIsImage
    BY LineFacts DEF Running
  <2>2. ASSUME NEW i \in 1 .. Len(inbox'), Jump(inbox'[i].cmd)
        PROVE  i = 1 /\ FlashIsImage
    <3>1. CASE i \in 1 .. Len(inbox) /\ inbox'[i] = inbox[i]
      BY <2>1, <2>2, <3>1
    <3>2. CASE i = Len(inbox') /\ inbox'[i].cmd = Command /\ Len(inbox') = Len(inbox) + 1
      <4>1. job.pc = "run"
        <5>1. Command.op = "JUMP_TO_PGM"
          BY <2>2, <3>2 DEF Jump
        <5>2. job.pc \in {"ask", "jump", "erase", "program", "second", "run"}
          BY <1>3, LineFacts DEF JobTyped, NoJob
        <5> QED BY <1>3, <5>1, <5>2, LineFacts, CommandIs
      <4>2. fooled # processes
        BY <1>3, LineFacts DEF JobTyped
      <4>3. inbox = <<>> /\ FlashIsImage
        BY <1>2, <4>1, <4>2, LineFacts DEF Loading, Begun, Ready
      <4> QED BY <3>2, <4>3
    <3> QED BY <1>7, <3>1, <3>2
  <2> QED BY <2>1, <2>2, LineFacts DEF Running
<1> QED BY <1>1, <1>8, <1>10, <1>11, LineKeeps

LEMMA UpdateWaitInv ==
  ASSUME UpdateInv, UNCHANGED updateVars, Wait(Updater)
  PROVE  UpdateInv'
<1>1. LinkInv'
  BY LineFacts, WaitInv
<1>2. /\ request[Updater].pc = "waiting"
      /\ request' = [request EXCEPT ![Updater].pc = "blocked"]
      /\ UNCHANGED <<inbox, replies, unread, count>>
  BY DEF Wait
<1>3. request[Updater] \in [pc : {"waiting", "blocked"}, cmd : Commands, id : Nat]
  BY <1>2, LineFacts DEF Requested, Idle
<1>4. /\ request'[Updater].pc = "blocked" /\ request'[Updater].cmd = request[Updater].cmd
      /\ request'[Updater].id = request[Updater].id
      /\ \A t \in Threads : t # Updater => request'[t] = Idle
  BY <1>2, <1>3, LineFacts
<1>5. Asking'
  BY <1>2, <1>4, LineFacts DEF Asking, Idle
<1>6. Loading'
  <2> SUFFICES ASSUME WellFormed', fooled' # processes'
               PROVE  Loading'
    BY DEF Loading
  <2>1. WellFormed /\ fooled # processes /\ OwnAnswer' = OwnAnswer
    BY <1>2, LineFacts DEF OwnAnswer
  <2>2. /\ Begun => inbox = <<>> \/ (Len(inbox) = 1 /\ inbox[1].id = count /\ Ready)
        /\ OwnAnswer => Reached
        /\ Finished => FlashIsImage /\ \A i \in 1 .. Len(inbox) : Jump(inbox[i].cmd)
    BY <1>2, <2>1, LineFacts DEF Loading
  <2> QED BY <1>2, <1>4, <2>1, <2>2, LineFacts DEF Loading
<1> QED BY <1>1, <1>2, <1>5, <1>6, RunningStays, LineKeeps

(* A wait that ends, with an answer from somebody or from nobody.          *)
LEMMA WaitEnds ==
  ASSUME UpdateInv, UNCHANGED updateVars, UNCHANGED <<inbox, count>>, LinkInv',
         request[Updater].pc \in {"waiting", "blocked"},
         request'[Updater].pc = "answered", request'[Updater].cmd = request[Updater].cmd,
         request'[Updater].id = request[Updater].id,
         request'[Updater].from = count => OwnAnswer,
         \A t \in Threads : t # Updater => request'[t] = Idle
  PROVE  UpdateInv'
<1>1. Asking'
  BY LineFacts DEF Asking, Idle
<1>2. Loading'
  <2> SUFFICES ASSUME WellFormed', fooled' # processes'
               PROVE  Loading'
    BY DEF Loading
  <2>1. WellFormed /\ fooled # processes
    BY LineFacts
  <2>2. /\ OwnAnswer => Reached
        /\ Finished => FlashIsImage /\ \A i \in 1 .. Len(inbox) : Jump(inbox[i].cmd)
    BY <2>1, LineFacts DEF Loading
  <2>3. OwnAnswer => inbox = <<>>
    BY LineFacts, NewestAnswered
  <2> QED BY <2>2, <2>3, LineFacts DEF Loading
<1> QED BY <1>1, <1>2, RunningStays, LineKeeps

LEMMA UpdateTimeOutInv ==
  ASSUME UpdateInv, UNCHANGED updateVars, TimeOut(Updater)
  PROVE  UpdateInv'
<1>1. LinkInv'
  BY LineFacts, TimeOutInv
<1>2. /\ request[Updater].pc = "blocked" /\ UNCHANGED <<inbox, count>>
      /\ request' = [request EXCEPT ![Updater] =
           [pc |-> "answered", cmd |-> @.cmd, id |-> @.id, ok |-> FALSE, value |-> 0, from |-> 0]]
  BY DEF TimeOut
<1>3. /\ request'[Updater].pc = "answered" /\ request'[Updater].cmd = request[Updater].cmd
      /\ request'[Updater].id = request[Updater].id /\ request'[Updater].from = 0
      /\ \A t \in Threads : t # Updater => request'[t] = Idle
  BY <1>2, LineFacts
<1>4. count # 0
  BY <1>2, LineFacts, NoneNewer DEF Asking
<1> QED BY <1>1, <1>2, <1>3, <1>4, WaitEnds

LEMMA UpdateTakeInv ==
  ASSUME UpdateInv, UNCHANGED updateVars, Take(Updater)
  PROVE  UpdateInv'
<1>1. LinkInv'
  BY LineFacts, TakeInv
<1>2. /\ request[Updater].pc \in {"waiting", "blocked"} /\ UNCHANGED <<inbox, count>> /\ ~Empty
      /\ request' = [request EXCEPT ![Updater] =
           [pc |-> "answered", cmd |-> @.cmd, id |-> @.id, ok |-> ring[readIndex].op = @.cmd.op,
            value |-> ring[readIndex].value, from |-> ring[readIndex].id]]
  BY DEF Take
<1>3. /\ request'[Updater].pc = "answered" /\ request'[Updater].cmd = request[Updater].cmd
      /\ request'[Updater].id = request[Updater].id /\ request'[Updater].from = ring[readIndex].id
      /\ \A t \in Threads : t # Updater => request'[t] = Idle
  BY <1>2, LineFacts
<1>4. 1 \in 1 .. Len(unread) /\ ring[readIndex] = unread[1]
  BY <1>2, LineFacts, RingFacts
<1>5. ring[readIndex].id = count => OwnAnswer
  BY <1>4 DEF OwnAnswer
<1> QED BY <1>1, <1>2, <1>3, <1>5, WaitEnds

LEMMA UpdateAcceptInv ==
  ASSUME UpdateInv, UNCHANGED updateVars, AcceptPacket
  PROVE  UpdateInv'
<1>1. LinkInv'
  BY LineFacts, AcceptPacketInv
<1>2. /\ replies # <<>> /\ replies' = Tail(replies)
      /\ unread' = <<>> \/ unread' = Append(unread, Head(replies))
      /\ UNCHANGED <<request, inbox, count>>
  BY DEF AcceptPacket
<1>3. OwnAnswer' => OwnAnswer
  <2>1. replies \in Seq(Reply) /\ unread \in Seq(Reply)
    BY LineFacts DEF LinkInv, Typed
  <2>2. /\ Len(replies) \in Nat /\ Len(replies) >= 1 /\ Len(Tail(replies)) = Len(replies) - 1
        /\ Head(replies) = replies[1] /\ replies[1] \in Reply
        /\ \A i \in 1 .. Len(Tail(replies)) : Tail(replies)[i] = replies[i + 1]
    BY <1>2, <2>1, TailFacts, EmptyFacts
  <2>3. \A i \in 1 .. Len(Tail(replies)) : i + 1 \in 1 .. Len(replies)
    BY <2>2
  <2>4. ASSUME NEW i \in 1 .. Len(replies'), replies'[i].id = count
        PROVE  OwnAnswer
    BY <1>2, <2>2, <2>3, <2>4 DEF OwnAnswer
  <2>5. ASSUME NEW i \in 1 .. Len(unread'), unread'[i].id = count
        PROVE  OwnAnswer
    <3>1. unread' = Append(unread, replies[1])
      BY <1>2, <2>2, <2>5
    <3>2. /\ Len(unread) \in Nat /\ Len(unread') = Len(unread) + 1
          /\ unread'[Len(unread) + 1] = replies[1]
          /\ \A j \in 1 .. Len(unread) : unread'[j] = unread[j]
      BY <2>1, <2>2, <3>1, AppendFacts, EmptyFacts
    <3>3. i \in 1 .. Len(unread) \/ i = Len(unread) + 1
      BY <3>2
    <3>4. 1 \in 1 .. Len(replies)
      BY <2>2
    <3> QED BY <2>5, <3>2, <3>3, <3>4 DEF OwnAnswer
  <2> QED BY <1>2, <2>4, <2>5 DEF OwnAnswer
<1>4. Asking'
  BY <1>2, LineFacts DEF Asking
<1>5. Loading'
  <2> SUFFICES ASSUME WellFormed', fooled' # processes'
               PROVE  Loading'
    BY DEF Loading
  <2>1. WellFormed /\ fooled # processes
    BY LineFacts
  <2> QED BY <1>2, <1>3, <2>1, LineFacts DEF Loading
<1> QED BY <1>1, <1>2, <1>4, <1>5, RunningStays, LineKeeps

-----------------------------------------------------------------------------
(* The process goes on.                                                    *)

Working == [pc : {"ask", "jump", "erase", "program", "second", "run"}, option : Options,
            line : Nat, ok : BOOLEAN]
Ended == [pc : {"exit"}, option : Options, line : Nat, ok : BOOLEAN, value : Int]

(* Behind record i, the update programs the next record or is over.        *)
LEMMA ProgramIs ==
  ASSUME file \in Files, job \in Working, NEW i \in Nat, i >= 1
  PROVE  /\ Program(i) \in Working /\ Program(i).option = job.option
         /\ \/ /\ Program(i).pc = "run" /\ NextData(i) = 0
            \/ /\ Program(i).pc = "program" /\ Program(i).line = NextData(i) /\ NextData(i) # 0
               /\ NextData(i) \in DataRecords /\ file[NextData(i)].length > 0
               /\ Flashable(Address(NextData(i)))
<1>1. NextData(i) # 0 =>
        /\ NextData(i) \in DataRecords /\ file[NextData(i)].length > 0 /\ Flashable(Address(NextData(i)))
        /\ NextData(i) \in Nat
  <2>1. NextData(i) \in DataRecords => NextData(i) \in Nat
    BY RecordCells
  <2> QED BY <2>1, NextIs
<1>2. \A pc \in {"run", "program"} : \A line \in Nat :
        /\ Goto(pc, line) \in Working /\ Goto(pc, line).option = job.option
        /\ Goto(pc, line).pc = pc /\ Goto(pc, line).line = line
  BY DEF Goto, Working
<1>3. Program(i) = IF NextData(i) = 0 THEN Goto("run", i) ELSE Goto("program", NextData(i))
  BY DEF Program
<1> QED BY <1>1, <1>2, <1>3

LEMMA ContinueMoves ==
  ASSUME JobTyped, Asking, Typed, Continue
  PROVE  /\ job \in Working /\ request[Updater].pc = "answered" /\ request'[Updater] = Idle
         /\ \A t \in Threads : t # Updater => request'[t] = Idle
         /\ UNCHANGED <<inbox, replies, unread, count, file, controller, flash, processes>>
         /\ fooled' = IF Fooled THEN processes ELSE fooled
         /\ \/ /\ job' \in Ended
               /\ (job'.option = "-u" /\ job'.ok) => job.pc = "run"
            \/ /\ job' \in Working /\ job'.option = "-u" /\ job.pc \in {"ask", "jump"}
               /\ job'.pc = "jump" \/ (job'.pc = "erase" /\ job'.line = 1)
            \/ /\ job' \in Working /\ job'.option = "-u" /\ job.pc = "erase" /\ request[Updater].ok
               /\ job.line < Len(EraseOrder) /\ job'.pc = "erase" /\ job'.line = job.line + 1
            \/ /\ job' \in Working /\ job'.option = "-u" /\ job.pc = "erase" /\ request[Updater].ok
               /\ job.line = Len(EraseOrder) /\ job' = Program(1)
            \/ /\ job' \in Working /\ job'.option = "-u" /\ job.pc = "program" /\ request[Updater].ok
               /\ Page(Address(job.line)) # Page(Address(job.line) + file[job.line].length - 1)
               /\ job'.pc = "second" /\ job'.line = job.line
            \/ /\ job' \in Working /\ job'.option = "-u" /\ job.pc \in {"program", "second"} /\ request[Updater].ok
               /\ job.pc = "program" =>
                    Page(Address(job.line)) = Page(Address(job.line) + file[job.line].length - 1)
               /\ job' = Program(job.line + 1)
<1> DEFINE r == request[Updater]
<1>1. /\ r.pc = "answered" /\ request' = [request EXCEPT ![Updater] = Idle]
      /\ fooled' = IF Fooled THEN processes ELSE fooled
      /\ job' = IF job.option = "-u" THEN updateFirmware ELSE Exit(r.ok)
      /\ UNCHANGED <<inbox, replies, unread, count, file, controller, flash, processes>>
  BY DEF Continue
<1>2. r \in [pc : {"answered"}, cmd : Commands, id : Nat, ok : BOOLEAN, value : Int, from : Nat]
  BY <1>1, UpdateAssumption DEF Typed, Requested, Idle
<1>3. job \in Working
  <2>1. job.pc \notin {"none", "exit"}
    BY <1>1 DEF Asking, Idle
  <2> QED BY <2>1 DEF JobTyped, NoJob, Working
<1>4. /\ request'[Updater] = Idle
      /\ \A t \in Threads : t # Updater => request'[t] = Idle
  BY <1>1, UpdateAssumption DEF Typed, Asking
<1>5. /\ file \in Files /\ job.line \in Nat /\ job.option \in Options /\ r.ok \in BOOLEAN /\ r.value \in Int
      /\ job.pc \in {"ask", "jump", "erase", "program", "second", "run"}
      /\ job.pc # "ask" => job.option = "-u"
      /\ job.pc = "erase" => job.line \in 1 .. Len(EraseOrder)
  BY <1>2, <1>3 DEF JobTyped, Working
<1> HIDE DEF r
<1>6. \A ok \in BOOLEAN : Exit(ok) \in Ended /\ Exit(ok).ok = ok /\ Exit(ok).option = job.option
  BY <1>5 DEF Exit, Ended, r
<1>7. \A pc \in {"jump", "erase", "second"} : \A line \in Nat :
        /\ Goto(pc, line) \in Working /\ Goto(pc, line).option = job.option
        /\ Goto(pc, line).pc = pc /\ Goto(pc, line).line = line
  BY <1>3 DEF Goto, Working
<1>8. CASE job.option # "-u"
  BY <1>1, <1>3, <1>4, <1>5, <1>6, <1>8 DEF r
<1>9. CASE job.option = "-u" /\ ~r.ok /\ job.pc # "run"
  <2>1. job' = Exit(FALSE)
    BY <1>1, <1>9 DEF updateFirmware, r
  <2> QED BY <1>1, <1>3, <1>4, <1>6, <2>1 DEF r
<1>10. CASE job.option = "-u" /\ job.pc = "run"
  <2>1. job' = Exit(TRUE)
    BY <1>1, <1>10 DEF updateFirmware, r
  <2> QED BY <1>1, <1>3, <1>4, <1>6, <1>10, <2>1 DEF r
<1>11. CASE job.option = "-u" /\ r.ok /\ job.pc \in {"ask", "jump"}
  <2>1. job' = Goto("erase", 1) \/ job' = Goto("jump", 1)
    BY <1>1, <1>11 DEF updateFirmware, r
  <2> QED BY <1>1, <1>3, <1>4, <1>7, <1>11, <2>1 DEF r
<1>12. CASE job.option = "-u" /\ r.ok /\ job.pc = "erase"
  <2>1. job' = IF job.line < Len(EraseOrder) THEN Goto("erase", job.line + 1) ELSE Program(1)
    BY <1>1, <1>12 DEF updateFirmware, r
  <2>2. CASE job.line < Len(EraseOrder)
    <3>1. job' = Goto("erase", job.line + 1) /\ job.line + 1 \in Nat
      BY <1>5, <2>1, <2>2
    <3> QED BY <1>1, <1>3, <1>4, <1>7, <1>12, <2>2, <3>1 DEF r
  <2>3. CASE ~(job.line < Len(EraseOrder))
    <3>1. job' = Program(1) /\ job.line = Len(EraseOrder)
      BY <1>5, <1>12, <2>1, <2>3, OrderIsWhole
    <3>2. Program(1) \in Working /\ Program(1).option = job.option
      BY <1>3, <1>5, ProgramIs
    <3> QED BY <1>1, <1>3, <1>4, <1>12, <3>1, <3>2 DEF r
  <2> QED BY <2>2, <2>3
<1>13. CASE job.option = "-u" /\ r.ok /\ job.pc \in {"program", "second"}
  <2> DEFINE crossing == Page(Address(job.line)) # Page(Address(job.line) + file[job.line].length - 1)
  <2>1. job' = Programmed
    BY <1>1, <1>13 DEF updateFirmware, r
  <2>2. CASE job.pc = "program" /\ crossing
    <3>1. job' = Goto("second", job.line)
      BY <2>1, <2>2 DEF Programmed
    <3> QED BY <1>1, <1>3, <1>4, <1>5, <1>7, <1>13, <2>2, <3>1 DEF r
  <2>3. CASE ~(job.pc = "program" /\ crossing)
    <3>1. job' = Program(job.line + 1)
      BY <2>1, <2>3 DEF Programmed
    <3>2. job.line + 1 \in Nat /\ job.line + 1 >= 1
      BY <1>5
    <3>3. Program(job.line + 1) \in Working /\ Program(job.line + 1).option = job.option
      BY <1>3, <1>5, <3>2, ProgramIs
    <3> HIDE DEF crossing
    <3>4. job.pc = "program" => ~crossing
      BY <2>3
    <3>5. job.pc = "program" => Page(Address(job.line)) = Page(Address(job.line) + file[job.line].length - 1)
      BY <3>4 DEF crossing
    <3> QED BY <1>1, <1>3, <1>4, <1>13, <3>1, <3>3, <3>5 DEF r
  <2> QED BY <2>2, <2>3
<1> QED BY <1>5, <1>8, <1>9, <1>10, <1>11, <1>12, <1>13

(* Where the process gets to keeps its type.                               *)
LEMMA PlaceTyped ==
  ASSUME JobTyped, job' \in Working \cup Ended, job.pc # "none",
         UNCHANGED <<file, controller, flash, processes>>, fooled' \in {fooled, processes},
         job'.pc \in {"jump", "erase", "program", "second", "run"} => job'.option = "-u",
         job'.pc = "erase" => job'.line \in 1 .. Len(EraseOrder),
         job'.pc \in {"program", "second"} =>
           \E n \in DataRecords : n = job'.line /\ file[n].length > 0 /\ Flashable(Address(n))
  PROVE  JobTyped'
<1>1. /\ file \in Files /\ FlashTyped /\ controller \in {"app", "boot"} /\ fooled \in Nat
      /\ processes \in Nat /\ processes >= 1 /\ fooled <= processes
  BY DEF JobTyped
<1>2. DataRecords' = DataRecords /\ (\A i : Address(i)' = Address(i)) /\ FlashTyped'
  BY <1>1, FileStays, FlashStays
<1>3. (job.pc \in {"program", "second"} =>
         job.line \in DataRecords /\ file[job.line].length > 0 /\ Flashable(Address(job.line)))'
  <2> SUFFICES ASSUME job'.pc \in {"program", "second"}
               PROVE  (job.line \in DataRecords /\ file[job.line].length > 0 /\ Flashable(Address(job.line)))'
    OBVIOUS
  <2>1. PICK n \in DataRecords : n = job'.line /\ file[n].length > 0 /\ Flashable(Address(n))
    OBVIOUS
  <2>2. Address(n)' = Address(n)
    BY <1>2
  <2>3. (n \in DataRecords /\ file[n].length > 0 /\ Flashable(Address(n)))'
    BY <1>2, <2>1, <2>2 DEF Flashable
  <2> QED BY <2>1, <2>3
<1>4. fooled' \in Nat /\ processes' \in Nat /\ processes' >= 1 /\ fooled' <= processes'
  BY <1>1
<1>5. /\ job' \in Working \/ job' \in Ended
      /\ job' \in Working => job'.pc \in {"ask", "jump", "erase", "program", "second", "run"}
      /\ job' \in Ended => job'.pc = "exit"
  BY DEF Working, Ended
<1>6. file' \in Files /\ controller' \in {"app", "boot"}
  BY <1>1
<1>7. /\ job'.pc \notin {"none", "exit", "ask"} => job'.option = "-u"
      /\ job'.pc = "erase" => job'.line \in 1 .. Len(EraseOrder)
  BY <1>5
<1> QED BY <1>2, <1>3, <1>4, <1>5, <1>6, <1>7 DEF JobTyped, Working, Ended

(* Where the process goes on with the records from i on, the memory is     *)
(* ready.                                                                  *)
LEMMA ProgramReady ==
  ASSUME JobTyped, WellFormed, job \in Working, file' = file, flash' = flash,
         NEW i \in Nat, i >= 1, i <= Len(file) + 1, Holds(Sofar(i)), job' = Program(i)
  PROVE  Ready' /\ (Finished' => FlashIsImage)
<1>1. /\ file \in Files
      /\ \/ job'.pc = "run" /\ NextData(i) = 0
         \/ job'.pc = "program" /\ job'.line = NextData(i) /\ NextData(i) # 0
  BY ProgramIs DEF JobTyped
<1>2. CASE job'.pc = "run" /\ NextData(i) = 0
  <2>1. FlashIsImage
    BY <1>1, <1>2, GoesOn
  <2>2. FlashIsImage'
    BY <2>1, FlashStays
  <2> QED BY <1>2, <2>1, <2>2 DEF Ready
<1>3. CASE job'.pc = "program" /\ job'.line = NextData(i) /\ NextData(i) # 0
  <2>1. Holds(Sofar(NextData(i)))
    BY <1>1, <1>3, GoesOn
  <2>2. PICK n : n = NextData(i)
    OBVIOUS
  <2>3. Holds(Sofar(n))'
    BY <2>1, <2>2, FlashStays
  <2>4. job'.line = n
    BY <1>3, <2>2
  <2> QED BY <1>3, <2>3, <2>4 DEF Ready, Finished
<1> QED BY <1>1, <1>2, <1>3

(* The answer to an erase or a block, not taken for another, finds the     *)
(* memory as the command left it.                                          *)
LEMMA AnswerReached ==
  ASSUME JobTyped, Asking, Loading, WellFormed, ~Fooled, fooled # processes,
         job.pc \in {"erase", "program", "second"},
         request[Updater].pc = "answered", request[Updater].ok
  PROVE  inbox = <<>> /\ Reached
<1>1. request[Updater].cmd = Command /\ request[Updater].id = count
  BY DEF Asking
<1>2. Command.op \in {"ERASE_PAGE", "WRITE_DATA"}
  BY CommandIs
<1>3. request[Updater].from = count
  BY <1>1, <1>2 DEF Fooled
<1> QED BY <1>3 DEF Loading

LEMMA ContinueLoads ==
  ASSUME JobTyped, Asking, Loading, Typed, Continue, WellFormed, ~Fooled, fooled # processes
  PROVE  /\ Begun' => inbox = <<>> /\ Ready'
         /\ Finished' => FlashIsImage /\ \A i \in 1 .. Len(inbox) : Jump(inbox[i].cmd)
<1>1. /\ job \in Working /\ request[Updater].pc = "answered" /\ UNCHANGED <<inbox, file, flash>>
      /\ file \in Files
      /\ job.pc = "erase" => job.line \in 1 .. Len(EraseOrder)
      /\ job.pc \in {"program", "second"} => job.line \in DataRecords /\ file[job.line].length > 0
  BY ContinueMoves DEF JobTyped
<1>2. job.pc \in {"erase", "program", "second"} /\ request[Updater].ok => inbox = <<>> /\ Reached
  BY <1>1, AnswerReached
<1>3. \A i \in 1 .. Len(<<>>) : FALSE
  BY EmptyFacts
<1>4. CASE job' \in Ended /\ ((job'.option = "-u" /\ job'.ok) => job.pc = "run")
  <2>1. job'.pc = "exit"
    BY <1>4 DEF Ended
  <2>2. ~Begun' /\ (Finished' => Finished)
    BY <1>4, <2>1 DEF Begun, Finished
  <2> QED BY <2>2 DEF Loading
<1>5. CASE /\ job' \in Working /\ job.pc \in {"ask", "jump"}
           /\ job'.pc = "jump" \/ (job'.pc = "erase" /\ job'.line = 1)
  <2>1. ~Begun' /\ ~Finished'
    BY <1>5 DEF Begun, Finished
  <2> QED BY <2>1
<1>6. CASE /\ job.pc = "erase" /\ request[Updater].ok /\ job'.pc = "erase" /\ job'.line = job.line + 1
  <2>1. inbox = <<>> /\ ErasedTo(job.line)
    BY <1>2, <1>6 DEF Reached
  <2>2. PICK n : n = job.line
    OBVIOUS
  <2>3. ErasedTo(n)'
    BY <1>1, <2>1, <2>2, FlashStays
  <2>4. job'.line - 1 = n
    BY <1>1, <1>6, <2>2, OrderIsWhole
  <2> QED BY <1>6, <2>1, <2>3, <2>4 DEF Ready, Finished
<1>7. CASE job.pc = "erase" /\ request[Updater].ok /\ job.line = Len(EraseOrder) /\ job' = Program(1)
  <2>1. inbox = <<>> /\ Holds(Sofar(1))
    BY <1>1, <1>2, <1>7, HoldsNothing DEF Reached
  <2>2. 1 <= Len(file) + 1
    BY <1>1, RecordsAre
  <2> QED BY <1>1, <1>3, <1>7, <2>1, <2>2, ProgramReady
<1>8. CASE job.pc = "program" /\ request[Updater].ok /\ job'.pc = "second" /\ job'.line = job.line
  <2>1. inbox = <<>> /\ Holds(Half(job.line))
    BY <1>2, <1>8 DEF Reached
  <2>2. PICK n : n = job.line
    OBVIOUS
  <2>3. Holds(Half(n))'
    BY <1>1, <2>1, <2>2, FlashStays
  <2>4. job'.line = n
    BY <1>8, <2>2
  <2> QED BY <1>8, <2>1, <2>3, <2>4 DEF Ready, Finished
<1>9. CASE /\ job.pc \in {"program", "second"} /\ request[Updater].ok /\ job' = Program(job.line + 1)
           /\ job.pc = "program" =>
                Page(Address(job.line)) = Page(Address(job.line) + file[job.line].length - 1)
  <2>1. job.line \in DataRecords /\ file[job.line].length > 0 /\ job.line \in 1 .. Len(file)
    BY <1>1, <1>9, RecordCells
  <2>2. inbox = <<>> /\ Holds(Sofar(job.line + 1))
    BY <1>1, <1>2, <1>9, <2>1, HoldsHalf DEF Reached
  <2>3. Len(file) \in Nat
    BY <1>1, RecordsAre
  <2>4. job.line + 1 \in Nat /\ job.line + 1 >= 1 /\ job.line + 1 <= Len(file) + 1
    BY <2>1, <2>3
  <2> QED BY <1>1, <1>3, <1>9, <2>2, <2>4, ProgramReady
<1> QED BY <1>4, <1>5, <1>6, <1>7, <1>8, <1>9, ContinueMoves

LEMMA ContinueTyped ==
  ASSUME JobTyped, Asking, Typed, Continue
  PROVE  JobTyped'
<1>1. /\ job \in Working /\ UNCHANGED <<file, controller, flash, processes>> /\ file \in Files
      /\ fooled' \in {fooled, processes}
      /\ job.pc = "erase" => job.line \in 1 .. Len(EraseOrder)
      /\ job.pc \in {"program", "second"} =>
           job.line \in DataRecords /\ file[job.line].length > 0 /\ Flashable(Address(job.line))
  BY ContinueMoves DEF JobTyped
<1>2. job.pc # "none" /\ job.line \in Nat /\ Len(EraseOrder) \in Nat /\ Len(EraseOrder) >= 1
  BY <1>1, OrderIsWhole DEF Working
<1>3. CASE job' \in Ended
  <2>1. job'.pc = "exit"
    BY <1>3 DEF Ended
  <2> QED BY <1>1, <1>2, <1>3, <2>1, PlaceTyped
<1>4. CASE job' \in Working /\ job'.option = "-u" /\ (job'.pc = "jump" \/ (job'.pc = "erase" /\ job'.line = 1))
  BY <1>1, <1>2, <1>4, PlaceTyped
<1>5. CASE /\ job' \in Working /\ job'.option = "-u" /\ job.pc = "erase"
           /\ job.line < Len(EraseOrder) /\ job'.pc = "erase" /\ job'.line = job.line + 1
  <2>1. job'.line \in 1 .. Len(EraseOrder)
    BY <1>1, <1>2, <1>5
  <2> QED BY <1>1, <1>2, <1>5, <2>1, PlaceTyped
<1>6. CASE /\ job' \in Working /\ job'.option = "-u" /\ job.pc = "program"
           /\ job'.pc = "second" /\ job'.line = job.line
  BY <1>1, <1>2, <1>6, PlaceTyped
<1>7. ASSUME NEW i \in Nat, i >= 1, job' \in Working, job'.option = "-u", job' = Program(i)
      PROVE  JobTyped'
  <2>1. \/ job'.pc = "run"
        \/ /\ job'.pc = "program" /\ job'.line = NextData(i) /\ NextData(i) \in DataRecords
           /\ file[NextData(i)].length > 0 /\ Flashable(Address(NextData(i)))
    BY <1>1, <1>7, ProgramIs
  <2> QED BY <1>1, <1>2, <1>7, <2>1, PlaceTyped
<1>8. job.line + 1 \in Nat /\ job.line + 1 >= 1
  BY <1>2
<1> QED BY <1>3, <1>4, <1>5, <1>6, <1>7, <1>8, ContinueMoves

LEMMA ContinueInv ==
  ASSUME UpdateInv, Continue
  PROVE  UpdateInv'
<1>1. /\ LinkInv /\ JobTyped /\ Asking /\ Boot /\ Loading /\ Running /\ Typed
      /\ Updater \in Threads
  BY UpdateAssumption DEF UpdateInv, LinkInv
<1>2. /\ request[Updater].pc = "answered" /\ request'[Updater] = Idle
      /\ \A t \in Threads : t # Updater => request'[t] = Idle
      /\ UNCHANGED <<inbox, replies, unread, count, file, controller, flash, processes>>
      /\ fooled' = IF Fooled THEN processes ELSE fooled
      /\ job.pc # "none" /\ processes \in Nat /\ processes >= 1 /\ fooled \in Nat
  BY <1>1, ContinueMoves DEF Working, JobTyped
<1>3. LinkInv'
  BY <1>1, DoneInv DEF Continue
<1>4. JobTyped'
  BY <1>1, ContinueTyped
<1>5. Asking'
  BY <1>1, <1>2 DEF Asking, Idle
<1>6. Boot'
  BY <1>1, <1>2, FlashStays
<1>7. Loading'
  <2> SUFFICES ASSUME WellFormed', fooled' # processes'
               PROVE  Loading'
    BY DEF Loading
  <2>1. WellFormed /\ ~Fooled /\ fooled # processes
    BY <1>2, FileStays
  <2>2. /\ Begun' => inbox = <<>> /\ Ready'
        /\ Finished' => FlashIsImage /\ \A i \in 1 .. Len(inbox) : Jump(inbox[i].cmd)
    BY <1>1, <2>1, ContinueLoads
  <2>3. FlashIsImage' = FlashIsImage
    BY <1>2, FlashStays
  <2>4. request'[Updater].pc = "idle"
    BY <1>2 DEF Idle
  <2> QED BY <1>2, <2>2, <2>3, <2>4 DEF Loading
<1>8. Running'
  <2> SUFFICES ASSUME WellFormed', fooled' = 0
               PROVE  Running'
    BY DEF Running
  <2>1. WellFormed /\ fooled = 0
    <3>1. processes # 0
      BY <1>2
    <3>2. ~Fooled
      BY <1>2, <3>1
    <3> QED BY <1>2, <3>2, FileStays
  <2> QED BY <1>1, <1>2, <2>1, FlashStays DEF Running
<1> QED BY <1>3, <1>4, <1>5, <1>6, <1>7, <1>8 DEF UpdateInv

-----------------------------------------------------------------------------
(* A new process.                                                          *)

LEMMA UpdateLaunchInv ==
  ASSUME UpdateInv, NEW option \in Options, Launch(option)
  PROVE  UpdateInv'
<1>1. /\ LinkInv /\ JobTyped /\ Asking /\ Boot /\ Loading /\ Running /\ Typed
      /\ Updater \in Threads
  BY UpdateAssumption DEF UpdateInv, LinkInv
<1>2. /\ job.pc \in {"none", "exit"} /\ processes' = processes + 1
      /\ job' = [pc |-> "ask", option |-> option, line |-> 1, ok |-> FALSE]
      /\ UNCHANGED <<request, inbox, count, file, controller, flash, fooled>>
      /\ readIndex' = 0 /\ writeIndex' = 0 /\ ring' = [s \in Slot |-> NoReply] /\ unread' = <<>>
      /\ UNCHANGED <<overrun, quiet, last, losses>>
      /\ \E k \in 0 .. Len(replies) : replies' = SubSeq(replies, k + 1, Len(replies))
  BY DEF Launch
<1>3. \A t \in Threads : request[t] = Idle
  BY <1>1, <1>2 DEF Asking
<1>4. LinkInv'
  <2>1. PICK k \in 0 .. Len(replies) : replies' = SubSeq(replies, k + 1, Len(replies))
    BY <1>2
  <2> QED BY <1>1, <1>2, <1>3, <2>1, LaunchInv
<1>5. /\ file \in Files /\ FlashTyped /\ controller \in {"app", "boot"}
      /\ processes \in Nat /\ fooled \in Nat /\ fooled <= processes
  BY <1>1 DEF JobTyped
<1>6. /\ job' \in [pc : {"ask", "jump", "erase", "program", "second", "run"}, option : Options,
                   line : Nat, ok : BOOLEAN]
      /\ job'.pc = "ask"
  BY <1>2
<1>7. JobTyped'
  <2>1. FlashTyped' /\ processes' \in Nat /\ processes' >= 1 /\ fooled' <= processes'
    BY <1>2, <1>5, FlashStays
  <2> QED BY <1>2, <1>5, <1>6, <2>1 DEF JobTyped
<1>8. Asking'
  BY <1>1, <1>2, <1>3, <1>6 DEF Asking, Idle
<1>9. Boot'
  BY <1>1, <1>2, FlashStays
<1>10. Loading'
  <2>1. ~Begun' /\ ~Finished'
    BY <1>6 DEF Begun, Finished
  <2>2. request'[Updater].pc = "idle"
    BY <1>1, <1>2, <1>3 DEF Idle
  <2> QED BY <2>1, <2>2 DEF Loading
<1>11. Running'
  BY <1>1, <1>2, FlashStays DEF Running
<1> QED BY <1>4, <1>7, <1>8, <1>9, <1>10, <1>11 DEF UpdateInv

LEMMA UpdateStays ==
  ASSUME UpdateInv, UNCHANGED <<linkVars, file, job, controller, flash, processes, fooled>>
  PROVE  UpdateInv'
<1>1. /\ LinkInv /\ JobTyped /\ Asking /\ Boot /\ Loading /\ Running
      /\ UNCHANGED linkVars /\ UNCHANGED <<file, job, controller, flash, processes, fooled>>
      /\ UNCHANGED <<request, inbox, replies, unread, count>>
  BY DEF UpdateInv, linkVars
<1>2. LinkInv'
  BY <1>1, LinkSameInv
<1>3. Asking'
  BY <1>1, PlaceStays DEF Asking
<1>4. OwnAnswer' = OwnAnswer
  BY <1>1 DEF OwnAnswer
<1>5. Loading'
  BY <1>1, <1>4, PlaceStays DEF Loading
<1>6. Running'
  BY <1>1, PlaceStays DEF Running
<1>7. JobTyped' /\ Boot'
  BY <1>1, PlaceStays
<1> QED BY <1>2, <1>3, <1>5, <1>6, <1>7 DEF UpdateInv

LEMMA UpdateInitInv == LinkInit /\ UpdateInit => UpdateInv
<1> SUFFICES ASSUME LinkInit, UpdateInit
             PROVE  UpdateInv
  OBVIOUS
<1>1. LinkInv
  BY LinkInitInv
<1>2. /\ file \in Files /\ job = NoJob /\ controller \in {"app", "boot"}
      /\ flash = [a \in Cells(Pages) |-> -1] /\ processes = 0 /\ fooled = 0
      /\ request = [t \in Threads |-> Idle] /\ inbox = <<>> /\ Updater \in Threads
  BY UpdateAssumption DEF LinkInit, UpdateInit
<1>3. JobTyped
  BY <1>2 DEF JobTyped, FlashTyped, NoJob
<1>4. \A i \in 1 .. Len(inbox) : FALSE
  BY <1>2, EmptyFacts
<1>5. Asking
  BY <1>2, <1>4 DEF Asking, Idle
<1>6. Boot
  BY <1>2, RegionCells DEF Boot
<1>7. Loading
  BY <1>2, <1>4 DEF Loading, Begun, Finished, NoJob, Idle
<1>8. Running
  BY <1>2, <1>4 DEF Running, FlashIsOld
<1> QED BY <1>1, <1>3, <1>5, <1>6, <1>7, <1>8 DEF UpdateInv

LEMMA UpdateStep == UpdateInv /\ [UpdateNext]_<<linkVars, updateVars>> => UpdateInv'
<1> SUFFICES ASSUME UpdateInv, [UpdateNext]_<<linkVars, updateVars>>
             PROVE  UpdateInv'
  OBVIOUS
<1>1. "-u" \in Options /\ "-i" \in Options /\ "-v" \in Options
  BY DEF Options
<1>2. CASE UpdateByHand \/ ScriptUpdate
  BY <1>1, <1>2, UpdateLaunchInv DEF UpdateByHand, ScriptUpdate
<1>3. CASE ScriptMode
  BY <1>1, <1>3, UpdateLaunchInv DEF ScriptMode
<1>4. CASE ScriptVersion
  <2>1. Launch("-v") \/ UNCHANGED <<linkVars, file, job, controller, flash, processes, fooled>>
    BY <1>4 DEF ScriptVersion
  <2> QED BY <1>1, <2>1, UpdateLaunchInv, UpdateStays
<1>5. CASE ScriptUpToDate
  BY <1>5, UpdateStays DEF ScriptUpToDate
<1>6. CASE Ask
  BY <1>6, AskInv
<1>7. CASE Continue
  BY <1>7, ContinueInv
<1>8. CASE Execute
  BY <1>8, ExecuteInv
<1>9. CASE AcceptPacket /\ UNCHANGED updateVars
  BY <1>9, UpdateAcceptInv
<1>10. CASE Thread(Updater) /\ UNCHANGED updateVars
  <2>1. Sent(Updater) \/ Wait(Updater) \/ TimeOut(Updater) \/ Take(Updater)
    BY <1>10 DEF Thread
  <2> QED BY <1>10, <2>1, UpdateSentInv, UpdateWaitInv, UpdateTimeOutInv, UpdateTakeInv
<1>11. CASE UNCHANGED <<linkVars, updateVars>>
  BY <1>11, UpdateStays DEF updateVars
<1> QED BY <1>2, <1>3, <1>4, <1>5, <1>6, <1>7, <1>8, <1>9, <1>10, <1>11 DEF UpdateNext

(* An update that reports success has put the whole file into the flash    *)
(* memory (updateFirmware, comms.c:264-373), whatever answers are lost and *)
(* whatever earlier attempts left behind, unless it took a late answer to  *)
(* one of these for its own.                                               *)
THEOREM SuccessIsLoaded ==
  (LinkInit /\ UpdateInit) /\ [][UpdateNext]_<<linkVars, updateVars>> => []SuccessMeansLoaded
<1>1. UpdateInv => SuccessMeansLoaded
  BY DEF UpdateInv, Loading, Finished, SuccessMeansLoaded
<1> QED BY <1>1, UpdateInitInv, UpdateStep, PTL

(* The bootloader is never overwritten, and the controller never runs a    *)
(* program of which only a part is loaded (comms.c:276-371), unless the    *)
(* answer to an earlier attempt stood in for one that was lost.            *)
THEOREM NoPartRuns ==
  (LinkInit /\ UpdateInit) /\ [][UpdateNext]_<<linkVars, updateVars>> => []NeverRunsAPart
<1>1. UpdateInv => NeverRunsAPart
  BY DEF UpdateInv, Running, Boot, NeverRunsAPart
<1> QED BY <1>1, UpdateInitInv, UpdateStep, PTL

-----------------------------------------------------------------------------
(* The bytes of the line. *)

LEMMA WordIs == /\ \A n : n \in Word <=> n \in Nat /\ n <= 65535
                /\ \A n : n \in Byte <=> n \in Nat /\ n <= 255
BY DEF Word, Byte

(* A bit of a word is a bit of the result.                                 *)
LEMMA XorBit ==
  ASSUME NEW a \in Nat, NEW b \in Nat, NEW d \in Nat, d > 0
  PROVE  /\ (((a \div d) + (b \div d)) % 2) * d \in Nat
         /\ (((a \div d) + (b \div d)) % 2) * d <= d
         /\ a < d /\ b < d => (((a \div d) + (b \div d)) % 2) * d = 0
<1>1. a \div d \in Nat /\ b \div d \in Nat
  OBVIOUS
<1> DEFINE x == ((a \div d) + (b \div d)) % 2
<1>2. x \in {0, 1}
  <2>1. ASSUME NEW y \in Nat PROVE y % 2 \in {0, 1}
    BY <2>1
  <2>2. (a \div d) + (b \div d) \in Nat
    BY <1>1
  <2> QED BY <2>1, <2>2
<1>3. x * d \in Nat /\ x * d <= d
  <2> HIDE DEF x
  <2> QED BY <1>2
<1>4. ASSUME a < d, b < d PROVE x * d = 0
  <2>1. a \div d = 0 /\ b \div d = 0
    BY <1>4
  <2>2. x = 0
    BY <2>1
  <2> QED BY <2>2
<1> QED BY <1>3, <1>4

LEMMA XorWord ==
  ASSUME NEW a \in Nat, NEW b \in Nat
  PROVE  Xor(a, b) \in Word /\ (a \in Byte /\ b \in Byte => Xor(a, b) \in Byte)
<1> DEFINE bit(d) == (((a \div d) + (b \div d)) % 2) * d
<1>1. Xor(a, b) = bit(1) + bit(2) + bit(4) + bit(8) + bit(16) + bit(32) + bit(64) + bit(128)
                  + bit(256) + bit(512) + bit(1024) + bit(2048) + bit(4096) + bit(8192)
                  + bit(16384) + bit(32768)
  BY DEF Xor
<1>2. \A d \in Nat : d > 0 => bit(d) \in Nat /\ bit(d) <= d
  BY XorBit
<1>3. \A d \in Nat : d > 0 => (a < d /\ b < d => bit(d) = 0)
  BY XorBit
<1> HIDE DEF bit
<1>4. /\ bit(1) \in Nat /\ bit(2) \in Nat /\ bit(4) \in Nat /\ bit(8) \in Nat
      /\ bit(1) <= 1 /\ bit(2) <= 2 /\ bit(4) <= 4 /\ bit(8) <= 8
  BY <1>2
<1>5. /\ bit(16) \in Nat /\ bit(32) \in Nat /\ bit(64) \in Nat /\ bit(128) \in Nat
      /\ bit(16) <= 16 /\ bit(32) <= 32 /\ bit(64) <= 64 /\ bit(128) <= 128
  BY <1>2
<1>6. /\ bit(256) \in Nat /\ bit(512) \in Nat /\ bit(1024) \in Nat /\ bit(2048) \in Nat
      /\ bit(256) <= 256 /\ bit(512) <= 512 /\ bit(1024) <= 1024 /\ bit(2048) <= 2048
  BY <1>2
<1>7. /\ bit(4096) \in Nat /\ bit(8192) \in Nat /\ bit(16384) \in Nat /\ bit(32768) \in Nat
      /\ bit(4096) <= 4096 /\ bit(8192) <= 8192 /\ bit(16384) <= 16384 /\ bit(32768) <= 32768
  BY <1>2
<1>8. Xor(a, b) \in Word
  <2> DEFINE low == bit(1) + bit(2) + bit(4) + bit(8) + bit(16) + bit(32) + bit(64) + bit(128)
  <2>1. low \in Nat /\ low <= 255
    BY <1>4, <1>5
  <2> DEFINE middle == low + bit(256) + bit(512) + bit(1024) + bit(2048)
  <2>2. middle \in Nat /\ middle <= 4095
    <3> HIDE DEF low
    <3> QED BY <1>6, <2>1
  <2>3. Xor(a, b) = middle + bit(4096) + bit(8192) + bit(16384) + bit(32768)
    BY <1>1
  <2> HIDE DEF middle
  <2> QED BY <1>7, <2>2, <2>3, WordIs
<1>9. ASSUME a \in Byte, b \in Byte PROVE Xor(a, b) \in Byte
  <2>1. a < 256 /\ b < 256
    BY <1>9, WordIs
  <2>2. bit(256) = 0 /\ bit(512) = 0 /\ bit(1024) = 0 /\ bit(2048) = 0
    BY <1>3, <2>1
  <2>3. bit(4096) = 0 /\ bit(8192) = 0 /\ bit(16384) = 0 /\ bit(32768) = 0
    BY <1>3, <2>1
  <2> QED BY <1>1, <1>4, <1>5, <2>2, <2>3, WordIs
<1> QED BY <1>8, <1>9

LEMMA TableWord == \A n : n \in Byte => wCRCTable[n] \in Word
<1>1. ASSUME NEW c, c \in Word PROVE Divided(c) \in Word
  <2>1. c \div 2 \in Word /\ c \div 2 \in Nat
    BY <1>1, WordIs
  <2>2. Xor(c \div 2, 40961) \in Word
    BY <2>1, XorWord
  <2> QED BY <2>1, <2>2 DEF Divided
<1> SUFFICES ASSUME NEW n, n \in Byte PROVE wCRCTable[n] \in Word
  OBVIOUS
<1>2. wCRCTable[n] = Divided(Divided(Divided(Divided(Divided(Divided(Divided(Divided(n))))))))
  BY DEF wCRCTable, Byte
<1>3. n \in Word
  BY WordIs
<1>4. Divided(Divided(Divided(Divided(n)))) \in Word
  BY <1>1, <1>3
<1> QED BY <1>1, <1>2, <1>4

LEMMA IterationWord ==
  ASSUME NEW crc \in Word, NEW byte \in Byte
  PROVE  CRC16Iteration(crc, byte) \in Word
<1>1. crc \div 256 \in Nat /\ crc % 256 \in Byte /\ crc % 256 \in Nat /\ byte \in Nat
  BY WordIs
<1>2. Xor(crc % 256, byte) \in Byte
  BY <1>1, XorWord
<1>3. wCRCTable[Xor(crc % 256, byte)] \in Word
  BY <1>2, TableWord
<1>4. wCRCTable[Xor(crc % 256, byte)] \in Nat
  BY <1>3, WordIs
<1> QED BY <1>1, <1>4, XorWord DEF CRC16Iteration

(* Natural numbers that belong to a set by induction: the least that does  *)
(* not would be 0 or follow one that does.                                 *)
LEMMA UpFrom ==
  ASSUME NEW S, 0 \in S, \A n \in Nat : n \in S => n + 1 \in S
  PROVE  \A n \in Nat : n \in S
<1> DEFINE T == {n \in Nat : n \notin S}
<1> SUFFICES ASSUME T # {} PROVE FALSE
  OBVIOUS
<1>1. PICK m \in T : \A n \in T : m <= n
  BY LeastNumber
<1>2. m - 1 \in Nat /\ m - 1 \notin T /\ m - 1 + 1 = m
  BY <1>1
<1> QED BY <1>1, <1>2

Checks(f, bytes, n) ==
  /\ f \in [0 .. n -> Word]
  /\ f[0] = CRC16Init
  /\ \A i \in 1 .. n : f[i] = CRC16Iteration(f[i - 1], bytes[i])

LEMMA ChecksumsExist ==
  ASSUME NEW bytes \in Seq(Byte)
  PROVE  \E f : Checks(f, bytes, Len(bytes))
<1> DEFINE S == {n \in Nat : n <= Len(bytes) => \E f : Checks(f, bytes, n)}
<1>0. CRC16Init \in Word
  BY WordIs DEF CRC16Init
<1>1. 0 \in S
  <2>1. Checks([i \in 0 .. 0 |-> CRC16Init], bytes, 0)
    BY <1>0 DEF Checks
  <2> QED BY <2>1
<1>2. ASSUME NEW n \in Nat, n \in S
      PROVE  n + 1 \in S
  <2> SUFFICES ASSUME n + 1 <= Len(bytes)
               PROVE  \E g : Checks(g, bytes, n + 1)
    OBVIOUS
  <2>1. n + 1 \in 1 .. Len(bytes) /\ n <= Len(bytes)
    OBVIOUS
  <2>2. PICK f : Checks(f, bytes, n)
    BY <2>1, <1>2
  <2> DEFINE x == CRC16Iteration(f[n], bytes[n + 1])
  <2>3. x \in Word
    <3>1. bytes[n + 1] \in Byte
      BY <2>1
    <3>2. f[n] \in Word
      BY <2>2 DEF Checks
    <3> QED BY <3>1, <3>2, IterationWord
  <2> HIDE DEF x
  <2> DEFINE g == [i \in 0 .. n + 1 |-> IF i = n + 1 THEN x ELSE f[i]]
  <2>4. g \in [0 .. n + 1 -> Word] /\ g[0] = CRC16Init
    BY <2>2, <2>3 DEF Checks
  <2>5. ASSUME NEW i \in 1 .. n + 1
        PROVE  g[i] = CRC16Iteration(g[i - 1], bytes[i])
    <3>1. i - 1 \in 0 .. n + 1 /\ i - 1 # n + 1 /\ g[i - 1] = f[i - 1]
      OBVIOUS
    <3>2. CASE i = n + 1
      <4>1. g[i] = x /\ i - 1 = n
        BY <3>2
      <4> QED BY <3>1, <3>2, <4>1 DEF x
    <3>3. CASE i # n + 1
      <4>1. i \in 1 .. n /\ g[i] = f[i]
        BY <3>3
      <4> QED BY <3>1, <4>1, <2>2 DEF Checks
    <3> QED BY <3>2, <3>3
  <2> HIDE DEF g
  <2>6. Checks(g, bytes, n + 1)
    BY <2>4, <2>5 DEF Checks
  <2> QED BY <2>6
<1> HIDE DEF S
<1>3. Len(bytes) \in Nat /\ \A n \in Nat : n \in S
  BY <1>1, <1>2, UpFrom
<1> QED BY <1>3 DEF S

(* Entry i of Checksums is the checksum of the first i bytes.              *)
LEMMA ChecksumsAre ==
  ASSUME NEW bytes \in Seq(Byte)
  PROVE  Checks(Checksums(bytes), bytes, Len(bytes))
<1> DEFINE n == Len(bytes)
           Body(f) == [i \in 0 .. n |->
                         IF i = 0 THEN CRC16Init ELSE CRC16Iteration(f[i - 1], bytes[i])]
<1>1. PICK f : Checks(f, bytes, n)
  BY ChecksumsExist
<1>2. f = Body(f)
  <2>1. f = [i \in 0 .. n |-> f[i]]
    BY <1>1 DEF Checks
  <2>2. \A i \in 0 .. n : f[i] = IF i = 0 THEN CRC16Init ELSE CRC16Iteration(f[i - 1], bytes[i])
    BY <1>1 DEF Checks
  <2> QED BY <2>1, <2>2
<1>3. Checksums(bytes) = CHOOSE g : g = Body(g)
  BY DEF Checksums
<1>4. Checksums(bytes) = Body(Checksums(bytes))
  BY <1>2, <1>3
<1> DEFINE b == Checksums(bytes)
<1>5. /\ b = [i \in 0 .. n |-> b[i]]
      /\ b[0] = CRC16Init
      /\ \A i \in 1 .. n : b[i] = CRC16Iteration(b[i - 1], bytes[i])
  <2> HIDE DEF b
  <2>1. b = Body(b)
    BY <1>4 DEF b
  <2> QED BY <2>1
<1> HIDE DEF b
<1> DEFINE S == {k \in Nat : k <= n => b[k] \in Word}
<1>6. 0 \in S
  BY <1>5, WordIs DEF CRC16Init
<1>7. ASSUME NEW k \in Nat, k \in S
      PROVE  k + 1 \in S
  <2> SUFFICES ASSUME k + 1 <= n PROVE b[k + 1] \in Word
    OBVIOUS
  <2> DEFINE j == k + 1
  <2>1. j \in 1 .. n /\ j - 1 = k /\ b[k] \in Word
    BY <1>7
  <2> HIDE DEF j
  <2>2. b[j] = CRC16Iteration(b[j - 1], bytes[j])
    BY <2>1, <1>5
  <2>3. bytes[j] \in Byte
    BY <2>1
  <2>4. b[j] \in Word
    BY <2>1, <2>2, <2>3, IterationWord
  <2> QED BY <2>4 DEF j
<1>8. \A k \in Nat : k \in S
  <2> HIDE DEF S
  <2> QED BY <1>6, <1>7, UpFrom
<1>9. b \in [0 .. n -> Word]
  BY <1>5, <1>8
<1> QED BY <1>5, <1>9 DEF Checks, b

-----------------------------------------------------------------------------
(* The bytes of a frame. *)

Joined(s, q, r) ==
  /\ s \in Seq(Byte)
  /\ Len(s) = Len(q) + Len(r)
  /\ \A k \in 1 .. Len(q) : s[k] = q[k]
  /\ \A k \in 1 .. Len(r) : s[Len(q) + k] = r[k]

LEMMA BytesJoined == \A q, r \in Seq(Byte) : Joined(q \o r, q, r)
BY DEF Joined

Body(packet) == <<Len(packet) \div 256, Len(packet) % 256>> \o packet

Sendable == {packet \in Seq(Byte) : 1 <= Len(packet) /\ Len(packet) <= BufferSize}

LEMMA PacketsSendable == Packets \subseteq Sendable
<1>1. ASSUME NEW packet \in Packets PROVE packet \in Sendable
  <2>1. packet \in Seq(Byte) /\ Len(packet) \in 1 .. BufferSize
    BY FrameAssumption
  <2> QED BY <2>1 DEF Sendable
<1> QED BY <1>1

LEMMA BodyIs ==
  ASSUME NEW packet \in Sendable
  PROVE  /\ Body(packet) \in Seq(Byte)
         /\ Len(Body(packet)) = Len(packet) + 2
         /\ Body(packet)[1] = Len(packet) \div 256
         /\ Body(packet)[2] = Len(packet) % 256
         /\ \A i \in 1 .. Len(packet) : Body(packet)[i + 2] = packet[i]
<1> DEFINE n == Len(packet)
<1>1. packet \in Seq(Byte) /\ n \in Nat /\ n <= 65535
  <2>1. packet \in Seq(Byte) /\ n \in Nat /\ n <= BufferSize
    BY DEF Sendable
  <2>2. BufferSize \in Nat /\ BufferSize <= 65535
    BY FrameAssumption, WordIs
  <2> QED BY <2>1, <2>2
<1>2. n \div 256 \in Byte /\ n % 256 \in Byte
  <2> HIDE DEF n
  <2>1. n \div 256 \in Nat /\ n \div 256 <= 255 /\ n % 256 \in Nat /\ n % 256 <= 255
    BY <1>1
  <2> QED BY <2>1, WordIs
<1> DEFINE head == <<n \div 256, n % 256>>
<1>3. head \in Seq(Byte) /\ Len(head) = 2 /\ head[1] = n \div 256 /\ head[2] = n % 256
  BY <1>2
<1> HIDE DEF head
<1>4. Body(packet) = head \o packet
  BY DEF Body, head
<1>5. /\ Body(packet) \in Seq(Byte)
      /\ Len(Body(packet)) = 2 + n
      /\ \A i \in 1 .. 2 : Body(packet)[i] = head[i]
      /\ \A i \in 1 .. n : Body(packet)[2 + i] = packet[i]
  <2>1. Joined(Body(packet), head, packet)
    BY <1>1, <1>3, <1>4, BytesJoined
  <2> QED BY <1>3, <2>1 DEF Joined
<1>6. \A i \in 1 .. n : Body(packet)[i + 2] = packet[i]
  <2>1. \A i \in 1 .. n : i + 2 = 2 + i
    OBVIOUS
  <2> QED BY <1>5, <2>1
<1>7. Len(Body(packet)) = n + 2
  BY <1>1, <1>5
<1> QED BY <1>3, <1>5, <1>6, <1>7

(* A byte of a frame. *)
FrameByte(packet, k) ==
  IF k = 1 THEN SOF
  ELSE IF k <= Len(packet) + 3 THEN Body(packet)[k - 1]
  ELSE IF k = Len(packet) + 4 THEN CRC16(Body(packet)) \div 256
  ELSE CRC16(Body(packet)) % 256

LEMMA FrameIs ==
  ASSUME NEW packet \in Sendable
  PROVE  /\ Frame(packet) \in Seq(Byte)
         /\ Len(Frame(packet)) = Len(packet) + 5
         /\ \A k \in 1 .. Len(packet) + 5 : Frame(packet)[k] = FrameByte(packet, k)
         /\ CRC16(Body(packet)) \in Word
<1> DEFINE n == Len(packet)
           body == Body(packet)
           crc == CRC16(body)
<1>0. n \in Nat
  BY DEF Sendable
<1>1. crc \in Word
  <2>1. body \in Seq(Byte) /\ Len(body) \in Nat
    BY BodyIs
  <2>2. Checks(Checksums(body), body, Len(body))
    BY <2>1, ChecksumsAre
  <2> QED BY <2>1, <2>2 DEF Checks, CRC16
<1>2. crc \div 256 \in Byte /\ crc % 256 \in Byte
  <2> HIDE DEF crc
  <2>1. crc \in Nat /\ crc <= 65535
    BY <1>1, WordIs
  <2>2. crc \div 256 \in Nat /\ crc \div 256 <= 255 /\ crc % 256 \in Nat /\ crc % 256 <= 255
    BY <2>1
  <2> QED BY <2>2, WordIs
<1> DEFINE tail == <<crc \div 256, crc % 256>>
<1>3. tail \in Seq(Byte) /\ Len(tail) = 2 /\ tail[1] = crc \div 256 /\ tail[2] = crc % 256
  BY <1>2
<1>4. <<SOF>> \in Seq(Byte) /\ Len(<<SOF>>) = 1 /\ <<SOF>>[1] = SOF
  BY WordIs DEF SOF
<1>5. Frame(packet) = <<SOF>> \o body \o tail
  BY DEF Frame, Body
<1>6. body \in Seq(Byte) /\ Len(body) = n + 2
  BY BodyIs
<1> DEFINE first == <<SOF>> \o body
<1>7. /\ first \in Seq(Byte)
      /\ Len(first) = n + 3
      /\ first[1] = SOF
      /\ \A k \in 2 .. n + 3 : first[k] = body[k - 1]
  <2> HIDE DEF body, n
  <2> QED BY <1>0, <1>4, <1>6
<1>8. /\ Frame(packet) \in Seq(Byte)
      /\ Len(Frame(packet)) = n + 5
      /\ \A k \in 1 .. n + 3 : Frame(packet)[k] = first[k]
      /\ Frame(packet)[n + 4] = tail[1]
      /\ Frame(packet)[n + 5] = tail[2]
  <2> HIDE DEF tail, n
  <2>1. Frame(packet) = first \o tail
    BY <1>5
  <2> HIDE DEF first
  <2>2. /\ Frame(packet) \in Seq(Byte)
        /\ Len(Frame(packet)) = n + 3 + 2
        /\ \A k \in 1 .. n + 3 : Frame(packet)[k] = first[k]
        /\ \A k \in 1 .. 2 : Frame(packet)[n + 3 + k] = tail[k]
    <3>1. Joined(Frame(packet), first, tail)
      BY <1>3, <1>7, <2>1, BytesJoined
    <3> QED BY <1>3, <1>7, <3>1 DEF Joined
  <2>3. n + 3 + 1 = n + 4 /\ n + 3 + 2 = n + 5
    BY <1>0
  <2> QED BY <2>2, <2>3
<1>9. ASSUME NEW k \in 1 .. n + 5
      PROVE  Frame(packet)[k] = FrameByte(packet, k)
  <2> HIDE DEF n, first, tail, crc
  <2>1. CASE k = 1
    BY <1>0, <1>7, <1>8, <2>1 DEF FrameByte
  <2>2. CASE k # 1 /\ k <= n + 3
    BY <1>0, <1>7, <1>8, <2>2 DEF FrameByte, n
  <2>3. CASE k = n + 4
    <3>1. Frame(packet)[k] = crc \div 256
      BY <1>3, <1>8, <2>3
    <3>2. k # 1 /\ ~(k <= n + 3)
      BY <1>0, <2>3
    <3> QED BY <2>3, <3>1, <3>2 DEF FrameByte, n, crc
  <2>4. CASE k = n + 5
    <3>1. Frame(packet)[k] = crc % 256
      BY <1>3, <1>8, <2>4
    <3>2. k # 1 /\ ~(k <= n + 3) /\ k # n + 4
      BY <1>0, <2>4
    <3> QED BY <3>1, <3>2 DEF FrameByte, n, crc
  <2>5. k = 1 \/ (k # 1 /\ k <= n + 3) \/ k = n + 4 \/ k = n + 5
    BY <1>0
  <2> QED BY <2>1, <2>2, <2>3, <2>4, <2>5
<1> QED BY <1>1, <1>8, <1>9

RxRecord == [state : {"WAIT_SOF", "DL_H", "DL_L", "DATA", "CRC_H", "CRC_L"}, crc : Word,
             length : Word, data : Seq(Byte)]

(* The high byte of a length leaves room for the low one; a byte of data   *)
(* is missing, or the length is zero.                                      *)
RxOK ==
  /\ rx \in RxRecord
  /\ rx.state = "DL_L" => rx.length <= 65280
  /\ Len(rx.data) <= BufferSize
  /\ rx.state = "DATA" => rx.length <= BufferSize /\ (rx.data = <<>> \/ Len(rx.data) < rx.length)

LineOK ==
  /\ unsent \in [Writers -> Seq(Byte)]
  /\ sent \in Seq(Packets)
  /\ heard \in Seq(Seq(Byte))

(* The first k bytes of the frame of a packet have been received.          *)
Received(packet, k) ==
  LET n == Len(packet)
      crcs == Checksums(Body(packet))
  IN  /\ k = 0 => rx.state = "WAIT_SOF"
      /\ k = 1 => rx.state = "DL_H" /\ rx.crc = crcs[0]
      /\ k = 2 => rx.state = "DL_L" /\ rx.crc = crcs[1] /\ rx.length = 256 * (n \div 256)
      /\ 3 <= k /\ k <= n + 2 =>
           /\ rx.state = "DATA" /\ rx.crc = crcs[k - 1] /\ rx.length = n
           /\ rx.data = SubSeq(packet, 1, k - 3)
      /\ k = n + 3 => rx.state = "CRC_H" /\ rx.crc = crcs[n + 2] /\ rx.data = packet
      /\ k = n + 4 => rx.state = "CRC_L" /\ rx.crc = crcs[n + 2] /\ rx.data = packet

Silent(w) == \A v \in Writers \ {w} : unsent[v] = <<>>

(* The line is at rest, or carries the rest of one frame.                  *)
AtRest ==
  /\ \A w \in Writers : unsent[w] = <<>>
  /\ rx.state = "WAIT_SOF"
  /\ heard = sent

Carrying(w, packet, k) ==
  /\ Silent(w)
  /\ unsent[w] = SubSeq(Frame(packet), k + 1, Len(packet) + 5)
  /\ sent = Append(heard, packet)
  /\ Received(packet, k)

Alone ==
  clean => AtRest \/ \E w \in Writers, packet \in Packets :
                       \E k \in 0 .. Len(packet) + 4 : Carrying(w, packet, k)

FrameInv == RxOK /\ LineOK /\ clean \in BOOLEAN /\ Alone

LEMMA FrameInitInv == FrameInit => FrameInv
<1> SUFFICES ASSUME FrameInit PROVE FrameInv
  OBVIOUS
<1>1. /\ unsent = [w \in Writers |-> <<>>]
      /\ rx = [state |-> "WAIT_SOF", crc |-> 0, length |-> 0, data |-> <<>>]
      /\ sent = <<>> /\ heard = <<>> /\ clean = TRUE
  BY DEF FrameInit
<1>2. RxOK
  <2>1. 0 \in Word /\ BufferSize \in Nat
    BY FrameAssumption, WordIs
  <2> QED BY <1>1, <2>1 DEF RxOK, RxRecord
<1>3. LineOK
  BY <1>1 DEF LineOK
<1>4. AtRest
  BY <1>1 DEF AtRest
<1> QED BY <1>1, <1>2, <1>3, <1>4 DEF FrameInv, Alone

(* What the machine may hold.                                              *)
States == {"WAIT_SOF", "DL_H", "DL_L", "DATA", "CRC_H", "CRC_L"}

RxIs(state, crc, length, data) ==
  /\ state \in States /\ crc \in Word /\ length \in Word /\ data \in Seq(Byte)
  /\ state = "DL_L" => length <= 65280
  /\ Len(data) <= BufferSize
  /\ state = "DATA" => length <= BufferSize /\ (data = <<>> \/ Len(data) < length)

LEMMA RxAre ==
  ASSUME RxOK
  PROVE  /\ rx = [state |-> rx.state, crc |-> rx.crc, length |-> rx.length, data |-> rx.data]
         /\ RxIs(rx.state, rx.crc, rx.length, rx.data)
BY DEF RxOK, RxRecord, RxIs, States

LEMMA RxNext ==
  ASSUME NEW state, NEW crc, NEW length, NEW data, RxIs(state, crc, length, data),
         rx' = [state |-> state, crc |-> crc, length |-> length, data |-> data]
  PROVE  RxOK'
<1>1. rx'.state = state /\ rx'.length = length /\ rx'.data = data
  OBVIOUS
<1>2. rx' \in RxRecord
  BY DEF RxIs, RxRecord, States
<1> QED BY <1>1, <1>2 DEF RxOK, RxIs

(* What the machine holds after one more byte, whatever the byte.          *)
LEMMA ReceiveOK ==
  ASSUME RxOK, heard \in Seq(Seq(Byte)), NEW byte \in Byte, Receive(byte)
  PROVE  RxOK' /\ heard' \in Seq(Seq(Byte))
<1> DEFINE state == rx.state
           crc == rx.crc
           length == rx.length
           data == rx.data
           next == CRC16Iteration(crc, byte)
<1>1. /\ byte \in Nat /\ byte <= 255
      /\ BufferSize \in Nat /\ BufferSize >= 1 /\ BufferSize <= 65535
  BY FrameAssumption, WordIs
<1>2. /\ rx = [state |-> state, crc |-> crc, length |-> length, data |-> data]
      /\ RxIs(state, crc, length, data)
  BY RxAre
<1>3. /\ state \in States /\ crc \in Word /\ length \in Word /\ data \in Seq(Byte)
      /\ length \in Nat /\ Len(data) \in Nat /\ Len(data) <= BufferSize
      /\ next \in Word
  <2>1. /\ state \in States /\ crc \in Word /\ length \in Word /\ data \in Seq(Byte)
        /\ Len(data) <= BufferSize
    BY <1>2 DEF RxIs
  <2> HIDE DEF state, crc, length, data
  <2> QED BY <2>1, IterationWord, WordIs
<1>4. heard' = heard \/ heard' = Append(heard, rx.data)
  BY DEF Receive, ReceiveChecksum
<1>5. heard' \in Seq(Seq(Byte))
  <2> DEFINE T == Seq(Byte)
  <2>1. heard \in Seq(T) /\ rx.data \in T
    BY <1>3
  <2> HIDE DEF T, state, crc, length, data, next
  <2>2. heard' \in Seq(T)
    BY <1>4, <2>1
  <2> QED BY <2>2 DEF T
<1>6. CASE state = "WAIT_SOF"
  <2>1. ReceiveStart(byte)
    BY <1>6 DEF Receive, ReceiveChecksum
  <2>2. rx' = rx \/ rx' = [state |-> "DL_H", crc |-> CRC16Init, length |-> length, data |-> data]
    BY <1>2, <2>1 DEF ReceiveStart
  <2>3. CRC16Init \in Word
    BY WordIs DEF CRC16Init
  <2> HIDE DEF state, crc, length, data
  <2>4. RxIs("DL_H", CRC16Init, length, data)
    BY <1>3, <2>3 DEF RxIs, States
  <2> QED BY <1>2, <1>5, <2>2, <2>4, RxNext
<1>7. CASE state = "DL_H"
  <2>1. rx' = [state |-> "DL_L", crc |-> next, length |-> 256 * byte, data |-> data]
    <3>1. rx' = [rx EXCEPT !.state = "DL_L", !.length = 256 * byte,
                           !.crc = CRC16Iteration(@, byte)]
      BY <1>7 DEF Receive, ReceiveChecksum
    <3> DEFINE high == 256 * byte
    <3>2. rx' = [rx EXCEPT !.state = "DL_L", !.length = high, !.crc = next]
      BY <3>1
    <3> HIDE DEF high, next
    <3>3. rx' = [state |-> "DL_L", crc |-> next, length |-> high, data |-> data]
      BY <1>2, <3>2
    <3> QED BY <3>3 DEF high
  <2>2. 256 * byte \in Word /\ 256 * byte <= 65280
    BY <1>1, WordIs
  <2> HIDE DEF state, crc, length, data, next
  <2>3. RxIs("DL_L", next, 256 * byte, data)
    BY <1>3, <2>2 DEF RxIs, States
  <2> QED BY <1>5, <2>1, <2>3, RxNext
<1>8. CASE state = "DL_L"
  <2>1. ReceiveLength(byte)
    BY <1>8 DEF Receive, ReceiveChecksum
  <2> DEFINE len == length + byte
  <2>2. len \in Word
    <3>1. length <= 65280
      BY <1>2, <1>8 DEF RxIs
    <3> HIDE DEF state, crc, length, data, next
    <3>2. len \in Nat /\ len <= 65535
      BY <1>1, <1>3, <3>1
    <3> HIDE DEF len
    <3> QED BY <3>2, WordIs
  <2>3. CASE len <= BufferSize
    <3>1. rx' = [state |-> "DATA", crc |-> next, length |-> len, data |-> <<>>]
      BY <1>2, <2>1, <2>3 DEF ReceiveLength
    <3> HIDE DEF state, crc, length, data, next, len
    <3>2. <<>> \in Seq(Byte) /\ Len(<<>>) = 0
      OBVIOUS
    <3>3. RxIs("DATA", next, len, <<>>)
      BY <1>1, <1>3, <2>2, <2>3, <3>2 DEF RxIs, States
    <3> QED BY <1>5, <3>1, <3>3, RxNext
  <2>4. CASE ~(len <= BufferSize)
    <3>1. rx' = [state |-> "WAIT_SOF", crc |-> crc, length |-> length, data |-> data]
      BY <1>2, <2>1, <2>4 DEF ReceiveLength
    <3> HIDE DEF state, crc, length, data, next, len
    <3>2. RxIs("WAIT_SOF", crc, length, data)
      BY <1>3 DEF RxIs, States
    <3> QED BY <1>5, <3>1, <3>2, RxNext
  <2> QED BY <2>3, <2>4
<1>9. CASE state = "DATA"
  <2> DEFINE more == Append(data, byte)
  <2>1. \/ /\ Len(data) + 1 >= length
           /\ rx' = [state |-> "CRC_H", crc |-> next, length |-> length, data |-> more]
        \/ /\ ~(Len(data) + 1 >= length)
           /\ rx' = [state |-> "DATA", crc |-> next, length |-> length, data |-> more]
    BY <1>2, <1>9 DEF Receive, ReceiveChecksum
  <2>2. length <= BufferSize /\ (data = <<>> \/ Len(data) < length)
    BY <1>2, <1>9 DEF RxIs
  <2> HIDE DEF state, crc, length, data, next
  <2>3. more \in Seq(Byte) /\ Len(more) = Len(data) + 1
    BY <1>3
  <2>4. Len(more) <= BufferSize
    BY <1>1, <1>3, <2>2, <2>3
  <2> HIDE DEF more
  <2>5. CASE Len(data) + 1 >= length
    <3>1. RxIs("CRC_H", next, length, more)
      BY <1>3, <2>3, <2>4 DEF RxIs, States
    <3> QED BY <1>5, <2>1, <2>5, <3>1, RxNext
  <2>6. CASE ~(Len(data) + 1 >= length)
    <3>1. Len(more) < length
      BY <1>3, <2>3, <2>6
    <3>2. RxIs("DATA", next, length, more)
      BY <1>3, <2>2, <2>3, <2>4, <3>1 DEF RxIs, States
    <3> QED BY <1>5, <2>1, <2>6, <3>2, RxNext
  <2> QED BY <2>5, <2>6
<1>10. CASE state \in {"CRC_H", "CRC_L"}
  <2>1. \E s \in {"WAIT_SOF", "CRC_L"} :
          rx' = [state |-> s, crc |-> crc, length |-> length, data |-> data]
    BY <1>2, <1>10 DEF Receive, ReceiveChecksum
  <2> HIDE DEF state, crc, length, data, next
  <2>2. \A s \in {"WAIT_SOF", "CRC_L"} : RxIs(s, crc, length, data)
    BY <1>3 DEF RxIs, States
  <2> QED BY <1>5, <2>1, <2>2, RxNext
<1> QED BY <1>3, <1>6, <1>7, <1>8, <1>9, <1>10 DEF States

LEMMA Prefixes ==
  ASSUME NEW q \in Seq(Byte)
  PROVE  /\ SubSeq(q, 1, 0) = <<>>
         /\ SubSeq(q, 1, Len(q)) = q
         /\ \A k \in 1 .. Len(q) : /\ Append(SubSeq(q, 1, k - 1), q[k]) = SubSeq(q, 1, k)
                                   /\ Len(SubSeq(q, 1, k - 1)) = k - 1
<1>1. \A k \in 1 .. Len(q) : Append(SubSeq(q, 1, k - 1), q[k]) = SubSeq(q, 1, k)
  OBVIOUS
<1>2. \A k \in 1 .. Len(q) : Len(SubSeq(q, 1, k - 1)) = k - 1
  OBVIOUS
<1>3. SubSeq(q, 1, 0) = <<>> /\ SubSeq(q, 1, Len(q)) = q
  OBVIOUS
<1> QED BY <1>1, <1>2, <1>3

(* The next byte of a frame, but the last.                                 *)
LEMMA ReceivedNext ==
  ASSUME RxOK, NEW packet \in Sendable, NEW k \in 0 .. Len(packet) + 3, Received(packet, k),
         Receive(FrameByte(packet, k + 1))
  PROVE  Received(packet, k + 1)' /\ heard' = heard
<1> DEFINE n == Len(packet)
           body == Body(packet)
           crcs == Checksums(body)
           state == rx.state
           crc == rx.crc
           length == rx.length
           data == rx.data
           byte == FrameByte(packet, k + 1)
<1>1. n \in Nat /\ n >= 1 /\ n <= BufferSize /\ BufferSize \in Nat /\ packet \in Seq(Byte)
  BY FrameAssumption, WordIs DEF Sendable
<1>2. rx = [state |-> state, crc |-> crc, length |-> length, data |-> data]
  BY RxAre
<1>3. /\ body[1] = n \div 256
      /\ body[2] = n % 256
      /\ \A i \in 1 .. n : body[i + 2] = packet[i]
      /\ crcs[0] = CRC16Init
      /\ \A i \in 1 .. n + 2 : crcs[i] = CRC16Iteration(crcs[i - 1], body[i])
      /\ CRC16(body) = crcs[n + 2]
  <2>1. body \in Seq(Byte) /\ Len(body) = n + 2
    BY BodyIs
  <2>2. Checks(crcs, body, n + 2)
    BY <2>1, ChecksumsAre
  <2> QED BY <2>1, <2>2, BodyIs DEF Checks, CRC16
<1>4. CASE k = 0
  <2>1. state = "WAIT_SOF" /\ byte = SOF
    BY <1>4 DEF Received, FrameByte
  <2>2. rx' = [rx EXCEPT !.state = "DL_H", !.crc = CRC16Init] /\ heard' = heard
    BY <2>1 DEF Receive, ReceiveChecksum, ReceiveStart
  <2>3. rx'.state = "DL_H" /\ rx'.crc = crcs[0]
    BY <1>2, <1>3, <2>2
  <2>4. ~(3 <= 1) /\ 1 # n + 3 /\ 1 # n + 4 /\ 0 + 1 = 1 /\ 1 # 0 /\ 1 # 2
    BY <1>1
  <2> QED BY <1>4, <2>2, <2>3, <2>4 DEF Received
<1>5. CASE k = 1
  <2>1. state = "DL_H" /\ crc = crcs[0]
    BY <1>5 DEF Received
  <2>2. byte = body[1]
    BY <1>1, <1>5 DEF FrameByte
  <2>3. rx' = [rx EXCEPT !.state = "DL_L", !.length = 256 * byte, !.crc = CRC16Iteration(@, byte)]
        /\ heard' = heard
    BY <2>1 DEF Receive, ReceiveChecksum
  <2>4. crcs[1] = CRC16Iteration(crcs[0], body[1])
    <3>1. 1 \in 1 .. n + 2 /\ 1 - 1 = 0
      BY <1>1
    <3> HIDE DEF n, body, crcs
    <3> QED BY <1>3, <3>1
  <2>5. rx'.state = "DL_L" /\ rx'.crc = crcs[1] /\ rx'.length = 256 * (n \div 256)
    <3> HIDE DEF byte, body, crcs, n
    <3> DEFINE high == 256 * byte
               next == CRC16Iteration(crc, byte)
    <3>1. rx' = [rx EXCEPT !.state = "DL_L", !.length = high, !.crc = next]
      BY <2>3
    <3>2. next = crcs[1]
      BY <2>1, <2>2, <2>4
    <3>3. high = 256 * (n \div 256)
      BY <1>3, <2>2
    <3> HIDE DEF high, next
    <3>4. rx'.state = "DL_L" /\ rx'.crc = next /\ rx'.length = high
      BY <1>2, <3>1
    <3> QED BY <3>2, <3>3, <3>4
  <2>6. ~(3 <= 2) /\ 2 # n + 3 /\ 2 # n + 4 /\ 1 + 1 = 2 /\ 2 # 0 /\ 2 # 1
    BY <1>1
  <2> QED BY <1>5, <2>3, <2>5, <2>6 DEF Received
<1>6. CASE k = 2
  <2>1. state = "DL_L" /\ crc = crcs[1] /\ length = 256 * (n \div 256)
    BY <1>6 DEF Received
  <2>2. byte = body[2]
    BY <1>1, <1>6 DEF FrameByte
  <2>3. length + byte = n
    <3>1. byte = n % 256
      BY <1>3, <2>2
    <3>2. 256 * (n \div 256) + (n % 256) = n
      <4> HIDE DEF n
      <4> QED BY <1>1
    <3> QED BY <2>1, <3>1, <3>2
  <2>4. /\ rx' = [rx EXCEPT !.length = @ + byte, !.crc = CRC16Iteration(@, byte),
                            !.data = <<>>, !.state = "DATA"]
        /\ heard' = heard
    <3>1. ReceiveLength(byte) /\ heard' = heard
      BY <2>1 DEF Receive, ReceiveChecksum
    <3>2. rx.length + byte <= BufferSize
      BY <1>1, <2>3
    <3> QED BY <3>1, <3>2 DEF ReceiveLength
  <2>5. crcs[2] = CRC16Iteration(crcs[1], body[2])
    <3>1. 2 \in 1 .. n + 2 /\ 2 - 1 = 1
      BY <1>1
    <3> HIDE DEF n, body, crcs
    <3> QED BY <1>3, <3>1
  <2>6. rx'.state = "DATA" /\ rx'.crc = crcs[2] /\ rx'.length = n /\ rx'.data = <<>>
    <3> HIDE DEF byte, body, crcs, n
    <3> DEFINE len == length + byte
               next == CRC16Iteration(crc, byte)
    <3>1. rx' = [rx EXCEPT !.length = len, !.crc = next, !.data = <<>>, !.state = "DATA"]
      BY <2>4
    <3>2. next = crcs[2] /\ len = n
      BY <2>1, <2>2, <2>3, <2>5
    <3> HIDE DEF len, next
    <3>3. rx'.state = "DATA" /\ rx'.crc = next /\ rx'.length = len /\ rx'.data = <<>>
      BY <1>2, <3>1
    <3> QED BY <3>2, <3>3
  <2>7. 3 # n + 3 /\ 3 # n + 4 /\ 2 + 1 = 3 /\ 3 # 0 /\ 3 # 1 /\ 3 # 2 /\ 3 - 1 = 2 /\ 3 - 3 = 0
    BY <1>1
  <2>8. SubSeq(packet, 1, 0) = <<>>
    BY <1>1, Prefixes
  <2> QED BY <1>6, <2>4, <2>6, <2>7, <2>8 DEF Received
<1>7. CASE 3 <= k /\ k <= n + 2
  <2>1. state = "DATA" /\ crc = crcs[k - 1] /\ length = n /\ data = SubSeq(packet, 1, k - 3)
    BY <1>7 DEF Received
  <2> DEFINE j == k - 2
  <2>2. j \in 1 .. n /\ k \in 1 .. n + 2 /\ j + 2 = k /\ j - 1 = k - 3 /\ k \in Nat
    BY <1>1, <1>7
  <2>3. byte = body[k]
    <3>1. k + 1 # 1 /\ k + 1 <= n + 3 /\ k + 1 - 1 = k
      BY <1>1, <1>7
    <3> QED BY <3>1 DEF FrameByte
  <2>4. byte = packet[j]
    <3> HIDE DEF byte, body, n, j
    <3> QED BY <1>3, <2>2, <2>3
  <2>5. Append(data, byte) = SubSeq(packet, 1, j) /\ Len(data) = j - 1
    <3> HIDE DEF byte, body, j
    <3> QED BY <1>1, <2>1, <2>2, <2>4, Prefixes
  <2>6. CRC16Iteration(crc, byte) = crcs[k]
    <3> HIDE DEF n, byte, body, crcs, j, crc
    <3> QED BY <1>3, <2>1, <2>2, <2>3
  <2>7. /\ rx' = [rx EXCEPT !.data = Append(@, byte), !.crc = CRC16Iteration(@, byte),
                            !.state = IF Len(rx.data) + 1 >= rx.length THEN "CRC_H" ELSE @]
        /\ heard' = heard
    BY <2>1 DEF Receive, ReceiveChecksum
  <2>8. /\ rx'.data = SubSeq(packet, 1, j)
        /\ rx'.crc = crcs[k]
        /\ rx'.length = n
        /\ rx'.state = IF j >= n THEN "CRC_H" ELSE "DATA"
    <3> DEFINE more == Append(data, byte)
               next == CRC16Iteration(crc, byte)
               then == IF Len(data) + 1 >= length THEN "CRC_H" ELSE state
    <3>1. rx' = [rx EXCEPT !.data = more, !.crc = next, !.state = then]
      BY <2>7
    <3>2. more = SubSeq(packet, 1, j) /\ next = crcs[k]
      BY <2>5, <2>6
    <3>3. then = IF j >= n THEN "CRC_H" ELSE "DATA"
      <4>1. Len(data) + 1 = j
        BY <2>2, <2>5
      <4> HIDE DEF n, j, data, length, state
      <4> QED BY <2>1, <4>1
    <3> HIDE DEF more, next, then
    <3>4. rx'.data = more /\ rx'.crc = next /\ rx'.length = length /\ rx'.state = then
      BY <1>2, <3>1
    <3> HIDE DEF n, j, length
    <3> QED BY <2>1, <3>2, <3>3, <3>4
  <2>9. CASE k = n + 2
    <3>1. j = n /\ j >= n
      BY <1>1, <2>9
    <3>2. SubSeq(packet, 1, j) = packet
      BY <1>1, <3>1, Prefixes
    <3>3. rx'.state = "CRC_H" /\ rx'.crc = crcs[n + 2] /\ rx'.data = packet
      BY <2>8, <2>9, <3>1, <3>2
    <3>4. k + 1 = n + 3 /\ n + 3 # 0 /\ n + 3 # 1 /\ n + 3 # 2 /\ ~(n + 3 <= n + 2) /\ n + 3 # n + 4
      BY <1>1, <2>9
    <3> QED BY <2>7, <3>3, <3>4 DEF Received
  <2>10. CASE k # n + 2
    <3>1. ~(j >= n)
      BY <1>1, <1>7, <2>10
    <3>2. rx'.state = "DATA" /\ rx'.crc = crcs[k] /\ rx'.length = n /\ rx'.data = SubSeq(packet, 1, j)
      BY <2>8, <3>1
    <3> DEFINE m == k + 1
    <3>3. m - 1 = k /\ m - 3 = j /\ m # 0 /\ m # 1 /\ m # 2 /\ m # n + 3 /\ m # n + 4
      BY <1>1, <1>7, <2>10
    <3>4. Received(packet, m)'
      <4> HIDE DEF m, j
      <4> QED BY <3>2, <3>3 DEF Received
    <3> QED BY <2>7, <3>4
  <2> QED BY <2>9, <2>10
<1>8. CASE k = n + 3
  <2>1. state = "CRC_H" /\ crc = crcs[n + 2] /\ data = packet
    BY <1>8 DEF Received
  <2>2. byte = CRC16(body) \div 256
    <3>1. k + 1 # 1 /\ ~(k + 1 <= n + 3) /\ k + 1 = n + 4
      BY <1>1, <1>8
    <3> QED BY <3>1 DEF FrameByte
  <2>3. byte = rx.crc \div 256
    BY <1>3, <2>1, <2>2
  <2>4. rx' = [rx EXCEPT !.state = "CRC_L"] /\ heard' = heard
    BY <2>1, <2>3 DEF Receive, ReceiveChecksum
  <2>5. rx'.state = "CRC_L" /\ rx'.crc = crcs[n + 2] /\ rx'.data = packet
    BY <1>2, <2>1, <2>4
  <2>6. /\ k + 1 # 0 /\ k + 1 # 1 /\ k + 1 # 2
        /\ ~(k + 1 <= n + 2) /\ k + 1 # n + 3
    BY <1>1, <1>8
  <2> QED BY <2>4, <2>5, <2>6 DEF Received
<1>9. k = 0 \/ k = 1 \/ k = 2 \/ (3 <= k /\ k <= n + 2) \/ k = n + 3
  BY <1>1
<1> QED BY <1>4, <1>5, <1>6, <1>7, <1>8, <1>9

LEMMA ReceivedLast ==
  ASSUME RxOK, NEW packet \in Sendable, Received(packet, Len(packet) + 4),
         Receive(FrameByte(packet, Len(packet) + 5))
  PROVE  rx'.state = "WAIT_SOF" /\ heard' = Append(heard, packet)
<1> DEFINE n == Len(packet)
           body == Body(packet)
           crcs == Checksums(body)
           byte == FrameByte(packet, n + 5)
<1>1. n \in Nat
  BY DEF Sendable
<1>2. rx = [state |-> rx.state, crc |-> rx.crc, length |-> rx.length, data |-> rx.data]
  BY RxAre
<1>3. CRC16(body) = crcs[n + 2]
  BY BodyIs DEF CRC16
<1>4. rx.state = "CRC_L" /\ rx.crc = crcs[n + 2] /\ rx.data = packet
  BY DEF Received
<1>5. byte = CRC16(body) % 256
  <2>1. n + 5 # 1 /\ ~(n + 5 <= n + 3) /\ n + 5 # n + 4
    BY <1>1
  <2> QED BY <2>1 DEF FrameByte
<1>6. byte = rx.crc % 256
  BY <1>3, <1>4, <1>5
<1>7. rx' = [rx EXCEPT !.state = "WAIT_SOF"] /\ heard' = Append(heard, rx.data)
  BY <1>4, <1>6 DEF Receive, ReceiveChecksum
<1> QED BY <1>2, <1>4, <1>7

LEMMA Remainder ==
  ASSUME NEW q \in Seq(Byte), NEW k \in 0 .. Len(q) - 1
  PROVE  /\ SubSeq(q, k + 1, Len(q)) # <<>>
         /\ Head(SubSeq(q, k + 1, Len(q))) = q[k + 1]
         /\ Tail(SubSeq(q, k + 1, Len(q))) = SubSeq(q, k + 1 + 1, Len(q))
         /\ SubSeq(q, Len(q) + 1, Len(q)) = <<>>
         /\ SubSeq(q, 1, Len(q)) = q
<1> DEFINE s == SubSeq(q, k + 1, Len(q))
           t == SubSeq(q, k + 1 + 1, Len(q))
<1>1. s \in Seq(Byte) /\ Len(s) = Len(q) - k /\ \A i \in 1 .. Len(q) - k : s[i] = q[k + i]
  OBVIOUS
<1>2. t \in Seq(Byte) /\ Len(t) = Len(q) - k - 1 /\ \A i \in 1 .. Len(q) - k - 1 : t[i] = q[k + 1 + i]
  OBVIOUS
<1>3. SubSeq(q, Len(q) + 1, Len(q)) = <<>> /\ SubSeq(q, 1, Len(q)) = q
  OBVIOUS
<1> HIDE DEF s, t
<1>4. s # <<>> /\ Head(s) = q[k + 1]
  BY <1>1
<1>5. Tail(s) \in Seq(Byte) /\ Len(Tail(s)) = Len(q) - k - 1
      /\ \A i \in 1 .. Len(q) - k - 1 : Tail(s)[i] = s[i + 1]
  BY <1>1
<1>6. Tail(s) = t
  <2> DEFINE m == Len(q) - k - 1
             u == Tail(s)
  <2>1. m \in Nat
    OBVIOUS
  <2>2. \A i \in 1 .. m : u[i] = t[i]
    <3> SUFFICES ASSUME NEW i \in 1 .. m PROVE u[i] = t[i]
      OBVIOUS
    <3>1. i + 1 \in 1 .. Len(q) - k /\ k + (i + 1) = k + 1 + i
      OBVIOUS
    <3>2. u[i] = s[i + 1] /\ s[i + 1] = q[k + (i + 1)] /\ t[i] = q[k + 1 + i]
      BY <1>1, <1>2, <1>5, <3>1
    <3> QED BY <3>1, <3>2
  <2>3. u \in Seq(Byte) /\ Len(u) = m /\ t \in Seq(Byte) /\ Len(t) = m
    BY <1>2, <1>5
  <2> HIDE DEF u, m
  <2>4. u = t
    BY <2>1, <2>2, <2>3
  <2> QED BY <2>4 DEF u
<1> QED BY <1>3, <1>4, <1>6 DEF s, t

(* The head of what a writer still has to send is a byte.                  *)
LEMMA UnsentBytes ==
  ASSUME LineOK, NEW w \in Writers, unsent[w] # <<>>
  PROVE  Head(unsent[w]) \in Byte /\ Tail(unsent[w]) \in Seq(Byte)
<1>1. unsent[w] \in Seq(Byte)
  BY DEF LineOK
<1> QED BY <1>1

LEMMA PutByteInv ==
  ASSUME FrameInv, NEW w \in Writers, PutByte(w)
  PROVE  FrameInv'
<1>1. /\ unsent[w] # <<>>
      /\ unsent' = [unsent EXCEPT ![w] = Tail(@)]
      /\ sent' = sent
      /\ RxOK /\ LineOK /\ Alone /\ clean \in BOOLEAN
  BY DEF PutByte, FrameInv
<1>2. Head(unsent[w]) \in Byte /\ unsent' \in [Writers -> Seq(Byte)]
  <2>1. Head(unsent[w]) \in Byte /\ Tail(unsent[w]) \in Seq(Byte) /\ unsent \in [Writers -> Seq(Byte)]
    BY <1>1, UnsentBytes DEF LineOK
  <2> DEFINE T == Seq(Byte)
             rest == Tail(unsent[w])
  <2>2. unsent \in [Writers -> T] /\ rest \in T /\ unsent' = [unsent EXCEPT ![w] = rest]
    BY <1>1, <2>1
  <2> HIDE DEF T, rest
  <2>3. unsent' \in [Writers -> T]
    BY <2>2
  <2> QED BY <2>1, <2>3 DEF T
<1>3. CASE clean' = FALSE /\ UNCHANGED <<rx, heard>>
  <2>1. RxOK' /\ LineOK'
    BY <1>1, <1>2, <1>3 DEF RxOK, LineOK
  <2> QED BY <1>3, <2>1 DEF FrameInv, Alone
<1>4. CASE Receive(Head(unsent[w])) /\ clean' = clean
  <2>1. RxOK' /\ LineOK'
    <3>1. heard \in Seq(Seq(Byte))
      BY <1>1 DEF LineOK
    <3>2. RxOK' /\ heard' \in Seq(Seq(Byte))
      BY <1>1, <1>2, <1>4, <3>1, ReceiveOK
    <3> QED BY <1>1, <1>2, <3>2 DEF LineOK
  <2>2. ASSUME clean PROVE AtRest' \/ \E v \in Writers, packet \in Packets :
                             \E k \in 0 .. Len(packet) + 4 : Carrying(v, packet, k)'
    <3>1. ~AtRest
      BY <1>1 DEF AtRest
    <3>2. PICK v \in Writers, packet \in Packets : \E k \in 0 .. Len(packet) + 4 : Carrying(v, packet, k)
      BY <1>1, <2>2, <3>1 DEF Alone
    <3>3. PICK k \in 0 .. Len(packet) + 4 : Carrying(v, packet, k)
      BY <3>2
    <3> DEFINE n == Len(packet)
               F == Frame(packet)
    <3>4. /\ packet \in Sendable /\ n \in Nat
          /\ F \in Seq(Byte) /\ Len(F) = n + 5
          /\ F[k + 1] = FrameByte(packet, k + 1)
      <4>1. packet \in Sendable /\ n \in Nat
        BY PacketsSendable DEF Sendable
      <4>2. k + 1 \in 1 .. n + 5
        BY <4>1
      <4> QED BY <4>1, <4>2, FrameIs
    <3>5. /\ v = w
          /\ unsent[w] = SubSeq(F, k + 1, n + 5)
          /\ sent = Append(heard, packet)
          /\ Received(packet, k)
          /\ \A u \in Writers \ {w} : unsent[u] = <<>>
      BY <1>1, <3>3 DEF Carrying, Silent
    <3>6. /\ Head(unsent[w]) = F[k + 1]
          /\ Tail(unsent[w]) = SubSeq(F, k + 1 + 1, n + 5)
          /\ SubSeq(F, n + 5 + 1, n + 5) = <<>>
      <4>1. k \in 0 .. Len(F) - 1
        BY <3>4
      <4> HIDE DEF F, n
      <4>2. /\ Head(SubSeq(F, k + 1, Len(F))) = F[k + 1]
            /\ Tail(SubSeq(F, k + 1, Len(F))) = SubSeq(F, k + 1 + 1, Len(F))
            /\ SubSeq(F, Len(F) + 1, Len(F)) = <<>>
        BY <3>4, <4>1, Remainder
      <4>3. Len(F) = n + 5 /\ unsent[w] = SubSeq(F, k + 1, Len(F))
        BY <3>4, <3>5
      <4> QED BY <4>2, <4>3
    <3>7. /\ unsent'[w] = SubSeq(F, k + 1 + 1, n + 5)
          /\ \A u \in Writers \ {w} : unsent'[u] = <<>>
      <4>1. unsent \in [Writers -> Seq(Byte)]
        BY <1>1 DEF LineOK
      <4>2. unsent'[w] = Tail(unsent[w]) /\ \A u \in Writers \ {w} : unsent'[u] = unsent[u]
        BY <1>1, <4>1
      <4> QED BY <3>5, <3>6, <4>2
    <3>8. Receive(FrameByte(packet, k + 1))
      BY <1>4, <3>4, <3>6
    <3>9. CASE k <= n + 3
      <4>1. k \in 0 .. n + 3 /\ k + 1 \in 0 .. n + 4
        BY <3>4, <3>9
      <4>2. Received(packet, k + 1)' /\ heard' = heard
        BY <1>1, <3>4, <3>5, <3>8, <4>1, ReceivedNext
      <4>3. Carrying(w, packet, k + 1)'
        BY <1>1, <3>5, <3>7, <4>2 DEF Carrying, Silent
      <4> QED BY <4>1, <4>3
    <3>10. CASE k = n + 4
      <4>1. k + 1 = n + 5 /\ n + 4 + 1 = n + 5
        BY <3>4, <3>10
      <4>2. Received(packet, n + 4) /\ Receive(FrameByte(packet, n + 5))
        BY <3>5, <3>8, <3>10, <4>1
      <4>3. rx'.state = "WAIT_SOF" /\ heard' = Append(heard, packet)
        BY <1>1, <3>4, <4>2, ReceivedLast
      <4>4. unsent'[w] = <<>>
        BY <3>6, <3>7, <4>1
      <4>5. AtRest'
        BY <1>1, <3>5, <3>7, <4>3, <4>4 DEF AtRest
      <4> QED BY <4>5
    <3> QED BY <3>4, <3>9, <3>10
  <2>3. Alone'
    BY <1>4, <2>2 DEF Alone
  <2> QED BY <1>1, <1>4, <2>1, <2>3 DEF FrameInv
<1> QED BY <1>3, <1>4 DEF PutByte

LEMMA SendInv ==
  ASSUME FrameInv, NEW w \in Writers, NEW packet \in Packets, Send(w, packet)
  PROVE  FrameInv'
<1> DEFINE F == Frame(packet)
<1>1. /\ unsent[w] = <<>>
      /\ unsent' = [unsent EXCEPT ![w] = F]
      /\ sent' = Append(sent, packet)
      /\ clean' = (clean /\ \A v \in Writers : unsent[v] = <<>>)
      /\ UNCHANGED <<rx, heard>>
      /\ RxOK /\ LineOK /\ Alone /\ clean \in BOOLEAN
  BY DEF Send, FrameOf, FrameInv
<1>2. /\ packet \in Sendable /\ Len(packet) \in Nat
      /\ F \in Seq(Byte) /\ Len(F) = Len(packet) + 5
  BY PacketsSendable, FrameIs DEF Sendable
<1>3. /\ unsent' \in [Writers -> Seq(Byte)]
      /\ unsent'[w] = F
      /\ \A v \in Writers \ {w} : unsent'[v] = unsent[v]
  <2> DEFINE T == Seq(Byte)
  <2>1. unsent \in [Writers -> T] /\ F \in T
    BY <1>1, <1>2 DEF LineOK
  <2> HIDE DEF T, F
  <2>2. unsent' \in [Writers -> T] /\ unsent'[w] = F /\ \A v \in Writers \ {w} : unsent'[v] = unsent[v]
    BY <1>1, <2>1
  <2> QED BY <2>2 DEF T
<1>4. RxOK' /\ LineOK'
  BY <1>1, <1>3 DEF RxOK, LineOK
<1>5. clean' \in BOOLEAN
  BY <1>1
<1>6. ASSUME clean' PROVE Carrying(w, packet, 0)'
  <2>1. clean /\ \A v \in Writers : unsent[v] = <<>>
    BY <1>1, <1>6
  <2>2. AtRest
    <3>1. ASSUME NEW v \in Writers, NEW p \in Packets, NEW k \in 0 .. Len(p) + 4, Carrying(v, p, k)
          PROVE  FALSE
      <4>1. p \in Sendable /\ Len(p) \in Nat
        BY PacketsSendable DEF Sendable
      <4>2. Frame(p) \in Seq(Byte) /\ Len(Frame(p)) = Len(p) + 5 /\ k \in 0 .. Len(p) + 5 - 1
        BY <4>1, FrameIs
      <4>3. unsent[v] = SubSeq(Frame(p), k + 1, Len(p) + 5)
        BY <3>1 DEF Carrying
      <4>4. SubSeq(Frame(p), k + 1, Len(p) + 5) # <<>>
        BY <4>2, Remainder
      <4> QED BY <2>1, <4>3, <4>4
    <3> QED BY <1>1, <2>1, <3>1 DEF Alone
  <2>3. sent' = Append(heard', packet) /\ rx'.state = "WAIT_SOF"
    BY <1>1, <2>2 DEF AtRest
  <2>4. unsent'[w] = SubSeq(F, 0 + 1, Len(packet) + 5)
    <3>1. SubSeq(F, 1, Len(F)) = F
      <4> HIDE DEF F
      <4> QED BY <1>2
    <3> QED BY <1>2, <1>3, <3>1
  <2>5. Received(packet, 0)'
    <3>1. /\ 0 # 1 /\ 0 # 2 /\ ~(3 <= 0) /\ 0 # Len(packet) + 3 /\ 0 # Len(packet) + 4
      BY <1>2
    <3> QED BY <2>3, <3>1 DEF Received
  <2>6. Silent(w)'
    BY <1>3, <2>1 DEF Silent
  <2> QED BY <2>3, <2>4, <2>5, <2>6 DEF Carrying
<1>7. Alone'
  <2>1. 0 \in 0 .. Len(packet) + 4
    BY <1>2
  <2> QED BY <1>6, <2>1 DEF Alone
<1> QED BY <1>4, <1>5, <1>7 DEF FrameInv

LEMMA FrameNextInv == FrameInv /\ [FrameNext]_frameVars => FrameInv'
<1> SUFFICES ASSUME FrameInv, [FrameNext]_frameVars PROVE FrameInv'
  OBVIOUS
<1>1. CASE UNCHANGED frameVars
  <2>1. RxOK' /\ LineOK' /\ clean' \in BOOLEAN
    BY <1>1 DEF FrameInv, RxOK, LineOK, frameVars
  <2>2. Alone'
    <3>1. AtRest => AtRest'
      BY <1>1 DEF AtRest, frameVars
    <3>2. \A w, packet, k : Carrying(w, packet, k) => Carrying(w, packet, k)'
      BY <1>1 DEF Carrying, Received, Silent, frameVars
    <3> QED BY <1>1, <3>1, <3>2 DEF FrameInv, Alone, frameVars
  <2> QED BY <2>1, <2>2 DEF FrameInv
<1>2. CASE FrameNext
  BY <1>2, PutByteInv, SendInv DEF FrameNext
<1> QED BY <1>1, <1>2

LEMMA FrameTypes == FrameInv => FrameTypeOK
BY DEF FrameInv, RxOK, RxRecord, FrameTypeOK

LEMMA FrameHeard == FrameInv => AloneIsHeard
<1> SUFFICES ASSUME FrameInv, clean
             PROVE  /\ heard = SubSeq(sent, 1, Len(heard))
                    /\ Len(heard) >= Len(sent) - 1
                    /\ (\A w \in Writers : unsent[w] = <<>>) => heard = sent
  BY DEF AloneIsHeard
<1>1. heard \in Seq(Seq(Byte))
  BY DEF FrameInv, LineOK
<1>2. CASE AtRest
  <2>1. sent = heard
    BY <1>2 DEF AtRest
  <2> DEFINE T == Seq(Byte)
  <2>2. heard \in Seq(T)
    BY <1>1
  <2> HIDE DEF T
  <2>3. heard = SubSeq(heard, 1, Len(heard)) /\ Len(heard) \in Nat
    BY <2>2
  <2> QED BY <2>1, <2>3
<1>3. ASSUME NEW w \in Writers, NEW packet \in Packets, NEW k \in 0 .. Len(packet) + 4,
             Carrying(w, packet, k)
      PROVE  /\ heard = SubSeq(sent, 1, Len(heard))
             /\ Len(heard) >= Len(sent) - 1
             /\ (\A v \in Writers : unsent[v] = <<>>) => heard = sent
  <2>1. sent = Append(heard, packet) /\ unsent[w] = SubSeq(Frame(packet), k + 1, Len(packet) + 5)
    BY <1>3 DEF Carrying
  <2>2. packet \in Sendable /\ Len(packet) \in Nat /\ packet \in Seq(Byte)
    BY PacketsSendable DEF Sendable
  <2>3. unsent[w] # <<>>
    <3>1. Frame(packet) \in Seq(Byte) /\ Len(Frame(packet)) = Len(packet) + 5
          /\ k \in 0 .. Len(packet) + 5 - 1
      BY <2>2, FrameIs
    <3>2. SubSeq(Frame(packet), k + 1, Len(packet) + 5) # <<>>
      BY <3>1, Remainder
    <3> QED BY <2>1, <3>2
  <2> DEFINE T == Seq(Byte)
  <2>4. heard \in Seq(T) /\ packet \in T
    BY <1>1, <2>2
  <2> HIDE DEF T
  <2>5. /\ heard = SubSeq(Append(heard, packet), 1, Len(heard))
        /\ Len(Append(heard, packet)) = Len(heard) + 1
        /\ Len(heard) \in Nat
    BY <2>4
  <2>6. heard = SubSeq(sent, 1, Len(heard))
    BY <2>1, <2>5
  <2>7. Len(heard) >= Len(sent) - 1
    <3>1. Len(sent) = Len(heard) + 1
      BY <2>1, <2>5
    <3> QED BY <3>1, <2>5
  <2>8. ~(\A v \in Writers : unsent[v] = <<>>)
    BY <2>3
  <2> QED BY <2>6, <2>7, <2>8
<1> QED BY <1>2, <1>3 DEF FrameInv, Alone

(* As long as every frame has the line to itself and no byte is lost, each *)
(* packet is delivered, intact and in order (comms.c:482-528, 557-631).    *)
THEOREM AloneArrives == FrameSpec => []AloneIsHeard
<1>1. FrameInv => AloneIsHeard
  BY FrameHeard
<1> QED BY <1>1, FrameInitInv, FrameNextInv, PTL DEF FrameSpec

-----------------------------------------------------------------------------
(* The views together. *)

(* The line's own typing, from its order: a question is numbered from 1.   *)
LEMMA LinkTypes == LinkInv => LinkTypeOK
<1> SUFFICES ASSUME LinkInv PROVE LinkTypeOK
  OBVIOUS
<1>1. /\ request \in [Threads -> Requested]
      /\ inbox \in Seq(Question) /\ replies \in Seq(Reply)
      /\ ring \in [Slot -> Packet]
      /\ readIndex \in Slot /\ writeIndex \in Slot /\ Len(unread) \in Slot
      /\ last \in Nat /\ count \in Nat
  BY DEF LinkInv, Typed
<1>2. \A t \in Threads :
        /\ request[t].pc \in {"idle", "sending", "waiting", "blocked", "answered"}
        /\ request[t].pc # "idle" => request[t].cmd \in Commands
  <2> SUFFICES ASSUME NEW t \in Threads
               PROVE  /\ request[t].pc \in {"idle", "sending", "waiting", "blocked", "answered"}
                      /\ request[t].pc # "idle" => request[t].cmd \in Commands
    OBVIOUS
  <2>1. request[t] \in Requested
    BY <1>1
  <2> QED BY <2>1 DEF Requested, Idle
<1>3. ASSUME NEW i \in 1 .. Len(inbox)
      PROVE  inbox[i].cmd \in Commands /\ inbox[i].id \in 1 .. count
  <2>1. inbox[i] \in Question
    BY <1>1, <1>3
  <2>2. last < inbox[i].id /\ inbox[i].id <= count
    BY <1>3 DEF LinkInv, Ordered, Between
  <2>3. inbox[i].cmd \in Commands /\ inbox[i].id \in Nat
    BY <2>1 DEF Question
  <2> QED BY <1>1, <2>2, <2>3
<1>4. ASSUME NEW i \in 1 .. Len(replies)
      PROVE  replies[i] \in Packet
  <2>1. replies[i] \in Reply
    BY <1>1, <1>4
  <2> QED BY <2>1 DEF Reply, Packet
<1> QED BY <1>1, <1>2, <1>3, <1>4 DEF LinkTypeOK

(* All three views: the one that moves keeps its invariant, the others     *)
(* stand still.                                                            *)
ViewsInv ==
  /\ FrameInv
  /\ LinkInv
  /\ view \in {"bytes", "daemon", "update"}
  /\ view = "update" => UpdateInv

LEMMA FrameStill ==
  ASSUME FrameInv, UNCHANGED frameVars
  PROVE  FrameInv'
<1>1. [FrameNext]_frameVars
  OBVIOUS
<1> QED BY <1>1, FrameNextInv

LEMMA ViewsInitInv == Init => ViewsInv
BY FrameInitInv, LinkInitInv, UpdateInitInv DEF Init, ViewsInv

LEMMA ViewsNextInv == ViewsInv /\ [Next]_vars => ViewsInv'
<1> SUFFICES ASSUME ViewsInv, [Next]_vars PROVE ViewsInv'
  OBVIOUS
<1>1. FrameInv /\ LinkInv
  BY DEF ViewsInv
<1>2. CASE UNCHANGED <<frameVars, linkVars, updateVars, view>>
  <2>1. FrameInv'
    BY <1>1, <1>2, FrameStill
  <2>2. LinkInv'
    BY <1>1, <1>2, LinkSameInv
  <2>3. UpdateInv => UpdateInv'
    BY <1>2, UpdateStep
  <2> QED BY <1>2, <2>1, <2>2, <2>3 DEF ViewsInv
<1>3. CASE view = "bytes" /\ FrameNext /\ UNCHANGED <<linkVars, daemonVars, updateVars, view>>
  <2>1. FrameInv'
    BY <1>1, <1>3, FrameNextInv
  <2>2. LinkInv'
    BY <1>1, <1>3, LinkSameInv
  <2> QED BY <1>3, <2>1, <2>2 DEF ViewsInv
<1>4. CASE view = "daemon" /\ DaemonNext /\ UNCHANGED <<frameVars, updateVars, view>>
  <2>1. FrameInv'
    BY <1>1, <1>4, FrameStill
  <2>2. LinkInv'
    BY <1>1, <1>4, DaemonNextInv
  <2> QED BY <1>4, <2>1, <2>2 DEF ViewsInv
<1>5. CASE view = "update" /\ UpdateNext /\ UNCHANGED <<frameVars, daemonVars, view>>
  <2>1. FrameInv'
    BY <1>1, <1>5, FrameStill
  <2>2. UpdateInv'
    BY <1>5, UpdateStep DEF ViewsInv
  <2>3. LinkInv'
    BY <2>2 DEF UpdateInv
  <2> QED BY <1>5, <2>1, <2>2, <2>3 DEF ViewsInv
<1> QED BY <1>2, <1>3, <1>4, <1>5 DEF Next, vars

(* Whichever program runs: threads, packets, ring and state machine keep   *)
(* their types, and no receive buffer overflows (comms.c:456-477,          *)
(* 557-631).                                                               *)
THEOREM MCPmicTypes == Spec => []TypeOK
<1>1. ViewsInv => TypeOK
  BY FrameTypes, LinkTypes DEF ViewsInv, TypeOK
<1> QED BY <1>1, ViewsInitInv, ViewsNextInv, PTL DEF Spec
=============================================================================
