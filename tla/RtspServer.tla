------------------------------ MODULE RtspServer ------------------------------
(***************************************************************************)
(* The connections of the RTSP server (rtsp-server.c, rtsp-methods.c): one *)
(* thread receives, parses and answers the requests of all clients.  The   *)
(* receive buffer is modelled line by line: a request is a request line,   *)
(* a header line and an empty line, and then the lines of its body.  A     *)
(* line that was parsed is cut up by string terminators; one that was      *)
(* moved over it is whole again.  Every client's address is a host.        *)
(***************************************************************************)
EXTENDS RtspSession, Sequences

CONSTANTS
  Clients,        (* a subset of Hosts                             *)
  Wishes,         (* for each the requests it may make, in turn    *)
  BufferLines     (* lines in the receive buffer                   *)

Supported == {"OPTIONS", "GET_PARAMETER", "DESCRIBE", "SETUP", "PLAY", "TEARDOWN"}

(* known: it has the client's session identifier; ports: the range of its  *)
(* Transport header.                                                       *)
Wish == [method : STRING, known : BOOLEAN, body : Nat, ports : {"none", "range", "one"}]

ASSUME RtspAssumption ==
  /\ Clients \subseteq Hosts
  /\ 0 \notin Sids
  /\ \A c \in Clients : Wishes[c] \in Seq(SUBSET Wish)
  /\ BufferLines \in Nat \ {0}

VARIABLES
  client,     (* the server's connections                              *)
  asked,      (* history: what each client has sent                    *)
  incoming,   (* lines on their way to the server                      *)
  answers,    (* history: the answers each client has got              *)
  knows,      (* the session identifier it was given, 0 for none       *)
  orderly     (* history: it always waited for the answer              *)

clientVars == <<client, asked, incoming, answers, knows, orderly>>
rtspVars == <<sessionVars, clientVars>>

NoClient == [state |-> "NONE"]

(* What is left of a connection whose resources were collected.            *)
Closed == [state |-> "CLOSED"]

RtspInit ==
  /\ SessionInit
  /\ client = [c \in Clients |-> NoClient]
  /\ asked = [c \in Clients |-> <<>>]
  /\ incoming = [c \in Clients |-> <<>>]
  /\ answers = [c \in Clients |-> <<>>]
  /\ knows = [c \in Clients |-> 0]
  /\ orderly = [c \in Clients |-> TRUE]

Open(c) == client[c].state \notin {"NONE", "CLOSED"}

-----------------------------------------------------------------------------
(* What a client does. *)

Line(number, kind, length) == [request |-> number, kind |-> kind, length |-> length, whole |-> TRUE]

LinesOf(number, wish) ==
  <<Line(number, "request", 0), Line(number, "header", wish.body), Line(number, "empty", 0)>>
  \o [i \in 1 .. wish.body |-> Line(number, "body", 0)]

Asking(wish, sid) == [method |-> wish.method, body |-> wish.body, ports |-> wish.ports, sid |-> sid]

(* The client's connection is accepted (rtsp_server_accept).               *)
Connect(c) ==
  /\ Serving
  /\ client[c] = NoClient
  /\ client' = [client EXCEPT ![c] =
       [state |-> "START", rxbuffer |-> <<>>, rxoffset |-> 0, contentlen |-> 0,
        method |-> 0, header |-> 0, tx |-> <<>>]]
  /\ UNCHANGED <<sessionVars, asked, incoming, answers, knows, orderly>>

(* A client sends a request when it likes; the network delivers it.        *)
Request(c) ==
  /\ died = "no" /\ Open(c)
  /\ Len(asked[c]) < Len(Wishes[c])
  /\ \E wish \in Wishes[c][Len(asked[c]) + 1] :
       /\ asked' = [asked EXCEPT ![c] = Append(@, Asking(wish, IF wish.known THEN knows[c] ELSE 0))]
       /\ incoming' = [incoming EXCEPT ![c] = @ \o LinesOf(Len(asked[c]) + 1, wish)]
  /\ orderly' = [orderly EXCEPT ![c] = @ /\ Len(asked[c]) = Len(answers[c])
                                         /\ \A i \in 1 .. Len(asked[c]) : asked[c][i].body = 0]
  /\ UNCHANGED <<sessionVars, client, answers, knows>>

-----------------------------------------------------------------------------
(* Parsing. *)

(* rtsp_client_error                                                       *)
ClientError(r, status) == [r EXCEPT !.state = "FINAL", !.tx = <<[status |-> status, sid |-> 0]>>]

(* rtsp_getline and what rtsp_client_process makes of the line.  A line of *)
(* a body, a header or an empty line is no request line; a request line is *)
(* a header like any other.  "ANSWER": the request is to be answered.      *)
ParseLine(r, line) ==
  LET at == r.rxoffset + 1
      next == [r EXCEPT !.rxoffset = at, !.rxbuffer[at].whole = FALSE]
  IN CASE r.state = "START" ->
            IF line.kind = "request"
            THEN [next EXCEPT !.state = "HEADER", !.contentlen = 0, !.header = 0, !.method = at]
            ELSE ClientError(next, 400)
       [] r.state = "HEADER" /\ line.kind = "empty" ->
            [next EXCEPT !.state = IF r.contentlen > 0 THEN "BODY" ELSE "ANSWER"]
       [] r.state = "HEADER" /\ line.kind = "header" ->
            [next EXCEPT !.header = IF @ = 0 THEN at ELSE @, !.contentlen = line.length]
       [] r.state = "HEADER" /\ line.kind \in {"request", "body"} -> next
       [] OTHER -> r

(* The lines not parsed yet.                                               *)
ParseRest(r) ==
  LET parsed[n \in 0 .. Len(r.rxbuffer) - r.rxoffset] ==
        IF n = 0 THEN r ELSE ParseLine(parsed[n - 1], r.rxbuffer[r.rxoffset + n])
  IN parsed[Len(r.rxbuffer) - r.rxoffset]

(* rtsp_client_process, as the set of its one outcome.  The wait for the   *)
(* body adds the offset where it should be taken away.                     *)
Process(r) ==
  {IF q.state = "BODY" /\ Len(q.rxbuffer) + q.rxoffset >= q.contentlen
   THEN [q EXCEPT !.state = "ANSWER"] ELSE q : q \in {ParseRest(r)}}

-----------------------------------------------------------------------------
(* Answering. *)

(* memmove of what follows the request to the front of the buffer.         *)
Moved(buffer, from) ==
  [i \in 1 .. Len(buffer) |->
     IF from + i <= Len(buffer) THEN [buffer[from + i] EXCEPT !.whole = TRUE] ELSE buffer[i]]

(* Bug variant: parsing starts from the front again, but what was received *)
(* is still counted.                                                       *)
AnsweredRewound(r) ==
  [r EXCEPT !.rxbuffer = Moved(@, r.rxoffset + r.contentlen), !.rxoffset = 0]

(* After the move neither the length nor the offset is changed.            *)
Answered(r) == [r EXCEPT !.rxbuffer = Moved(@, r.rxoffset + r.contentlen)]

(* What the connection's pointers into the buffer find there by now.       *)
WishOf(c, r) == asked[c][r.rxbuffer[r.method].request]

MethodOf(c, r) == IF r.rxbuffer[r.method].whole THEN "" ELSE WishOf(c, r).method

SidOf(c, r) ==
  IF r.header = 0 \/ r.rxbuffer[r.header].whole THEN 0
  ELSE asked[c][r.rxbuffer[r.header].request].sid

Reply(c, r, status, sid) ==
  client' = [client EXCEPT ![c] = [r EXCEPT !.state = "REPLY",
                                            !.tx = <<[status |-> status, sid |-> sid]>>]]

Dies(reason) == died' = reason /\ UNCHANGED <<client, session, run, raced>>

(* rtsp_method_setup.  rtsp_client_reply sends its errors like any answer: *)
(* the connection stays.  A range of one port divides by zero.             *)
Setup(c, r) ==
  IF SidOf(c, r) # 0 THEN Reply(c, r, 459, 0) /\ Unchanged /\ died' = died
  ELSE IF WishOf(c, r).ports = "one" THEN Dies("no ports")
  ELSE \E sid \in Sids : SessionNew(c, sid) /\ Reply(c, r, 200, sid) /\ died' = died

(* rtsp_client_reply and the methods.                                      *)
Dispatch(c, r) ==
  LET method == MethodOf(c, r)
      sid == SidOf(c, r)
  IN \/ method = "SETUP" /\ Setup(c, r)
     \/ /\ method # "SETUP"
        /\ Reply(c, r, IF method \in Supported THEN 200 ELSE 405, 0)
        /\ CASE method = "GET_PARAMETER" -> Refresh(sid)
             [] method \in {"PLAY", "TEARDOWN"} -> Enter(sid, method)
             [] OTHER -> Unchanged
        /\ died' = died

Answer(c, r) ==
  IF r.rxoffset + r.contentlen > Len(r.rxbuffer) THEN Dies("no body")
  ELSE \E answered \in {Answered(r)} : Dispatch(c, answered)

-----------------------------------------------------------------------------
(* The server's loop. *)

(* rtsp_client_recv, as many lines as have come and have room; a buffer    *)
(* that is full when it would receive, or before a request ends, is        *)
(* refused, whatever is in it.                                             *)
Full(r) == Len(r.rxbuffer) = BufferLines

(* Bug variant: a full buffer is waited on.                                *)
RefusedNever(r) == r

Refused(r) ==
  IF r.tx = <<>> /\ r.state # "ANSWER" /\ Full(r) THEN ClientError(r, 413) ELSE r

Receive(c) ==
  /\ Serving
  /\ Open(c) /\ client[c].tx = <<>>
  /\ incoming[c] # <<>>
  /\ \/ /\ Full(client[c])
        /\ client' = [client EXCEPT ![c] = Refused(client[c])] /\ Unchanged
        /\ UNCHANGED <<incoming, died>>
     \/ \E n \in 1 .. Len(incoming[c]) :
          /\ Len(client[c].rxbuffer) + n <= BufferLines
          /\ incoming' = [incoming EXCEPT ![c] = SubSeq(@, n + 1, Len(@))]
          /\ \E r \in Process([client[c] EXCEPT !.rxbuffer = @ \o SubSeq(incoming[c], 1, n)]) :
               IF r.state = "ANSWER" THEN Answer(c, r)
               ELSE client' = [client EXCEPT ![c] = Refused(r)] /\ Unchanged /\ died' = died
  /\ UNCHANGED <<mainVars, sink, asked, answers, knows, orderly>>

(* rtsp_client_send, when all is sent.                                     *)
Send(c) ==
  /\ Serving
  /\ Open(c) /\ client[c].tx # <<>>
  /\ LET answer == client[c].tx[1]
     IN /\ answers' = [answers EXCEPT ![c] = Append(@, answer.status)]
        /\ knows' = [knows EXCEPT ![c] = IF answer.sid = 0 THEN @ ELSE answer.sid]
  /\ client' = [client EXCEPT ![c] =
       IF client[c].state = "FINAL" THEN Closed
       ELSE [@ EXCEPT !.state = "START", !.tx = <<>>]]
  /\ incoming' = [incoming EXCEPT ![c] = IF client[c].state = "FINAL" THEN <<>> ELSE @]
  /\ UNCHANGED <<sessionVars, asked, orderly>>

(* rtsp_client_close, when the client has closed the connection; what it   *)
(* sent and was told is of no interest any more.                           *)
Close(c) ==
  /\ Serving
  /\ Open(c)
  /\ client' = [client EXCEPT ![c] = Closed]
  /\ asked' = [asked EXCEPT ![c] = <<>>] /\ incoming' = [incoming EXCEPT ![c] = <<>>]
  /\ answers' = [answers EXCEPT ![c] = <<>>] /\ knows' = [knows EXCEPT ![c] = 0]
  /\ orderly' = [orderly EXCEPT ![c] = TRUE]
  /\ UNCHANGED sessionVars

RtspNext ==
  \/ \E c \in Clients : Connect(c) \/ Request(c) \/ Receive(c) \/ Send(c) \/ Close(c)
  \/ (TimePasses \/ SessionTimeout \/ SelectFails \/ HookRun \/ MainThread) /\ UNCHANGED clientVars

(* Each turn of the loop serves every connection that is ready, and runs   *)
(* the hooks it has to.                                                    *)
RtspFairness ==
  /\ WF_rtspVars(HookRun /\ UNCHANGED clientVars)
  /\ \A c \in Clients : WF_rtspVars(Receive(c)) /\ WF_rtspVars(Send(c))

-----------------------------------------------------------------------------
(* Properties. *)

RtspTypeOK ==
  /\ SessionTypeOK
  /\ \A c \in Clients :
       Open(c) => /\ client[c].rxoffset \in 0 .. Len(client[c].rxbuffer)
                  /\ Len(client[c].rxbuffer) <= BufferLines

(* A client that waits for each answer before it asks again, and sends no  *)
(* bodies, has each request answered by its own method, although nothing   *)
(* resets the buffer or its offset between requests, until the buffer is   *)
(* full (rtsp-server.c:162-181, 277-321, 410-438).                         *)
AnswersFit ==
  \A c \in Clients : orderly[c] =>
    \A i \in 1 .. Len(answers[c]) :
      answers[c][i] \in IF asked[c][i].method \notin Supported THEN {405, 413}
                        ELSE IF asked[c][i].method = "SETUP" /\ asked[c][i].sid # 0 THEN {459, 413}
                        ELSE {200, 413}

(* Each request of such a client is answered, unless the connection is     *)
(* closed or the server ends.                                              *)
EveryRequestAnswered ==
  \A c \in Clients :
    Open(c) /\ Len(asked[c]) > Len(answers[c]) ~>
      \/ Len(asked[c]) = Len(answers[c]) \/ ~Open(c) \/ ~orderly[c]
      \/ died # "no" \/ run.pc = "ended"
=============================================================================
