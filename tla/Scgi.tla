-------------------------------- MODULE Scgi --------------------------------
(***************************************************************************)
(* The gateway from the web server to D-Bus (scgi/).  One GLib main loop   *)
(* runs everything: a connection reads its request and writes its response *)
(* with one asynchronous operation at a time; signals from D-Bus go to the *)
(* connections that subscribed.  Data is counted in units, and what is     *)
(* sent is a sequence of named units, so that one can tell what of it      *)
(* arrived.                                                                *)
(***************************************************************************)
EXTENDS Integers, Sequences, FiniteSets

CONSTANTS
  Connections,
  WebRequests,   (* for each of them what its client may send, see WebRequest *)
  RxSize,        (* units in the receive buffer of a connection              *)
  TxSize,        (* units in its transmit buffer                             *)
  MaxBody,       (* a request body must be smaller                           *)
  EventSize,     (* units of an event                                        *)
  HeaderSize,    (* units of the headers of a response                       *)
  ExtraSize,     (* units of the data rendered from a D-Bus reply            *)
  Methods,       (* the methods of the D-Bus interface, in its order         *)
  TakeArguments, (* those with arguments                                     *)
  MaxEvents      (* bound: signals                                           *)

(* head counts the units of the netstring with the headers, params says    *)
(* whether the body can be parsed.                                         *)
WebRequest == [path : STRING, method : STRING, head : Nat, body : Nat,
               netstring : BOOLEAN, params : BOOLEAN]

ASSUME ScgiAssumption ==
  /\ \A c \in Connections : WebRequests[c] \subseteq WebRequest
  /\ {RxSize, TxSize, MaxBody, EventSize, HeaderSize, ExtraSize} \subseteq Nat \ {0}
  /\ HeaderSize <= TxSize
  /\ TakeArguments \subseteq {Methods[i] : i \in 1 .. Len(Methods)}

VARIABLES
  conn,      (* the connections                                              *)
  arrived,   (* history: what each client has received                       *)
  events     (* signals so far                                               *)

scgiVars == <<conn, arrived, events>>

NoConnection == [state |-> "none"]

ScgiInit ==
  /\ conn = [c \in Connections |-> NoConnection]
  /\ arrived = [c \in Connections |-> <<>>]
  /\ events = 0

(* scgi_conn_destroy; the reason is for properties only.                   *)
Destroyed(r, reason) == [state |-> "destroyed", request |-> r.request, reason |-> reason,
                         status |-> r.status, called |-> r.called, extralen |-> r.extralen]

Units(name, n) == [i \in 1 .. n |-> <<name, i>>]

-----------------------------------------------------------------------------
(* Routing and the handlers. *)

(* Patterns are searched for anywhere in the path, in the order in which   *)
(* they were registered.  The code does not tell capitals from small       *)
(* letters; the paths here have none.                                      *)
Contains(path, text) ==
  \E i \in 1 .. Len(path) - Len(text) + 1 : SubSeq(path, i, i + Len(text) - 1) = text

EndsWith(path, text) ==
  Len(path) >= Len(text) /\ SubSeq(path, Len(path) - Len(text) + 1, Len(path)) = text

Routes ==
  <<[text |-> "subscribe", handler |-> "subscribe"],
    [text |-> "describe", handler |-> "describe"],
    [text |-> "p/", handler |-> "property"],
    [text |-> "p", handler |-> "group"]>>
  \o [i \in 1 .. Len(Methods) |->
       [text |-> Methods[i],
        handler |-> IF Methods[i] \in TakeArguments THEN "args" ELSE "void"]]

Matches(i, path) ==
  IF Routes[i].handler = "group" THEN EndsWith(path, "p") ELSE Contains(path, Routes[i].text)

Route(path) ==
  LET fits == {i \in 1 .. Len(Routes) : Matches(i, path)}
  IN IF fits = {} THEN "none"
     ELSE Routes[CHOOSE i \in fits : \A j \in fits : i <= j].handler

(* How a D-Bus error is told to the client.                                *)
scgi_error_handler == {400, 404, 503, 504, 500}

Result(status, extra, called) == [status |-> status, extra |-> extra, called |-> called]

(* A D-Bus call that succeeds renders its reply, one that fails is told.   *)
Called(method, errors) ==
  {Result(200, ExtraSize, method)} \cup {Result(status, 0, method) : status \in errors}

scgi_subscribe(request) ==
  {Result(IF request.method = "GET" THEN 200 ELSE 405, 0, "")}

scgi_describe(request) == Called("availableKeys", {500})

scgi_property(request) ==
  IF request.method = "GET" THEN Called("get", {500}) ELSE {Result(405, 0, "")}

scgi_property_group(request) ==
  IF request.method = "GET" THEN Called("get", scgi_error_handler)
  ELSE IF request.method # "POST" THEN {Result(405, 0, "")}
  ELSE IF request.params THEN Called("set", scgi_error_handler)
  ELSE {Result(400, 0, "")}

scgi_call_void(request) == Called(request.path, scgi_error_handler)

scgi_call_args(request) ==
  IF request.params THEN Called(request.path, scgi_error_handler) ELSE {Result(400, 0, "")}

(* What a request can be answered, with the method called: D-Bus decides.  *)
Answers(request, handler) ==
  IF handler = "none" THEN {Result(404, 0, "")}
  ELSE IF request.method = "OPTIONS" THEN {Result(200, 0, "")}
  ELSE CASE handler = "subscribe" -> scgi_subscribe(request)
         [] handler = "describe" -> scgi_describe(request)
         [] handler = "property" -> scgi_property(request)
         [] handler = "group" -> scgi_property_group(request)
         [] handler = "args" -> scgi_call_args(request)
         [] OTHER -> scgi_call_void(request)

Subscribes(r, answer) ==
  r.route = "subscribe" /\ r.request.method = "GET" /\ answer.status = 200

-----------------------------------------------------------------------------
(* Reading. *)

(* scgi_accept.  The route is looked up once, the path does not change.    *)
Incoming(c, request) ==
  /\ conn[c] = NoConnection
  /\ conn' = [conn EXCEPT ![c] =
       [state |-> "NEW", request |-> request, route |-> Route(request.path),
        reading |-> TRUE, writing |-> 0, gone |-> FALSE,
        rxlen |-> 0, bodylen |-> 0, tx |-> <<>>, extra |-> <<>>, status |-> 0, called |-> "",
        extralen |-> 0]]
  /\ UNCHANGED <<arrived, events>>

Unread(r) == r.request.head + r.request.body - r.rxlen - r.bodylen

Room(r) == IF r.state = "BODY" THEN r.request.body - r.bodylen ELSE RxSize - r.rxlen

(* A buffer that is full destroys the connection: the error that was       *)
(* written into its transmit buffer is never sent.                         *)
scgi_want_more(r) ==
  IF Room(r) <= 0 THEN Destroyed(r, "full") ELSE [r EXCEPT !.reading = TRUE]

(* scgi_send_more, when no write is pending.                               *)
scgi_send_more(r) ==
  IF r.state \in {"RESPONSE", "SUBSCRIBE"} /\ r.tx # <<>>
  THEN [r EXCEPT !.writing = IF @ = 0 THEN Len(r.tx) ELSE @]
  ELSE IF r.state \in {"RESPONSE", "EXTRA"}
  THEN [r EXCEPT !.state = "EXTRA", !.writing = IF @ = 0 THEN Len(r.extra) ELSE @]
  ELSE r

Responding(r, answer) ==
  [r EXCEPT !.state = IF Subscribes(r, answer) THEN "SUBSCRIBE" ELSE "RESPONSE",
            !.tx = Units("head", HeaderSize), !.extra = Units("extra", answer.extra),
            !.status = answer.status, !.called = answer.called, !.extralen = answer.extra]

TooLarge(r) == scgi_send_more(Responding(r, Result(413, 0, "")))

(* scgi_process_data and the write it leads to; the handler may answer in  *)
(* several ways.  bodylen counts what follows the headers.                 *)
ProcessBody(r) ==
  IF r.bodylen < r.request.body THEN {scgi_want_more(r)}
  ELSE {scgi_send_more(answered) : answered \in
          {Responding(r, answer) : answer \in Answers(r.request, r.route)}}

ProcessHeaders(r) ==
  IF r.rxlen < r.request.head THEN {scgi_want_more(r)}
  ELSE IF r.request.body >= RxSize - r.request.head /\ r.request.body >= MaxBody
  THEN {TooLarge(r)}
  ELSE UNION {ProcessBody(body) : body \in
         {[r EXCEPT !.state = "BODY", !.bodylen = r.rxlen - r.request.head,
                    !.rxlen = r.request.head]}}

scgi_process_data(r) ==
  CASE r.state = "NEW" /\ r.rxlen = 0 -> {scgi_want_more(r)}
    [] r.state = "NEW" /\ r.rxlen > 0 ->
         IF r.request.netstring THEN ProcessHeaders([r EXCEPT !.state = "HEADERS"])
         ELSE {Destroyed(r, "invalid")}
    [] r.state = "HEADERS" -> ProcessHeaders(r)
    [] r.state = "BODY" -> ProcessBody(r)

(* scgi_data_ready.  A read that ends without data, because the client has *)
(* gone, is no error: the connection reads on.                             *)
Received(r, n) ==
  LET more == [r EXCEPT !.reading = FALSE]
  IN IF r.state = "BODY" THEN [more EXCEPT !.bodylen = @ + n] ELSE [more EXCEPT !.rxlen = @ + n]

Live(c) == conn[c].state \notin {"none", "destroyed"}

DataReady(c) ==
  /\ Live(c) /\ conn[c].reading
  /\ \E n \in 0 .. Room(conn[c]) :
       /\ n <= Unread(conn[c])
       /\ n = 0 => conn[c].gone
       /\ \E received \in {Received(conn[c], n)} :
            \E r \in scgi_process_data(received) : conn' = [conn EXCEPT ![c] = r]
  /\ UNCHANGED <<arrived, events>>

ReadFails(c) ==
  /\ Live(c) /\ conn[c].reading
  /\ conn[c].gone
  /\ conn' = [conn EXCEPT ![c] = Destroyed(conn[c], "error")]
  /\ UNCHANGED <<arrived, events>>

-----------------------------------------------------------------------------
(* Writing. *)

(* Bug variant: what was not written is not sent again.                    *)
SentPartly(r, n) ==
  IF r.state = "SUBSCRIBE"
  THEN scgi_send_more([r EXCEPT !.writing = 0, !.tx = <<>>])
  ELSE IF r.state = "EXTRA" THEN Destroyed(r, "done")
  ELSE scgi_send_more([r EXCEPT !.writing = 0, !.tx = <<>>])

(* Bug variant: what came during a write is left for the next event.       *)
SentOnly(r, n) ==
  IF r.state = "SUBSCRIBE" THEN [r EXCEPT !.writing = 0, !.tx = SubSeq(@, n + 1, Len(@))]
  ELSE LET rest == IF r.state = "EXTRA"
                   THEN scgi_send_more([r EXCEPT !.writing = 0, !.extra = SubSeq(@, n + 1, Len(@))])
                   ELSE scgi_send_more([r EXCEPT !.writing = 0, !.tx = SubSeq(@, n + 1, Len(@))])
       IN IF rest.writing = 0 THEN Destroyed(rest, "done") ELSE rest

(* Bug variant: a connection is not closed after the extra data.           *)
SentLeftOpen(r, n) ==
  IF r.state = "EXTRA"
  THEN scgi_send_more([r EXCEPT !.writing = 0, !.extra = SubSeq(@, n + 1, Len(@))])
  ELSE scgi_send_more([r EXCEPT !.writing = 0, !.tx = SubSeq(@, n + 1, Len(@))])

(* scgi_send_done after n units: the rest, what came since, or the end.    *)
SentUnits(r, n) ==
  LET rest == IF r.state = "EXTRA"
              THEN scgi_send_more([r EXCEPT !.writing = 0, !.extra = SubSeq(@, n + 1, Len(@))])
              ELSE scgi_send_more([r EXCEPT !.writing = 0, !.tx = SubSeq(@, n + 1, Len(@))])
  IN IF rest.state # "SUBSCRIBE" /\ rest.writing = 0 THEN Destroyed(rest, "done") ELSE rest

SendDone(c) ==
  /\ Live(c) /\ conn[c].writing > 0
  /\ \E n \in 1 .. conn[c].writing :
       /\ arrived' = [arrived EXCEPT ![c] =
            @ \o SubSeq(IF conn[c].state = "EXTRA" THEN conn[c].extra ELSE conn[c].tx, 1, n)]
       /\ conn' = [conn EXCEPT ![c] = SentUnits(conn[c], n)]
  /\ UNCHANGED events

SendFails(c) ==
  /\ Live(c) /\ conn[c].writing > 0
  /\ conn[c].gone
  /\ conn' = [conn EXCEPT ![c] = Destroyed(conn[c], "error")]
  /\ UNCHANGED <<arrived, events>>

(* scgi_write_payload: an event that does not fit is dropped.              *)
scgi_write_payload(r, event) ==
  IF Len(r.tx) + Len(event) <= TxSize THEN [r EXCEPT !.tx = @ \o event] ELSE r

(* scgi_signal_handler: the event goes to every subscriber.                *)
scgi_signal_handler ==
  /\ events < MaxEvents
  /\ events' = events + 1
  /\ conn' = [c \in Connections |->
       IF conn[c].state # "SUBSCRIBE" THEN conn[c]
       ELSE scgi_send_more(scgi_write_payload(conn[c], Units(events', EventSize)))]
  /\ UNCHANGED arrived

(* The client closes the connection.                                       *)
ClientLeaves(c) ==
  /\ Live(c) /\ ~conn[c].gone
  /\ conn' = [conn EXCEPT ![c].gone = TRUE]
  /\ UNCHANGED <<arrived, events>>

ScgiNext ==
  \/ \E c \in Connections :
       \/ DataReady(c) \/ ReadFails(c) \/ SendDone(c) \/ SendFails(c) \/ ClientLeaves(c)
       \/ \E request \in WebRequests[c] : Incoming(c, request)
  \/ scgi_signal_handler

ScgiSpec == ScgiInit /\ [][ScgiNext]_scgiVars

(* GLib completes what was started, and clients send what they announced.  *)
ScgiFairness ==
  \A c \in Connections : WF_scgiVars(DataReady(c) \/ SendDone(c))

-----------------------------------------------------------------------------
(* Properties. *)

(* Every connection that is not destroyed waits for exactly one operation, *)
(* unless it is a subscriber with nothing to send: none is forgotten, and  *)
(* none has an operation that could end after it was freed                 *)
(* (scgi.c:36-145, 299-335).                                               *)
NeverForgotten ==
  \A c \in Connections : Live(c) =>
    LET pending == (IF conn[c].reading THEN 1 ELSE 0) + (IF conn[c].writing > 0 THEN 1 ELSE 0)
    IN pending = IF conn[c].state = "SUBSCRIBE" /\ conn[c].tx = <<>> THEN 0 ELSE 1

(* Headers, then whole events, each later than the one before.             *)
EventStream(units) ==
  LET from == HeaderSize + 1
      number(i) == units[i][1]
      part(i) == ((i - from) % EventSize) + 1
  IN /\ SubSeq(units, 1, HeaderSize) = Units("head", HeaderSize)
     /\ (Len(units) - HeaderSize) % EventSize = 0
     /\ \A i \in from .. Len(units) :
          /\ units[i][2] = part(i)
          /\ i > from => IF part(i) = 1 THEN number(i - 1) < number(i) ELSE number(i - 1) = number(i)

(* However writes are split and whatever is dropped when a client is slow, *)
(* a response arrives in order and whole, and a subscriber receives whole  *)
(* events in the order of the signals (scgi.c:121-145, 443-459).           *)
StreamIntact ==
  \A c \in Connections :
    /\ Live(c) /\ conn[c].state \in {"RESPONSE", "EXTRA"} =>
         arrived[c] \o conn[c].tx \o conn[c].extra =
           Units("head", HeaderSize) \o Units("extra", conn[c].extralen)
    /\ conn[c].state = "destroyed" /\ conn[c].reason = "done" =>
         arrived[c] = Units("head", HeaderSize) \o Units("extra", conn[c].extralen)
    /\ conn[c].state = "SUBSCRIBE" =>
         EventStream(arrived[c] \o conn[c].tx)

(* A client that stays until it is served is served: its connection ends   *)
(* or becomes a subscription (scgi.c:147-335).                             *)
RequestServed ==
  \A c \in Connections : Live(c) ~> \/ ~Live(c) \/ conn[c].state = "SUBSCRIBE" \/ conn[c].gone

(* A request for a method of the D-Bus interface calls that method, with   *)
(* arguments if and only if it takes any.  The usage text: "With the       *)
(* PATH_INFO CGI variable used as the D-Bus method name." (main.c:326-327).*)
RouteNamesMethod ==
  \A c \in Connections :
    conn[c].state # "none" /\ conn[c].called # ""
      /\ conn[c].request.path \in {Methods[i] : i \in 1 .. Len(Methods)} =>
         conn[c].called = conn[c].request.path
=============================================================================
