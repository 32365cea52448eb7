----------------------------- MODULE RtspSession -----------------------------
(***************************************************************************)
(* The one session of the RTSP server, and the sink that streams to it.    *)
(* The server's thread changes the session and tells the pipeline through  *)
(* a hook; the main thread builds and releases the pipeline, reads the     *)
(* session into each new sink, and sets and clears the hook.  There is no  *)
(* lock between the two (rtsp-server.c, rtsp-methods.c, h264.c:150-192,    *)
(* cam-pipeline.c:949).                                                    *)
(***************************************************************************)
EXTENDS Integers

CONSTANTS
  Hosts,       (* where clients may want the stream *)
  Sids,        (* what rand() may return            *)
  MaxBuilds    (* bound: pipelines built            *)

ASSUME SessionAssumption == Hosts # {} /\ MaxBuilds \in Nat

VARIABLES
  session,     (* the session: state, destination, identifier, not yet expired *)
  run,         (* the server's thread: which step of running the hook          *)
  hook,        (* the hook is set                                              *)
  closure,     (* its argument: the pipeline whose sink it is, 0 for NULL      *)
  sink,        (* how often the sink of the pipeline sends to each host        *)
  main,        (* the main thread: which step of building and releasing        *)
  builds,      (* pipelines so far                                             *)
  copy,        (* the main thread's copy of the session                        *)
  raced,       (* history: the session changed while the hook was being set    *)
  died         (* why the process died                                         *)

serverVars == <<session, run>>
mainVars == <<hook, closure, main, builds, copy>>
sessionVars == <<serverVars, mainVars, sink, raced, died>>

NoSession == [state |-> "TEARDOWN", dest |-> CHOOSE h \in Hosts : TRUE, sid |-> 0, fresh |-> FALSE]

SessionRecord ==
  [state : {"TEARDOWN", "SETUP", "PLAY"}, dest : Hosts, sid : Sids \cup {0}, fresh : BOOLEAN]

NewSession(host, sid) == [state |-> "SETUP", dest |-> host, sid |-> sid, fresh |-> TRUE]

Nowhere == [h \in Hosts |-> 0]

Idle == [pc |-> "idle", next |-> NoSession, closure |-> 0]

SessionInit ==
  /\ session = NoSession
  /\ run = Idle
  /\ hook = FALSE /\ closure = 0
  /\ sink = Nowhere
  /\ main = "down" /\ builds = 0 /\ copy = NoSession
  /\ raced = FALSE
  /\ died = "no"

Serving == died = "no" /\ run.pc = "idle"

-----------------------------------------------------------------------------
(* The server's thread. *)

Setting == main \in {"read", "added", "hooked"}

(* The session becomes s and the hook is to be told; then another session  *)
(* may have to be started.                                                 *)
Change(s, next) ==
  /\ session' = s
  /\ run' = [pc |-> "test", next |-> next, closure |-> 0]
  /\ raced' = (raced \/ Setting)

Unchanged == UNCHANGED <<session, run, raced>>

(* Bug variant: the new session takes the place of one in progress.        *)
SessionNewOver(host, sid) == Change(NewSession(host, sid), NoSession)

(* rtsp_session_new and the hook its caller runs; a session in progress,   *)
(* whosever it is, is torn down first.                                     *)
SessionNew(host, sid) ==
  IF session.state = "TEARDOWN" THEN Change(NewSession(host, sid), NoSession)
  ELSE Change([session EXCEPT !.state = "TEARDOWN"], NewSession(host, sid))

SessionMatch(sid) == session.sid = sid /\ session.state # "TEARDOWN"

(* A request of the session refreshes it and takes it to a state.          *)
Enter(sid, state) ==
  IF ~SessionMatch(sid) THEN Unchanged
  ELSE IF session.state = state
  THEN session' = [session EXCEPT !.fresh = TRUE] /\ UNCHANGED <<run, raced>>
  ELSE Change([session EXCEPT !.fresh = TRUE, !.state = state], NoSession)

Refresh(sid) ==
  IF SessionMatch(sid) THEN session' = [session EXCEPT !.fresh = TRUE] /\ UNCHANGED <<run, raced>>
  ELSE Unchanged

(* The session's time is over.                                             *)
TimePasses ==
  /\ died = "no" /\ session.state # "TEARDOWN" /\ session.fresh
  /\ session' = [session EXCEPT !.fresh = FALSE]
  /\ UNCHANGED <<run, mainVars, sink, raced, died>>

(* rtsp_session_timeout                                                    *)
SessionTimeout ==
  /\ Serving
  /\ session.state # "TEARDOWN" /\ ~session.fresh
  /\ Change([session EXCEPT !.state = "TEARDOWN"], NoSession)
  /\ UNCHANGED <<mainVars, sink, died>>

(* The time left is computed with seconds where nanoseconds are meant      *)
(* (line 460): select may be given a negative time, and the loop ends.     *)
SelectFails ==
  /\ Serving
  /\ session.state # "TEARDOWN" /\ session.fresh
  /\ run' = [run EXCEPT !.pc = "ended"]
  /\ UNCHANGED <<session, mainVars, sink, raced, died>>

(* The hook has returned, or there is none: a session that was waiting for *)
(* the old one to be torn down starts.                                     *)
Return ==
  IF run.next.state = "SETUP" THEN Change(run.next, NoSession)
  ELSE run' = Idle /\ UNCHANGED <<session, raced>>

(* rtsp_server_run_hook: the hook is tested, ...                           *)
TestHook ==
  /\ died = "no" /\ run.pc = "test"
  /\ IF hook THEN run' = [run EXCEPT !.pc = "call"] /\ UNCHANGED <<session, raced>> ELSE Return
  /\ UNCHANGED <<mainVars, sink, died>>

(* ... loaded again with its argument and called: the main thread may have *)
(* cleared it in between; ...                                              *)
CallHook ==
  /\ died = "no" /\ run.pc = "call"
  /\ IF hook THEN run' = [run EXCEPT !.pc = "emit", !.closure = closure] /\ died' = died
     ELSE died' = "no hook" /\ run' = run
  /\ UNCHANGED <<session, mainVars, sink, raced>>

(* ... and tells the sink (cam_network_sink_update).  A sink that was      *)
(* released is gone.                                                       *)
Updated(to) ==
  [sink EXCEPT ![to.dest] = IF to.state = "PLAY" THEN @ + 1 ELSE IF @ > 0 THEN @ - 1 ELSE 0]

Emit ==
  /\ died = "no" /\ run.pc = "emit"
  /\ \/ /\ run.closure = builds /\ main # "down"
        /\ sink' = Updated(session) /\ Return /\ died' = died
     \/ /\ run.closure # builds \/ main = "down"
        /\ sink' = sink /\ Return /\ died' = died
     \/ /\ run.closure # 0
        /\ run.closure # builds \/ main = "down"
        /\ died' = "no sink" /\ UNCHANGED <<session, run, raced, sink>>
  /\ UNCHANGED mainVars

-----------------------------------------------------------------------------
(* The main thread. *)

MainStep(from, to) == died = "no" /\ main = from /\ main' = to

(* cam_rtsp_sink: the sink, ...                                            *)
Build ==
  /\ MainStep("down", "built")
  /\ builds < MaxBuilds
  /\ builds' = builds + 1
  /\ sink' = Nowhere
  /\ raced' = FALSE
  /\ UNCHANGED <<serverVars, hook, closure, copy, died>>

(* ... rtsp_session_foreach, ...                                           *)
ReadSession ==
  /\ MainStep("built", "read")
  /\ copy' = session
  /\ raced' = (run.pc \notin {"idle", "ended"})
  /\ UNCHANGED <<serverVars, hook, closure, builds, sink, died>>

(* ... which adds the host of a session that plays, ...                    *)
AddHost ==
  /\ MainStep("read", "added")
  /\ sink' = IF copy.state = "PLAY" THEN [sink EXCEPT ![copy.dest] = @ + 1] ELSE sink
  /\ UNCHANGED <<serverVars, hook, closure, builds, copy, raced, died>>

(* ... and rtsp_server_set_hook, one field after the other.                *)
SetHook ==
  /\ MainStep("added", "hooked")
  /\ hook' = TRUE
  /\ UNCHANGED <<serverVars, closure, builds, copy, sink, raced, died>>

SetClosure ==
  /\ MainStep("hooked", "up")
  /\ closure' = builds
  /\ UNCHANGED <<serverVars, hook, builds, copy, sink, raced, died>>

(* The end of the pipeline: rtsp_server_clear_hook, and it is released.    *)
ClearHook ==
  /\ MainStep("up", "clearing")
  /\ hook' = FALSE
  /\ UNCHANGED <<serverVars, closure, builds, copy, sink, raced, died>>

ClearClosure ==
  /\ MainStep("clearing", "cleared")
  /\ closure' = 0
  /\ UNCHANGED <<serverVars, hook, builds, copy, sink, raced, died>>

Release ==
  /\ MainStep("cleared", "down")
  /\ UNCHANGED <<serverVars, hook, closure, builds, copy, sink, raced, died>>

MainThread ==
  Build \/ ReadSession \/ AddHost \/ SetHook \/ SetClosure \/ ClearHook \/ ClearClosure \/ Release

-----------------------------------------------------------------------------
(* The session under whatever clients ask for.                             *)
Asked ==
  /\ Serving
  /\ \/ \E host \in Hosts, sid \in Sids : SessionNew(host, sid)
     \/ \E sid \in Sids, state \in {"PLAY", "TEARDOWN"} : Enter(sid, state)
     \/ \E sid \in Sids : Refresh(sid)
  /\ UNCHANGED <<mainVars, sink, died>>

HookRun == TestHook \/ CallHook \/ Emit

SessionNext ==
  Asked \/ TimePasses \/ SessionTimeout \/ SelectFails \/ HookRun \/ MainThread

SessionSpec == SessionInit /\ [][SessionNext]_sessionVars

SessionTypeOK ==
  /\ session \in SessionRecord
  /\ run \in [pc : {"idle", "test", "call", "emit", "ended"}, next : SessionRecord,
              closure : 0 .. MaxBuilds]
  /\ hook \in BOOLEAN /\ closure \in 0 .. MaxBuilds
  /\ sink \in [Hosts -> Nat]
  /\ main \in {"down", "built", "read", "added", "hooked", "up", "clearing", "cleared"}
  /\ builds \in 0 .. MaxBuilds
  /\ copy \in SessionRecord
  /\ raced \in BOOLEAN
  /\ died \in {"no", "no hook", "no sink", "no body", "no ports"}

Streams == [h \in Hosts |-> IF session.state = "PLAY" /\ h = session.dest THEN 1 ELSE 0]

(* Unless the session changed while a pipeline set its hook, the pipeline  *)
(* streams once to the host of a session that plays and to nobody else,    *)
(* whoever took the session over, whenever it expired and however often    *)
(* the pipeline was rebuilt (rtsp-server.c:80-100, 441-468, 665-689,       *)
(* h264.c:150-187).                                                        *)
StreamFollowsSession ==
  died = "no" /\ main = "up" /\ ~raced /\ run.pc = "idle" => sink = Streams
=============================================================================
