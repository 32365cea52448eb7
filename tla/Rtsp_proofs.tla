----------------------------- MODULE Rtsp_proofs ------------------------------
(***************************************************************************)
(* For every set of hosts, clients and identifiers, any buffer and any     *)
(* number of pipelines: the sink of a pipeline streams to whom the session *)
(* says, although nothing locks the server's thread from the main thread,  *)
(* and a client that waits is answered as it asked, although nothing       *)
(* resets its buffer between requests.                                     *)
(*                                                                         *)
(* StreamFollowsSession speaks of a server at rest; what holds while the   *)
(* hook runs is that the sink still shows the session of before the change *)
(* (Told), and that a hook that was called is one of this pipeline         *)
(* (Closures).                                                             *)
(*                                                                         *)
(* AnswersFit speaks of the answers; what holds on the way to one is that  *)
(* the k-th request's lines stand at 3k - 2 .. 3k of the stream of lines   *)
(* received and to come (Written), and that the connection's state says    *)
(* how many of them it has parsed (ParsedTo).                              *)
(***************************************************************************)
EXTENDS RtspServer, SequenceTheorems, WellFoundedInduction, TLAPS

Settled == run.pc \in {"idle", "ended"}

(* An argument of the hook is never of a pipeline to come, and a pipeline  *)
(* that is being built is nobody's argument yet.                           *)
Closures ==
  /\ closure <= builds /\ run.closure <= builds
  /\ main \notin {"up", "clearing"} => closure = 0
  /\ main = "built" => run.closure < builds /\ sink = Nowhere

(* Only a session that is being torn down has another waiting for it.      *)
Waiting == ~Settled /\ run.next.state = "SETUP" => session.state = "TEARDOWN"

(* What the sink shows while the hook has still to tell it.                *)
Told ==
  /\ session.state # "TEARDOWN" => sink = Nowhere
  /\ session.state = "TEARDOWN" =>
       sink[session.dest] <= 1 /\ \A h \in Hosts \ {session.dest} : sink[h] = 0

Shown ==
  died = "no" /\ ~raced =>
    /\ main = "read" =>
         Settled /\ copy.state = session.state /\ copy.dest = session.dest /\ sink = Nowhere
    /\ main \in {"added", "hooked"} => Settled /\ sink = Streams
    /\ main \in {"hooked", "up"} => hook
    /\ main = "up" =>
         /\ closure = builds
         /\ Settled => sink = Streams
         /\ ~Settled => Told
         /\ run.pc = "emit" => run.closure = builds

SessionInv == SessionTypeOK /\ Closures /\ Waiting /\ Shown

-----------------------------------------------------------------------------
(* The parts. *)

LEMMA RestTypes == NoSession \in SessionRecord /\ Idle.closure = 0 /\ Nowhere \in [Hosts -> Nat]
  BY SessionAssumption DEF NoSession, SessionRecord, Idle, Nowhere

LEMMA SessionInitInv == SessionInit => SessionInv
<1> SUFFICES ASSUME SessionInit PROVE SessionInv
  OBVIOUS
<1>1. Idle \in [pc : {"idle", "test", "call", "emit", "ended"}, next : SessionRecord,
               closure : 0 .. MaxBuilds]
  BY SessionAssumption, RestTypes DEF Idle
<1>2. SessionTypeOK
  BY <1>1, SessionAssumption, RestTypes DEF SessionInit, SessionTypeOK
<1>3. Closures /\ Waiting /\ Shown
  BY DEF SessionInit, Closures, Waiting, Shown, Settled, Idle
<1> QED BY <1>2, <1>3 DEF SessionInv

(* A change of the session begins from a session at rest, or from one that *)
(* was torn down; when main waits for nothing, the sink still shows it.    *)
LEMMA ChangeInv ==
  ASSUME SessionInv, NEW s \in SessionRecord, NEW next \in SessionRecord,
         Change(s, next), UNCHANGED <<mainVars, sink, died>>,
         next.state = "SETUP" => s.state = "TEARDOWN",
         died = "no" /\ ~raced /\ main = "up" =>
           /\ s.state # "TEARDOWN" => sink = Nowhere
           /\ s.state = "TEARDOWN" =>
                sink[s.dest] <= 1 /\ \A h \in Hosts \ {s.dest} : sink[h] = 0
  PROVE  SessionInv'
<1>1. /\ session' = s
      /\ run' = [pc |-> "test", next |-> next, closure |-> 0]
      /\ raced' = (raced \/ Setting)
      /\ hook' = hook /\ closure' = closure /\ main' = main /\ builds' = builds /\ copy' = copy
      /\ sink' = sink /\ died' = died
  BY DEF Change, mainVars
<1>2. SessionTypeOK'
  <2>1. raced' \in BOOLEAN
    BY <1>1
  <2>2. run' \in [pc : {"idle", "test", "call", "emit", "ended"}, next : SessionRecord,
                  closure : 0 .. MaxBuilds]
    BY <1>1, SessionAssumption
  <2> QED BY <1>1, <2>1, <2>2 DEF SessionInv, SessionTypeOK
<1>3. Closures'
  <2>1. builds \in Nat /\ run.closure \in Nat
    <3>1. builds \in 0 .. MaxBuilds /\ run.closure \in 0 .. MaxBuilds
      BY DEF SessionInv, SessionTypeOK
    <3> QED BY <3>1, SessionAssumption
  <2>2. run'.closure = 0
    BY <1>1
  <2> QED BY <1>1, <2>1, <2>2 DEF SessionInv, Closures
<1>4. Waiting'
  BY <1>1 DEF Waiting
<1>5. Shown'
  BY <1>1 DEF SessionInv, Shown, Settled, Told, Setting
<1> QED BY <1>2, <1>3, <1>4, <1>5 DEF SessionInv

(* The session is only refreshed, or grows old.                            *)
LEMMA FreshInv ==
  ASSUME SessionInv, NEW fresh \in BOOLEAN, session' = [session EXCEPT !.fresh = fresh],
         UNCHANGED <<run, raced, mainVars, sink, died>>
  PROVE  SessionInv'
<1>1. /\ session' \in SessionRecord
      /\ session'.state = session.state /\ session'.dest = session.dest
  BY DEF SessionInv, SessionTypeOK, SessionRecord
<1>2. /\ run' = run /\ raced' = raced /\ sink' = sink /\ died' = died
      /\ hook' = hook /\ closure' = closure /\ main' = main /\ builds' = builds /\ copy' = copy
  BY DEF mainVars
<1>3. Streams' = Streams
  BY <1>1 DEF Streams
<1>4. SessionTypeOK'
  BY <1>1, <1>2 DEF SessionInv, SessionTypeOK
<1>5. Closures' /\ Waiting' /\ Shown'
  BY <1>1, <1>2, <1>3 DEF SessionInv, Closures, Waiting, Shown, Settled, Told
<1> QED BY <1>4, <1>5 DEF SessionInv

LEMMA SameInv ==
  ASSUME SessionInv, UNCHANGED sessionVars
  PROVE  SessionInv'
<1>1. /\ session' = session /\ run' = run /\ raced' = raced /\ sink' = sink /\ died' = died
      /\ hook' = hook /\ closure' = closure /\ main' = main /\ builds' = builds /\ copy' = copy
  BY DEF sessionVars, serverVars, mainVars
<1>2. SessionTypeOK'
  BY <1>1 DEF SessionInv, SessionTypeOK
<1>3. Closures' /\ Waiting'
  BY <1>1 DEF SessionInv, Closures, Waiting, Settled
<1>4. Shown'
  BY <1>1 DEF SessionInv, Shown, Settled, Told, Streams
<1> QED BY <1>2, <1>3, <1>4 DEF SessionInv

-----------------------------------------------------------------------------
(* The server's thread. *)

(* At rest, what the sink shows is what it may show before any change of   *)
(* the session that a request can make.                                    *)
LEMMA AtRest ==
  ASSUME SessionInv, Settled, died = "no", ~raced, main = "up"
  PROVE  /\ session.state # "PLAY" => sink = Nowhere
         /\ sink[session.dest] <= 1 /\ \A h \in Hosts \ {session.dest} : sink[h] = 0
<1>1. sink = Streams /\ session.dest \in Hosts
  BY DEF SessionInv, SessionTypeOK, SessionRecord, Shown
<1> QED BY <1>1 DEF Streams, Nowhere

LEMMA SessionNewInv ==
  ASSUME SessionInv, Serving, NEW host \in Hosts, NEW sid \in Sids,
         SessionNew(host, sid), UNCHANGED <<mainVars, sink, died>>
  PROVE  SessionInv'
<1>1. NewSession(host, sid) \in SessionRecord /\ NewSession(host, sid).state = "SETUP"
  BY DEF NewSession, SessionRecord
<1>2. NoSession \in SessionRecord /\ NoSession.state = "TEARDOWN"
  BY RestTypes DEF NoSession
<1>3. Settled /\ died = "no"
  BY DEF Serving, Settled
<1>4. CASE session.state = "TEARDOWN"
  <2>1. Change(NewSession(host, sid), NoSession)
    BY <1>4 DEF SessionNew
  <2> QED BY <1>1, <1>2, <1>3, <1>4, <2>1, AtRest, ChangeInv
<1>5. CASE session.state # "TEARDOWN"
  <2> DEFINE s == [session EXCEPT !.state = "TEARDOWN"]
  <2>1. Change(s, NewSession(host, sid))
    BY <1>5 DEF SessionNew
  <2>2. s \in SessionRecord /\ s.state = "TEARDOWN" /\ s.dest = session.dest
    BY DEF SessionInv, SessionTypeOK, SessionRecord
  <2> HIDE DEF s
  <2> QED BY <1>1, <1>3, <2>1, <2>2, AtRest, ChangeInv
<1> QED BY <1>4, <1>5

LEMMA EnterInv ==
  ASSUME SessionInv, Serving, NEW sid, NEW state \in {"PLAY", "TEARDOWN"},
         Enter(sid, state), UNCHANGED <<mainVars, sink, died>>
  PROVE  SessionInv'
<1> DEFINE s == [session EXCEPT !.fresh = TRUE, !.state = state]
<1>1. CASE ~SessionMatch(sid)
  BY <1>1, SameInv DEF Enter, Unchanged, sessionVars, serverVars
<1>2. CASE SessionMatch(sid) /\ session.state = state
  BY <1>2, FreshInv DEF Enter
<1>3. CASE SessionMatch(sid) /\ session.state # state
  <2>1. Change(s, NoSession)
    BY <1>3 DEF Enter
  <2>2. s \in SessionRecord /\ s.state = state /\ s.dest = session.dest
    BY DEF SessionInv, SessionTypeOK, SessionRecord
  <2>3. NoSession \in SessionRecord /\ NoSession.state = "TEARDOWN"
    BY RestTypes DEF NoSession
  <2>4. Settled /\ died = "no"
    BY DEF Serving, Settled
  <2> HIDE DEF s
  <2> QED BY <1>3, <2>1, <2>2, <2>3, <2>4, AtRest, ChangeInv
<1> QED BY <1>1, <1>2, <1>3

LEMMA SessionTimeoutInv ==
  ASSUME SessionInv, SessionTimeout
  PROVE  SessionInv'
<1> DEFINE s == [session EXCEPT !.state = "TEARDOWN"]
<1>1. Change(s, NoSession) /\ UNCHANGED <<mainVars, sink, died>>
  BY DEF SessionTimeout
<1>2. s \in SessionRecord /\ s.state = "TEARDOWN" /\ s.dest = session.dest
  BY DEF SessionInv, SessionTypeOK, SessionRecord
<1>3. NoSession \in SessionRecord /\ NoSession.state = "TEARDOWN"
  BY RestTypes DEF NoSession
<1>4. Settled /\ died = "no"
  BY DEF SessionTimeout, Serving, Settled
<1> HIDE DEF s
<1> QED BY <1>1, <1>2, <1>3, <1>4, AtRest, ChangeInv

(* Only the step of the thread changes, from rest to its end.              *)
LEMMA SelectFailsInv ==
  ASSUME SessionInv, SelectFails
  PROVE  SessionInv'
<1>1. /\ run' = [run EXCEPT !.pc = "ended"]
      /\ Settled
      /\ UNCHANGED <<session, mainVars, sink, raced, died>>
  BY DEF SelectFails, Serving, Settled
<1>2. run'.pc = "ended" /\ run'.next = run.next /\ run'.closure = run.closure
  BY <1>1 DEF SessionInv, SessionTypeOK
<1>3. SessionTypeOK'
  BY <1>1 DEF SessionInv, SessionTypeOK, mainVars
<1>4. Closures' /\ Waiting' /\ Shown'
  BY <1>1, <1>2 DEF SessionInv, Closures, Waiting, Shown, Settled, Streams, mainVars
<1> QED BY <1>3, <1>4 DEF SessionInv

-----------------------------------------------------------------------------
(* The hook. *)

(* When the hook returns, the sink shows the session, and a session that   *)
(* waits may start.                                                        *)
LEMMA ReturnInv ==
  ASSUME SessionInv, ~Settled, sink' \in [Hosts -> Nat], Return, UNCHANGED <<mainVars, died>>,
         main = "built" => sink' = Nowhere,
         died = "no" /\ ~raced => main \notin {"read", "added", "hooked"},
         died = "no" /\ ~raced /\ main = "up" => sink' = Streams
  PROVE  SessionInv'
<1>1. /\ hook' = hook /\ closure' = closure /\ main' = main /\ builds' = builds /\ copy' = copy
      /\ died' = died
  BY DEF mainVars
<1>2. NoSession \in SessionRecord /\ NoSession.state = "TEARDOWN"
  BY RestTypes DEF NoSession
<1>3. builds \in Nat /\ run.closure \in Nat
  <2>1. builds \in 0 .. MaxBuilds /\ run.closure \in 0 .. MaxBuilds
    BY DEF SessionInv, SessionTypeOK
  <2> QED BY <2>1, SessionAssumption
<1>4. CASE run.next.state = "SETUP"
  <2>1. /\ session' = run.next
        /\ run' = [pc |-> "test", next |-> NoSession, closure |-> 0]
        /\ raced' = (raced \/ Setting)
    BY <1>4 DEF Return, Change
  <2>2. session.state = "TEARDOWN"
    BY <1>4 DEF SessionInv, Waiting
  <2>3. run'.closure = 0 /\ run'.next = NoSession /\ run'.pc = "test"
    BY <2>1
  <2>4. SessionTypeOK'
    <3>1. raced' \in BOOLEAN
      BY <2>1
    <3>2. run' \in [pc : {"idle", "test", "call", "emit", "ended"}, next : SessionRecord,
                    closure : 0 .. MaxBuilds]
      BY <1>2, <2>1, SessionAssumption
    <3>3. session' \in SessionRecord
      BY <2>1 DEF SessionInv, SessionTypeOK
    <3> QED BY <1>1, <3>1, <3>2, <3>3 DEF SessionInv, SessionTypeOK
  <2>5. Closures'
    BY <1>1, <1>3, <2>3 DEF SessionInv, Closures
  <2>6. Waiting'
    BY <1>2, <2>3 DEF Waiting
  <2>7. died = "no" /\ ~raced /\ main = "up" => sink' = Nowhere
    BY <2>2 DEF Streams, Nowhere
  <2>8. session'.state = "SETUP"
    BY <1>4, <2>1
  <2>9. Shown'
    BY <1>1, <2>1, <2>3, <2>7, <2>8 DEF SessionInv, Shown, Settled, Told, Setting
  <2> QED BY <2>4, <2>5, <2>6, <2>9 DEF SessionInv
<1>5. CASE run.next.state # "SETUP"
  <2>1. run' = Idle /\ session' = session /\ raced' = raced
    BY <1>5 DEF Return
  <2>2. run'.closure = 0 /\ run'.pc = "idle"
    BY <2>1 DEF Idle
  <2>3. Idle \in [pc : {"idle", "test", "call", "emit", "ended"}, next : SessionRecord,
                  closure : 0 .. MaxBuilds]
    BY SessionAssumption, RestTypes DEF Idle
  <2>4. SessionTypeOK'
    BY <1>1, <2>1, <2>3 DEF SessionInv, SessionTypeOK
  <2>5. Closures'
    BY <1>1, <1>3, <2>2 DEF SessionInv, Closures
  <2>6. Waiting'
    BY <2>2 DEF Waiting, Settled
  <2>7. Streams' = Streams
    BY <2>1 DEF Streams
  <2>8. Shown'
    BY <1>1, <2>1, <2>2, <2>7 DEF SessionInv, Shown, Settled
  <2> QED BY <2>4, <2>5, <2>6, <2>8 DEF SessionInv
<1> QED BY <1>4, <1>5

LEMMA TestHookInv ==
  ASSUME SessionInv, TestHook
  PROVE  SessionInv'
<1>1. run.pc = "test" /\ died = "no" /\ ~Settled /\ UNCHANGED <<mainVars, sink, died>>
  BY DEF TestHook, Settled
<1>2. CASE hook
  <2>1. run' = [run EXCEPT !.pc = "call"] /\ UNCHANGED <<session, raced>>
    BY <1>2 DEF TestHook
  <2>2. run'.pc = "call" /\ run'.next = run.next /\ run'.closure = run.closure
    BY <2>1 DEF SessionInv, SessionTypeOK
  <2>3. SessionTypeOK'
    BY <1>1, <2>1 DEF SessionInv, SessionTypeOK, mainVars
  <2>4. Closures' /\ Waiting'
    BY <1>1, <2>1, <2>2 DEF SessionInv, Closures, Waiting, Settled, mainVars
  <2>5. Shown'
    BY <1>1, <2>1, <2>2 DEF SessionInv, Shown, Settled, Told, mainVars
  <2> QED BY <2>3, <2>4, <2>5 DEF SessionInv
<1>3. CASE ~hook
  <2>1. Return
    BY <1>3 DEF TestHook
  <2>2. sink' = sink /\ sink \in [Hosts -> Nat]
    BY <1>1 DEF SessionInv, SessionTypeOK
  <2>3. died = "no" /\ ~raced => main \notin {"read", "added", "hooked", "up"}
    BY <1>1, <1>3 DEF SessionInv, Shown
  <2>4. main = "built" => sink' = Nowhere
    BY <2>2 DEF SessionInv, Closures
  <2> QED BY <1>1, <2>1, <2>2, <2>3, <2>4, ReturnInv
<1> QED BY <1>2, <1>3

LEMMA CallHookInv ==
  ASSUME SessionInv, CallHook
  PROVE  SessionInv'
<1>1. run.pc = "call" /\ died = "no" /\ ~Settled /\ UNCHANGED <<session, mainVars, sink, raced>>
  BY DEF CallHook, Settled
<1>2. CASE hook
  <2>1. run' = [run EXCEPT !.pc = "emit", !.closure = closure] /\ died' = died
    BY <1>2 DEF CallHook
  <2>2. run'.pc = "emit" /\ run'.next = run.next /\ run'.closure = closure
    BY <2>1 DEF SessionInv, SessionTypeOK
  <2>3. SessionTypeOK'
    BY <1>1, <2>1 DEF SessionInv, SessionTypeOK, mainVars
  <2>4. Closures'
    <3>1. builds \in Nat /\ run.closure \in Nat
      <4>1. builds \in 0 .. MaxBuilds /\ run.closure \in 0 .. MaxBuilds
        BY DEF SessionInv, SessionTypeOK
      <4> QED BY <4>1, SessionAssumption
    <3> QED BY <1>1, <2>2, <3>1 DEF SessionInv, Closures, mainVars
  <2>5. Waiting'
    BY <1>1, <2>2 DEF SessionInv, Waiting, Settled
  <2>6. Shown'
    BY <1>1, <2>1, <2>2 DEF SessionInv, Shown, Settled, Told, mainVars
  <2> QED BY <2>3, <2>4, <2>5, <2>6 DEF SessionInv
<1>3. CASE ~hook
  <2>1. died' = "no hook" /\ run' = run
    BY <1>3 DEF CallHook
  <2>2. SessionTypeOK'
    BY <1>1, <2>1 DEF SessionInv, SessionTypeOK, mainVars
  <2>3. Closures' /\ Waiting' /\ Shown'
    BY <1>1, <2>1 DEF SessionInv, Closures, Waiting, Shown, Settled, mainVars
  <2> QED BY <2>2, <2>3 DEF SessionInv
<1> QED BY <1>2, <1>3

LEMMA EmitInv ==
  ASSUME SessionInv, Emit
  PROVE  SessionInv'
<1>1. run.pc = "emit" /\ died = "no" /\ ~Settled /\ UNCHANGED mainVars
  BY DEF Emit, Settled
<1>2. /\ sink \in [Hosts -> Nat] /\ session.dest \in Hosts
      /\ closure \in Nat /\ builds \in Nat /\ run.closure \in Nat
  <2>1. builds \in 0 .. MaxBuilds /\ run.closure \in 0 .. MaxBuilds /\ closure \in 0 .. MaxBuilds
    BY DEF SessionInv, SessionTypeOK
  <2>2. sink \in [Hosts -> Nat] /\ session.dest \in Hosts
    BY DEF SessionInv, SessionTypeOK, SessionRecord
  <2> QED BY <2>1, <2>2, SessionAssumption
<1>3. ~raced => main \notin {"read", "added", "hooked"}
  BY <1>1 DEF SessionInv, Shown
<1>4. CASE run.closure = builds /\ main # "down" /\ sink' = Updated(session) /\ Return /\ died' = died
  <2>1. sink' \in [Hosts -> Nat]
    BY <1>2, <1>4 DEF Updated
  <2>2. main # "built"
    BY <1>2, <1>4 DEF SessionInv, Closures
  <2>3. ~raced /\ main = "up" => sink' = Streams
    <3> SUFFICES ASSUME ~raced, main = "up" PROVE sink' = Streams
      OBVIOUS
    <3>1. Told
      BY <1>1 DEF SessionInv, Shown
    <3>2. \A h \in Hosts : sink'[h] = Streams[h]
      BY <1>2, <1>4, <3>1 DEF Updated, Told, Streams, Nowhere
    <3>3. Streams \in [Hosts -> Nat]
      BY DEF Streams
    <3> QED BY <2>1, <3>2, <3>3
  <2> QED BY <1>1, <1>3, <1>4, <2>1, <2>2, <2>3, ReturnInv
<1>5. CASE (run.closure # builds \/ main = "down") /\ sink' = sink /\ Return /\ died' = died
  <2>1. ~raced => main # "up"
    BY <1>1, <1>5 DEF SessionInv, Shown
  <2>2. main = "built" => sink' = Nowhere
    BY <1>5 DEF SessionInv, Closures
  <2> QED BY <1>1, <1>2, <1>3, <1>5, <2>1, <2>2, ReturnInv
<1>6. CASE died' = "no sink" /\ UNCHANGED <<session, run, raced, sink>>
  <2>1. SessionTypeOK'
    BY <1>1, <1>6 DEF SessionInv, SessionTypeOK, mainVars
  <2>2. Closures' /\ Waiting' /\ Shown'
    BY <1>1, <1>6 DEF SessionInv, Closures, Waiting, Shown, Settled, mainVars
  <2> QED BY <2>1, <2>2 DEF SessionInv
<1> QED BY <1>4, <1>5, <1>6 DEF Emit

-----------------------------------------------------------------------------
(* The main thread. *)

LEMMA MainThreadInv ==
  ASSUME SessionInv, MainThread
  PROVE  SessionInv'
<1> USE DEF MainStep
<1>1. /\ session' = session /\ run' = run /\ died' = died /\ died = "no"
      /\ run' \in [pc : {"idle", "test", "call", "emit", "ended"}, next : SessionRecord,
                  closure : 0 .. MaxBuilds]
  BY DEF MainThread, Build, ReadSession, AddHost, SetHook, SetClosure, ClearHook, ClearClosure,
         Release, SessionInv, SessionTypeOK, serverVars
<1>2. Waiting'
  BY <1>1 DEF SessionInv, Waiting, Settled
<1>3. /\ sink \in [Hosts -> Nat] /\ session.dest \in Hosts /\ copy \in SessionRecord
      /\ copy.dest \in Hosts
      /\ closure \in Nat /\ builds \in Nat /\ run.closure \in Nat
  <2>1. builds \in 0 .. MaxBuilds /\ run.closure \in 0 .. MaxBuilds /\ closure \in 0 .. MaxBuilds
    BY DEF SessionInv, SessionTypeOK
  <2>2. sink \in [Hosts -> Nat] /\ copy \in SessionRecord /\ session.dest \in Hosts /\ copy.dest \in Hosts
    BY DEF SessionInv, SessionTypeOK, SessionRecord
  <2> QED BY <2>1, <2>2, SessionAssumption
<1>4. Streams' = Streams
  BY <1>1 DEF Streams
<1>5. CASE Build
  <2>1. /\ main' = "built" /\ builds' = builds + 1 /\ sink' = Nowhere /\ raced' = FALSE
        /\ builds < MaxBuilds /\ main = "down"
        /\ hook' = hook /\ closure' = closure /\ copy' = copy
    BY <1>5 DEF Build
  <2>2. SessionTypeOK'
    <3>1. builds' \in 0 .. MaxBuilds
      BY <1>3, <2>1, SessionAssumption
    <3> QED BY <1>1, <2>1, <3>1, RestTypes DEF SessionInv, SessionTypeOK
  <2>3. Closures'
    BY <1>1, <1>3, <2>1 DEF SessionInv, Closures
  <2>4. Shown'
    BY <2>1 DEF Shown
  <2> QED BY <1>2, <2>2, <2>3, <2>4 DEF SessionInv
<1>6. CASE ReadSession
  <2>1. /\ main' = "read" /\ copy' = session /\ raced' = (run.pc \notin {"idle", "ended"})
        /\ main = "built"
        /\ hook' = hook /\ closure' = closure /\ builds' = builds /\ sink' = sink
    BY <1>6 DEF ReadSession
  <2>2. SessionTypeOK'
    <3>1. raced' \in BOOLEAN
      BY <2>1
    <3> QED BY <1>1, <2>1, <3>1 DEF SessionInv, SessionTypeOK
  <2>3. Closures'
    BY <1>1, <2>1 DEF SessionInv, Closures
  <2>4. Shown'
    BY <1>1, <2>1 DEF SessionInv, Closures, Shown, Settled
  <2> QED BY <1>2, <2>2, <2>3, <2>4 DEF SessionInv
<1>7. CASE AddHost
  <2>1. /\ main' = "added" /\ main = "read"
        /\ sink' = IF copy.state = "PLAY" THEN [sink EXCEPT ![copy.dest] = @ + 1] ELSE sink
        /\ hook' = hook /\ closure' = closure /\ builds' = builds /\ raced' = raced /\ copy' = copy
    BY <1>7 DEF AddHost
  <2>2. SessionTypeOK'
    BY <1>1, <1>3, <2>1 DEF SessionInv, SessionTypeOK
  <2>3. Closures'
    BY <1>1, <2>1 DEF SessionInv, Closures
  <2>4. ~raced => Settled /\ sink' = Streams
    <3> SUFFICES ASSUME ~raced PROVE Settled /\ sink' = Streams
      OBVIOUS
    <3>1. Settled /\ copy.state = session.state /\ copy.dest = session.dest /\ sink = Nowhere
      BY <1>1, <2>1 DEF SessionInv, Shown
    <3> QED BY <1>3, <2>1, <3>1 DEF Streams, Nowhere
  <2>5. Shown'
    BY <1>1, <1>4, <2>1, <2>4 DEF Shown, Settled
  <2> QED BY <1>2, <2>2, <2>3, <2>5 DEF SessionInv
<1>8. CASE SetHook \/ SetClosure \/ ClearHook \/ ClearClosure \/ Release
  <2>1. sink' = sink /\ builds' = builds /\ raced' = raced /\ copy' = copy
    BY <1>8 DEF SetHook, SetClosure, ClearHook, ClearClosure, Release
  <2>2. SessionTypeOK'
    <3>1. closure' \in 0 .. MaxBuilds
      <4>1. closure' \in {closure, builds, 0}
        BY <1>8 DEF SetHook, SetClosure, ClearHook, ClearClosure, Release
      <4>2. closure \in 0 .. MaxBuilds /\ builds \in 0 .. MaxBuilds
        BY DEF SessionInv, SessionTypeOK
      <4> QED BY <4>1, <4>2, SessionAssumption
    <3>2. hook' \in BOOLEAN /\ main' \in {"up", "hooked", "clearing", "cleared", "down"}
      BY <1>8 DEF SessionInv, SessionTypeOK,
         SetHook, SetClosure, ClearHook, ClearClosure, Release
    <3> QED BY <1>1, <2>1, <3>1, <3>2 DEF SessionInv, SessionTypeOK
  <2>3. Closures'
    BY <1>1, <1>3, <1>8, <2>1 DEF SessionInv, Closures,
       SetHook, SetClosure, ClearHook, ClearClosure, Release
  <2>4. Shown'
    BY <1>1, <1>4, <1>8, <2>1 DEF SessionInv, Shown, Settled, Told,
       SetHook, SetClosure, ClearHook, ClearClosure, Release
  <2> QED BY <1>2, <2>2, <2>3, <2>4 DEF SessionInv
<1> QED BY <1>5, <1>6, <1>7, <1>8 DEF MainThread

-----------------------------------------------------------------------------
(* Every step. *)

LEMMA AskedInv ==
  ASSUME SessionInv, Asked
  PROVE  SessionInv'
<1>1. Serving /\ UNCHANGED <<mainVars, sink, died>>
  BY DEF Asked
<1>2. ASSUME NEW host \in Hosts, NEW sid \in Sids, SessionNew(host, sid)
      PROVE  SessionInv'
  BY <1>1, <1>2, SessionNewInv
<1>3. ASSUME NEW sid \in Sids, NEW state \in {"PLAY", "TEARDOWN"}, Enter(sid, state)
      PROVE  SessionInv'
  BY <1>1, <1>3, EnterInv
<1>4. ASSUME NEW sid \in Sids, Refresh(sid)
      PROVE  SessionInv'
  <2>1. CASE SessionMatch(sid)
    BY <1>1, <1>4, <2>1, FreshInv DEF Refresh
  <2>2. CASE ~SessionMatch(sid)
    BY <1>1, <1>4, <2>2, SameInv DEF Refresh, Unchanged, sessionVars, serverVars
  <2> QED BY <2>1, <2>2
<1> QED BY <1>2, <1>3, <1>4 DEF Asked

LEMMA SessionNextInv == SessionInv /\ [SessionNext]_sessionVars => SessionInv'
<1> SUFFICES ASSUME SessionInv, [SessionNext]_sessionVars
             PROVE  SessionInv'
  OBVIOUS
<1>1. CASE Asked
  BY <1>1, AskedInv
<1>2. CASE TimePasses
  BY <1>2, FreshInv DEF TimePasses
<1>3. CASE SessionTimeout
  BY <1>3, SessionTimeoutInv
<1>4. CASE SelectFails
  BY <1>4, SelectFailsInv
<1>5. CASE HookRun
  BY <1>5, TestHookInv, CallHookInv, EmitInv DEF HookRun
<1>6. CASE MainThread
  BY <1>6, MainThreadInv
<1>7. CASE UNCHANGED sessionVars
  BY <1>7, SameInv
<1> QED BY <1>1, <1>2, <1>3, <1>4, <1>5, <1>6, <1>7 DEF SessionNext

-----------------------------------------------------------------------------
(* The session and its threads have the types that the code gives them:    *)
(* in particular the count of a host in the sink never falls below zero    *)
(* (rtsp-server.c:80-119, h264.c:150-187).                                 *)
THEOREM SessionTypes == SessionSpec => []SessionTypeOK
<1>1. SessionInv => SessionTypeOK
  BY DEF SessionInv
<1> QED BY <1>1, SessionInitInv, SessionNextInv, PTL DEF SessionSpec

(* A pipeline that set its hook undisturbed streams once to the host of a  *)
(* session that plays and to nobody else (rtsp-server.c:665-689).          *)
THEOREM SessionStreams == SessionSpec => []StreamFollowsSession
<1>1. SessionInv => StreamFollowsSession
  BY DEF SessionInv, Shown, Settled, StreamFollowsSession
<1> QED BY <1>1, SessionInitInv, SessionNextInv, PTL DEF SessionSpec

-----------------------------------------------------------------------------
(* A client that waits for each answer (orderly), and its connection.      *)

Wanted == [method : STRING, body : Nat, ports : {"none", "range", "one"}, sid : Sids \cup {0}]

TextLine == [request : Nat, kind : {"request", "header", "empty", "body"}, length : Nat, whole : BOOLEAN]

Connection ==
  [state : {"START", "HEADER", "BODY", "ANSWER", "REPLY", "FINAL"}, rxbuffer : Seq(TextLine),
   rxoffset : Nat, contentlen : Nat, method : Nat, header : Nat,
   tx : Seq([status : Nat, sid : Sids \cup {0}])]

Fits(status, wish) ==
  status \in IF wish.method \notin Supported THEN {405, 413}
             ELSE IF wish.method = "SETUP" /\ wish.sid # 0 THEN {459, 413}
             ELSE {200, 413}

(* The lines received and those on their way, as one stream.               *)
Nth(buffer, coming, i) == IF i <= Len(buffer) THEN buffer[i] ELSE coming[i - Len(buffer)]

(* The lines of the k-th request in it, when those before have no body.    *)
Written(buffer, coming, k, body) ==
  /\ Nth(buffer, coming, 3 * k - 2).kind = "request" /\ Nth(buffer, coming, 3 * k - 2).request = k
  /\ Nth(buffer, coming, 3 * k - 1).kind = "header" /\ Nth(buffer, coming, 3 * k - 1).request = k
  /\ Nth(buffer, coming, 3 * k - 1).length = body
  /\ Nth(buffer, coming, 3 * k).kind = "empty"

(* A connection that has looked at m lines; the last request is the k-th.  *)
ParsedTo(r, m, k, body) ==
  /\ r.tx = <<>>
  /\ \/ m = 3 * k - 3 /\ r.state = "START" /\ r.rxoffset = m
     \/ /\ m = 3 * k - 2 /\ r.state = "HEADER" /\ r.rxoffset = m
        /\ r.method = 3 * k - 2 /\ ~r.rxbuffer[3 * k - 2].whole
        /\ r.header = 0 /\ r.contentlen = 0
     \/ /\ m >= 3 * k - 1
        /\ r.method = 3 * k - 2 /\ ~r.rxbuffer[3 * k - 2].whole
        /\ r.header = 3 * k - 1 /\ ~r.rxbuffer[3 * k - 1].whole
        /\ r.contentlen = body
        /\ m = 3 * k - 1 => r.state = "HEADER" /\ r.rxoffset = m
        /\ m >= 3 * k => r.rxoffset = 3 * k /\ r.state = IF body > 0 THEN "BODY" ELSE "ANSWER"

(* Parsing changes nothing of a line but whether it is whole.              *)
Alike(b, a) ==
  /\ b \in Seq(TextLine) /\ Len(b) = Len(a)
  /\ \A i \in 1 .. Len(a) : b[i].request = a[i].request /\ b[i].kind = a[i].kind /\ b[i].length = a[i].length

LEMMA CutUp ==
  ASSUME NEW b \in Seq(TextLine), NEW at \in 1 .. Len(b)
  PROVE  /\ Alike([b EXCEPT ![at].whole = FALSE], b)
         /\ ~[b EXCEPT ![at].whole = FALSE][at].whole
        /\ \A i \in 1 .. Len(b) : i # at => [b EXCEPT ![at].whole = FALSE][i] = b[i]
<1> DEFINE line == [b[at] EXCEPT !.whole = FALSE]
           c == [b EXCEPT ![at].whole = FALSE]
<1>1. b[at] \in TextLine
  BY ElementOfSeq
<1>2. /\ line \in TextLine /\ ~line.whole /\ line.request = b[at].request
      /\ line.kind = b[at].kind /\ line.length = b[at].length
  BY <1>1 DEF TextLine
<1>3. c = [b EXCEPT ![at] = line]
  OBVIOUS
<1> HIDE DEF line, c
<1>4. /\ c \in Seq(TextLine) /\ Len(c) = Len(b)
      /\ \A i \in 1 .. Len(b) : c[i] = IF i = at THEN line ELSE b[i]
  BY <1>2, <1>3, ExceptSeq
<1>5. Alike(c, b)
  BY <1>2, <1>4 DEF Alike
<1>6. ~c[at].whole /\ \A i \in 1 .. Len(b) : i # at => c[i] = b[i]
  BY <1>2, <1>4
<1> QED BY <1>5, <1>6 DEF c

LEMMA ParseLineMoves ==
  ASSUME NEW q \in Connection, NEW k \in Nat \ {0}, NEW body \in Nat, NEW m \in Nat,
         m < Len(q.rxbuffer), ParsedTo(q, m, k, body), NEW line \in TextLine,
         m + 1 = 3 * k - 2 => line.kind = "request",
         m + 1 = 3 * k - 1 => line.kind = "header" /\ line.length = body,
         m + 1 = 3 * k => line.kind = "empty"
  PROVE  /\ ParseLine(q, line) \in Connection
         /\ ParsedTo(ParseLine(q, line), m + 1, k, body)
         /\ Alike(ParseLine(q, line).rxbuffer, q.rxbuffer)
<1> DEFINE p == ParseLine(q, line)
           at == q.rxoffset + 1
           buffer == [q.rxbuffer EXCEPT ![at].whole = FALSE]
           next == [q EXCEPT !.rxoffset = at, !.rxbuffer[at].whole = FALSE]
<1>1. q.rxbuffer \in Seq(TextLine) /\ Len(q.rxbuffer) \in Nat /\ q.rxoffset \in Nat
  BY DEF Connection
<1>2. Alike(q.rxbuffer, q.rxbuffer)
  BY <1>1 DEF Alike
<1>3. CASE m >= 3 * k
  <2>1. q.state \in {"BODY", "ANSWER"}
    BY <1>3 DEF ParsedTo
  <2>2. p = q
    BY <2>1 DEF ParseLine
  <2>3. ParsedTo(q, m + 1, k, body)
    BY <1>3 DEF ParsedTo
  <2> QED BY <1>2, <2>2, <2>3
<1>4. CASE m < 3 * k
  <2>1. q.rxoffset = m /\ q.tx = <<>> /\ at \in 1 .. Len(q.rxbuffer) /\ at = m + 1
    BY <1>1, <1>4 DEF ParsedTo
  <2>2. /\ Alike(buffer, q.rxbuffer)
        /\ ~buffer[at].whole
        /\ \A i \in 1 .. Len(q.rxbuffer) : i # at => buffer[i] = q.rxbuffer[i]
    BY <1>1, <2>1, CutUp
  <2>3. buffer \in Seq(TextLine)
    BY <2>2 DEF Alike
  <2> HIDE DEF buffer
  <2>a. next = [q EXCEPT !.rxoffset = at, !.rxbuffer = buffer]
    BY DEF buffer
  <2>b. at \in Nat
    BY <2>1
  <2> HIDE DEF next, at
  <2>c. next \in Connection
    BY <2>3, <2>a, <2>b DEF Connection
  <2>4. /\ next.rxbuffer = buffer /\ next.rxoffset = m + 1 /\ next.tx = <<>>
        /\ next.state = q.state /\ next.method = q.method /\ next.header = q.header
        /\ next.contentlen = q.contentlen
    BY <2>1, <2>3, <2>a DEF Connection
  <2>5. CASE m = 3 * k - 3
    <3>1. q.state = "START" /\ line.kind = "request"
      BY <1>1, <2>5 DEF ParsedTo
    <3>2. p = [next EXCEPT !.state = "HEADER", !.contentlen = 0, !.header = 0, !.method = at]
      BY <3>1 DEF ParseLine, next, at
    <3> HIDE DEF p
    <3>3. p \in Connection /\ p.rxbuffer = buffer
      BY <2>1, <2>4, <2>b, <2>c, <3>2 DEF Connection
    <3>4. /\ p.tx = <<>> /\ p.state = "HEADER" /\ p.rxoffset = m + 1 /\ p.method = at /\ p.header = 0
          /\ p.contentlen = 0
      BY <2>4, <2>b, <2>c, <3>2 DEF Connection
    <3>5. m + 1 = 3 * k - 2 /\ ~buffer[3 * k - 2].whole
      BY <2>1, <2>2, <2>5
    <3>6. ParsedTo(p, m + 1, k, body)
      BY <2>1, <3>3, <3>4, <3>5 DEF ParsedTo
    <3> QED BY <2>2, <3>3, <3>6 DEF p
  <2>6. CASE m = 3 * k - 2
    <3>1. q.state = "HEADER" /\ line.kind = "header" /\ line.length = body /\ q.header = 0
          /\ q.method = 3 * k - 2 /\ ~q.rxbuffer[3 * k - 2].whole
      BY <1>1, <2>6 DEF ParsedTo
    <3>2. p = [next EXCEPT !.header = IF @ = 0 THEN at ELSE @, !.contentlen = line.length]
      BY <3>1 DEF ParseLine, next, at
    <3>3. /\ p.tx = <<>> /\ p.state = "HEADER" /\ p.rxoffset = m + 1 /\ p.method = 3 * k - 2
          /\ p.header = at /\ p.contentlen = body /\ p.rxbuffer = buffer
      BY <2>4, <2>b, <2>c, <3>1, <3>2 DEF Connection
    <3>4. p \in Connection
      BY <2>1, <2>4, <2>b, <2>c, <3>1, <3>2 DEF Connection
    <3> HIDE DEF p
    <3>5. m + 1 = 3 * k - 1 /\ ~buffer[3 * k - 2].whole /\ ~buffer[3 * k - 1].whole
      <4>1. 3 * k - 2 \in 1 .. Len(q.rxbuffer) /\ 3 * k - 1 = at
        BY <1>1, <2>1, <2>6
      <4> QED BY <2>1, <2>2, <3>1, <4>1
    <3>6. ParsedTo(p, m + 1, k, body)
      BY <2>1, <3>3, <3>5 DEF ParsedTo
    <3> QED BY <2>2, <3>3, <3>4, <3>6 DEF p
  <2>7. CASE m = 3 * k - 1
    <3>1. q.state = "HEADER" /\ line.kind = "empty" /\ q.contentlen = body
          /\ q.method = 3 * k - 2 /\ ~q.rxbuffer[3 * k - 2].whole
          /\ q.header = 3 * k - 1 /\ ~q.rxbuffer[3 * k - 1].whole
      BY <1>1, <2>7 DEF ParsedTo
    <3>2. p = [next EXCEPT !.state = IF q.contentlen > 0 THEN "BODY" ELSE "ANSWER"]
      BY <3>1 DEF ParseLine, next, at
    <3>3. /\ p.tx = <<>> /\ p.state = (IF body > 0 THEN "BODY" ELSE "ANSWER") /\ p.rxoffset = m + 1
          /\ p.method = 3 * k - 2 /\ p.header = 3 * k - 1 /\ p.contentlen = body /\ p.rxbuffer = buffer
      BY <2>4, <2>b, <2>c, <3>1, <3>2 DEF Connection
    <3>4. p \in Connection
      BY <2>1, <2>4, <2>b, <2>c, <3>1, <3>2 DEF Connection
    <3> HIDE DEF p
    <3>5. m + 1 = 3 * k /\ ~buffer[3 * k - 2].whole /\ ~buffer[3 * k - 1].whole
      <4>1. /\ 3 * k - 2 \in 1 .. Len(q.rxbuffer) /\ 3 * k - 2 # at
            /\ 3 * k - 1 \in 1 .. Len(q.rxbuffer) /\ 3 * k - 1 # at
        BY <1>1, <2>1, <2>7
      <4> QED BY <2>1, <2>2, <2>7, <3>1, <4>1
    <3>6. ParsedTo(p, m + 1, k, body)
      BY <2>1, <3>3, <3>5 DEF ParsedTo
    <3> QED BY <2>2, <3>3, <3>4, <3>6 DEF p
  <2>8. m = 3 * k - 3 \/ m = 3 * k - 2 \/ m = 3 * k - 1
    BY <1>4 DEF ParsedTo
  <2> QED BY <2>5, <2>6, <2>7, <2>8
<1> QED BY <1>3, <1>4

(* Receiving n of the lines on their way leaves the stream as it was.      *)
LEMMA StreamKept ==
  ASSUME NEW buffer \in Seq(TextLine), NEW coming \in Seq(TextLine), NEW n \in 0 .. Len(coming)
  PROVE  LET longer == buffer \o SubSeq(coming, 1, n)
             rest == SubSeq(coming, n + 1, Len(coming))
         IN /\ longer \in Seq(TextLine) /\ Len(longer) = Len(buffer) + n
            /\ rest \in Seq(TextLine) /\ Len(rest) = Len(coming) - n
            /\ \A i \in 1 .. Len(buffer) : longer[i] = buffer[i]
            /\ \A i \in 1 .. Len(buffer) + Len(coming) : Nth(longer, rest, i) = Nth(buffer, coming, i)
<1> DEFINE first == SubSeq(coming, 1, n)
           rest == SubSeq(coming, n + 1, Len(coming))
           longer == buffer \o first
<1>1. Len(buffer) \in Nat /\ Len(coming) \in Nat /\ \A i \in 1 .. Len(coming) : coming[i] \in TextLine
  OBVIOUS
<1>2. first \in Seq(TextLine) /\ Len(first) = n /\ \A i \in 1 .. n : first[i] = coming[i]
  BY <1>1, SubSeqProperties
<1>3. /\ rest \in Seq(TextLine) /\ Len(rest) = Len(coming) - n
      /\ \A i \in 1 .. Len(coming) - n : rest[i] = coming[n + i]
  BY <1>1, SubSeqProperties
<1> HIDE DEF first, rest
<1>4. /\ longer \in Seq(TextLine) /\ Len(longer) = Len(buffer) + n
      /\ \A i \in 1 .. Len(buffer) + n :
           longer[i] = IF i <= Len(buffer) THEN buffer[i] ELSE first[i - Len(buffer)]
  BY <1>2, ConcatProperties
<1> HIDE DEF longer
<1>5. \A i \in 1 .. Len(buffer) : longer[i] = buffer[i]
  BY <1>1, <1>4
<1>6. ASSUME NEW i \in 1 .. Len(buffer) + Len(coming)
      PROVE  Nth(longer, rest, i) = Nth(buffer, coming, i)
  <2>1. CASE i <= Len(buffer)
    BY <1>1, <1>4, <1>5, <2>1 DEF Nth
  <2>2. CASE i > Len(buffer) /\ i <= Len(buffer) + n
    <3>1. i - Len(buffer) \in 1 .. n /\ i \in 1 .. Len(buffer) + n
      BY <1>1, <2>2
    <3>2. longer[i] = first[i - Len(buffer)] /\ first[i - Len(buffer)] = coming[i - Len(buffer)]
      BY <1>1, <1>2, <1>4, <2>2, <3>1
    <3> QED BY <1>1, <1>4, <2>2, <3>2 DEF Nth
  <2>3. CASE i > Len(buffer) + n
    <3>1. i - Len(longer) \in 1 .. Len(coming) - n /\ n + (i - Len(longer)) = i - Len(buffer)
      BY <1>1, <1>4, <2>3
    <3>2. rest[i - Len(longer)] = coming[i - Len(buffer)]
      BY <1>3, <3>1
    <3> QED BY <1>1, <1>4, <2>3, <3>2 DEF Nth
  <2> QED BY <1>1, <2>1, <2>2, <2>3
<1> QED BY <1>3, <1>4, <1>5, <1>6 DEF longer, first, rest

(* The request is still written there when its lines are cut up.           *)
LEMMA WrittenAlike ==
  ASSUME NEW a \in Seq(TextLine), NEW b, NEW coming, NEW k \in Nat \ {0}, NEW body \in Nat,
         Alike(b, a), Written(a, coming, k, body)
  PROVE  Written(b, coming, k, body)
<1>1. Len(b) = Len(a) /\ Len(a) \in Nat
  BY DEF Alike
<1>2. ASSUME NEW i \in Nat \ {0}
      PROVE  /\ Nth(b, coming, i).request = Nth(a, coming, i).request
             /\ Nth(b, coming, i).kind = Nth(a, coming, i).kind
             /\ Nth(b, coming, i).length = Nth(a, coming, i).length
  BY <1>1 DEF Nth, Alike
<1>3. 3 * k - 2 \in Nat \ {0} /\ 3 * k - 1 \in Nat \ {0} /\ 3 * k \in Nat \ {0}
  OBVIOUS
<1> QED BY <1>2, <1>3 DEF Written

(* Nor do more lines change what was parsed.                               *)
LEMMA ParsedKept ==
  ASSUME NEW r \in Connection, NEW longer \in Seq(TextLine), NEW m \in Nat, m <= Len(r.rxbuffer),
         \A i \in 1 .. Len(r.rxbuffer) : longer[i] = r.rxbuffer[i],
         NEW k \in Nat \ {0}, NEW body \in Nat, ParsedTo(r, m, k, body)
  PROVE  /\ [r EXCEPT !.rxbuffer = longer] \in Connection
         /\ ParsedTo([r EXCEPT !.rxbuffer = longer], m, k, body)
<1> DEFINE q == [r EXCEPT !.rxbuffer = longer]
<1>1. q \in Connection
  BY DEF Connection
<1> SUFFICES ParsedTo(q, m, k, body)
  BY <1>1
<1>2. /\ q.rxbuffer = longer /\ q.tx = r.tx /\ q.state = r.state /\ q.rxoffset = r.rxoffset
      /\ q.method = r.method /\ q.header = r.header /\ q.contentlen = r.contentlen
  BY DEF Connection
<1>3. Len(r.rxbuffer) \in Nat
  BY DEF Connection
<1> HIDE DEF q
<1>4. CASE m = 3 * k - 3
  BY <1>2, <1>4 DEF ParsedTo
<1>5. CASE m = 3 * k - 2
  <2>1. 3 * k - 2 \in 1 .. Len(r.rxbuffer)
    BY <1>3, <1>5
  <2> QED BY <1>2, <1>5, <2>1 DEF ParsedTo
<1>6. CASE m >= 3 * k - 1
  <2>1. 3 * k - 2 \in 1 .. Len(r.rxbuffer) /\ 3 * k - 1 \in 1 .. Len(r.rxbuffer)
    BY <1>3, <1>6
  <2>2. longer[3 * k - 2] = r.rxbuffer[3 * k - 2] /\ longer[3 * k - 1] = r.rxbuffer[3 * k - 1]
    BY <2>1
  <2> QED BY <1>2, <1>6, <2>2 DEF ParsedTo
<1>7. m = 3 * k - 3 \/ m = 3 * k - 2 \/ m >= 3 * k - 1
  BY DEF ParsedTo
<1> QED BY <1>4, <1>5, <1>6, <1>7

(* What was looked at beyond the offset is of the body, and not parsed.    *)
LEMMA ParsedFromOffset ==
  ASSUME NEW r \in Connection, NEW m \in Nat, NEW k \in Nat \ {0}, NEW body \in Nat,
         ParsedTo(r, m, k, body)
  PROVE  r.rxoffset \in Nat /\ r.rxoffset <= m /\ ParsedTo(r, r.rxoffset, k, body)
<1>1. CASE m < 3 * k
  <2>1. r.rxoffset = m
    BY <1>1 DEF ParsedTo
  <2> QED BY <2>1
<1>2. CASE m >= 3 * k
  <2>1. r.rxoffset = 3 * k /\ 3 * k >= 3 * k - 1 /\ m >= 3 * k - 1
    BY <1>2 DEF ParsedTo
  <2> QED BY <1>2, <2>1 DEF ParsedTo
<1> QED BY <1>1, <1>2

LEMMA LeastNumber ==
  ASSUME NEW T \in SUBSET Nat, T # {}
  PROVE  \E m \in T : \A k \in T : m <= k
<1> DEFINE R == OpToRel(<, Nat)
<1>1. IsWellFoundedOn(R, Nat)
  BY NatLessThanWellFounded
<1>2. \A x, y \in Nat : <<x, y>> \in R <=> x < y
  BY DEF OpToRel
<1> HIDE DEF R
<1>3. PICK m \in T : \A k \in T : ~(<<k, m>> \in R)
  BY <1>1, WFMin
<1>4. ASSUME NEW k \in T
      PROVE  m <= k
  <2>1. k \in Nat /\ m \in Nat
    OBVIOUS
  <2>2. ~(k < m)
    BY <1>2, <1>3, <2>1
  <2> QED BY <2>1, <2>2
<1> QED BY <1>4

(* Natural numbers that belong to a set by induction: the least that does  *)
(* not would be 0 or follow one that does.                                 *)
LEMMA UpFrom ==
  ASSUME NEW S, 0 \in S, \A n \in Nat : n \in S => n + 1 \in S
  PROVE  \A n \in Nat : n \in S
<1> DEFINE T == {n \in Nat : n \notin S}
<1> SUFFICES ASSUME T # {} PROVE FALSE
  OBVIOUS
<1>1. PICK m \in T : \A n \in T : m <= n
  BY LeastNumber
<1>2. m - 1 \in Nat /\ m - 1 \notin T /\ m - 1 + 1 = m
  BY <1>1
<1> QED BY <1>1, <1>2

(* Entry i of f is the connection with i more lines parsed.                *)
Parses(f, r, n) ==
  f = [i \in 0 .. n |-> IF i = 0 THEN r ELSE ParseLine(f[i - 1], r.rxbuffer[r.rxoffset + i])]

LEMMA ParsesExist ==
  ASSUME NEW r, NEW m \in Nat
  PROVE  \E f : Parses(f, r, m)
<1> DEFINE S == {n \in Nat : \E f : Parses(f, r, n)}
<1>1. 0 \in S
  <2>1. Parses([i \in 0 .. 0 |-> r], r, 0)
    BY DEF Parses
  <2> QED BY <2>1
<1>2. ASSUME NEW n \in Nat, n \in S
      PROVE  n + 1 \in S
  <2>1. PICK f : Parses(f, r, n)
    BY <1>2
  <2> DEFINE last == ParseLine(f[n], r.rxbuffer[r.rxoffset + (n + 1)])
             g == [i \in 0 .. n + 1 |-> IF i = n + 1 THEN last ELSE f[i]]
  <2>2. \A i \in 0 .. n : f[i] = IF i = 0 THEN r ELSE ParseLine(f[i - 1], r.rxbuffer[r.rxoffset + i])
    BY <2>1 DEF Parses
  <2> HIDE DEF last
  <2>3. ASSUME NEW i \in 0 .. n + 1
        PROVE  g[i] = IF i = 0 THEN r ELSE ParseLine(g[i - 1], r.rxbuffer[r.rxoffset + i])
    <3>1. CASE i = n + 1
      <4>1. g[i] = last /\ i # 0 /\ i - 1 = n /\ g[n] = f[n]
        BY <3>1
      <4> QED BY <3>1, <4>1 DEF last
    <3>2. CASE i = 0
      <4>1. g[0] = f[0] /\ f[0] = r
        BY <2>2
      <4> QED BY <3>2, <4>1
    <3>3. CASE i # n + 1 /\ i # 0
      <4>1. i \in 0 .. n /\ i - 1 \in 0 .. n
        BY <3>3
      <4>2. g[i] = f[i] /\ g[i - 1] = f[i - 1]
        BY <4>1
      <4> HIDE DEF g
      <4> QED BY <2>2, <3>3, <4>1, <4>2
    <3> QED BY <3>1, <3>2, <3>3
  <2>4. Parses(g, r, n + 1)
    <3>1. g = [i \in 0 .. n + 1 |-> g[i]]
      OBVIOUS
    <3> HIDE DEF g
    <3> QED BY <2>3, <3>1 DEF Parses
  <2> QED BY <2>4
<1> HIDE DEF S
<1>3. m \in S
  BY <1>1, <1>2, UpFrom
<1> QED BY <1>3 DEF S

LEMMA ParseRestParses ==
  ASSUME NEW r, Len(r.rxbuffer) - r.rxoffset \in Nat
  PROVE  \E f : Parses(f, r, Len(r.rxbuffer) - r.rxoffset)
                /\ ParseRest(r) = f[Len(r.rxbuffer) - r.rxoffset]
<1> DEFINE n == Len(r.rxbuffer) - r.rxoffset
           f == CHOOSE g : g = [i \in 0 .. n |->
                  IF i = 0 THEN r ELSE ParseLine(g[i - 1], r.rxbuffer[r.rxoffset + i])]
<1>1. ParseRest(r) = f[n]
  BY DEF ParseRest
<1>2. \E g : Parses(g, r, n)
  BY ParsesExist
<1>3. Parses(f, r, n)
  BY <1>2 DEF Parses
<1> QED BY <1>1, <1>3

(* Of a request whose lines come in order, rtsp_client_process parses all  *)
(* that have come, and no line changes its place.                          *)
LEMMA RestParsed ==
  ASSUME NEW r \in Connection, NEW coming, NEW k \in Nat \ {0}, NEW body \in Nat,
         Written(r.rxbuffer, coming, k, body),
         ParsedTo(r, r.rxoffset, k, body), r.rxoffset <= Len(r.rxbuffer)
  PROVE  /\ ParseRest(r) \in Connection
         /\ ParsedTo(ParseRest(r), Len(r.rxbuffer), k, body)
         /\ Alike(ParseRest(r).rxbuffer, r.rxbuffer)
<1> DEFINE from == r.rxoffset
           n == Len(r.rxbuffer) - from
<1>1. /\ r.rxbuffer \in Seq(TextLine) /\ Len(r.rxbuffer) \in Nat /\ from \in Nat /\ n \in Nat
      /\ \A i \in 1 .. Len(r.rxbuffer) : r.rxbuffer[i] \in TextLine
  <2>1. r.rxbuffer \in Seq(TextLine) /\ from \in Nat
    BY DEF Connection
  <2>2. Len(r.rxbuffer) \in Nat /\ \A i \in 1 .. Len(r.rxbuffer) : r.rxbuffer[i] \in TextLine
    BY <2>1
  <2> QED BY <2>1, <2>2
<1>2. PICK f : Parses(f, r, n) /\ ParseRest(r) = f[n]
  BY <1>1, ParseRestParses
<1> DEFINE Reached(i) == /\ f[i] \in Connection
                         /\ ParsedTo(f[i], from + i, k, body)
                         /\ Alike(f[i].rxbuffer, r.rxbuffer)
           S == {i \in Nat : i <= n => Reached(i)}
<1>3. f[0] = r /\ \A i \in 1 .. n : f[i] = ParseLine(f[i - 1], r.rxbuffer[from + i])
  BY <1>1, <1>2 DEF Parses
<1>4. 0 \in S
  <2>1. Alike(r.rxbuffer, r.rxbuffer)
    BY <1>1 DEF Alike
  <2> QED BY <1>1, <1>3, <2>1
<1>5. ASSUME NEW i \in Nat, i \in S
      PROVE  i + 1 \in S
  <2> SUFFICES ASSUME i + 1 <= n PROVE Reached(i + 1)
    OBVIOUS
  <2> DEFINE m == from + i
             line == r.rxbuffer[m + 1]
  <2>1. m \in Nat /\ m + 1 \in 1 .. Len(r.rxbuffer) /\ m < Len(r.rxbuffer) /\ i <= n
    BY <1>1
  <2>2. Reached(i)
    BY <1>5, <2>1
  <2>3. f[i + 1] = ParseLine(f[i], line)
    <3>1. i + 1 \in 1 .. n /\ i + 1 - 1 = i /\ from + (i + 1) = m + 1
      BY <1>1
    <3> QED BY <1>3, <3>1
  <2>4. line \in TextLine
    BY <1>1, <2>1
  <2>5. Nth(r.rxbuffer, coming, m + 1) = line
    BY <2>1 DEF Nth
  <2>6. /\ m + 1 = 3 * k - 2 => line.kind = "request"
        /\ m + 1 = 3 * k - 1 => line.kind = "header" /\ line.length = body
        /\ m + 1 = 3 * k => line.kind = "empty"
    BY <2>5 DEF Written
  <2>7. f[i] \in Connection /\ m < Len(f[i].rxbuffer) /\ ParsedTo(f[i], m, k, body)
        /\ Alike(f[i].rxbuffer, r.rxbuffer)
    BY <2>1, <2>2 DEF Alike
  <2> HIDE DEF line, m
  <2>8. /\ f[i + 1] \in Connection /\ ParsedTo(f[i + 1], m + 1, k, body)
        /\ Alike(f[i + 1].rxbuffer, f[i].rxbuffer)
    BY <2>1, <2>3, <2>4, <2>6, <2>7, ParseLineMoves
  <2>9. Alike(f[i + 1].rxbuffer, r.rxbuffer)
    BY <2>7, <2>8 DEF Alike
  <2>10. m + 1 = from + (i + 1)
    BY <1>1 DEF m
  <2> QED BY <2>8, <2>9, <2>10
<1>6. \A i \in Nat : i \in S
  <2> HIDE DEF S
  <2> QED BY <1>4, <1>5, UpFrom
<1>7. Reached(n) /\ from + n = Len(r.rxbuffer)
  BY <1>1, <1>6
<1> HIDE DEF n
<1> QED BY <1>2, <1>7

LastBody(wants) == IF Len(wants) = 0 THEN 0 ELSE wants[Len(wants)].body

(* Between two requests: the buffer holds the requests so far.             *)
Between(r, coming, wants, given) ==
  /\ Len(given) = Len(wants) /\ coming = <<>>
  /\ r.tx = <<>> /\ r.state = "START"
  /\ r.rxoffset = 3 * Len(wants) /\ Len(r.rxbuffer) = 3 * Len(wants) + LastBody(wants)

(* The last request is on its way, and its lines are parsed as they come.  *)
Reading(r, coming, wants, given) ==
  /\ Len(wants) = Len(given) + 1
  /\ Len(r.rxbuffer) + Len(coming) = 3 * Len(wants) + LastBody(wants)
  /\ Written(r.rxbuffer, coming, Len(wants), LastBody(wants))
  /\ ParsedTo(r, Len(r.rxbuffer), Len(wants), LastBody(wants))

(* Its answer is to be sent, ...                                           *)
Writing(r, coming, wants, given) ==
  /\ Len(wants) = Len(given) + 1 /\ coming = <<>>
  /\ r.rxoffset = 3 * Len(wants) /\ Len(r.rxbuffer) = 3 * Len(wants) + LastBody(wants)
  /\ r.state = "REPLY" /\ Len(r.tx) = 1 /\ Fits(r.tx[1].status, wants[Len(wants)])

(* ... or the buffer was full before it ended.                             *)
Refusing(r, wants, given) ==
  /\ Len(wants) = Len(given) + 1
  /\ r.state = "FINAL" /\ r.tx = <<[status |-> 413, sid |-> 0]>>

AllFit(given, wants) ==
  /\ wants \in Seq(Wanted) /\ given \in Seq(Nat) /\ Len(given) <= Len(wants)
  /\ \A i \in 1 .. Len(given) : Fits(given[i], wants[i])

(* Nothing is said of a client that did not wait.                          *)
Talk(r, coming, wants, given, sid, waits, death) ==
  waits =>
    /\ AllFit(given, wants) /\ sid \in Sids \cup {0}
    /\ r.state = "NONE" => wants = <<>> /\ given = <<>> /\ coming = <<>>
    /\ death = "no" /\ r.state \notin {"NONE", "CLOSED"} =>
         /\ r \in Connection /\ coming \in Seq(TextLine)
         /\ \/ Between(r, coming, wants, given)
            \/ Reading(r, coming, wants, given)
            \/ Writing(r, coming, wants, given)
            \/ Refusing(r, wants, given)

TalkOf(c) == Talk(client[c], incoming[c], asked[c], answers[c], knows[c], orderly[c], died)

Tables ==
  /\ DOMAIN client = Clients /\ DOMAIN asked = Clients /\ DOMAIN incoming = Clients
  /\ DOMAIN answers = Clients /\ DOMAIN knows = Clients /\ orderly \in [Clients -> BOOLEAN]

Talks == Tables /\ \A c \in Clients : TalkOf(c)

LEMMA LinesOfRequest ==
  ASSUME NEW wish \in Wish, NEW number \in Nat
  PROVE  LET lines == LinesOf(number, wish)
         IN /\ lines \in Seq(TextLine) /\ Len(lines) = 3 + wish.body
            /\ lines[1].kind = "request" /\ lines[1].request = number
            /\ lines[2].kind = "header" /\ lines[2].request = number /\ lines[2].length = wish.body
            /\ lines[3].kind = "empty"
<1> DEFINE first == Line(number, "request", 0)
           second == Line(number, "header", wish.body)
           third == Line(number, "empty", 0)
           head == <<first, second, third>>
           content == [i \in 1 .. wish.body |-> Line(number, "body", 0)]
<1>1. wish.body \in Nat
  BY DEF Wish
<1>2. /\ first \in TextLine /\ first.kind = "request" /\ first.request = number
      /\ second \in TextLine /\ second.kind = "header" /\ second.request = number
      /\ second.length = wish.body
      /\ third \in TextLine /\ third.kind = "empty"
      /\ Line(number, "body", 0) \in TextLine
  BY <1>1 DEF Line, TextLine
<1>3. content \in Seq(TextLine) /\ Len(content) = wish.body
  BY <1>1, <1>2
<1> HIDE DEF first, second, third, content
<1>4. /\ head \in Seq(TextLine) /\ Len(head) = 3
      /\ head[1] = first /\ head[2] = second /\ head[3] = third
  BY <1>2
<1> HIDE DEF head
<1> DEFINE all == head \o content
<1>5. LinesOf(number, wish) = all
  BY DEF LinesOf, head, first, second, third, content
<1>6. /\ all \in Seq(TextLine) /\ Len(all) = Len(head) + Len(content)
      /\ \A i \in 1 .. Len(head) + Len(content) :
           all[i] = IF i <= Len(head) THEN head[i] ELSE content[i - Len(head)]
  BY <1>3, <1>4, ConcatProperties
<1> HIDE DEF all
<1>7. Len(all) = 3 + wish.body
  BY <1>3, <1>4, <1>6
<1>8. all[1] = first /\ all[2] = second /\ all[3] = third
  <2> DEFINE size == Len(head) + Len(content)
  <2>1. 1 \in 1 .. size /\ 2 \in 1 .. size /\ 3 \in 1 .. size
    BY <1>1, <1>3, <1>4
  <2>2. all[1] = head[1] /\ all[2] = head[2] /\ all[3] = head[3]
    BY <1>4, <1>6, <2>1
  <2> QED BY <1>4, <2>2
<1> QED BY <1>2, <1>5, <1>6, <1>7, <1>8

LEMMA RequestTalks ==
  ASSUME NEW r, NEW coming, NEW wants, NEW given, NEW sid, NEW wish \in Wish,
         NEW known \in Sids \cup {0},
         Talk(r, coming, wants, given, sid, TRUE, "no"), r.state \notin {"NONE", "CLOSED"},
         Len(wants) = Len(given), \A i \in 1 .. Len(wants) : wants[i].body = 0
  PROVE  Talk(r, coming \o LinesOf(Len(wants) + 1, wish), Append(wants, Asking(wish, known)),
              given, sid, TRUE, "no")
<1> DEFINE k == Len(wants) + 1
           lines == LinesOf(k, wish)
           asks == Append(wants, Asking(wish, known))
<1>1. /\ AllFit(given, wants) /\ sid \in Sids \cup {0} /\ r \in Connection
      /\ coming \in Seq(TextLine)
      /\ \/ Between(r, coming, wants, given)
         \/ Reading(r, coming, wants, given)
         \/ Writing(r, coming, wants, given)
         \/ Refusing(r, wants, given)
  BY DEF Talk
<1>2. wants \in Seq(Wanted) /\ given \in Seq(Nat) /\ Len(wants) \in Nat /\ k \in Nat \ {0}
      /\ r.rxbuffer \in Seq(TextLine)
  BY <1>1 DEF AllFit, Connection
<1>3. Between(r, coming, wants, given)
  BY <1>1, <1>2 DEF Reading, Writing, Refusing
<1>4. LastBody(wants) = 0
  BY <1>2 DEF LastBody
<1>5. /\ coming = <<>> /\ r.tx = <<>> /\ r.state = "START"
      /\ r.rxoffset = 3 * k - 3 /\ Len(r.rxbuffer) = 3 * k - 3
  BY <1>2, <1>3, <1>4 DEF Between
<1>6. /\ Asking(wish, known) \in Wanted /\ Asking(wish, known).body = wish.body /\ wish.body \in Nat
  BY DEF Asking, Wish, Wanted
<1> DEFINE new == Asking(wish, known)
<1> HIDE DEF new
<1>7. /\ asks \in Seq(Wanted) /\ Len(asks) = k
      /\ \A i \in 1 .. Len(wants) : asks[i] = wants[i]
      /\ asks[k] = new
  BY <1>2, <1>6, AppendProperties DEF new
<1>8. /\ lines \in Seq(TextLine) /\ Len(lines) = 3 + wish.body
      /\ lines[1].kind = "request" /\ lines[1].request = k
      /\ lines[2].kind = "header" /\ lines[2].request = k /\ lines[2].length = wish.body
      /\ lines[3].kind = "empty"
  BY <1>2, LinesOfRequest
<1> HIDE DEF asks, lines
<1>9. coming \o lines = lines
  BY <1>5, <1>8, ConcatEmptySeq
<1>10. LastBody(asks) = wish.body
  BY <1>2, <1>6, <1>7 DEF LastBody, new
<1>11. Written(r.rxbuffer, lines, k, wish.body)
  <2>1. /\ Nth(r.rxbuffer, lines, 3 * k - 2) = lines[1]
        /\ Nth(r.rxbuffer, lines, 3 * k - 1) = lines[2]
        /\ Nth(r.rxbuffer, lines, 3 * k) = lines[3]
    <3>1. 3 * k - 2 - Len(r.rxbuffer) = 1 /\ 3 * k - 1 - Len(r.rxbuffer) = 2
          /\ 3 * k - Len(r.rxbuffer) = 3
      BY <1>2, <1>5
    <3>2. ~(3 * k - 2 <= Len(r.rxbuffer)) /\ ~(3 * k - 1 <= Len(r.rxbuffer))
          /\ ~(3 * k <= Len(r.rxbuffer))
      BY <1>2, <1>5
    <3> HIDE DEF k
    <3> QED BY <3>1, <3>2 DEF Nth
  <2> QED BY <1>8, <2>1 DEF Written
<1>12. ParsedTo(r, Len(r.rxbuffer), k, wish.body)
  BY <1>5 DEF ParsedTo
<1> HIDE DEF k
<1>13. Reading(r, lines, asks, given)
  <2>1. k = Len(given) + 1
    BY <1>2, <1>3 DEF k, Between
  <2>2. Len(r.rxbuffer) + Len(lines) = 3 * k + wish.body
    BY <1>2, <1>5, <1>6, <1>8
  <2> QED BY <1>7, <1>10, <1>11, <1>12, <2>1, <2>2 DEF Reading
<1>14. AllFit(given, asks)
  <2>1. k = Len(given) + 1 /\ Len(given) = Len(wants)
    BY <1>2, <1>3 DEF k, Between
  <2> QED BY <1>1, <1>2, <1>7, <2>1 DEF AllFit
<1>15. Talk(r, lines, asks, given, sid, TRUE, "no")
  BY <1>1, <1>5, <1>8, <1>13, <1>14 DEF Talk
<1> QED BY <1>9, <1>15 DEF asks, lines, k

(* Whatever part of the rest of a request is received, all of it is parsed.*)
LEMMA ReceiveReads ==
  ASSUME NEW r \in Connection, NEW coming \in Seq(TextLine), NEW n \in 0 .. Len(coming),
         NEW k \in Nat \ {0}, NEW body \in Nat, Len(r.rxbuffer) + Len(coming) = 3 * k + body,
         Written(r.rxbuffer, coming, k, body), ParsedTo(r, Len(r.rxbuffer), k, body)
  PROVE  LET p == ParseRest([r EXCEPT !.rxbuffer = @ \o SubSeq(coming, 1, n)])
             rest == SubSeq(coming, n + 1, Len(coming))
         IN /\ p \in Connection /\ rest \in Seq(TextLine)
            /\ Len(p.rxbuffer) + Len(rest) = 3 * k + body
            /\ Written(p.rxbuffer, rest, k, body)
            /\ ParsedTo(p, Len(p.rxbuffer), k, body)
<1> DEFINE longer == r.rxbuffer \o SubSeq(coming, 1, n)
           rest == SubSeq(coming, n + 1, Len(coming))
           q == [r EXCEPT !.rxbuffer = longer]
           p == ParseRest(q)
<1>1. r.rxbuffer \in Seq(TextLine) /\ Len(r.rxbuffer) \in Nat /\ Len(coming) \in Nat /\ n \in Nat
  BY DEF Connection
<1>2. /\ longer \in Seq(TextLine) /\ Len(longer) = Len(r.rxbuffer) + n
      /\ rest \in Seq(TextLine) /\ Len(rest) = Len(coming) - n
      /\ \A i \in 1 .. Len(r.rxbuffer) : longer[i] = r.rxbuffer[i]
      /\ \A i \in 1 .. Len(r.rxbuffer) + Len(coming) : Nth(longer, rest, i) = Nth(r.rxbuffer, coming, i)
  BY <1>1, StreamKept
<1> HIDE DEF longer, rest
<1>3. Written(longer, rest, k, body)
  <2> DEFINE size == Len(r.rxbuffer) + Len(coming)
  <2>1. 3 * k - 2 \in 1 .. size /\ 3 * k - 1 \in 1 .. size /\ 3 * k \in 1 .. size
    BY <1>1
  <2>2. /\ Nth(longer, rest, 3 * k - 2) = Nth(r.rxbuffer, coming, 3 * k - 2)
        /\ Nth(longer, rest, 3 * k - 1) = Nth(r.rxbuffer, coming, 3 * k - 1)
        /\ Nth(longer, rest, 3 * k) = Nth(r.rxbuffer, coming, 3 * k)
    BY <1>2, <2>1
  <2> QED BY <2>2 DEF Written
<1>4. ParsedTo(r, r.rxoffset, k, body) /\ r.rxoffset \in Nat /\ r.rxoffset <= Len(r.rxbuffer)
  BY <1>1, ParsedFromOffset
<1>5. q \in Connection /\ ParsedTo(q, r.rxoffset, k, body)
  BY <1>2, <1>4, ParsedKept
<1>6. q.rxbuffer = longer /\ q.rxoffset = r.rxoffset
  BY DEF Connection
<1>7. q.rxoffset <= Len(q.rxbuffer)
  BY <1>1, <1>2, <1>4, <1>6
<1> HIDE DEF q
<1>8. p \in Connection /\ ParsedTo(p, Len(longer), k, body) /\ Alike(p.rxbuffer, longer)
  BY <1>3, <1>5, <1>6, <1>7, RestParsed
<1> HIDE DEF p
<1>9. Len(p.rxbuffer) = Len(longer)
  BY <1>8 DEF Alike
<1>10. Written(p.rxbuffer, rest, k, body)
  BY <1>2, <1>3, <1>8, WrittenAlike
<1>11. Len(p.rxbuffer) + Len(rest) = 3 * k + body
  BY <1>1, <1>2, <1>9
<1>12. ParsedTo(p, Len(p.rxbuffer), k, body)
  BY <1>8, <1>9
<1> QED BY <1>2, <1>8, <1>10, <1>11, <1>12 DEF p, q, rest, longer

(* When nothing follows the request, the move leaves the buffer as it is.  *)
LEMMA NothingMoved ==
  ASSUME NEW r \in Connection, Len(r.rxbuffer) = r.rxoffset + r.contentlen
  PROVE  Answered(r) = r
<1> DEFINE from == r.rxoffset + r.contentlen
<1>1. r.rxbuffer \in Seq(TextLine) /\ Len(r.rxbuffer) \in Nat /\ from = Len(r.rxbuffer)
  BY DEF Connection
<1>2. Moved(r.rxbuffer, from) = r.rxbuffer
  <2>1. r.rxbuffer = [i \in 1 .. Len(r.rxbuffer) |-> r.rxbuffer[i]]
    BY <1>1
  <2>2. \A i \in 1 .. Len(r.rxbuffer) : ~(from + i <= Len(r.rxbuffer))
    BY <1>1
  <2> HIDE DEF from
  <2> QED BY <2>1, <2>2 DEF Moved
<1>3. Answered(r) = [r EXCEPT !.rxbuffer = Moved(r.rxbuffer, from)]
  BY DEF Answered
<1> HIDE DEF from
<1> QED BY <1>2, <1>3 DEF Connection

(* A request that is to be answered was read to its end.                   *)
Read(r, k, body) ==
  /\ r \in Connection /\ r.state = "ANSWER" /\ r.rxoffset = 3 * k /\ r.contentlen = body
  /\ 3 * k <= Len(r.rxbuffer)
  /\ r.method = 3 * k - 2 /\ ~r.rxbuffer[3 * k - 2].whole /\ r.rxbuffer[3 * k - 2].request = k
  /\ r.header = 3 * k - 1 /\ ~r.rxbuffer[3 * k - 1].whole /\ r.rxbuffer[3 * k - 1].request = k

LEMMA ProcessReads ==
  ASSUME NEW q, NEW r \in Process(q), NEW rest, NEW k \in Nat \ {0}, NEW body \in Nat,
         ParseRest(q) \in Connection, Written(ParseRest(q).rxbuffer, rest, k, body),
         ParsedTo(ParseRest(q), Len(ParseRest(q).rxbuffer), k, body)
  PROVE  /\ r.state = "ANSWER" => Read(r, k, body) /\ r.rxbuffer = ParseRest(q).rxbuffer
         /\ r.state # "ANSWER" => r = ParseRest(q)
<1> DEFINE p == ParseRest(q)
           m == Len(p.rxbuffer)
<1>1. r = IF p.state = "BODY" /\ m + p.rxoffset >= p.contentlen THEN [p EXCEPT !.state = "ANSWER"] ELSE p
  BY DEF Process
<1>2. p \in Connection /\ m \in Nat
  BY DEF Connection
<1> HIDE DEF p
<1>3. CASE r = p /\ r.state # "ANSWER"
  BY <1>3 DEF p
<1>4. CASE r = [p EXCEPT !.state = "ANSWER"] /\ p.state \in {"BODY", "ANSWER"}
  <2>1. /\ r \in Connection /\ r.state = "ANSWER" /\ r.rxbuffer = p.rxbuffer /\ r.rxoffset = p.rxoffset
        /\ r.contentlen = p.contentlen /\ r.method = p.method /\ r.header = p.header
    BY <1>2, <1>4 DEF Connection
  <2>2. ParsedTo(p, m, k, body) /\ Written(p.rxbuffer, rest, k, body)
    BY DEF p
  <2>3. m >= 3 * k
    BY <1>2, <1>4, <2>2 DEF ParsedTo
  <2>4. /\ p.method = 3 * k - 2 /\ ~p.rxbuffer[3 * k - 2].whole
        /\ p.header = 3 * k - 1 /\ ~p.rxbuffer[3 * k - 1].whole
        /\ p.contentlen = body /\ p.rxoffset = 3 * k
    BY <1>2, <2>2, <2>3 DEF ParsedTo
  <2>5. p.rxbuffer[3 * k - 2].request = k /\ p.rxbuffer[3 * k - 1].request = k
    <3>1. 3 * k - 2 <= Len(p.rxbuffer) /\ 3 * k - 1 <= Len(p.rxbuffer)
      BY <1>2, <2>3
    <3> QED BY <2>2, <3>1 DEF Written, Nth
  <2>6. Read(r, k, body)
    BY <1>2, <2>1, <2>3, <2>4, <2>5 DEF Read
  <2> QED BY <2>1, <2>6 DEF p
<1>5. CASE r = p /\ p.state = "ANSWER"
  <2>1. r = [p EXCEPT !.state = "ANSWER"]
    BY <1>2, <1>5 DEF Connection
  <2> QED BY <1>4, <1>5, <2>1
<1> QED BY <1>1, <1>3, <1>4, <1>5

(* Either the answer is the one to the request, or the server dies.        *)
Replied(c, r, k, body) ==
  \/ died' # "no" /\ client' = client
  \/ /\ died' = "no" /\ Len(r.rxbuffer) = 3 * k + body
     /\ \E status \in Nat, sid \in Sids \cup {0} :
          /\ client' = [client EXCEPT ![c] =
               [r EXCEPT !.state = "REPLY", !.tx = <<[status |-> status, sid |-> sid]>>]]
          /\ Fits(status, asked[c][k])

LEMMA AnswerFits ==
  ASSUME NEW c \in Clients, DOMAIN client = Clients, NEW r, NEW k \in Nat \ {0}, NEW body \in Nat,
         died = "no", Read(r, k, body), Len(r.rxbuffer) <= 3 * k + body,
         asked[c] \in Seq(Wanted), k <= Len(asked[c]), Answer(c, r)
  PROVE  Replied(c, r, k, body)
<1> DEFINE wish == asked[c][k]
<1>1. r \in Connection /\ Len(r.rxbuffer) \in Nat /\ r.rxoffset = 3 * k /\ r.contentlen = body
  BY DEF Read, Connection
<1> USE DEF Replied
<1>2. CASE r.rxoffset + r.contentlen > Len(r.rxbuffer)
  BY <1>2 DEF Answer, Dies
<1>3. CASE ~(r.rxoffset + r.contentlen > Len(r.rxbuffer))
  <2>1. Len(r.rxbuffer) = 3 * k + body
    BY <1>1, <1>3
  <2>2. Answered(r) = r
    BY <1>1, <2>1, NothingMoved
  <2>3. Dispatch(c, r)
    BY <1>3, <2>2 DEF Answer
  <2>4. wish \in Wanted
    BY ElementOfSeq
  <2> HIDE DEF wish
  <2>5. WishOf(c, r) = wish /\ MethodOf(c, r) = wish.method
    BY DEF Read, WishOf, MethodOf, wish
  <2>6. SidOf(c, r) = wish.sid
    BY DEF Read, SidOf, wish
  <2>7. CASE wish.method = "SETUP"
    <3>1. Setup(c, r)
      BY <2>3, <2>5, <2>7 DEF Dispatch
    <3>2. CASE wish.sid # 0
      <4>1. Reply(c, r, 459, 0) /\ died' = died
        BY <2>6, <3>1, <3>2 DEF Setup
      <4>2. Fits(459, wish) /\ 459 \in Nat /\ 0 \in Sids \cup {0}
        BY <2>7, <3>2 DEF Fits, Supported
      <4> QED BY <2>1, <4>1, <4>2 DEF Reply, wish
    <3>3. CASE wish.sid = 0 /\ wish.ports = "one"
      BY <2>5, <2>6, <3>1, <3>3 DEF Setup, Dies
    <3>4. CASE wish.sid = 0 /\ wish.ports # "one"
      <4>1. PICK sid \in Sids : Reply(c, r, 200, sid) /\ died' = died
        BY <2>5, <2>6, <3>1, <3>4 DEF Setup
      <4>2. Fits(200, wish)
        BY <2>7, <3>4 DEF Fits, Supported
      <4> QED BY <2>1, <4>1, <4>2 DEF Reply, wish
    <3> QED BY <3>2, <3>3, <3>4
  <2>8. CASE wish.method # "SETUP"
    <3> DEFINE status == IF wish.method \in Supported THEN 200 ELSE 405
    <3>1. Reply(c, r, status, 0) /\ died' = died
      BY <2>3, <2>5, <2>8 DEF Dispatch
    <3>2. Fits(status, wish) /\ status \in Nat
      BY <2>8 DEF Fits
    <3> HIDE DEF status
    <3> QED BY <2>1, <3>1, <3>2 DEF Reply, wish
  <2> QED BY <2>7, <2>8
<1> QED BY <1>2, <1>3

(* What a client that waits finds when lines of its request are received.  *)
LEMMA ReceiveFinds ==
  ASSUME Talks, NEW c \in Clients, Receive(c), orderly[c]
  PROVE  /\ died = "no" /\ client[c] \in Connection /\ incoming[c] \in Seq(TextLine)
         /\ client[c].state \notin {"NONE", "CLOSED"}
         /\ AllFit(answers[c], asked[c]) /\ knows[c] \in Sids \cup {0}
         /\ Reading(client[c], incoming[c], asked[c], answers[c])
<1>1. died = "no" /\ client[c].state \notin {"NONE", "CLOSED"} /\ client[c].tx = <<>> /\ incoming[c] # <<>>
  BY DEF Receive, Serving, Open
<1>2. TalkOf(c)
  BY DEF Talks
<1>3. /\ client[c] \in Connection /\ incoming[c] \in Seq(TextLine)
      /\ AllFit(answers[c], asked[c]) /\ knows[c] \in Sids \cup {0}
      /\ \/ Between(client[c], incoming[c], asked[c], answers[c])
         \/ Reading(client[c], incoming[c], asked[c], answers[c])
         \/ Writing(client[c], incoming[c], asked[c], answers[c])
         \/ Refusing(client[c], asked[c], answers[c])
  BY <1>1, <1>2 DEF TalkOf, Talk
<1>4. ~Between(client[c], incoming[c], asked[c], answers[c])
      /\ ~Writing(client[c], incoming[c], asked[c], answers[c])
  BY <1>1 DEF Between, Writing
<1>5. ~Refusing(client[c], asked[c], answers[c])
  BY <1>1 DEF Refusing
<1> QED BY <1>1, <1>3, <1>4, <1>5

(* The parts of a conversation in which a request is not answered yet.     *)
LEMMA StillTalks ==
  ASSUME NEW r \in Connection, NEW coming \in Seq(TextLine), NEW wants, NEW given, NEW sid \in Sids \cup {0},
         AllFit(given, wants), r.state # "NONE",
         \/ Reading(r, coming, wants, given)
         \/ Writing(r, coming, wants, given)
         \/ Refusing(r, wants, given)
  PROVE  Talk(r, coming, wants, given, sid, TRUE, "no")
BY DEF Talk

LEMMA RefusedTalks ==
  ASSUME NEW p \in Connection, NEW coming \in Seq(TextLine), NEW wants, NEW given, NEW sid \in Sids \cup {0},
         AllFit(given, wants), p.state # "NONE", Reading(p, coming, wants, given)
  PROVE  Talk(Refused(p), coming, wants, given, sid, TRUE, "no")
<1>1. CASE Refused(p) = p
  BY <1>1, StillTalks
<1>2. CASE Refused(p) = ClientError(p, 413)
  <2> DEFINE refusal == <<[status |-> 413, sid |-> 0]>>
             s == [p EXCEPT !.state = "FINAL", !.tx = refusal]
  <2>1. Refused(p) = s
    BY <1>2 DEF ClientError
  <2>2. refusal \in Seq([status : Nat, sid : Sids \cup {0}])
    OBVIOUS
  <2> HIDE DEF refusal
  <2>3. s \in Connection /\ s.state = "FINAL" /\ s.tx = refusal
    BY <2>2 DEF Connection
  <2> HIDE DEF s
  <2>4. Refusing(s, wants, given)
    BY <2>3 DEF Reading, Refusing, refusal
  <2> QED BY <2>1, <2>3, <2>4, StillTalks
<1> QED BY <1>1, <1>2 DEF Refused

LEMMA ReceiveTalks ==
  ASSUME Talks, NEW c \in Clients, Receive(c)
  PROVE  TalkOf(c)'
<1>1. CASE ~orderly[c]
  BY <1>1 DEF TalkOf, Talk, Receive
<1>3. CASE orderly[c] /\ Full(client[c])
  <2>1. /\ client' = [client EXCEPT ![c] = Refused(client[c])]
        /\ incoming' = incoming /\ died' = died
    <3>1. Len(client[c].rxbuffer) \in Nat
      BY <1>3, ReceiveFinds DEF Connection
    <3>2. ~(\E n \in 1 .. Len(incoming[c]) : Len(client[c].rxbuffer) + n <= BufferLines)
      BY <1>3, <3>1 DEF Full
    <3> QED BY <3>2 DEF Receive
  <2>2. /\ asked' = asked /\ answers' = answers /\ knows' = knows /\ orderly' = orderly
        /\ DOMAIN client = Clients
    BY DEF Receive, Talks, Tables
  <2>3. Talk(Refused(client[c]), incoming[c], asked[c], answers[c], knows[c], TRUE, "no")
    <3>1. /\ client[c] \in Connection /\ incoming[c] \in Seq(TextLine)
          /\ client[c].state # "NONE"
          /\ AllFit(answers[c], asked[c]) /\ knows[c] \in Sids \cup {0}
          /\ Reading(client[c], incoming[c], asked[c], answers[c])
      BY <1>3, ReceiveFinds
    <3> QED BY <3>1, RefusedTalks
  <2>4. client'[c] = Refused(client[c]) /\ died' = "no"
    BY <1>3, <2>1, <2>2, ReceiveFinds
  <2> QED BY <1>3, <2>1, <2>2, <2>3, <2>4 DEF TalkOf
<1>2. CASE orderly[c] /\ ~Full(client[c])
  <2> DEFINE k == Len(asked[c])
             body == LastBody(asked[c])
  <2>1. /\ died = "no" /\ client[c] \in Connection /\ incoming[c] \in Seq(TextLine)
        /\ AllFit(answers[c], asked[c]) /\ knows[c] \in Sids \cup {0}
        /\ Reading(client[c], incoming[c], asked[c], answers[c])
    BY <1>2, ReceiveFinds
  <2>2. asked[c] \in Seq(Wanted) /\ k \in Nat \ {0} /\ body \in Nat /\ k = Len(answers[c]) + 1
    <3>1. asked[c] \in Seq(Wanted) /\ Len(answers[c]) \in Nat /\ k = Len(answers[c]) + 1
      BY <2>1 DEF AllFit, Reading
    <3>2. asked[c][k] \in Wanted
      BY <3>1
    <3> QED BY <3>1, <3>2 DEF LastBody, Wanted
  <2>3. /\ asked' = asked /\ answers' = answers /\ knows' = knows /\ orderly' = orderly
        /\ DOMAIN client = Clients /\ DOMAIN incoming = Clients
    BY DEF Receive, Talks, Tables
  <2> DEFINE q(n) == [client[c] EXCEPT !.rxbuffer = @ \o SubSeq(incoming[c], 1, n)]
             rest(n) == SubSeq(incoming[c], n + 1, Len(incoming[c]))
  <2>4. PICK n \in 1 .. Len(incoming[c]) :
          /\ incoming' = [incoming EXCEPT ![c] = rest(n)]
          /\ \E r \in Process(q(n)) :
               IF r.state = "ANSWER" THEN Answer(c, r)
               ELSE client' = [client EXCEPT ![c] = Refused(r)] /\ Unchanged /\ died' = died
    BY <1>2 DEF Receive
  <2>5. PICK r \in Process(q(n)) :
          IF r.state = "ANSWER" THEN Answer(c, r)
          ELSE client' = [client EXCEPT ![c] = Refused(r)] /\ Unchanged /\ died' = died
    BY <2>4
  <2>12. n \in 0 .. Len(incoming[c])
    BY <2>1
  <2> DEFINE p == ParseRest(q(n))
             left == rest(n)
  <2>6. /\ p \in Connection /\ left \in Seq(TextLine)
        /\ Len(p.rxbuffer) + Len(left) = 3 * k + body
        /\ Written(p.rxbuffer, left, k, body)
        /\ ParsedTo(p, Len(p.rxbuffer), k, body)
    BY <2>1, <2>2, <2>12, ReceiveReads DEF Reading
  <2>7. /\ r.state = "ANSWER" => Read(r, k, body) /\ r.rxbuffer = p.rxbuffer
        /\ r.state # "ANSWER" => r = p
    <3> HIDE DEF k, body
    <3> QED BY <2>2, <2>6, ProcessReads
  <2>8. incoming'[c] = left
    BY <2>3, <2>4
  <2>9. Len(p.rxbuffer) \in Nat /\ Len(left) \in Nat
    BY <2>6 DEF Connection
  <2> HIDE DEF q, rest, p, left
  <2>10. CASE r.state # "ANSWER"
    <3>1. client'[c] = Refused(p) /\ died' = "no"
      BY <2>1, <2>3, <2>5, <2>7, <2>10
    <3>2. Reading(p, left, asked[c], answers[c]) /\ p.state # "NONE"
      BY <2>2, <2>6 DEF Reading, Connection
    <3>3. Talk(Refused(p), left, asked[c], answers[c], knows[c], TRUE, "no")
      BY <2>1, <2>6, <3>2, RefusedTalks
    <3> QED BY <1>2, <2>3, <2>8, <3>1, <3>3 DEF TalkOf, Talk
  <2>11. CASE r.state = "ANSWER"
    <3>1. Answer(c, r) /\ Read(r, k, body) /\ r.rxbuffer = p.rxbuffer
      BY <2>5, <2>7, <2>11
    <3>2. Len(r.rxbuffer) <= 3 * k + body
      BY <2>2, <2>6, <2>9, <3>1
    <3>3. Replied(c, r, k, body)
      <4>1. k <= Len(asked[c])
        BY <2>2
      <4> HIDE DEF k, body
      <4> QED BY <2>1, <2>2, <2>3, <3>1, <3>2, <4>1, AnswerFits
    <3>4. CASE died' # "no" /\ client' = client
      <4>1. client[c].state # "NONE"
        BY <2>1 DEF Connection
      <4> QED BY <2>1, <2>3, <3>4, <4>1 DEF TalkOf, Talk
    <3>5. CASE died' = "no"
      <4>1. Len(r.rxbuffer) = 3 * k + body
        BY <3>3, <3>5 DEF Replied
      <4>2. PICK status \in Nat, sid \in Sids \cup {0} :
              /\ client' = [client EXCEPT ![c] =
                   [r EXCEPT !.state = "REPLY", !.tx = <<[status |-> status, sid |-> sid]>>]]
              /\ Fits(status, asked[c][k])
        BY <3>3, <3>5 DEF Replied
      <4> DEFINE answer == [status |-> status, sid |-> sid]
                 s == [r EXCEPT !.state = "REPLY", !.tx = <<answer>>]
      <4>3. client'[c] = s
        BY <2>3, <4>2
      <4>4. <<answer>> \in Seq([status : Nat, sid : Sids \cup {0}]) /\ Len(<<answer>>) = 1
            /\ <<answer>>[1].status = status
        OBVIOUS
      <4> HIDE DEF answer
      <4>5. /\ s \in Connection /\ s.rxbuffer = r.rxbuffer /\ s.rxoffset = r.rxoffset
            /\ s.state = "REPLY" /\ s.tx = <<answer>>
        BY <3>1, <4>4 DEF Read, Connection
      <4> HIDE DEF s
      <4>6. left = <<>>
        BY <2>2, <2>6, <2>9, <3>1, <4>1
      <4>7. Writing(s, left, asked[c], answers[c])
        <5>1. s.rxoffset = 3 * k
          BY <3>1, <4>5 DEF Read
        <5> QED BY <2>2, <4>1, <4>2, <4>4, <4>5, <4>6, <5>1 DEF Writing
      <4>8. Talk(s, left, asked[c], answers[c], knows[c], TRUE, "no")
        BY <2>1, <2>6, <4>5, <4>7, StillTalks
      <4> QED BY <1>2, <2>3, <2>8, <3>5, <4>3, <4>8 DEF TalkOf, Talk
    <3> QED BY <3>3, <3>4, <3>5 DEF Replied
  <2> QED BY <2>10, <2>11
<1> QED BY <1>1, <1>2, <1>3

LEMMA ConnectTalks ==
  ASSUME Talks, NEW c \in Clients, Connect(c)
  PROVE  TalkOf(c)'
<1> DEFINE r == [state |-> "START", rxbuffer |-> <<>>, rxoffset |-> 0, contentlen |-> 0,
                 method |-> 0, header |-> 0, tx |-> <<>>]
<1>1. /\ client[c].state = "NONE" /\ client'[c] = r
      /\ asked' = asked /\ incoming' = incoming /\ answers' = answers /\ knows' = knows
      /\ orderly' = orderly
  BY DEF Connect, NoClient, Talks, Tables
<1>2. TalkOf(c)
  BY DEF Talks
<1>3. CASE ~orderly[c]
  BY <1>1, <1>3 DEF TalkOf, Talk
<1>4. CASE orderly[c]
  <2>1. /\ asked[c] = <<>> /\ answers[c] = <<>> /\ incoming[c] = <<>>
        /\ AllFit(answers[c], asked[c]) /\ knows[c] \in Sids \cup {0}
    BY <1>1, <1>2, <1>4 DEF TalkOf, Talk
  <2>2. r \in Connection
    BY DEF Connection
  <2>3. Between(r, <<>>, <<>>, <<>>)
    BY DEF Between, LastBody
  <2>4. r.state # "NONE" /\ <<>> \in Seq(TextLine)
    OBVIOUS
  <2> HIDE DEF r
  <2> QED BY <1>1, <2>1, <2>2, <2>3, <2>4 DEF TalkOf, Talk
<1> QED BY <1>3, <1>4

LEMMA AskTalks ==
  ASSUME Talks, NEW c \in Clients, Request(c)
  PROVE  TalkOf(c)'
<1>1. /\ died = "no" /\ died' = died /\ client' = client /\ answers' = answers /\ knows' = knows
      /\ client[c].state \notin {"NONE", "CLOSED"} /\ Len(asked[c]) < Len(Wishes[c])
  BY DEF Request, Open, sessionVars
<1>2. PICK wish \in Wishes[c][Len(asked[c]) + 1] :
        /\ asked' = [asked EXCEPT ![c] = Append(@, Asking(wish, IF wish.known THEN knows[c] ELSE 0))]
        /\ incoming' = [incoming EXCEPT ![c] = @ \o LinesOf(Len(asked[c]) + 1, wish)]
  BY DEF Request
<1> DEFINE known == IF wish.known THEN knows[c] ELSE 0
<1>3. /\ asked'[c] = Append(asked[c], Asking(wish, known))
      /\ incoming'[c] = incoming[c] \o LinesOf(Len(asked[c]) + 1, wish)
  BY <1>2 DEF Talks, Tables
<1>4. orderly'[c] => /\ orderly[c] /\ Len(asked[c]) = Len(answers[c])
                     /\ \A i \in 1 .. Len(asked[c]) : asked[c][i].body = 0
  BY DEF Request, Talks, Tables
<1>5. CASE ~orderly'[c]
  BY <1>5 DEF TalkOf, Talk
<1>6. CASE orderly'[c]
  <2>1. TalkOf(c) /\ orderly[c] = TRUE /\ orderly'[c] = TRUE
    <3>1. orderly[c] \in BOOLEAN /\ orderly'[c] \in BOOLEAN
      BY DEF Request, Talks, Tables
    <3> QED BY <1>4, <1>6, <3>1 DEF Talks
  <2>2. Talk(client[c], incoming[c], asked[c], answers[c], knows[c], TRUE, "no")
    BY <1>1, <2>1 DEF TalkOf
  <2>3. asked[c] \in Seq(Wanted) /\ knows[c] \in Sids \cup {0}
    BY <2>2 DEF Talk, AllFit
  <2>4. wish \in Wish
    <3>1. Wishes[c] \in Seq(SUBSET Wish)
      BY RtspAssumption
    <3>2. Len(asked[c]) + 1 \in 1 .. Len(Wishes[c])
      BY <1>1, <2>3, <3>1
    <3>3. Wishes[c][Len(asked[c]) + 1] \in SUBSET Wish
      BY <3>1, <3>2, ElementOfSeq
    <3> QED BY <3>3
  <2>5. known \in Sids \cup {0}
    BY <2>3
  <2> HIDE DEF known
  <2>6. Len(asked[c]) = Len(answers[c]) /\ \A i \in 1 .. Len(asked[c]) : asked[c][i].body = 0
    BY <1>4, <1>6
  <2>7. Talk(client[c], incoming[c] \o LinesOf(Len(asked[c]) + 1, wish),
             Append(asked[c], Asking(wish, known)), answers[c], knows[c], TRUE, "no")
    BY <1>1, <2>2, <2>4, <2>5, <2>6, RequestTalks
  <2>8. Talk(client[c], incoming'[c], asked'[c], answers[c], knows[c], TRUE, "no")
    BY <1>3, <2>7
  <2> QED BY <1>1, <2>1, <2>8 DEF TalkOf
<1> QED BY <1>5, <1>6

LEMMA SentConnection ==
  ASSUME NEW r \in Connection
  PROVE  LET s == [r EXCEPT !.state = "START", !.tx = <<>>]
         IN /\ s \in Connection /\ s.state = "START" /\ s.tx = <<>>
            /\ s.rxoffset = r.rxoffset /\ s.rxbuffer = r.rxbuffer
<1>1. <<>> \in Seq([status : Nat, sid : Sids \cup {0}])
  OBVIOUS
<1> QED BY <1>1 DEF Connection

LEMMA SendTalks ==
  ASSUME Talks, NEW c \in Clients, Send(c)
  PROVE  TalkOf(c)'
<1> DEFINE r == client[c]
           answer == r.tx[1]
           s == [r EXCEPT !.state = "START", !.tx = <<>>]
           given == Append(answers[c], answer.status)
<1>1. /\ died = "no" /\ died' = died /\ asked' = asked /\ orderly' = orderly
      /\ r.state \notin {"NONE", "CLOSED"} /\ r.tx # <<>>
      /\ answers'[c] = given
      /\ knows'[c] = IF answer.sid = 0 THEN knows[c] ELSE answer.sid
      /\ client'[c] = IF r.state = "FINAL" THEN Closed ELSE s
      /\ incoming'[c] = IF r.state = "FINAL" THEN <<>> ELSE incoming[c]
  BY DEF Send, Serving, Open, sessionVars, Talks, Tables
<1>2. TalkOf(c)
  BY DEF Talks
<1>3. CASE ~orderly[c]
  BY <1>1, <1>3 DEF TalkOf, Talk
<1>4. CASE orderly[c]
  <2>1. /\ AllFit(answers[c], asked[c]) /\ knows[c] \in Sids \cup {0} /\ r \in Connection
        /\ \/ Between(r, incoming[c], asked[c], answers[c])
           \/ Reading(r, incoming[c], asked[c], answers[c])
           \/ Writing(r, incoming[c], asked[c], answers[c])
           \/ Refusing(r, asked[c], answers[c])
    BY <1>1, <1>2, <1>4 DEF TalkOf, Talk
  <2>2. \/ Writing(r, incoming[c], asked[c], answers[c])
        \/ Refusing(r, asked[c], answers[c])
    BY <1>1, <2>1 DEF Between, Reading, ParsedTo
  <2> DEFINE k == Len(asked[c])
  <2>3. /\ asked[c] \in Seq(Wanted) /\ answers[c] \in Seq(Nat) /\ k = Len(answers[c]) + 1
        /\ Len(answers[c]) \in Nat
    BY <2>1, <2>2 DEF AllFit, Writing, Refusing
  <2>4. answer \in [status : Nat, sid : Sids \cup {0}]
    <3>1. r.tx \in Seq([status : Nat, sid : Sids \cup {0}])
      BY <2>1 DEF Connection
    <3> HIDE DEF r
    <3>2. 1 \in 1 .. Len(r.tx)
      BY <1>1, <3>1, EmptySeq
    <3> QED BY <3>1, <3>2, ElementOfSeq
  <2>5. Fits(answer.status, asked[c][k])
    <3>1. CASE Writing(r, incoming[c], asked[c], answers[c])
      BY <3>1 DEF Writing
    <3>2. CASE Refusing(r, asked[c], answers[c])
      <4>1. answer.status = 413
        BY <3>2 DEF Refusing
      <4> QED BY <4>1 DEF Fits
    <3> QED BY <2>2, <3>1, <3>2
  <2>6. /\ given \in Seq(Nat) /\ Len(given) = k
        /\ \A i \in 1 .. Len(answers[c]) : given[i] = answers[c][i]
        /\ given[k] = answer.status
    BY <2>3, <2>4, AppendProperties
  <2>7. /\ answer.sid \in Sids \cup {0} /\ knows'[c] \in Sids \cup {0}
    BY <1>1, <2>1, <2>4
  <2> HIDE DEF given, answer
  <2>8. AllFit(given, asked[c])
    <3>1. ASSUME NEW i \in 1 .. Len(given)
          PROVE  Fits(given[i], asked[c][i])
      <4>1. CASE i = k
        BY <2>5, <2>6, <4>1
      <4>2. CASE i # k
        <5>1. i \in 1 .. Len(answers[c])
          BY <2>3, <2>6, <4>2
        <5> QED BY <2>1, <2>6, <5>1 DEF AllFit
      <4> QED BY <4>1, <4>2
    <3> QED BY <2>3, <2>6, <3>1 DEF AllFit
  <2>9. CASE r.state = "FINAL"
    <3>1. client'[c].state = "CLOSED"
      BY <1>1, <2>9 DEF Closed
    <3> QED BY <1>1, <2>7, <2>8, <3>1 DEF TalkOf, Talk
  <2>10. CASE r.state # "FINAL"
    <3>1. Writing(r, incoming[c], asked[c], answers[c])
      BY <2>2, <2>10 DEF Refusing
    <3>2. /\ s \in Connection /\ s.state = "START" /\ s.tx = <<>>
          /\ s.rxoffset = r.rxoffset /\ s.rxbuffer = r.rxbuffer
      BY <2>1, SentConnection
    <3> HIDE DEF s
    <3>3. Between(s, incoming[c], asked[c], given)
      BY <2>6, <3>1, <3>2 DEF Writing, Between
    <3>4. client'[c] = s /\ incoming'[c] = incoming[c] /\ incoming[c] = <<>>
      BY <1>1, <2>10, <3>1 DEF Writing
    <3>5. incoming[c] \in Seq(TextLine)
      BY <3>4
    <3> QED BY <1>1, <2>7, <2>8, <3>2, <3>3, <3>4, <3>5 DEF TalkOf, Talk
  <2> QED BY <2>9, <2>10
<1> QED BY <1>3, <1>4

LEMMA CloseTalks ==
  ASSUME Talks, NEW c \in Clients, Close(c)
  PROVE  TalkOf(c)'
<1>1. /\ client'[c].state = "CLOSED" /\ asked'[c] = <<>> /\ answers'[c] = <<>> /\ knows'[c] = 0
  BY DEF Close, Closed, Talks, Tables
<1>2. AllFit(<<>>, <<>>)
  BY DEF AllFit
<1> QED BY <1>1, <1>2 DEF TalkOf, Talk

(* A client that does nothing is in the same conversation; none begins in  *)
(* a process that died.                                                    *)
LEMMA SameTalk ==
  ASSUME NEW c \in Clients, TalkOf(c), died' = "no" => died = "no",
         client'[c] = client[c], asked'[c] = asked[c], incoming'[c] = incoming[c],
         answers'[c] = answers[c], knows'[c] = knows[c], orderly'[c] = orderly[c]
  PROVE  TalkOf(c)'
BY DEF TalkOf, Talk

(* The steps of one client leave the conversations of the others alone.    *)
LEMMA ClientTalks ==
  ASSUME Talks, NEW c \in Clients,
         \/ Connect(c) \/ Request(c) \/ Receive(c) \/ Send(c) \/ Close(c)
  PROVE  Talks'
<1>1. TalkOf(c)'
  BY ConnectTalks, AskTalks, ReceiveTalks, SendTalks, CloseTalks
<1>a. client' = client \/ \E r : client' = [client EXCEPT ![c] = r]
  <2>1. CASE Receive(c)
    <3>1. ASSUME NEW r, NEW status, NEW sid, Reply(c, r, status, sid)
          PROVE  \E s : client' = [client EXCEPT ![c] = s]
      BY <3>1 DEF Reply
    <3>2. ASSUME NEW r, Dispatch(c, r)
          PROVE  client' = client \/ \E s : client' = [client EXCEPT ![c] = s]
      BY <3>1, <3>2 DEF Dispatch, Setup, Dies
    <3>3. ASSUME NEW r, Answer(c, r)
          PROVE  client' = client \/ \E s : client' = [client EXCEPT ![c] = s]
      BY <3>2, <3>3 DEF Answer, Dies
    <3> QED BY <2>1, <3>3 DEF Receive
  <2>2. CASE Connect(c) \/ Request(c) \/ Send(c) \/ Close(c)
    BY <2>2 DEF Connect, Request, Send, Close
  <2> QED BY <2>1, <2>2
<1>2. Tables'
  <2>1. /\ DOMAIN client' = Clients /\ DOMAIN asked' = Clients /\ DOMAIN incoming' = Clients
        /\ DOMAIN answers' = Clients /\ DOMAIN knows' = Clients
    <3>1. DOMAIN client' = Clients
      BY <1>a DEF Talks, Tables
    <3> QED BY <3>1 DEF Talks, Tables, Connect, Request, Receive, Send, Close
  <2>2. orderly' \in [Clients -> BOOLEAN]
    BY DEF Talks, Tables, Connect, Request, Receive, Send, Close
  <2> QED BY <2>1, <2>2 DEF Tables
<1>3. died' = "no" => died = "no"
  BY DEF Connect, Request, Receive, Send, Close, Serving
<1>4. ASSUME NEW d \in Clients, d # c
      PROVE  TalkOf(d)'
  <2>1. client'[d] = client[d]
    BY <1>a, <1>4 DEF Talks, Tables
  <2>2. /\ asked'[d] = asked[d] /\ incoming'[d] = incoming[d] /\ answers'[d] = answers[d]
        /\ knows'[d] = knows[d] /\ orderly'[d] = orderly[d]
    BY <1>4 DEF Talks, Tables, Connect, Request, Receive, Send, Close
  <2>3. TalkOf(d)
    BY DEF Talks
  <2> QED BY <1>3, <2>1, <2>2, <2>3, SameTalk
<1> QED BY <1>1, <1>2, <1>4 DEF Talks

LEMMA TalksInit == RtspInit => Talks
<1> SUFFICES ASSUME RtspInit PROVE Talks
  OBVIOUS
<1>1. Tables
  BY DEF RtspInit, Tables
<1>2. AllFit(<<>>, <<>>)
  BY DEF AllFit
<1>3. ASSUME NEW c \in Clients
      PROVE  TalkOf(c)
  BY <1>2 DEF RtspInit, TalkOf, Talk, NoClient
<1> QED BY <1>1, <1>3 DEF Talks

LEMMA TalksNext == Talks /\ [RtspNext]_rtspVars => Talks'
<1> SUFFICES ASSUME Talks, [RtspNext]_rtspVars PROVE Talks'
  OBVIOUS
<1>1. ASSUME NEW c \in Clients, Connect(c) \/ Request(c) \/ Receive(c) \/ Send(c) \/ Close(c)
      PROVE  Talks'
  BY <1>1, ClientTalks
<1>2. ASSUME UNCHANGED clientVars, died' = "no" => died = "no"
      PROVE  Talks'
  <2>1. /\ client' = client /\ asked' = asked /\ incoming' = incoming /\ answers' = answers
        /\ knows' = knows /\ orderly' = orderly
    BY <1>2 DEF clientVars
  <2>2. Tables'
    BY <2>1 DEF Talks, Tables
  <2>3. \A c \in Clients : TalkOf(c)'
    BY <1>2, <2>1, SameTalk DEF Talks
  <2> QED BY <2>2, <2>3 DEF Talks
<1>3. CASE (TimePasses \/ SessionTimeout \/ SelectFails \/ HookRun \/ MainThread) /\ UNCHANGED clientVars
  <2>1. died = "no"
    BY <1>3 DEF TimePasses, SessionTimeout, SelectFails, HookRun, TestHook, CallHook, Emit, MainThread,
                Build, ReadSession, AddHost, SetHook, SetClosure, ClearHook, ClearClosure, Release,
                MainStep, Serving
  <2> QED BY <1>2, <1>3, <2>1
<1>4. CASE UNCHANGED rtspVars
  BY <1>2, <1>4 DEF rtspVars, sessionVars
<1> QED BY <1>1, <1>3, <1>4 DEF RtspNext

(* Whatever lines arrive together, each request of a client that waits is  *)
(* answered by its own method or refused, although nothing resets the      *)
(* buffer (rtsp-server.c:162-181, 277-321, 410-438).                       *)
THEOREM AnswersFitRequests == RtspInit /\ [][RtspNext]_rtspVars => []AnswersFit
<1>1. Talks => AnswersFit
  BY DEF Talks, TalkOf, Talk, AllFit, Fits, AnswersFit
<1> QED BY <1>1, TalksInit, TalksNext, PTL

-----------------------------------------------------------------------------
(* The session, as the connections change it.                              *)

(* A process that died streams to nobody.                                  *)
LEMMA DiesInv ==
  ASSUME SessionInv, NEW reason \in {"no body", "no ports"}, died' = reason,
         UNCHANGED <<session, run, raced, mainVars, sink>>
  PROVE  SessionInv'
<1>1. /\ session' = session /\ run' = run /\ raced' = raced /\ sink' = sink
      /\ hook' = hook /\ closure' = closure /\ main' = main /\ builds' = builds /\ copy' = copy
      /\ died' # "no" /\ died' \in {"no", "no hook", "no sink", "no body", "no ports"}
  BY DEF mainVars
<1>2. SessionTypeOK'
  BY <1>1 DEF SessionInv, SessionTypeOK
<1>3. Closures' /\ Waiting' /\ Shown'
  BY <1>1 DEF SessionInv, Closures, Waiting, Settled, Shown
<1> QED BY <1>2, <1>3 DEF SessionInv

LEMMA RefreshInv ==
  ASSUME SessionInv, NEW sid, Refresh(sid), UNCHANGED <<mainVars, sink, died>>
  PROVE  SessionInv'
<1>1. CASE SessionMatch(sid)
  BY <1>1, FreshInv DEF Refresh
<1>2. CASE ~SessionMatch(sid)
  BY <1>2, SameInv DEF Refresh, Unchanged, sessionVars, serverVars
<1> QED BY <1>1, <1>2

LEMMA AnswerInv ==
  ASSUME SessionInv, Serving, NEW c \in Clients, NEW r, Answer(c, r), UNCHANGED <<mainVars, sink>>
  PROVE  SessionInv'
<1>1. ASSUME NEW reason \in {"no body", "no ports"}, Dies(reason)
      PROVE  SessionInv'
  BY <1>1, DiesInv DEF Dies
<1>2. ASSUME Unchanged, died' = died
      PROVE  SessionInv'
  BY <1>2, SameInv DEF Unchanged, sessionVars, serverVars
<1>3. ASSUME NEW answered, Dispatch(c, answered)
      PROVE  SessionInv'
  <2>1. CASE Setup(c, answered)
    <3>1. c \in Hosts
      BY RtspAssumption
    <3>2. ASSUME NEW sid \in Sids, SessionNew(c, sid), died' = died
          PROVE  SessionInv'
      BY <3>1, <3>2, SessionNewInv
    <3> QED BY <1>1, <1>2, <2>1, <3>2 DEF Setup
  <2>2. ASSUME NEW sid, Refresh(sid), died' = died
        PROVE  SessionInv'
    BY <2>2, RefreshInv
  <2>3. ASSUME NEW sid, NEW state \in {"PLAY", "TEARDOWN"}, Enter(sid, state), died' = died
        PROVE  SessionInv'
    BY <2>3, EnterInv
  <2> QED BY <1>2, <1>3, <2>1, <2>2, <2>3 DEF Dispatch
<1> QED BY <1>1, <1>3 DEF Answer

LEMMA RtspNextInv == SessionInv /\ [RtspNext]_rtspVars => SessionInv'
<1> SUFFICES ASSUME SessionInv, [RtspNext]_rtspVars PROVE SessionInv'
  OBVIOUS
<1>1. ASSUME NEW c \in Clients, Receive(c)
      PROVE  SessionInv'
  <2>1. /\ Serving /\ UNCHANGED <<mainVars, sink>>
        /\ \E r : Answer(c, r) \/ (Unchanged /\ died' = died)
    BY <1>1 DEF Receive
  <2>2. CASE Unchanged /\ died' = died
    BY <2>1, <2>2, SameInv DEF Unchanged, sessionVars, serverVars
  <2> QED BY <2>1, <2>2, AnswerInv
<1>2. ASSUME NEW c \in Clients, Connect(c) \/ Request(c) \/ Send(c) \/ Close(c)
      PROVE  SessionInv'
  BY <1>2, SameInv DEF Connect, Request, Send, Close
<1>3. CASE TimePasses \/ SessionTimeout \/ SelectFails \/ HookRun \/ MainThread
  BY <1>3, SessionNextInv DEF SessionNext
<1>4. CASE UNCHANGED rtspVars
  BY <1>4, SameInv DEF rtspVars
<1> QED BY <1>1, <1>2, <1>3, <1>4 DEF RtspNext

(* The pipeline streams to whom the session says also when the session is  *)
(* what the requests of real connections make of it (rtsp-methods.c,       *)
(* rtsp-server.c:665-689).                                                 *)
THEOREM RequestsMoveTheStream == RtspInit /\ [][RtspNext]_rtspVars => []StreamFollowsSession
<1>1. SessionInv => StreamFollowsSession
  BY DEF SessionInv, Shown, Settled, StreamFollowsSession
<1>2. RtspInit => SessionInv
  BY SessionInitInv DEF RtspInit
<1> QED BY <1>1, <1>2, RtspNextInv, PTL
=============================================================================
