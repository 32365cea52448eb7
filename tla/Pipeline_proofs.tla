-------------------------- MODULE Pipeline_proofs --------------------------
(***************************************************************************)
(* For every number of calls, faults and queued commands: the main loop    *)
(* never sleeps on a stopped pipeline with nothing on its way to wake it,  *)
(* and no save starts that was not asked for.                              *)
(*                                                                         *)
(* The first needs what holds before main reads the pipe too, while it     *)
(* waits for PLAYING (Awake); the second needs to count the saves that are *)
(* promised but not started, in request and in main's copy of it, and that *)
(* Home gives up the one in request (Promised).                            *)
(***************************************************************************)
EXTENDS Pipeline, TLAPS

Stopping   == {"draining", "ended", "paused", "failed"}

Awake ==
  /\ main.pc = "start" => gst.state \in {"starting", "playing"} \cup Stopping
  /\ main.pc = "run" => gst.state \in {"playing"} \cup Stopping
  /\ main.pc \in {"start", "run"} /\ gst.state \in Stopping => Coming

Promised ==
  /\ gst.granted >= 0
  /\ request = "save" => gst.granted >= 1
  /\ main.mode = "save" /\ main.pc \in {"pause", "home"} => gst.granted >= 1
  /\ main.mode = "save" /\ main.pc = "launch" =>
       gst.granted >= IF request = "save" THEN 2 ELSE 1

Inv == TypeOK /\ Awake /\ Promised

-----------------------------------------------------------------------------
(* What queueing and taking do to what a queue holds. *)

LEMMA HasAppend ==
  ASSUME NEW S, NEW q \in Seq(S), NEW x, NEW y \in S
  PROVE  /\ Has(q, x) => Has(Append(q, y), x)
         /\ Has(Append(q, y), y)
<1>1. /\ Len(Append(q, y)) = Len(q) + 1
      /\ Append(q, y)[Len(q) + 1] = y
      /\ \A i \in 1 .. Len(q) : Append(q, y)[i] = q[i]
  OBVIOUS
<1>2. Len(q) \in Nat
  OBVIOUS
<1> QED BY <1>1, <1>2 DEF Has

LEMMA HasTail ==
  ASSUME NEW S, NEW q \in Seq(S), q # <<>>, NEW x, Has(q, x), Head(q) # x
  PROVE  Has(Tail(q), x)
<1>1. PICK i \in 1 .. Len(q) : q[i] = x
  BY DEF Has
<1>2. i # 1 /\ Len(q) \in Nat
  BY <1>1
<1>3. Len(Tail(q)) = Len(q) - 1 /\ Tail(q)[i - 1] = q[i]
  BY <1>1, <1>2
<1>4. i - 1 \in 1 .. Len(Tail(q))
  BY <1>1, <1>2, <1>3
<1> QED BY <1>1, <1>3, <1>4 DEF Has

-----------------------------------------------------------------------------
LEMMA Starts == Init => Inv
<1> SUFFICES ASSUME Init PROVE Inv
  OBVIOUS
<1>1. main \in MainFields /\ gst \in GstFields
  BY PipelineAssumption DEF Init, MainFields, GstFields, Modes, Display
<1>2. bus \in Seq(Messages) /\ chars \in Seq(Characters) /\ pipe \in Seq(Orders)
  BY DEF Init
<1>3. calls \in 0 .. MaxCalls /\ faults \in 0 .. MaxFaults
  BY PipelineAssumption DEF Init
<1>4. catch_sigint \in BOOLEAN
  BY DEF Init
<1>5. TypeOK
  BY <1>1, <1>2, <1>3, <1>4 DEF Init, TypeOK, Modes, Display
<1>6. Awake /\ Promised
  BY DEF Init, Awake, Promised
<1> QED BY <1>5, <1>6 DEF Inv

(* Assigning one field of a record. *)
LEMMA FieldTypes ==
  /\ \A m \in MainFields, pc \in {"copy", "pause", "home", "launch", "start", "run",
                                  "ready", "null", "next", "done"} :
       [m EXCEPT !.pc = pc] \in MainFields
  /\ \A g \in GstFields, s \in {"none", "starting", "playing", "draining", "ended",
                                "paused", "failed", "ready"} :
       [g EXCEPT !.state = s] \in GstFields
  /\ \A g \in GstFields, n \in 0 .. FrameCount : [g EXCEPT !.left = n] \in GstFields
  /\ \A g \in GstFields, t \in BOOLEAN : [g EXCEPT !.told = t] \in GstFields
  /\ \A g \in GstFields, n \in Int : [g EXCEPT !.granted = n] \in GstFields
BY DEF MainFields, GstFields

LEMMA QueueTypes ==
  ASSUME NEW S, NEW q \in Seq(S)
  PROVE  /\ \A x \in S : Append(q, x) \in Seq(S)
         /\ q # <<>> => Tail(q) \in Seq(S) /\ Head(q) \in S
OBVIOUS

LEMMA TypeStep == TypeOK /\ [Next]_vars => TypeOK'
<1> SUFFICES ASSUME TypeOK, [Next]_vars PROVE TypeOK'
  OBVIOUS
<1>f. /\ main.pc \in {"copy", "pause", "home", "launch", "start", "run", "ready", "null", "next", "done"}
      /\ main.mode \in Modes
      /\ gst.state \in {"none", "starting", "playing", "draining", "ended", "paused", "failed", "ready"}
      /\ gst.left \in 0 .. FrameCount /\ gst.told \in BOOLEAN /\ gst.granted \in Int
  BY DEF TypeOK, MainFields, GstFields
<1>n. /\ faults < MaxFaults => faults + 1 \in 0 .. MaxFaults
      /\ calls < MaxCalls => calls + 1 \in 0 .. MaxCalls
  BY PipelineAssumption DEF TypeOK
<1>g. /\ 0 \in 0 .. FrameCount /\ FrameCount \in 0 .. FrameCount
      /\ gst.left > 0 => gst.left - 1 \in 0 .. FrameCount
      /\ gst.granted - 1 \in Int /\ gst.granted + 1 \in Int
  BY PipelineAssumption, <1>f
<1>q. /\ \A x \in Messages : Append(bus, x) \in Seq(Messages)
      /\ \A x \in Characters : Append(chars, x) \in Seq(Characters)
      /\ \A x \in Orders : Append(pipe, x) \in Seq(Orders)
      /\ bus # <<>> => Tail(bus) \in Seq(Messages)
      /\ chars # <<>> => Tail(chars) \in Seq(Characters)
      /\ pipe # <<>> => Tail(pipe) \in Seq(Orders) /\ Head(pipe) \in Orders
  BY QueueTypes DEF TypeOK
<1> USE FieldTypes, <1>f DEF TypeOK
<1>1. CASE MainLoop
  <2>1. CASE Copy
    <3>1. main' \in MainFields
      BY <2>1 DEF Copy, MainFields
    <3> QED BY <2>1, <3>1 DEF Copy
  <2>2. CASE playback_pause
    <3>1. main' \in MainFields
      BY <2>2 DEF playback_pause
    <3> QED BY <2>2, <3>1 DEF playback_pause
  <2>3. CASE Home
    <3>1. main' \in MainFields /\ request' \in Modes
      BY <2>3 DEF Home, Modes, Display
    <3> QED BY <2>3, <3>1 DEF Home
  <2>4. CASE Launch
    <3>1. main' \in MainFields
      BY <2>4 DEF Launch
    <3>2. gst' \in GstFields
      BY <1>g, <2>4 DEF Launch, GstFields
    <3> QED BY <2>4, <3>1, <3>2 DEF Launch
  <2>5. CASE LaunchFails
    <3>1. main' \in MainFields
      BY <2>5 DEF LaunchFails
    <3>2. gst' \in GstFields
      BY <1>g, <2>5 DEF LaunchFails
    <3>3. request' \in Modes /\ faults' \in 0 .. MaxFaults
      BY <1>n, <2>5 DEF LaunchFails, Modes, Display
    <3> QED BY <2>5, <3>1, <3>2, <3>3 DEF LaunchFails
  <2>6. CASE Started
    <3>1. main' \in MainFields
      BY <2>6 DEF Started
    <3> QED BY <2>6, <3>1 DEF Started
  <2>7. CASE StartFails
    <3>1. main' \in MainFields /\ gst' \in GstFields
      BY <2>7 DEF StartFails
    <3>2. faults' \in 0 .. MaxFaults
      BY <1>n, <2>7 DEF StartFails
    <3> QED BY <2>7, <3>1, <3>2 DEF StartFails
  <2>8. CASE Read
    <3>1. main' \in MainFields /\ gst' \in GstFields /\ chars' \in Seq(Characters)
      BY <1>q, <2>8 DEF Read
    <3> QED BY <2>8, <3>1 DEF Read
  <2>9. CASE Ready
    <3>1. main' \in MainFields /\ gst' \in GstFields /\ bus' \in Seq(Messages)
      BY <1>q, <2>9 DEF Ready, Messages
    <3> QED BY <2>9, <3>1 DEF Ready
  <2>10. CASE Null
    <3>1. main' \in MainFields
      BY <2>10 DEF Null
    <3>2. gst' \in GstFields
      <4>1. [gst EXCEPT !.state = "none"] \in GstFields
        OBVIOUS
      <4>2. [gst EXCEPT !.state = "none", !.left = 0] \in GstFields
        BY <1>g, <4>1
      <4>3. [gst EXCEPT !.state = "none", !.left = 0, !.told = FALSE] \in GstFields
        BY <4>2
      <4> QED BY <2>10, <4>3 DEF Null
    <3>3. bus' \in Seq(Messages)
      BY <2>10 DEF Null
    <3> QED BY <2>10, <3>1, <3>2, <3>3 DEF Null
  <2>11. CASE Again
    <3>1. main' \in MainFields
      BY <2>11 DEF Again, MainFields, Modes, Display
    <3> QED BY <2>11, <3>1 DEF Again
  <2> QED BY <1>1, <2>1, <2>2, <2>3, <2>4, <2>5, <2>6, <2>7, <2>8, <2>9, <2>10, <2>11 DEF MainLoop
<1>2. CASE GStreamer
  <2>1. CASE ReachPlaying
    <3>1. gst' \in GstFields /\ bus' \in Seq(Messages)
      BY <1>q, <2>1 DEF ReachPlaying, Messages
    <3> QED BY <2>1, <3>1 DEF ReachPlaying
  <2>2. CASE Encode
    <3>1. gst.left - 1 \in 0 .. FrameCount
      BY <1>g, <2>2 DEF Encode
    <3>2. [gst EXCEPT !.left = @ - 1] \in GstFields
      BY <3>1
    <3>3. gst' \in GstFields
      BY <2>2, <3>2 DEF Encode
    <3>4. bus' \in Seq(Messages)
      BY <1>q, <2>2 DEF Encode, Messages
    <3> QED BY <2>2, <3>3, <3>4 DEF Encode
  <2>3. CASE Drain
    <3>1. gst' \in GstFields /\ bus' \in Seq(Messages)
      BY <1>q, <2>3 DEF Drain, Messages
    <3> QED BY <2>3, <3>1 DEF Drain
  <2>4. CASE Fail
    <3>1. gst' \in GstFields /\ bus' \in Seq(Messages)
      BY <1>q, <2>4 DEF Fail, Messages
    <3>2. faults' \in 0 .. MaxFaults
      BY <1>n, <2>4 DEF Fail
    <3> QED BY <2>4, <3>1, <3>2 DEF Fail
  <2> QED BY <1>2, <2>1, <2>2, <2>3, <2>4 DEF GStreamer
<1>3. CASE BusWatch
  <2>1. CASE SourcePlaying
    <3>1. bus' \in Seq(Messages)
      BY <1>q, <2>1 DEF SourcePlaying, Message
    <3>2. pipe' \in Seq(Orders)
      BY <1>q, <2>1 DEF SourcePlaying, Orders, Modes, Display
    <3> QED BY <2>1, <3>1, <3>2 DEF SourcePlaying
  <2>2. CASE EndOfStream
    <3>1. Tail(bus) \in Seq(Messages)
      BY <1>q, <2>2 DEF EndOfStream, Message
    <3>2. Append(Tail(bus), "left") \in Seq(Messages)
      BY <3>1 DEF Messages
    <3>3. gst' \in GstFields /\ bus' \in Seq(Messages)
      BY <2>2, <3>1, <3>2 DEF EndOfStream
    <3> QED BY <2>2, <3>3 DEF EndOfStream
  <2>3. CASE LeftPlaying
    <3>1. bus' \in Seq(Messages) /\ chars' \in Seq(Characters)
      BY <1>q, <2>3 DEF LeftPlaying, Message, Characters
    <3> QED BY <2>3, <3>1 DEF LeftPlaying
  <2>4. CASE Error
    <3>1. bus' \in Seq(Messages) /\ chars' \in Seq(Characters)
      BY <1>q, <2>4 DEF Error, Message, Characters
    <3> QED BY <2>4, <3>1 DEF Error
  <2> QED BY <1>3, <2>1, <2>2, <2>3, <2>4 DEF BusWatch
<1>4. CASE Command
  <2>1. pipe' \in Seq(Orders) /\ playstate' \in {"pause", "live", "play", "filesave"}
    BY <1>q, <1>4 DEF Command, Orders
  <2> QED BY <1>4, <2>1 DEF Command
<1>5. CASE Calls
  <2>1. ASSUME Call PROVE calls' \in 0 .. MaxCalls
    BY <1>n, <2>1 DEF Call
  <2>2. CASE \E mode \in {"live", "play"} : AskMode(mode)
    BY <2>1, <2>2 DEF AskMode, Modes, Display
  <2>3. CASE \E mode \in {"pause", "live"} : AskRestart(mode)
    BY <2>1, <2>3 DEF AskRestart, Modes, Display
  <2>4. CASE AskAgain BY <2>1, <2>4 DEF AskAgain
  <2>5. CASE cam_video_recordfile BY <2>1, <2>5 DEF cam_video_recordfile
  <2> QED BY <1>5, <2>2, <2>3, <2>4, <2>5 DEF Calls
<1>6. ASSUME NEW c \in Characters, Write(c)
      PROVE  chars' \in Seq(Characters) /\ gst' \in GstFields
  <2>1. (gst.told \/ gst.state # "none") \in BOOLEAN
    OBVIOUS
  <2>2. [gst EXCEPT !.told = @ \/ gst.state # "none"] \in GstFields
    BY <2>1
  <2> QED BY <1>q, <1>6, <2>2 DEF Write
<1>7. CASE Handlers
  <2>1. CASE AnswerMode
    <3>1. /\ pipe' \in Seq(Orders) /\ runmode' \in Modes
          /\ caller' \in {"none", "live", "play", "save", "restart"}
      BY <1>q, <2>1 DEF AnswerMode, Orders, Modes, Display
    <3> QED BY <2>1, <3>1 DEF AnswerMode
  <2>2. CASE AskSave
    <3>1. gst' \in GstFields /\ request' \in Modes
      BY <1>g, <2>2 DEF AskSave, Modes
    <3> QED BY <2>2, <3>1 DEF AskSave
  <2>3. CASE cam_pipeline_restart BY <1>6, <2>3 DEF cam_pipeline_restart, Characters
  <2> QED BY <1>7, <2>1, <2>2, <2>3 DEF Handlers
<1>8. CASE handle_sighup
  <2>1. calls' \in 0 .. MaxCalls
    BY <1>n, <1>8 DEF handle_sighup
  <2> QED BY <1>6, <1>8, <2>1 DEF handle_sighup, Characters
<1>9. CASE handle_sigint
  <2>1. catch_sigint' \in BOOLEAN /\ Write("int") /\ UNCHANGED <<request, runmode, playstate, main, bus, pipe, caller, calls, faults>>
    BY <1>9 DEF handle_sigint
  <2> QED BY <1>6, <2>1 DEF Characters
<1>10. CASE UNCHANGED vars BY <1>10 DEF vars
<1> QED BY <1>1, <1>2, <1>3, <1>4, <1>5, <1>7, <1>8, <1>9, <1>10 DEF Next

-----------------------------------------------------------------------------
LEMMA PromisedStep == TypeOK /\ Promised /\ [Next]_vars => Promised'
<1> SUFFICES ASSUME TypeOK, Promised, [Next]_vars PROVE Promised'
  OBVIOUS
<1> USE DEF Promised
<1>0. /\ main \in [pc : {"copy", "pause", "home", "launch", "start", "run", "ready", "null", "next", "done"},
                  mode : Modes]
      /\ gst \in [state : {"none", "starting", "playing", "draining", "ended", "paused", "failed", "ready"},
                 left : 0 .. FrameCount, told : BOOLEAN, granted : Int]
  BY DEF TypeOK, MainFields, GstFields
<1>1. CASE MainLoop
  <2>1. CASE Copy BY <1>0, <2>1 DEF Copy
  <2>2. CASE playback_pause BY <1>0, <2>2 DEF playback_pause
  <2>3. CASE Home
    <3>1. request' # "save"
      BY <2>3 DEF Home
    <3> QED BY <1>0, <2>3, <3>1 DEF Home
  <2>4. CASE Launch BY <1>0, <2>4 DEF Launch
  <2>5. CASE LaunchFails BY <1>0, <2>5 DEF LaunchFails
  <2>6. CASE Started BY <1>0, <2>6 DEF Started
  <2>7. CASE StartFails BY <1>0, <2>7 DEF StartFails
  <2>8. CASE Read BY <1>0, <2>8 DEF Read
  <2>9. CASE Ready BY <1>0, <2>9 DEF Ready
  <2>10. CASE Null BY <1>0, <2>10 DEF Null
  <2>11. CASE Again BY <1>0, <2>11 DEF Again
  <2> QED BY <1>1, <2>1, <2>2, <2>3, <2>4, <2>5, <2>6, <2>7, <2>8, <2>9, <2>10, <2>11 DEF MainLoop
<1>2. CASE GStreamer
  BY <1>0, <1>2 DEF GStreamer, ReachPlaying, Encode, Drain, Fail
<1>3. CASE BusWatch
  BY <1>0, <1>3 DEF BusWatch, SourcePlaying, EndOfStream, LeftPlaying, Error
<1>4. CASE Command BY <1>4 DEF Command
<1>5. CASE Calls
  BY <1>5 DEF Calls, AskMode, AskRestart, AskAgain, cam_video_recordfile
<1>6. CASE Handlers
  <2>1. CASE AnswerMode BY <2>1 DEF AnswerMode
  <2>2. CASE AskSave BY <1>0, <2>2 DEF AskSave
  <2>3. CASE cam_pipeline_restart BY <1>0, <2>3 DEF cam_pipeline_restart, Write
  <2> QED BY <1>6, <2>1, <2>2, <2>3 DEF Handlers
<1>7. CASE handle_sighup BY <1>0, <1>7 DEF handle_sighup, Write
<1>8. CASE handle_sigint BY <1>0, <1>8 DEF handle_sigint, Write
<1>9. CASE UNCHANGED vars BY <1>9 DEF vars
<1> QED BY <1>1, <1>2, <1>3, <1>4, <1>5, <1>6, <1>7, <1>8, <1>9 DEF Next

-----------------------------------------------------------------------------
(* What the bus watch reads and writes keeps the end on its way.           *)
LEMMA AwakeStep == TypeOK /\ Awake /\ [Next]_vars => Awake'
<1> SUFFICES ASSUME TypeOK, Awake, [Next]_vars PROVE Awake'
  OBVIOUS
<1> USE DEF Stopping
<1>0. /\ main \in [pc : {"copy", "pause", "home", "launch", "start", "run", "ready", "null", "next", "done"},
                  mode : Modes]
      /\ gst \in [state : {"none", "starting", "playing", "draining", "ended", "paused", "failed", "ready"},
                 left : 0 .. FrameCount, told : BOOLEAN, granted : Int]
      /\ bus \in Seq(Messages)
      /\ chars \in Seq(Characters)
  BY DEF TypeOK, MainFields, GstFields
<1>c. \A x, y \in Characters : Has(chars, x) => Has(Append(chars, y), x)
  BY <1>0, HasAppend
<1>ce. \A y \in Characters : Has(Append(chars, y), y)
  BY <1>0, HasAppend
<1>b. \A x, y \in Messages : Has(bus, x) => Has(Append(bus, y), x)
  BY <1>0, HasAppend
<1>be. \A y \in Messages : Has(Append(bus, y), y)
  BY <1>0, HasAppend
<1>bt. bus # <<>> => \A x \in Messages : Has(bus, x) /\ Head(bus) # x => Has(Tail(bus), x)
  BY <1>0, HasTail
<1>ct. chars # <<>> => \A x \in Characters : Has(chars, x) /\ Head(chars) # x => Has(Tail(chars), x)
  BY <1>0, HasTail
<1>1. CASE MainLoop
  <2>1. CASE Copy BY <1>0, <2>1 DEF Copy, Awake
  <2>2. CASE playback_pause BY <1>0, <2>2 DEF playback_pause, Awake
  <2>3. CASE Home BY <1>0, <2>3 DEF Home, Awake
  <2>4. CASE Launch BY <1>0, <2>4 DEF Launch, Awake
  <2>5. CASE LaunchFails BY <1>0, <2>5 DEF LaunchFails, Awake
  <2>6. CASE Started BY <1>0, <2>6 DEF Started, Awake, Coming, IsPlaying
  <2>7. CASE StartFails BY <1>0, <2>7 DEF StartFails, Awake
  <2>8. CASE Read
    <3>1. CASE Head(chars) = "end"
      BY <1>0, <2>8, <3>1 DEF Read, Awake
    <3>2. CASE Head(chars) # "end"
      <4>1. Has(chars, "end") => Has(chars', "end")
        BY <1>ct, <2>8, <3>2 DEF Read, Characters
      <4>2. UNCHANGED <<main, bus>> /\ gst' = IF gst.state = "playing" THEN [gst EXCEPT !.state = "draining"] ELSE gst
        BY <2>8, <3>2 DEF Read
      <4> QED BY <1>0, <4>1, <4>2 DEF Awake, Coming
    <3> QED BY <3>1, <3>2
  <2>9. CASE Ready BY <1>0, <2>9 DEF Ready, Awake
  <2>10. CASE Null BY <1>0, <2>10 DEF Null, Awake
  <2>11. CASE Again BY <1>0, <2>11 DEF Again, Awake
  <2> QED BY <1>1, <2>1, <2>2, <2>3, <2>4, <2>5, <2>6, <2>7, <2>8, <2>9, <2>10, <2>11 DEF MainLoop
<1>2. CASE GStreamer
  <2>1. CASE ReachPlaying BY <1>0, <2>1 DEF ReachPlaying, Awake
  <2>2. CASE Encode
    <3>1. CASE gst.left = 1
      <4>1. gst'.state = "ended" /\ Has(bus', "eos") /\ UNCHANGED main
        BY <1>0, <1>be, <2>2, <3>1 DEF Encode, Messages
      <4> QED BY <1>0, <2>2, <4>1 DEF Encode, Awake, Coming
    <3>2. CASE gst.left # 1
      BY <1>0, <2>2, <3>2 DEF Encode, Awake
    <3> QED BY <3>1, <3>2
  <2>3. CASE Drain
    <3>1. gst'.state = "ended" /\ Has(bus', "eos") /\ UNCHANGED main
      BY <1>0, <1>be, <2>3 DEF Drain, Messages
    <3> QED BY <1>0, <2>3, <3>1 DEF Drain, Awake, Coming
  <2>4. CASE Fail
    <3>1. gst'.state = "failed" /\ Has(bus', "error") /\ UNCHANGED main
      BY <1>0, <1>be, <2>4 DEF Fail, Messages
    <3> QED BY <1>0, <2>4, <3>1 DEF Fail, Awake, Coming
  <2> QED BY <1>2, <2>1, <2>2, <2>3, <2>4 DEF GStreamer
<1>3. CASE BusWatch
  <2>1. CASE SourcePlaying
    <3>1. Head(bus) = "playing" /\ bus # <<>> /\ bus' = Tail(bus) /\ UNCHANGED <<main, gst, chars>>
      BY <2>1 DEF SourcePlaying, Message
    <3>2. \A x \in {"eos", "left", "error"} : Has(bus, x) => Has(bus', x)
      BY <1>bt, <3>1 DEF Messages
    <3> QED BY <3>1, <3>2 DEF Awake, Coming, Has
  <2>2. CASE EndOfStream
    <3>1. Head(bus) = "eos" /\ bus # <<>> /\ UNCHANGED <<main, chars>>
      BY <2>2 DEF EndOfStream, Message
    <3>2. \A x \in {"left", "error"} : Has(bus, x) => Has(Tail(bus), x)
      BY <1>bt, <3>1 DEF Messages
    <3>3. CASE IsPlaying
      <4>1. gst' = [gst EXCEPT !.state = "paused"] /\ bus' = Append(Tail(bus), "left")
        BY <2>2, <3>3 DEF EndOfStream
      <4>2. Tail(bus) \in Seq(Messages)
        BY <1>0, <3>1
      <4>3. \A q \in Seq(Messages), y \in Messages : Has(Append(q, y), y)
        BY HasAppend
      <4>4. Has(bus', "left")
        BY <4>1, <4>2, <4>3 DEF Messages
      <4>5. gst'.state = "paused"
        BY <1>0, <4>1
      <4> QED BY <3>1, <4>4, <4>5 DEF Awake, Coming
    <3>4. CASE ~IsPlaying
      <4>1. gst' = gst /\ bus' = Tail(bus)
        BY <2>2, <3>4 DEF EndOfStream
      <4> QED BY <1>0, <3>1, <3>2, <3>4, <4>1 DEF Awake, Coming, IsPlaying, Has
    <3> QED BY <3>3, <3>4
  <2>3. CASE LeftPlaying
    <3>1. Has(chars', "end") /\ UNCHANGED <<main, gst>>
      BY <1>ce, <2>3 DEF LeftPlaying, Characters
    <3> QED BY <3>1 DEF Awake, Coming
  <2>4. CASE Error
    <3>1. Has(chars', "end") /\ UNCHANGED <<main, gst>>
      BY <1>ce, <2>4 DEF Error, Characters
    <3> QED BY <3>1 DEF Awake, Coming
  <2> QED BY <1>3, <2>1, <2>2, <2>3, <2>4 DEF BusWatch
<1>4. CASE UNCHANGED <<main, gst, bus, chars>>
  BY <1>4 DEF Awake, Coming, Has
<1>5. ASSUME NEW c \in Characters, Write(c), UNCHANGED <<main, bus>>
      PROVE  Awake'
  <2>1. Has(chars, "end") => Has(chars', "end")
    BY <1>c, <1>5 DEF Write, Characters
  <2>2. gst'.state = gst.state
    BY <1>0, <1>5 DEF Write
  <2> QED BY <1>5, <2>1, <2>2 DEF Awake, Coming, Has
<1>6. CASE Handlers
  <2>1. CASE AnswerMode BY <1>4, <2>1 DEF AnswerMode
  <2>2. CASE AskSave
    <3>1. gst'.state = gst.state /\ UNCHANGED <<main, bus, chars>>
      BY <1>0, <2>2 DEF AskSave
    <3> QED BY <3>1 DEF Awake, Coming, Has
  <2>3. CASE cam_pipeline_restart BY <1>5, <2>3 DEF cam_pipeline_restart, Characters
  <2> QED BY <1>6, <2>1, <2>2, <2>3 DEF Handlers
<1>7. CASE Command BY <1>4, <1>7 DEF Command
<1>8. CASE Calls
  BY <1>4, <1>8 DEF Calls, AskMode, AskRestart, AskAgain, cam_video_recordfile
<1>9. CASE handle_sighup BY <1>5, <1>9 DEF handle_sighup, Characters
<1>10. CASE handle_sigint BY <1>5, <1>10 DEF handle_sigint, Characters
<1>11. CASE UNCHANGED vars BY <1>4, <1>11 DEF vars
<1> QED BY <1>1, <1>2, <1>3, <1>6, <1>7, <1>8, <1>9, <1>10, <1>11 DEF Next

-----------------------------------------------------------------------------
LEMMA Invariance == Spec => []Inv
<1>1. Inv /\ [Next]_vars => Inv'
  BY TypeStep, PromisedStep, AwakeStep DEF Inv
<1> QED BY Starts, <1>1, PTL DEF Spec

(* The state of the threads, of GStreamer and of their queues stays within *)
(* the values the code can hold, whatever the handlers, the signals and    *)
(* the faults do (cam-pipeline.c, main).                                   *)
THEOREM TypeCorrect == Spec => []TypeOK
BY Invariance, PTL DEF Inv

(* main never blocks for good in its read of the signal pipe: a pipeline   *)
(* that has stopped has a character on its way (cam-pipeline.c, main and   *)
(* cam_bus_watch).                                                         *)
THEOREM MainWakes == Spec => []EndIsComing
<1>1. Inv => EndIsComing
  BY DEF Inv, Awake, EndIsComing, Stopping
<1> QED BY Invariance, <1>1, PTL

(* No save runs that recordfile did not accept, and none runs twice        *)
(* (cam-pipeline.c, main, "Unless it would cause a loop").                 *)
THEOREM NoSaveUnasked == Spec => []SavesAreAsked
<1>1. Inv => SavesAreAsked
  BY DEF Inv, Promised, SavesAreAsked
<1> QED BY Invariance, <1>1, PTL
=============================================================================
