----------------------------- MODULE MCPrograms -----------------------------
(***************************************************************************)
(* Model checking of the programs and libraries around the pipeline.  They *)
(* share no state, so a behaviour is one of them alone, and program tells  *)
(* which.  The server of streams is two of them: the session with threads  *)
(* that build and end pipelines, and the connections while one is up.      *)
(***************************************************************************)
EXTENDS Scgi, RtspServer, ParamStore, SensorTiming, FpgaLoader, FrameFiles, Recover, DbusJson

CONSTANTS c1, c2, h1, h2

VARIABLE program

-----------------------------------------------------------------------------
(* Web requests: an event stream, a body in two parts, parameters that     *)
(* cannot be read, no such page, a page that a pattern was not meant for,  *)
(* OPTIONS, bodies that are too large or begin no netstring, headers that  *)
(* are longer than the buffer.                                             *)
Web(path, method, head, body, netstring, params) ==
  [path |-> path, method |-> method, head |-> head, body |-> body,
   netstring |-> netstring, params |-> params]
MCWebRequests == [c \in Connections |->
  IF c = c1
  THEN {Web("subscribe", "GET", 2, 0, TRUE, TRUE), Web("p", "POST", 2, 3, TRUE, TRUE),
        Web("get", "POST", 2, 1, TRUE, FALSE), Web("xx", "GET", 1, 0, TRUE, TRUE),
        Web("stop", "GET", 2, 0, TRUE, TRUE), Web("describe", "OPTIONS", 1, 0, TRUE, TRUE),
        Web("get", "GET", 1, 5, TRUE, TRUE), Web("flush", "GET", 1, 1, FALSE, TRUE),
        Web("flush", "GET", 2, 1, TRUE, TRUE), Web("flush", "GET", 4, 0, TRUE, TRUE)}
  ELSE {Web("status", "GET", 1, 0, TRUE, TRUE)}]
MCMethods == <<"get", "set", "flush", "status", "stop", "reset">>

(* Requests to the server of streams.                                      *)
Rtsp(method, known, body, ports) ==
  [method |-> method, known |-> known, body |-> body, ports |-> ports]
MCWishes == [c \in Clients |->
  IF c = h1
  THEN <<{Rtsp("SETUP", FALSE, 0, "range"), Rtsp("PAUSE", FALSE, 0, "none")},
         {Rtsp("PLAY", TRUE, 0, "none"), Rtsp("SETUP", TRUE, 0, "none")},
         {Rtsp("TEARDOWN", TRUE, 0, "none")}>>
  ELSE <<{Rtsp("SETUP", FALSE, 0, "none"), Rtsp("SETUP", FALSE, 0, "one"),
          Rtsp("GET_PARAMETER", TRUE, 1, "none")}>>]

(* Values that are taken, clamped, refused, and not saved, and two calls   *)
(* with several: all taken, and one refused.                               *)
Wanted(name, value) == [name |-> name, value |-> value]
MCInputs ==
  {{Wanted("focusPeakingColor", "red")}, {Wanted("focusPeakingColor", "pink")},
   {Wanted("focusPeakingLevel", -1)}, {Wanted("focusPeakingLevel", 5)},
   {Wanted("zebraLevel", 1)}, {Wanted("overlayFormat", <<"a", "\"">>)},
   {Wanted("videoState", "live")}, {Wanted("videoZoom", 40)},
   {Wanted("focusPeakingColor", "blue"), Wanted("focusPeakingLevel", 5),
    Wanted("videoZoom", 2)},
   {Wanted("focusPeakingColor", "pink"), Wanted("zebraLevel", 1),
    Wanted("focusPeakingLevel", -1)}}

(* The full frame, a short one of the least width, one that is too wide.   *)
Shape(hres, vres) == [hres |-> hres, vres |-> vres, hoffset |-> 0, voffset |-> 0]
MCGeometries == {Shape(336, 96), Shape(1280, 1024), Shape(1296, 1024)}

(* A whole image, one cut short, one for another device, read from a pipe  *)
(* or from a file, and one that only claims nothing.                       *)
File(id, chunks, seekable) == [device |-> id, chunks |-> chunks, seekable |-> seekable]
MCBitstreams ==
  {File(1, <<1, 2, 3>>, TRUE), File(1, <<1, 2>>, TRUE), File(2, <<1, 2, 3>>, FALSE),
   File(2, <<1, 2, 3>>, TRUE), File(1, <<1, 2, 3>>, FALSE)}

(* A name in the root, one below it, the same by a way round, and one that *)
(* ends in a slash.                                                        *)
Path(segs, slash) == [segs |-> segs, slash |-> slash]
MCPaths ==
  {Path(<<"a">>, FALSE), Path(<<"a", "b">>, FALSE), Path(<<"a", "c", "..", ".", "b">>, FALSE),
   Path(<<"a", "b">>, TRUE)}

(* Recover into a new directory, a range of frames over an old one with    *)
(* the fast readout, all memory into the working directory, inspect only.  *)
CommandLine(all, force, inspect, cwd, fast, from, length) ==
  [all |-> all, force |-> force, inspect |-> inspect, cwd |-> cwd, fast |-> fast,
   from |-> from, length |-> length]
MCOptions ==
  {CommandLine(FALSE, FALSE, FALSE, FALSE, FALSE, 0, 99), CommandLine(FALSE, TRUE, FALSE, FALSE, TRUE, 1, 2),
   CommandLine(TRUE, TRUE, FALSE, TRUE, FALSE, 0, 99), CommandLine(FALSE, TRUE, TRUE, FALSE, FALSE, 0, 99)}

(* Dictionaries in dictionaries, numbers of every type and size, a text to *)
(* escape, a type without JSON, arrays; and texts of arrays alone.         *)
Pair(v, w) == Dictionary([n \in {<<"a">>, <<"b">>} |-> IF n = <<"a">> THEN v ELSE w])
MCReplies ==
  {Pair(Pair(Number("int", -100), Number("double", 5994)), Text(<<"x">>)),
   Pair(Text(<<"x">>), Pair(Number("uint", 100), Truth(TRUE))),
   Pair(Number("double", 1677721600), Number("double", 200)),
   Pair(Text(<<"\"">>), Number("void", 200)),
   Pair(ArrayOf(<<Number("uint", 3000000)>>), Text(<<"x">>)),
   Pair(ArrayOf(<<Dictionary([n \in {<<"a">>} |-> Truth(FALSE)])>>), Text(<<"x">>))}
List(kids) == <<Token("array", Len(kids), <<>>, NoWord)>> \o kids
MCTexts ==
  {<<>>, <<WordToken("x")>>} \cup {json_printf_gval(r) : r \in MCReplies} \cup
  {List(<<>>), List(List(<<>>)), List(<<StringToken(<<"a">>), WordToken("true")>>),
   List(<<WordToken("true"), NumberToken(100, FALSE)>>),
   List(<<NumberToken(150, TRUE), NumberToken(100, FALSE)>>)}

-----------------------------------------------------------------------------
(* The pipeline is up and serves nobody yet.                               *)
PipelineUp ==
  /\ session = NoSession /\ run = Idle /\ hook = TRUE /\ closure = 1 /\ sink = Nowhere
  /\ main = "up" /\ builds = 1 /\ copy = NoSession /\ raced = FALSE /\ died = "no"

NobodyConnected ==
  /\ client = [c \in Clients |-> NoClient]
  /\ asked = [c \in Clients |-> <<>>] /\ incoming = [c \in Clients |-> <<>>]
  /\ answers = [c \in Clients |-> <<>>] /\ knows = [c \in Clients |-> 0]
  /\ orderly = [c \in Clients |-> TRUE]

Init ==
  /\ program \in {"gateway", "session", "streams", "parameters", "sensor", "loader", "files",
                  "recover", "json"}
  /\ ScgiInit /\ NobodyConnected /\ ParamInit /\ SensorInit /\ LoaderInit /\ FilesInit
  /\ RecoverInit /\ JsonInit
  /\ IF program = "streams" THEN PipelineUp ELSE SessionInit
  /\ program # "files" => camera = CHOOSE c \in [serial : Serials, color : BOOLEAN, listed : {TRUE}, alive : {TRUE}] : TRUE
  /\ program # "recover" => ~dest.exists /\ dump.opt = CHOOSE o \in Options : ~o.cwd

Next ==
  /\ UNCHANGED program
  /\ \/ program = "gateway" /\ ScgiNext
        /\ UNCHANGED <<rtspVars, paramVars, sensor, loaderVars, filesVars, recoverVars, jsonVars>>
     \/ program = "session" /\ SessionNext
        /\ UNCHANGED <<clientVars, scgiVars, paramVars, sensor, loaderVars, filesVars, recoverVars, jsonVars>>
     \/ program = "streams" /\ RtspNext /\ UNCHANGED mainVars
        /\ UNCHANGED <<scgiVars, paramVars, sensor, loaderVars, filesVars, recoverVars, jsonVars>>
     \/ program = "parameters" /\ ParamNext
        /\ UNCHANGED <<scgiVars, rtspVars, sensor, loaderVars, filesVars, recoverVars, jsonVars>>
     \/ program = "sensor" /\ SensorNext
        /\ UNCHANGED <<scgiVars, rtspVars, paramVars, loaderVars, filesVars, recoverVars, jsonVars>>
     \/ program = "loader" /\ LoaderNext
        /\ UNCHANGED <<scgiVars, rtspVars, paramVars, sensor, filesVars, recoverVars, jsonVars>>
     \/ program = "files" /\ FilesNext
        /\ UNCHANGED <<scgiVars, rtspVars, paramVars, sensor, loaderVars, recoverVars, jsonVars>>
     \/ program = "recover" /\ RecoverNext
        /\ UNCHANGED <<scgiVars, rtspVars, paramVars, sensor, loaderVars, filesVars, jsonVars>>
     \/ program = "json" /\ JsonNext
        /\ UNCHANGED <<scgiVars, rtspVars, paramVars, sensor, loaderVars, filesVars, recoverVars>>

vars == <<program, scgiVars, rtspVars, paramVars, sensor, loaderVars, filesVars, recoverVars, jsonVars>>

(* The gateway and the server of streams are fair; the other programs have *)
(* no action of theirs enabled, and the other way round.                   *)
Spec == Init /\ [][Next]_vars /\ ScgiFairness /\ RtspFairness
=============================================================================
