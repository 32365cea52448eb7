------------------------------ MODULE ParamStore ------------------------------
(***************************************************************************)
(* The parameters of the video service (dbus-params.c, dbus-video.c): the  *)
(* D-Bus thread sets them, saves the persistent ones a second later and    *)
(* loads them at start; the focus aids among them are bits of the FPGA's   *)
(* display control register, which the playback thread and the main thread *)
(* write when they change the state of playback.  Power may fail at any    *)
(* time.                                                                   *)
(***************************************************************************)
EXTENDS Integers, Sequences

CONSTANTS
  Inputs,       (* the sets of [name, value] pairs that clients set in  *)
                (* one call, each with its own name                     *)
  MaxLevel,     (* the level 1.0, in units                              *)
  MaxSets,      (* bound: calls that set parameters                     *)
  MaxCommands,  (* bound: changes of the playback state                 *)
  MaxFailures   (* bound: losses of power, and of the file              *)

VARIABLES
  param,      (* the parameters                                         *)
  dirty,      (* config.dirty                                           *)
  timer,      (* the flush timer runs                                   *)
  file,       (* the configuration file                                 *)
  dbus,       (* the D-Bus thread: its step and its copy of a register  *)
  register,   (* the aids in the display control register               *)
  playstate,  (* "live", or "paused" for any other state                *)
  player,     (* the thread that changes the state of playback          *)
  tangled,    (* history: a set and such a change overlapped            *)
  unsaved,    (* history: the file could not be opened                  *)
  sets, commands, failures

configVars == <<param, dirty, timer, file, unsaved>>
displayVars == <<register, playstate, player, commands>>
paramVars == <<configVars, dbus, displayVars, tangled, sets, failures>>

Colors == {"black", "red", "green", "blue", "cyan", "magenta", "yellow", "white"}

(* cam_dbus_params, with the default of a parameter that is saved.         *)
Param(type, set, saved, default) ==
  [type |-> type, set |-> set, saved |-> saved, default |-> default]

cam_dbus_params ==
  [focusPeakingColor |-> Param("color", TRUE, TRUE, "cyan"),
   focusPeakingLevel |-> Param("level", TRUE, TRUE, 0),
   zebraLevel        |-> Param("level", TRUE, TRUE, 0),
   overlayEnable     |-> Param("boolean", TRUE, TRUE, FALSE),
   overlayFormat     |-> Param("string", TRUE, TRUE, <<>>),
   overlayPosition   |-> Param("position", TRUE, TRUE, "bottom"),
   videoZoom         |-> Param("zoom", TRUE, FALSE, 4),
   videoState        |-> Param("state", FALSE, FALSE, "paused")]

Names == DOMAIN cam_dbus_params
SavedNames == {n \in Names : cam_dbus_params[n].saved}
Defaults == [n \in SavedNames |-> cam_dbus_params[n].default]

(* A value is of the type of its parameter: others are transformed or      *)
(* refused (dbus-params.c:598-616).                                        *)
ASSUME ParamAssumption ==
  /\ MaxLevel \in Nat
  /\ \A pairs \in Inputs : \A pair \in pairs :
       /\ \A other \in pairs : other.name = pair.name => other = pair
       /\ pair.name \in Names /\ cam_dbus_params[pair.name].type \in {"level", "zoom"}
            => pair.value \in Int

Clamped(value, low, high) == IF value < low THEN low ELSE IF value > high THEN high ELSE value

(* The setters: whether a value is taken, and what is stored.              *)
Takes(name, value) ==
  /\ name \in Names
  /\ cam_dbus_params[name].set
  /\ cam_dbus_params[name].type = "color" => value \in Colors
  /\ cam_dbus_params[name].type = "position" => value # "nowhere"

StoredValue(name, value) ==
  CASE cam_dbus_params[name].type = "level" -> Clamped(value, 0, MaxLevel)
    [] cam_dbus_params[name].type = "zoom" -> Clamped(value, 1, 32)
    [] OTHER -> value

(* dbus_set_param for all of a set of pairs, each with its own name.       *)
Assigned(values, pairs) ==
  [n \in DOMAIN values |->
     IF \E pair \in pairs : pair.name = n /\ Takes(n, pair.value)
     THEN StoredValue(n, (CHOOSE pair \in pairs : pair.name = n).value)
     ELSE values[n]]

-----------------------------------------------------------------------------
(* The file. *)

(* json_printf_utf8 escapes a string; json_parse_token takes what is       *)
(* between the quotes as it is.                                            *)
Escaped(text) ==
  LET Character(c) == IF c \in {"\"", "\\"} THEN <<"\\", c>> ELSE <<c>>
      Prefix[i \in 0 .. Len(text)] ==
        IF i = 0 THEN <<>> ELSE Prefix[i - 1] \o Character(text[i])
  IN Prefix[Len(text)]

(* A saved parameter as it is read back.                                   *)
Reread(name, value) ==
  IF cam_dbus_params[name].type = "string" THEN Escaped(value) ELSE value

dbus_save_params(values) == [n \in SavedNames |-> Reread(n, values[n])]

(* A file that is missing, empty or cut short is no configuration.         *)
NoConfig == <<>>

Loaded(content) ==
  IF content = NoConfig THEN Defaults
  ELSE Assigned(Defaults, {[name |-> n, value |-> content[n]] : n \in SavedNames})

(* The parameters that are not saved start as the state structure does.    *)
AllParams(saved) ==
  [n \in SavedNames \cup {"videoZoom"} |-> IF n \in SavedNames THEN saved[n] ELSE 4]

Reset(values) ==
  [n \in DOMAIN values |-> IF n \in SavedNames THEN Defaults[n] ELSE values[n]]

-----------------------------------------------------------------------------
(* The display. *)

Aids(values) ==
  [peak |-> values.focusPeakingLevel > 0, zebra |-> values.zebraLevel > 0,
   color |-> values.focusPeakingColor]

Hidden(aids) == [aids EXCEPT !.peak = FALSE, !.zebra = FALSE]

(* The aid that was set is merged into the register; the setter of the     *)
(* color ors all control bits into it, and so may turn the others on.  The *)
(* color mode of the display is another bit of it: the aids are as read.   *)
Merged(aids, name, values) ==
  CASE name = "focusPeakingColor" -> [peak  |-> aids.peak \/ Aids(values).peak,
                                      zebra |-> aids.zebra \/ Aids(values).zebra,
                                      color |-> Aids(values).color]
    [] name = "focusPeakingLevel" -> [aids EXCEPT !.peak = Aids(values).peak]
    [] name = "zebraLevel" -> [aids EXCEPT !.zebra = Aids(values).zebra]
    [] name = "colorMode" -> aids

AidNames == {"focusPeakingColor", "focusPeakingLevel", "zebraLevel"}

Resting == [pc |-> "idle"]

ParamInit ==
  /\ param = AllParams(Defaults)
  /\ dirty = TRUE /\ timer = FALSE
  /\ file = NoConfig /\ unsaved = FALSE
  /\ dbus = Resting
  /\ register = Hidden(Aids(Defaults)) /\ playstate = "paused"
  /\ player = Resting
  /\ tangled = FALSE
  /\ sets = 0 /\ commands = 0 /\ failures = 0

-----------------------------------------------------------------------------
(* The D-Bus thread. *)

(* cam_video_set, up to the first test of the playback state: each value   *)
(* that is taken is stored, each aid among them is then displayed in turn. *)
(* A timer that runs starts again.                                         *)
cam_video_set ==
  /\ dbus = Resting
  /\ sets < MaxSets
  /\ \E pairs \in Inputs :
       LET taken == {pair \in pairs : Takes(pair.name, pair.value)}
           shown == {pair.name : pair \in taken} \cap AidNames
       IN /\ param' = Assigned(param, pairs)
          /\ dirty' = (dirty \/ \E pair \in taken : cam_dbus_params[pair.name].saved)
          /\ timer' = (timer \/ dirty')
          /\ IF shown # {}
             THEN /\ dbus' = [pc |-> "test", names |-> shown]
                  /\ tangled' = (tangled \/ player # Resting)
             ELSE UNCHANGED <<dbus, tangled>>
  /\ sets' = sets + 1
  /\ UNCHANGED <<file, unsaved, displayVars, failures>>

(* cam_video_configure: the color mode, in the register when live.         *)
cam_video_configure ==
  /\ dbus = Resting
  /\ sets < MaxSets
  /\ dbus' = [pc |-> "test", names |-> {"colorMode"}]
  /\ tangled' = (tangled \/ player # Resting)
  /\ sets' = sets + 1
  /\ UNCHANGED <<configVars, displayVars, failures>>

(* Bug variant: a reset does not make the configuration dirty.             *)
ResetClean ==
  /\ dbus = Resting
  /\ sets < MaxSets
  /\ param' = Reset(param)
  /\ timer' = TRUE
  /\ dbus' = [pc |-> "test", names |-> AidNames]
  /\ tangled' = (tangled \/ player # Resting)
  /\ sets' = sets + 1
  /\ UNCHANGED <<dirty, file, unsaved, displayVars, failures>>

(* cam_video_reset: all defaults, and the timer.                           *)
cam_video_reset ==
  /\ dbus = Resting
  /\ sets < MaxSets
  /\ param' = Reset(param)
  /\ dirty' = TRUE /\ timer' = TRUE
  /\ dbus' = [pc |-> "test", names |-> AidNames]
  /\ tangled' = (tangled \/ player # Resting)
  /\ sets' = sets + 1
  /\ UNCHANGED <<file, unsaved, displayVars, failures>>

(* Bug variant: a setter does not look at the state of playback.           *)
TestNothing ==
  /\ dbus.pc = "test"
  /\ \E name \in dbus.names :
       dbus' = [pc |-> "merge", names |-> dbus.names, name |-> name, aids |-> register]
  /\ UNCHANGED <<configVars, displayVars, tangled, sets, failures>>

(* A setter changes the register, which it reads first, only when live.    *)
TestLive ==
  /\ dbus.pc = "test"
  /\ \E name \in dbus.names :
       dbus' = IF playstate = "live"
               THEN [pc |-> "merge", names |-> dbus.names, name |-> name, aids |-> register]
               ELSE IF dbus.names = {name} THEN Resting
               ELSE [dbus EXCEPT !.names = @ \ {name}]
  /\ UNCHANGED <<configVars, displayVars, tangled, sets, failures>>

MergeAid ==
  /\ dbus.pc = "merge"
  /\ register' = Merged(dbus.aids, dbus.name, param)
  /\ dbus' = IF dbus.names = {dbus.name} THEN Resting
             ELSE [pc |-> "test", names |-> dbus.names \ {dbus.name}]
  /\ UNCHANGED <<configVars, playstate, player, commands, tangled, sets, failures>>

(* dbus_flush_params: opening the file empties it, ...                     *)
OpenFile ==
  /\ dbus = Resting
  /\ timer
  /\ timer' = FALSE
  /\ IF dirty
     THEN \/ file' = NoConfig /\ dbus' = [pc |-> "save"] /\ UNCHANGED <<dirty, unsaved, failures>>
          \/ /\ failures < MaxFailures
             /\ failures' = failures + 1
             /\ dirty' = FALSE /\ unsaved' = TRUE
             /\ UNCHANGED <<file, dbus>>
     ELSE UNCHANGED <<file, dbus, dirty, unsaved, failures>>
  /\ UNCHANGED <<param, displayVars, tangled, sets>>

(* ... and then it is written (dbus_save_params).                          *)
Save ==
  /\ dbus.pc = "save"
  /\ file' = dbus_save_params(param)
  /\ dirty' = FALSE /\ unsaved' = FALSE
  /\ dbus' = Resting
  /\ UNCHANGED <<param, timer, displayVars, tangled, sets, failures>>

-----------------------------------------------------------------------------
(* The thread that changes the state of playback. *)

(* A command begins with a copy of the control bits; going live writes the *)
(* register before the state, everything else after it.                    *)
Begin ==
  /\ player = Resting
  /\ commands < MaxCommands
  /\ \E to \in {"live", "paused"} :
       player' = [pc |-> IF to = "live" THEN "register" ELSE "state", to |-> to,
                  aids |-> Aids(param)]
  /\ commands' = commands + 1
  /\ tangled' = (dbus.pc \in {"test", "merge"})
  /\ UNCHANGED <<configVars, dbus, register, playstate, sets, failures>>

WriteRegister ==
  /\ player.pc = "register"
  /\ register' = IF player.to = "live" THEN player.aids ELSE Hidden(player.aids)
  /\ player' = IF player.to = "live" THEN [player EXCEPT !.pc = "state"] ELSE Resting
  /\ UNCHANGED <<configVars, dbus, playstate, commands, tangled, sets, failures>>

WriteState ==
  /\ player.pc = "state"
  /\ playstate' = player.to
  /\ player' = IF player.to = "live" THEN Resting ELSE [player EXCEPT !.pc = "register"]
  /\ UNCHANGED <<configVars, dbus, register, commands, tangled, sets, failures>>

-----------------------------------------------------------------------------
(* Power fails, and the program starts again: defaults, then the file; a   *)
(* file that cannot be loaded leaves the configuration dirty.              *)
Restart ==
  /\ failures < MaxFailures
  /\ failures' = failures + 1
  /\ param' = AllParams(Loaded(file))
  /\ dirty' = (file = NoConfig) /\ timer' = FALSE
  /\ unsaved' = FALSE
  /\ dbus' = Resting /\ player' = Resting /\ tangled' = FALSE
  /\ playstate' = "paused" /\ register' = Hidden(Aids(Defaults))
  /\ UNCHANGED <<file, sets, commands>>

ParamNext ==
  \/ cam_video_set \/ cam_video_configure \/ cam_video_reset \/ TestLive \/ MergeAid
  \/ OpenFile \/ Save
  \/ Begin \/ WriteRegister \/ WriteState
  \/ Restart

-----------------------------------------------------------------------------
(* Properties. *)

(* Unless a set and a change of the playback state overlapped since the    *)
(* last such change began, the aids are shown as the parameters say in     *)
(* live display and not at all otherwise, whoever came last                *)
(* (dbus-params.c:129-237, playback.c:346-357, 642-729).                   *)
AidsFollowParams ==
  dbus.pc \notin {"test", "merge"} /\ player = Resting /\ ~tangled =>
    IF playstate = "live" THEN register = Aids(param)
    ELSE ~register.peak /\ ~register.zebra

(* A configuration that is clean, and that could be written, is in the     *)
(* file: the program would start with what it has now, as far as the file  *)
(* keeps it (dbus-params.c:755-811, dbus-video.c:121-137, 167-171).        *)
RestartKeeps ==
  ~dirty /\ ~unsaved =>
    \/ Loaded(file) = [n \in SavedNames |-> param[n]]
    \/ Loaded(file) = [n \in SavedNames |-> Reread(n, param[n])]
=============================================================================
