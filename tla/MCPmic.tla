------------------------------- MODULE MCPmic -------------------------------
(***************************************************************************)
(* Model checking of the three views of the line to the power controller:  *)
(* its bytes, the daemon, and the firmware update.  They are different     *)
(* programs (or views of one), so a behaviour is one of them alone.        *)
(***************************************************************************)
EXTENDS PmicFrame, PmicDaemon, PmicUpdate

VARIABLE view

(* A packet that holds a start byte, one with an argument.         *)
MCPackets == {<<90>>, <<6, 3>>}

MCRequests == {Battery, [op |-> "SET_POWERUP_MODE", arg |-> 1]}

Data(address, length) == [type |-> "data", address |-> address, length |-> length]
Extend(base) == [type |-> "extend", base |-> base]
Other(type) == [type |-> type]

(* Records that fill a page and reach into the next; an extended address   *)
(* with data outside of the memory to load; a line that cannot be read; a  *)
(* file cut short.                                                         *)
MCFiles == {
  <<Data(0, 2), Data(5, 2), Other("eof")>>,
  <<Data(0, 1), Extend(20), Data(0, 1), Extend(0), Data(7, 1), Other("eof")>>,
  <<Data(1, 1), Data(4, 1), Other("bad"), Data(6, 1), Other("eof")>>,
  <<Data(1, 1), Data(4, 1)>>}

Code(op) == [op |-> op, arg |-> 0]

MCCommands ==
  MCRequests
  \cup {Code(op) : op \in {"IS_IN_BOOTLOADER", "JUMP_TO_BOOTLOADER", "GET_APP_VERSION", "JUMP_TO_PGM"}}
  \cup {[op |-> "ERASE_PAGE", arg |-> page] : page \in 0 .. 3}
  \cup {[op |-> "WRITE_DATA", arg |-> [record |-> i, page |-> page]] : i \in 1 .. 6, page \in 0 .. 4}

Init ==
  /\ FrameInit /\ LinkInit /\ DaemonInit /\ UpdateInit
  /\ view \in {"bytes", "daemon", "update"}
  /\ view # "update" => file = (CHOOSE f \in Files : TRUE) /\ controller = "app"

Next ==
  /\ UNCHANGED view
  /\ \/ view = "bytes" /\ FrameNext /\ UNCHANGED <<linkVars, daemonVars, updateVars>>
     \/ view = "daemon" /\ DaemonNext /\ UNCHANGED <<frameVars, updateVars>>
     \/ view = "update" /\ UpdateNext /\ UNCHANGED <<frameVars, daemonVars>>

vars == <<frameVars, linkVars, daemonVars, updateVars, view>>

Spec == Init /\ [][Next]_vars /\ DaemonFairness

TypeOK == FrameTypeOK /\ LinkTypeOK
=============================================================================
