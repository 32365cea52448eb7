----------------------------- MODULE PmicDaemon -----------------------------
(***************************************************************************)
(* pcUtil as a daemon (pcUtil/socket.c): one thread per client of the      *)
(* socket.  A client that says nothing for a second is told the battery    *)
(* data all the same.                                                      *)
(***************************************************************************)
EXTENDS PmicLink

CONSTANTS
  Clients,     (* threads, one per client                                    *)
  Requests,    (* what clients ask for                                       *)
  MaxRequests  (* bound: no request is begun after that many                 *)

(* What a client can ask, by the command byte; a mode or a speed is the    *)
(* argument.                                                               *)
Battery == [op |-> "GET_DATA_2", arg |-> 0]

ModeCommands == {"SET_POWERUP_MODE", "GET_POWERUP_MODE", "SET_FAN_SPEED_OVERRIDE",
                 "GET_FAN_SPEED_OVERRIDE", "SET_SHIPPING_MODE", "GET_SHIPPING_MODE"}
QueryCommands == {"GET_DATA_2", "GET_APP_VERSION", "GET_SHUTDOWN_REASON"}

ASSUME DaemonAssumption ==
  /\ Clients \subseteq Threads
  /\ Battery \in Requests
  /\ \A cmd \in Requests : cmd.op \in ModeCommands \cup QueryCommands
  /\ Requests \subseteq Commands
  /\ MaxRequests \in Nat

VARIABLES
  connection,  (* "none", "open", "closed"                                   *)
  halted       (* the controller asked for a shutdown                        *)

daemonVars == <<connection, halted>>

DaemonInit ==
  /\ connection = [t \in Clients |-> "none"]
  /\ halted = FALSE

(* initSocket: one thread for each connection.                             *)
Accept(t) ==
  /\ connection[t] = "none"
  /\ connection' = [connection EXCEPT ![t] = "open"]
  /\ UNCHANGED <<halted, linkVars>>

(* Text from the client, or a second without any.                          *)
ClientRequest(t, cmd) ==
  /\ connection[t] = "open"
  /\ count < MaxRequests
  /\ Transmit(t, cmd)
  /\ UNCHANGED daemonVars

(* The answer, if there is one: none is sent when the battery data could   *)
(* not be read.  A client that has gone ends its thread.                   *)
Respond(t) ==
  /\ request[t].pc = "answered"
  /\ request' = [request EXCEPT ![t] = Idle]
  /\ halted' = (halted \/ (request[t].ok /\ request[t].cmd = Battery /\ request[t].value = 64))
  /\ IF request[t].cmd = Battery /\ ~request[t].ok
     THEN UNCHANGED connection
     ELSE connection' \in {connection, [connection EXCEPT ![t] = "closed"]}
  /\ UNCHANGED <<inbox, replies, ring, readIndex, writeIndex, unread, overrun, quiet, last, count, losses>>

Disconnect(t) ==
  /\ connection[t] = "open"
  /\ request[t] = Idle
  /\ connection' = [connection EXCEPT ![t] = "closed"]
  /\ UNCHANGED <<halted, linkVars>>

(* The controller raises the shutdown bit of the battery flags at will.    *)
ControllerAnswers ==
  /\ inbox # <<>>
  /\ \E value \in IF Head(inbox).cmd = Battery THEN {0, 64} ELSE {0} : Answer(value)
  /\ UNCHANGED daemonVars

DaemonThread(t) == (Thread(t) /\ UNCHANGED daemonVars) \/ Respond(t)

DaemonNext ==
  \/ \E t \in Clients : \/ Accept(t) \/ Disconnect(t) \/ DaemonThread(t)
                        \/ \E cmd \in Requests : ClientRequest(t, cmd)
  \/ ControllerAnswers
  \/ AcceptPacket /\ UNCHANGED daemonVars

DaemonSpec == LinkInit /\ DaemonInit /\ [][DaemonNext]_<<linkVars, daemonVars>>

DaemonFairness == \A t \in Clients : WF_<<linkVars, daemonVars>>(DaemonThread(t))

-----------------------------------------------------------------------------
(* Properties. *)

(* No thread of the daemon hangs: every request ends, answered or not,     *)
(* even when its reply is lost or another thread takes it                  *)
(* (comms.c:456-464).                                                      *)
RequestEnds == \A t \in Clients : request[t].pc = "sending" ~> request[t].pc = "idle"
=============================================================================
