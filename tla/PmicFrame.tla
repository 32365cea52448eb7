----------------------------- MODULE PmicFrame -----------------------------
(***************************************************************************)
(* The framing of the serial line to the power controller                  *)
(* (pcUtil/comms.c): start byte, length, data, CRC-16.  Several threads    *)
(* write their frames byte by byte to the same line without a lock; the    *)
(* receive state machine takes one byte at a time.  The controller speaks  *)
(* the same format, so the receiver stands for either end of the line.     *)
(***************************************************************************)
EXTENDS Integers, Sequences

CONSTANTS
  Writers,     (* threads that send                                          *)
  Packets,     (* what they may send: sequences of bytes                     *)
  BufferSize,  (* BUFFER_SIZE: bytes of a receive buffer                     *)
  MaxSent,     (* bound: frames                                              *)
  MaxLost      (* bound: bytes the line loses                                *)

Byte == 0 .. 255
Word == {n \in Nat : n < 65536}

(* Every packet has its command byte, and the largest, a block for the     *)
(* flash memory, is made to fit (comms.c:359-397, comms.h:40).             *)
ASSUME FrameAssumption ==
  /\ BufferSize \in Word \ {0}
  /\ Packets \subseteq Seq(Byte)
  /\ \A packet \in Packets : Len(packet) \in 1 .. BufferSize
  /\ {MaxSent, MaxLost} \subseteq Nat

VARIABLES
  unsent,   (* the bytes a writer has still to put on the line               *)
  rx,       (* the receive state machine                                     *)
  sent,     (* history: packets whose frame was begun, in that order         *)
  heard,    (* history: packets delivered                                    *)
  clean,    (* history: nothing was lost and no frame met another yet        *)
  lost

frameVars == <<unsent, rx, sent, heard, clean, lost>>

SOF == 90

(* Exclusive or of 16-bit words, bit by bit.                               *)
Xor(a, b) ==
  LET bit(d) == (((a \div d) + (b \div d)) % 2) * d
  IN  bit(1) + bit(2) + bit(4) + bit(8) + bit(16) + bit(32) + bit(64) + bit(128)
      + bit(256) + bit(512) + bit(1024) + bit(2048) + bit(4096) + bit(8192)
      + bit(16384) + bit(32768)

(* The table of the code holds, for every byte, the remainder of a         *)
(* division by the reflected polynomial A001.                              *)
Divided(c) == IF c % 2 = 1 THEN Xor(c \div 2, 40961) ELSE c \div 2

wCRCTable ==
  [n \in 0 .. 255 |->
     Divided(Divided(Divided(Divided(Divided(Divided(Divided(Divided(n))))))))]

CRC16Init == 65535

CRC16Iteration(crc, byte) == Xor(crc \div 256, wCRCTable[Xor(crc % 256, byte)])

(* The checksum after each byte.                                           *)
Checksums(bytes) ==
  LET crc[i \in 0 .. Len(bytes)] ==
        IF i = 0 THEN CRC16Init ELSE CRC16Iteration(crc[i - 1], bytes[i])
  IN crc

CRC16(bytes) == Checksums(bytes)[Len(bytes)]

(* txData, txDataMessage.                                                  *)
Frame(packet) ==
  LET body == <<Len(packet) \div 256, Len(packet) % 256>> \o packet
      crc  == CRC16(body)
  IN <<SOF>> \o body \o <<crc \div 256, crc % 256>>

FrameOf == [packet \in Packets |-> Frame(packet)]

FrameInit ==
  /\ unsent = [w \in Writers |-> <<>>]
  /\ rx = [state |-> "WAIT_SOF", crc |-> 0, length |-> 0, data |-> <<>>]
  /\ sent = <<>>
  /\ heard = <<>>
  /\ clean = TRUE
  /\ lost = 0

Send(w, packet) ==
  /\ unsent[w] = <<>>
  /\ Len(sent) < MaxSent
  /\ unsent' = [unsent EXCEPT ![w] = FrameOf[packet]]
  /\ sent' = Append(sent, packet)
  /\ clean' = (clean /\ \A v \in Writers : unsent[v] = <<>>)
  /\ UNCHANGED <<rx, heard, lost>>

(* Bug variant: any length is accepted.                                    *)
ReceiveAnyLength(byte) ==
  rx' = [rx EXCEPT !.length = @ + byte, !.crc = CRC16Iteration(@, byte),
                   !.data = <<>>, !.state = "DATA"]

(* The low byte of the length.  No buffer holds more than BufferSize.      *)
ReceiveLength(byte) ==
  IF rx.length + byte <= BufferSize
  THEN rx' = [rx EXCEPT !.length = @ + byte, !.crc = CRC16Iteration(@, byte),
                        !.data = <<>>, !.state = "DATA"]
  ELSE rx' = [rx EXCEPT !.state = "WAIT_SOF"]

(* Bug variant: the second byte of the checksum is not compared.           *)
ReceiveHalfChecksum(byte) ==
  \/ /\ rx.state = "CRC_H"
     /\ rx' = [rx EXCEPT !.state = IF byte = rx.crc \div 256 THEN "CRC_L" ELSE "WAIT_SOF"]
     /\ UNCHANGED heard
  \/ /\ rx.state = "CRC_L"
     /\ rx' = [rx EXCEPT !.state = "WAIT_SOF"]
     /\ heard' = Append(heard, rx.data)

ReceiveChecksum(byte) ==
  \/ /\ rx.state = "CRC_H"
     /\ rx' = [rx EXCEPT !.state = IF byte = rx.crc \div 256 THEN "CRC_L" ELSE "WAIT_SOF"]
     /\ UNCHANGED heard
  \/ /\ rx.state = "CRC_L"
     /\ rx' = [rx EXCEPT !.state = "WAIT_SOF"]
     /\ heard' = IF byte = rx.crc % 256 THEN Append(heard, rx.data) ELSE heard

(* Bug variant: the checksum is not started afresh.                        *)
ReceiveStartStale(byte) ==
  rx' = IF byte = SOF THEN [rx EXCEPT !.state = "DL_H"] ELSE rx

ReceiveStart(byte) ==
  rx' = IF byte = SOF THEN [rx EXCEPT !.state = "DL_H", !.crc = CRC16Init] ELSE rx

(* A length of zero takes a byte of data all the same, since the byte is   *)
(* stored before it is counted.                                            *)
Receive(byte) ==
  \/ rx.state = "WAIT_SOF" /\ ReceiveStart(byte) /\ UNCHANGED heard
  \/ /\ rx.state = "DL_H"
     /\ rx' = [rx EXCEPT !.state = "DL_L", !.length = 256 * byte,
                         !.crc = CRC16Iteration(@, byte)]
     /\ UNCHANGED heard
  \/ rx.state = "DL_L" /\ ReceiveLength(byte) /\ UNCHANGED heard
  \/ /\ rx.state = "DATA"
     /\ rx' = [rx EXCEPT !.data = Append(@, byte), !.crc = CRC16Iteration(@, byte),
                         !.state = IF Len(rx.data) + 1 >= rx.length THEN "CRC_H" ELSE @]
     /\ UNCHANGED heard
  \/ ReceiveChecksum(byte)

(* putcUART1, and the byte arrives or not.                                 *)
PutByte(w) ==
  /\ unsent[w] # <<>>
  /\ unsent' = [unsent EXCEPT ![w] = Tail(@)]
  /\ \/ Receive(Head(unsent[w])) /\ UNCHANGED <<lost, clean>>
     \/ /\ lost < MaxLost
        /\ lost' = lost + 1
        /\ clean' = FALSE
        /\ UNCHANGED <<rx, heard>>
  /\ UNCHANGED sent

FrameNext == \E w \in Writers : PutByte(w) \/ \E packet \in Packets : Send(w, packet)

FrameSpec == FrameInit /\ [][FrameNext]_frameVars

-----------------------------------------------------------------------------
(* Properties. *)

(* The state machine is in one of its states with 16-bit registers, and    *)
(* never stores beyond the receive buffer (comms.c:594).                   *)
FrameTypeOK ==
  /\ rx.state \in {"WAIT_SOF", "DL_H", "DL_L", "DATA", "CRC_H", "CRC_L"}
  /\ rx.crc \in Word
  /\ rx.length \in Word
  /\ Len(rx.data) <= BufferSize
  /\ rx.state = "DATA" => rx.length <= BufferSize

(* Whatever frames mix on the line and whatever bytes it loses, no packet  *)
(* is delivered that nobody sent: neither end ever obeys a command, or     *)
(* takes an answer, made of pieces of two frames (comms.c:607-622).        *)
HeardWasSent ==
  \A i \in 1 .. Len(heard) : \E j \in 1 .. Len(sent) : heard[i] = sent[j]

(* As long as every frame has the line to itself and no byte is lost, each *)
(* packet is delivered, intact and in order (comms.c:557-631).             *)
AloneIsHeard ==
  clean => heard = SubSeq(sent, 1, Len(heard))
        /\ Len(heard) >= Len(sent) - 1
        /\ ((\A w \in Writers : unsent[w] = <<>>) => heard = sent)
=============================================================================
