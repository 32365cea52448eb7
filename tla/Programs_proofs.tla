--------------------------- MODULE Programs_proofs ---------------------------
(***************************************************************************)
(* Theorems about the programs and libraries around the pipeline.  They    *)
(* share no state; each has its part of this module, which begins with the *)
(* argument.                                                               *)
(***************************************************************************)
EXTENDS FpgaLoader, SensorTiming, ParamStore, Scgi, SequenceTheorems, TLAPS

-----------------------------------------------------------------------------
(***************************************************************************)
(* For every set of bitstreams, every fitted device, and any number of     *)
(* faults, kills and starts: when the loader reports success the FPGA runs *)
(* the bitstream that was asked for.                                       *)
(*                                                                         *)
(* The loader never reads back what it sent: it sees one bit, that the     *)
(* device took the image as whole.  What makes this enough is that the     *)
(* image in the device is, chunk by chunk, the file's or spoilt (Copied),  *)
(* and that a command that succeeded left the mode that the next relies on *)
(* (Modes).                                                                *)
(***************************************************************************)

Places == {"exit", "open", "program", "id", "refresh", "enable", "burst", "send", "status",
           "disable", "gpmc", "selects", "map"}

LoaderRecord == [pc : Places, file : Bitstreams \cup {NoFile}, sent : Nat, status : {0, 1}]

DeviceRecord ==
  [mode : {"held", "ready", "enabled", "burst", "loaded", "user"},
   selected : BOOLEAN, got : Seq(Nat), from : Nat, reset : BOOLEAN]

LoaderTypeOK ==
  /\ loader \in LoaderRecord
  /\ device \in DeviceRecord
  /\ bus \in {"unset", "reset", "set"}

(* The program in progress has a file, and fails unless it ends.           *)
InProgress ==
  /\ loader.pc # "exit" => loader.status = 1
  /\ loader.pc \in {"open", "program", "id", "refresh", "enable"} => loader.sent = 0
  /\ loader.pc \in {"burst", "send"} => loader.sent <= Len(loader.file.chunks)
  /\ loader.pc = "burst" => loader.sent = 0
  /\ loader.pc \notin {"exit", "open"} => loader.file # NoFile

Modes ==
  /\ loader.pc = "enable" => device.mode = "ready" /\ device.got = <<>>
  /\ loader.pc = "burst" => device.mode = "enabled" /\ device.got = <<>>
  /\ loader.pc = "send" => device.mode = "burst" /\ device.selected
  /\ loader.pc = "status" => device.mode = "loaded"
  /\ loader.pc = "disable" => device.mode = "loaded" /\ Done(device)
  /\ loader.pc \in {"gpmc", "selects", "map"} => device.mode = "user" /\ Done(device)
  /\ loader.pc = "map" => bus = "set"

(* The first n chunks have reached the device, each as it is in the file   *)
(* or spoilt.                                                              *)
CopiedTo(n) ==
  /\ Len(device.got) = n
  /\ \A i \in 1 .. n : device.got[i] \in {loader.file.chunks[i], 0}

Copied ==
  /\ loader.pc = "send" => CopiedTo(loader.sent)
  /\ loader.pc = "status" => CopiedTo(Len(loader.file.chunks))
  /\ loader.pc \in {"disable", "gpmc", "selects", "map"} => device.got = loader.file.chunks

LoaderInv == LoaderTypeOK /\ InProgress /\ Modes /\ Copied /\ LoadedMeansRunning

-----------------------------------------------------------------------------
LEMMA ChunksType ==
  ASSUME LoaderTypeOK
  PROVE  loader.file.chunks \in Seq(Nat) /\ loader.file.device \in Nat
  <1>. DEFINE bits == loader.file
  <1>1. bits \in Bitstreams \cup {NoFile}
    BY DEF LoaderTypeOK, LoaderRecord
  <1>2. CASE bits \in Bitstreams
    <2>1. bits \in [device : Nat, chunks : Seq(Nat), seekable : BOOLEAN]
      BY <1>2, LoaderAssumption
    <2>. QED  BY <2>1
  <1>3. CASE bits = NoFile
    BY <1>3 DEF NoFile
  <1>. QED  BY <1>1, <1>2, <1>3

LEMMA EmptyImage == <<>> \in Seq(Nat) /\ Len(<<>>) = 0
  OBVIOUS

LEMMA LoaderInitInv == LoaderInit => LoaderInv
  <1>. SUFFICES ASSUME LoaderInit PROVE LoaderInv
    OBVIOUS
  <1>1. LoaderTypeOK
    BY DEF LoaderInit, LoaderTypeOK, LoaderRecord, DeviceRecord, Places
  <1>. QED
    BY <1>1 DEF LoaderInit, LoaderInv, InProgress, Modes, Copied, LoadedMeansRunning

(* What a step to another place, or the end of the program, leaves alone.  *)
LEMMA Stepped ==
  ASSUME LoaderTypeOK, NEW pc \in Places, Step(pc)
  PROVE  /\ loader' \in LoaderRecord
         /\ loader'.pc = pc /\ loader'.file = loader.file
         /\ loader'.sent = loader.sent /\ loader'.status = loader.status
  BY DEF LoaderTypeOK, LoaderRecord, Step

LEMMA Left ==
  ASSUME LoaderTypeOK, NEW status \in {0, 1}, Leave(status)
  PROVE  /\ loader' \in LoaderRecord
         /\ loader'.pc = "exit" /\ loader'.file = loader.file /\ loader'.status = status
  BY DEF LoaderTypeOK, LoaderRecord, Leave, Places

(* The program ends with an error, or is killed, whatever became of the    *)
(* device.                                                                 *)
LEMMA FailedInv ==
  ASSUME LoaderInv, Failed, device' \in DeviceRecord, bus' \in {"unset", "reset", "set"}
  PROVE  LoaderInv'
  <1>1. loader' \in LoaderRecord /\ loader'.pc = "exit" /\ loader'.status = 1
    BY Left DEF LoaderInv, Failed
  <1>. QED
    BY <1>1 DEF LoaderInv, LoaderTypeOK, InProgress, Modes, Copied, LoadedMeansRunning

LEMMA DeviceType ==
  ASSUME LoaderTypeOK, NEW cmd
  PROVE  /\ Deselected(device) \in DeviceRecord
         /\ Obeyed(Deselected(device), cmd) \in DeviceRecord
  <1>1. \A d \in DeviceRecord : Deselected(d) \in DeviceRecord
    BY DEF DeviceRecord, Deselected
  <1>2. ASSUME NEW d \in DeviceRecord
        PROVE  Obeyed(d, cmd) \in DeviceRecord
    <2>1. CASE cmd = "REFRESH"
      BY <2>1, EmptyImage DEF DeviceRecord, Obeyed
    <2>2. CASE cmd = "ENABLE"
      BY <2>2 DEF DeviceRecord, Obeyed
    <2>3. CASE cmd = "DISABLE"
      BY <2>3 DEF DeviceRecord, Obeyed
    <2>4. CASE cmd \notin {"REFRESH", "ENABLE", "DISABLE"}
      BY <2>4 DEF Obeyed
    <2>. QED  BY <2>1, <2>2, <2>3, <2>4
  <1>. QED  BY <1>1, <1>2 DEF LoaderTypeOK

-----------------------------------------------------------------------------
LEMMA StartInv ==
  ASSUME LoaderInv, Start
  PROVE  LoaderInv'
  <1>1. /\ loader' \in LoaderRecord
        /\ loader'.pc = "open" /\ loader'.status = 1 /\ loader'.sent = 0
    BY DEF Start, LoaderRecord, Places
  <1>. QED
    BY <1>1 DEF Start, LoaderInv, LoaderTypeOK, InProgress, Modes, Copied, LoadedMeansRunning

LEMMA OpenPinsInv ==
  ASSUME LoaderInv, OpenPins
  PROVE  LoaderInv'
  <1>0. LoaderTypeOK /\ loader.pc = "open" /\ UNCHANGED bus
    BY DEF LoaderInv, OpenPins
  <1>1. CASE Failed /\ UNCHANGED device
    BY <1>0, <1>1, FailedInv DEF LoaderTypeOK
  <1>2. CASE /\ loader.file = NoFile
             /\ device' = [device EXCEPT !.mode = "held", !.got = <<>>]
             /\ Leave(0)
    <2>1. device' \in DeviceRecord
      BY <1>0, <1>2, EmptyImage DEF LoaderTypeOK, DeviceRecord
    <2>. QED
      BY <1>0, <1>2, <2>1, Left
      DEF LoaderInv, LoaderTypeOK, InProgress, Modes, Copied, LoadedMeansRunning
  <1>3. CASE loader.file # NoFile /\ Step("program") /\ UNCHANGED device
    <2>1. "program" \in Places
      BY DEF Places
    <2>. QED
      BY <1>0, <1>3, <2>1, Stepped
      DEF LoaderInv, LoaderTypeOK, InProgress, Modes, Copied, LoadedMeansRunning
  <1>. QED  BY <1>1, <1>2, <1>3 DEF OpenPins

LEMMA EnterProgrammingInv ==
  ASSUME LoaderInv, EnterProgramming
  PROVE  LoaderInv'
  <1>1. LoaderTypeOK /\ "id" \in Places
    BY DEF LoaderInv, Places
  <1>2. device' \in DeviceRecord
    BY EmptyImage DEF EnterProgramming, DeviceRecord
  <1>. QED
    BY <1>1, <1>2, Stepped
    DEF EnterProgramming, LoaderInv, LoaderTypeOK, InProgress, Modes, Copied, LoadedMeansRunning

(* The transfer failed.                                                    *)
LEMMA TransferFailed ==
  ASSUME LoaderInv, Failed, NEW cmd, UNCHANGED bus,
         device' \in {Deselected(device), Obeyed(Deselected(device), cmd)}
  PROVE  LoaderInv'
  <1>1. device' \in DeviceRecord
    BY DeviceType DEF LoaderInv
  <1>. QED
    BY <1>1, FailedInv DEF LoaderInv, LoaderTypeOK

LEMMA ReadIdInv ==
  ASSUME LoaderInv, ReadId
  PROVE  LoaderInv'
  <1>1. LoaderTypeOK /\ loader.pc = "id" /\ UNCHANGED bus /\ "refresh" \in Places
    BY DEF LoaderInv, ReadId, fpga_spi_xfer, Places
  <1>2. CASE Failed /\ device' \in {Deselected(device), Obeyed(Deselected(device), "READ_ID")}
    BY <1>1, <1>2, TransferFailed
  <1>3. CASE device' = Obeyed(Deselected(device), "READ_ID") /\ CheckId
    <2>1. device' \in DeviceRecord
      BY <1>1, <1>3, DeviceType
    <2>2. CASE Step("refresh")
      BY <1>1, <2>1, <2>2, Stepped
      DEF LoaderInv, LoaderTypeOK, InProgress, Modes, Copied, LoadedMeansRunning
    <2>3. CASE Leave(1)
      BY <1>1, <2>1, <2>3, Left
      DEF LoaderInv, LoaderTypeOK, InProgress, Modes, Copied, LoadedMeansRunning
    <2>. QED  BY <1>3, <2>2, <2>3 DEF CheckId
  <1>. QED  BY <1>2, <1>3 DEF ReadId, fpga_spi_xfer

LEMMA RefreshDeviceInv ==
  ASSUME LoaderInv, RefreshDevice
  PROVE  LoaderInv'
  <1>1. LoaderTypeOK /\ loader.pc = "refresh" /\ UNCHANGED bus /\ "enable" \in Places
    BY DEF LoaderInv, RefreshDevice, fpga_spi_xfer, Places
  <1>2. CASE Failed /\ device' \in {Deselected(device), Obeyed(Deselected(device), "REFRESH")}
    BY <1>1, <1>2, TransferFailed
  <1>3. CASE device' = Obeyed(Deselected(device), "REFRESH") /\ Step("enable")
    <2>1. device' \in DeviceRecord
      BY <1>1, <1>3, DeviceType
    <2>2. device'.mode = "ready" /\ device'.got = <<>>
      BY <1>1, <1>3 DEF LoaderTypeOK, DeviceRecord, Obeyed, Deselected
    <2>. QED
      BY <1>1, <1>3, <2>1, <2>2, Stepped
      DEF LoaderInv, LoaderTypeOK, InProgress, Modes, Copied, LoadedMeansRunning
  <1>. QED  BY <1>2, <1>3 DEF RefreshDevice, fpga_spi_xfer

LEMMA EnableInv ==
  ASSUME LoaderInv, Enable
  PROVE  LoaderInv'
  <1>1. LoaderTypeOK /\ loader.pc = "enable" /\ UNCHANGED bus /\ "burst" \in Places
    BY DEF LoaderInv, Enable, fpga_spi_xfer, Places
  <1>2. CASE Failed /\ device' \in {Deselected(device), Obeyed(Deselected(device), "ENABLE")}
    BY <1>1, <1>2, TransferFailed
  <1>3. CASE device' = Obeyed(Deselected(device), "ENABLE") /\ Step("burst")
    <2>1. device' \in DeviceRecord
      BY <1>1, <1>3, DeviceType
    <2>2. device.mode = "ready" /\ device.got = <<>>
      BY <1>1 DEF LoaderInv, Modes
    <2>3. device'.mode = "enabled" /\ device'.got = <<>>
      BY <1>1, <1>3, <2>2 DEF LoaderTypeOK, DeviceRecord, Obeyed, Deselected
    <2>4. loader.file # NoFile /\ loader.sent = 0 /\ loader.status = 1
      BY <1>1 DEF LoaderInv, InProgress
    <2>5. Len(loader.file.chunks) >= 0
      BY <1>1, ChunksType
    <2>. QED
      BY <1>1, <1>3, <2>1, <2>3, <2>4, <2>5, Stepped
      DEF LoaderInv, LoaderTypeOK, InProgress, Modes, Copied, LoadedMeansRunning
  <1>. QED  BY <1>2, <1>3 DEF Enable, fpga_spi_xfer

-----------------------------------------------------------------------------
(* The image. *)

LEMMA BeginBurstInv ==
  ASSUME LoaderInv, BeginBurst
  PROVE  LoaderInv'
  <1>1. LoaderTypeOK /\ loader.pc = "burst" /\ UNCHANGED bus /\ "send" \in Places
    BY DEF LoaderInv, BeginBurst, Places
  <1>2. CASE Failed /\ device' = Deselected(device)
    BY <1>1, <1>2, TransferFailed
  <1>3. CASE /\ device' = [device EXCEPT !.selected = TRUE,
                                         !.mode = IF @ = "enabled" THEN "burst" ELSE @]
             /\ Step("send")
    <2>1. device.mode = "enabled" /\ device.got = <<>> /\ loader.sent = 0 /\ loader.file # NoFile
          /\ loader.status = 1
      BY <1>1 DEF LoaderInv, Modes, InProgress
    <2>2. device' \in DeviceRecord
      BY <1>1, <1>3 DEF LoaderTypeOK, DeviceRecord
    <2>3. device'.mode = "burst" /\ device'.selected /\ device'.got = <<>>
      BY <1>1, <1>3, <2>1 DEF LoaderTypeOK, DeviceRecord
    <2>4. loader'.pc = "send" /\ loader'.sent = 0 /\ loader' \in LoaderRecord
          /\ loader'.file = loader.file /\ loader'.status = 1
      BY <1>1, <1>3, <2>1, Stepped
    <2>5. CopiedTo(0)'
      BY <2>3, EmptyImage DEF CopiedTo
    <2>6. Len(loader.file.chunks) >= 0
      BY <1>1, ChunksType
    <2>. QED
      BY <1>1, <2>1, <2>2, <2>3, <2>4, <2>5, <2>6
      DEF LoaderInv, LoaderTypeOK, InProgress, Modes, Copied, LoadedMeansRunning
  <1>. QED  BY <1>2, <1>3 DEF BeginBurst

LEMMA SendChunkInv ==
  ASSUME LoaderInv, SendChunk
  PROVE  LoaderInv'
  <1>1. LoaderTypeOK /\ loader.pc = "send" /\ UNCHANGED bus
    BY DEF LoaderInv, SendChunk
  <1>2. CASE Failed /\ device' = Deselected(device)
    BY <1>1, <1>2, TransferFailed
  <1>3. ASSUME NEW chunk \in {loader.file.chunks[loader.sent + 1], 0},
               device' = IF device.selected /\ device.mode = "burst"
                         THEN [device EXCEPT !.got = Append(@, chunk), !.from = loader.file.device]
                         ELSE device,
               loader' = [loader EXCEPT !.sent = @ + 1]
        PROVE  LoaderInv'
    <2>. DEFINE n == loader.sent
    <2>1. /\ device.mode = "burst" /\ device.selected /\ CopiedTo(n)
          /\ loader.file # NoFile /\ loader.status = 1 /\ n \in Nat /\ n < Len(loader.file.chunks)
          /\ device \in DeviceRecord /\ device.got \in Seq(Nat)
      BY <1>1 DEF LoaderInv, LoaderTypeOK, LoaderRecord, DeviceRecord, Modes, Copied, InProgress,
                  SendChunk
    <2>2. chunk \in Nat
      BY <1>1, <2>1, ChunksType
    <2>3. Append(device.got, chunk) \in Seq(Nat)
      BY <2>1, <2>2
    <2>4. /\ device' \in DeviceRecord
          /\ device'.mode = "burst" /\ device'.selected /\ device'.got = Append(device.got, chunk)
      BY <1>1, <1>3, <2>1, <2>3, ChunksType DEF DeviceRecord
    <2>5. /\ loader' \in LoaderRecord
          /\ loader'.pc = "send" /\ loader'.file = loader.file /\ loader'.status = loader.status
          /\ loader'.sent = n + 1
      BY <1>1, <1>3 DEF LoaderTypeOK, LoaderRecord
    <2>6. CopiedTo(loader.sent)'
      <3>1. Len(device'.got) = n + 1
        BY <2>1, <2>2, <2>4 DEF CopiedTo
      <3>2. ASSUME NEW i \in 1 .. n + 1
            PROVE  device'.got[i] \in {loader'.file.chunks[i], 0}
        <4>1. CASE i = n + 1
          BY <4>1, <2>1, <2>2, <2>4, <2>5 DEF CopiedTo
        <4>2. CASE i \in 1 .. n
          BY <4>2, <2>1, <2>2, <2>4, <2>5 DEF CopiedTo
        <4>. QED  BY <4>1, <4>2, <2>1
      <3>. QED  BY <3>1, <3>2, <2>5 DEF CopiedTo
    <2>7. Len(loader.file.chunks) \in Nat
      BY <1>1, ChunksType
    <2>8. loader'.sent <= Len(loader'.file.chunks)
      BY <2>1, <2>5, <2>7
    <2>. QED
      BY <1>1, <2>1, <2>4, <2>5, <2>6, <2>8
      DEF LoaderInv, LoaderTypeOK, InProgress, Modes, Copied, LoadedMeansRunning
  <1>. QED  BY <1>2, <1>3 DEF SendChunk

LEMMA EndBurstInv ==
  ASSUME LoaderInv, EndBurst
  PROVE  LoaderInv'
  <1>1. /\ LoaderTypeOK /\ loader.pc = "send" /\ loader.sent = Len(loader.file.chunks)
        /\ device' = Deselected(device) /\ UNCHANGED bus /\ "status" \in Places
    BY DEF LoaderInv, EndBurst, Places
  <1>2. device.mode = "burst" /\ CopiedTo(loader.sent) /\ loader.file # NoFile /\ loader.status = 1
    BY <1>1 DEF LoaderInv, Modes, Copied, InProgress
  <1>3. device' \in DeviceRecord /\ device'.mode = "loaded" /\ device'.got = device.got
    BY <1>1, <1>2, DeviceType DEF LoaderTypeOK, DeviceRecord, Deselected
  <1>4. /\ loader' \in LoaderRecord
        /\ loader'.pc = "status" /\ loader'.file = loader.file /\ loader'.status = 1
    BY <1>1, <1>2, Stepped DEF EndBurst
  <1>5. CopiedTo(Len(loader.file.chunks))'
    BY <1>1, <1>2, <1>3, <1>4 DEF CopiedTo
  <1>. QED
    BY <1>1, <1>2, <1>3, <1>4, <1>5
    DEF LoaderInv, LoaderTypeOK, InProgress, Modes, Copied, LoadedMeansRunning

(* A whole image has no spoilt chunk, so it is the file.                   *)
LEMMA WholeIsFile ==
  ASSUME LoaderTypeOK, CopiedTo(Len(loader.file.chunks)), Done(device)
  PROVE  device.got = loader.file.chunks
  <1>. DEFINE chunks == loader.file.chunks
  <1>1. chunks \in Seq(Nat) /\ device.got \in Seq(Nat)
    BY ChunksType DEF LoaderTypeOK, DeviceRecord
  <1>2. device.got = WholeImage /\ Len(device.got) = Len(chunks) /\ ImageSize \in Nat
    BY LoaderAssumption DEF Done, CopiedTo
  <1>3. Len(device.got) = ImageSize /\ \A i \in 1 .. ImageSize : device.got[i] = i
    BY <1>1, <1>2 DEF WholeImage
  <1>4. \A i \in 1 .. Len(chunks) : device.got[i] = chunks[i]
    BY <1>1, <1>2, <1>3 DEF CopiedTo
  <1>. QED  BY <1>1, <1>2, <1>4, SeqEqual

LEMMA ReadStatusInv ==
  ASSUME LoaderInv, ReadStatus
  PROVE  LoaderInv'
  <1>1. LoaderTypeOK /\ loader.pc = "status" /\ UNCHANGED bus /\ "disable" \in Places
    BY DEF LoaderInv, ReadStatus, fpga_spi_xfer, Places
  <1>2. CASE Failed /\ device' \in {Deselected(device), Obeyed(Deselected(device), "READ_STATUS")}
    BY <1>1, <1>2, TransferFailed
  <1>3. CASE device' = Obeyed(Deselected(device), "READ_STATUS") /\ CheckStatus
    <2>1. device' \in DeviceRecord
      BY <1>1, <1>3, DeviceType
    <2>2. /\ device.mode = "loaded" /\ loader.file # NoFile /\ loader.status = 1
          /\ CopiedTo(Len(loader.file.chunks))
      BY <1>1 DEF LoaderInv, Modes, InProgress, Copied
    <2>3. device'.mode = "loaded" /\ device'.got = device.got /\ device'.from = device.from
      BY <1>1, <1>3, <2>2 DEF LoaderTypeOK, DeviceRecord, Obeyed, Deselected
    <2>4. CASE Done(device) /\ Step("disable")
      <3>1. device.got = loader.file.chunks
        BY <1>1, <2>2, <2>4, WholeIsFile
      <3>2. Done(device)'
        BY <2>3, <2>4 DEF Done
      <3>. QED
        BY <1>1, <2>1, <2>2, <2>3, <2>4, <3>1, <3>2, Stepped
        DEF LoaderInv, LoaderTypeOK, InProgress, Modes, Copied, LoadedMeansRunning
    <2>5. CASE Leave(1)
      BY <1>1, <2>1, <2>5, Left
      DEF LoaderInv, LoaderTypeOK, InProgress, Modes, Copied, LoadedMeansRunning
    <2>. QED  BY <1>3, <2>4, <2>5 DEF CheckStatus
  <1>. QED  BY <1>2, <1>3 DEF ReadStatus, fpga_spi_xfer

-----------------------------------------------------------------------------
(* The end of the program. *)

LEMMA DisableInv ==
  ASSUME LoaderInv, Disable
  PROVE  LoaderInv'
  <1>1. LoaderTypeOK /\ loader.pc = "disable" /\ UNCHANGED bus /\ "gpmc" \in Places
    BY DEF LoaderInv, Disable, fpga_spi_xfer, Places
  <1>2. CASE Failed /\ device' \in {Deselected(device), Obeyed(Deselected(device), "DISABLE")}
    BY <1>1, <1>2, TransferFailed
  <1>3. CASE device' = Obeyed(Deselected(device), "DISABLE") /\ Step("gpmc")
    <2>1. device' \in DeviceRecord
      BY <1>1, <1>3, DeviceType
    <2>2. /\ device.mode = "loaded" /\ Done(device) /\ device.got = loader.file.chunks
          /\ loader.file # NoFile /\ loader.status = 1
      BY <1>1 DEF LoaderInv, Modes, InProgress, Copied
    <2>3. device'.mode = "user" /\ device'.got = device.got /\ device'.from = device.from
      BY <1>1, <1>3, <2>2 DEF LoaderTypeOK, DeviceRecord, Obeyed, Deselected
    <2>4. Done(device)'
      BY <2>2, <2>3 DEF Done
    <2>. QED
      BY <1>1, <1>3, <2>1, <2>2, <2>3, <2>4, Stepped
      DEF LoaderInv, LoaderTypeOK, InProgress, Modes, Copied, LoadedMeansRunning
  <1>. QED  BY <1>2, <1>3 DEF Disable, fpga_spi_xfer

LEMMA GpmcInv ==
  ASSUME LoaderInv, gpmc_setup
  PROVE  LoaderInv'
  <1>1. /\ LoaderTypeOK /\ device' = device /\ device \in DeviceRecord
        /\ "selects" \in Places /\ "map" \in Places
    BY DEF LoaderInv, LoaderTypeOK, gpmc_setup, Places
  <1>2. CASE loader.pc = "gpmc" /\ Failed /\ UNCHANGED bus
    BY <1>1, <1>2, FailedInv DEF LoaderTypeOK
  <1>3. CASE loader.pc = "gpmc" /\ bus' = "reset" /\ Step("selects")
    BY <1>1, <1>3, Stepped
    DEF LoaderInv, LoaderTypeOK, InProgress, Modes, Copied, LoadedMeansRunning, Done
  <1>4. CASE loader.pc = "selects" /\ bus' = "set" /\ Step("map")
    BY <1>1, <1>4, Stepped
    DEF LoaderInv, LoaderTypeOK, InProgress, Modes, Copied, LoadedMeansRunning, Done
  <1>. QED  BY <1>2, <1>3, <1>4 DEF gpmc_setup

LEMMA ResetLogicInv ==
  ASSUME LoaderInv, ResetLogic
  PROVE  LoaderInv'
  <1>1. LoaderTypeOK /\ loader.pc = "map" /\ UNCHANGED bus
    BY DEF LoaderInv, ResetLogic
  <1>2. CASE Failed /\ UNCHANGED device
    BY <1>1, <1>2, FailedInv DEF LoaderTypeOK
  <1>3. CASE device' = [device EXCEPT !.reset = bus = "set" /\ device.mode = "user"] /\ Leave(0)
    <2>1. /\ device.mode = "user" /\ Done(device) /\ bus = "set"
          /\ device.got = loader.file.chunks /\ loader.file # NoFile
      BY <1>1 DEF LoaderInv, Modes, InProgress, Copied
    <2>2. /\ device' \in DeviceRecord
          /\ device'.mode = "user" /\ device'.got = device.got /\ device'.from = device.from
      BY <1>1, <1>3, <2>1 DEF LoaderTypeOK, DeviceRecord
    <2>3. device'.reset
      BY <1>1, <1>3, <2>1 DEF LoaderTypeOK, DeviceRecord
    <2>4. Done(device)'
      BY <2>1, <2>2 DEF Done
    <2>. QED
      BY <1>1, <1>3, <2>1, <2>2, <2>3, <2>4, Left
      DEF LoaderInv, LoaderTypeOK, InProgress, Modes, Copied, LoadedMeansRunning
  <1>. QED  BY <1>2, <1>3 DEF ResetLogic

LEMMA KilledInv ==
  ASSUME LoaderInv, Killed
  PROVE  LoaderInv'
  BY FailedInv DEF Killed, LoaderInv, LoaderTypeOK

LEMMA LoaderSameInv ==
  ASSUME LoaderInv, UNCHANGED loaderVars
  PROVE  LoaderInv'
  BY DEF loaderVars, LoaderInv, LoaderTypeOK, InProgress, Modes, Copied, CopiedTo,
         LoadedMeansRunning, Done

LEMMA LoaderNextInv == LoaderInv /\ [LoaderNext]_loaderVars => LoaderInv'
  BY StartInv, OpenPinsInv, EnterProgrammingInv, ReadIdInv, RefreshDeviceInv, EnableInv,
     BeginBurstInv, SendChunkInv, EndBurstInv, ReadStatusInv, DisableInv, GpmcInv,
     ResetLogicInv, KilledInv, LoaderSameInv
  DEF LoaderNext

(* However often cam-loader failed, was killed and started again, and      *)
(* whatever was spoilt on the way: when it reports success, the FPGA runs  *)
(* the whole image, made for it, behind a bus that is set up               *)
(* (fpga-loader.c:391-494, cam-loader.c:186-260).                           *)
THEOREM LoaderTruthful == LoaderSpec => []LoadedMeansRunning
  <1>1. LoaderInv => LoadedMeansRunning
    BY DEF LoaderInv
  <1>. QED
    BY <1>1, LoaderInitInv, LoaderNextInv, PTL DEF LoaderSpec

-----------------------------------------------------------------------------
(***************************************************************************)
(* For every set of geometries, periods and exposures a caller may ask     *)
(* for: what the library programs into the timing generator is a frame the *)
(* sensor can keep.                                                        *)
(*                                                                         *)
(* ReadoutFits compares registers of two calls.  What links them is that   *)
(* the line register holds the row of the geometry the period was set for  *)
(* with the wave table chosen then (Timed), and the row registers span the *)
(* geometry of the last SetResolution (Sized).                             *)
(***************************************************************************)

Geometry == [hres : Nat, vres : Nat, hoffset : Nat, voffset : Nat]

SensorTypeOK ==
  sensor \in [x_start : Int, x_end : Int, y_start : Int, y_end : Int,
              wavetab : Nat, start_delay : Nat, line_period : Int,
              frame_period : Int, int_time : Int, gain : Nat, offset : Int,
              sized : Geometry, timed : Geometry, exposed : Geometry, period : Int,
              calfile : Int]

Sized ==
  sensor.sized # Nothing => sensor.y_end - sensor.y_start + 1 = sensor.sized.vres

Timed ==
  sensor.timed # Nothing =>
    /\ sensor.line_period + 1 = RowClocks(sensor.timed, sensor.wavetab)
    /\ sensor.frame_period >= lux1310_min_period(sensor.timed, sensor.wavetab)
    /\ 10 * sensor.frame_period >= sensor.period

SensorInv == SensorTypeOK /\ Sized /\ Timed /\ ExposureFits

-----------------------------------------------------------------------------
(* Arithmetic. *)

(* Division rounds down.                                                   *)
LEMMA DivRoundsDown ==
  ASSUME NEW a \in Nat, NEW b \in Nat \ {0}
  PROVE  a \div b \in Nat /\ b * (a \div b) <= a
<1>1. a = b * (a \div b) + (a % b) /\ a % b \in 0 .. b - 1 /\ a \div b \in Int
  OBVIOUS
<1>2. a \div b >= 0
  OBVIOUS
<1> QED BY <1>1, <1>2

(* A row takes at least one clock.                                         *)
LEMMA RowType ==
  ASSUME NEW g \in Geometry, NEW w \in Nat
  PROVE  RowClocks(g, w) \in Nat \ {0}
<1>1. g.hres \in Nat /\ g.hres \div 16 \in Nat
  BY DivRoundsDown DEF Geometry
<1> QED BY <1>1 DEF RowClocks, HRES_INCREMENT

LEMMA PeriodType ==
  ASSUME NEW g \in Geometry, NEW w \in Nat
  PROVE  lux1310_min_period(g, w) \in Nat
<1>1. RowClocks(g, w) \in Nat /\ g.vres \in Nat
  BY RowType DEF Geometry
<1>2. RowClocks(g, w) * g.vres \in Nat
  BY <1>1
<1> QED BY <1>2 DEF lux1310_min_period, Overhead

LEMMA AskedPeriodType ==
  ASSUME NEW g \in Geometry, NEW spare \in Nat
  PROVE  t_min_period(g) + spare \in Int
<1>1. lux1310_min_period(g, MIN_WAVETABLE) \in Nat
  BY PeriodType DEF MIN_WAVETABLE
<1> QED BY <1>1 DEF t_min_period

(* A wave table is chosen, and the frame has room for it, if it has room   *)
(* for the shortest one (lux1310-sensor.c:378-394).                        *)
LEMMA WaveTableFits ==
  ASSUME NEW g \in Geometry, NEW t \in Int, t >= lux1310_min_period(g, MIN_WAVETABLE)
  PROVE  LET w == WaveTableFor(g, t)
         IN  w \in WaveTables /\ t >= lux1310_min_period(g, w.read_delay)
<1> DEFINE Enough(w) == t >= lux1310_min_period(g, w.read_delay)
           Longest(w) == /\ w.read_delay = MIN_WAVETABLE \/ Enough(w)
                         /\ \A v \in WaveTables : v.read_delay > w.read_delay =>
                                                    t < lux1310_min_period(g, v.read_delay)
<1>1. \A w \in WaveTables : lux1310_min_period(g, w.read_delay) \in Nat
  BY PeriodType DEF WaveTables
<1>2. \E w \in WaveTables : Longest(w)
  <2> DEFINE W(r, s) == [read_delay |-> r, start_delay |-> s]
  <2>1. CASE Enough(W(80, 25))
    BY <2>1 DEF WaveTables
  <2>2. CASE ~Enough(W(80, 25)) /\ Enough(W(39, 30))
    BY <1>1, <2>2 DEF WaveTables
  <2>3. CASE ~Enough(W(80, 25)) /\ ~Enough(W(39, 30)) /\ Enough(W(30, 29))
    BY <1>1, <2>3 DEF WaveTables
  <2>4. CASE ~Enough(W(80, 25)) /\ ~Enough(W(39, 30)) /\ ~Enough(W(30, 29)) /\ Enough(W(25, 27))
    BY <1>1, <2>4 DEF WaveTables
  <2>5. CASE ~Enough(W(80, 25)) /\ ~Enough(W(39, 30)) /\ ~Enough(W(30, 29)) /\ ~Enough(W(25, 27))
    BY <1>1, <2>5 DEF WaveTables, MIN_WAVETABLE
  <2> QED BY <2>1, <2>2, <2>3, <2>4, <2>5
<1>3. /\ WaveTableFor(g, t) \in WaveTables
      /\ Longest(WaveTableFor(g, t))
  BY <1>2, Zenon DEF WaveTableFor
<1> QED BY <1>3

(* The frame is the period in clocks, rounded up: it holds the shortest    *)
(* frame if the period does.                                               *)
LEMMA PeriodRoundsUp ==
  ASSUME NEW ns \in Int, NEW least \in Nat, ns >= 10 * least
  PROVE  LET t_frame == (ns + 9) \div 10
         IN  t_frame \in Int /\ t_frame >= least /\ 10 * t_frame >= ns
  OBVIOUS

(* The integration time of an exposure within the constraints of a period  *)
(* outlasts the frame by half a row and four clocks at most                *)
(* (lux1310-sensor.c:403-419).                                             *)
LEMMA IntegrationFits ==
  ASSUME NEW g \in Geometry, NEW w \in Nat, NEW frame \in Int, NEW period \in Int,
         10 * frame >= period,
         NEW ns \in Nat, ns <= image_sensor_max_exposure(period)
  PROVE  /\ IntegrationTime(g, w, ns) \in Int
         /\ 9 * (IntegrationTime(g, w, ns) - frame) <= 10 * (RowClocks(g, w) \div 2 + 4)
<1> DEFINE row   == RowClocks(g, w)
           asked == (9 * ns + 50) \div 100
           lines == (asked + row \div 2) \div row
           clocks == row * lines
<1>1. row \in Nat \ {0}
  BY RowType
<1>2. asked \in Nat /\ row \div 2 \in Nat
  BY <1>1
<1>3. lines \in Nat /\ clocks <= asked + row \div 2
  <2> HIDE DEF row, asked
  <2> QED BY <1>1, <1>2, DivRoundsDown
<1>4. clocks \in Nat
  <2> HIDE DEF row, lines
  <2> QED BY <1>1, <1>3
<1>5. ns <= period - 260
  BY DEF image_sensor_max_exposure, t_exposure_delay, ABN_DELAY
<1>6. 100 * asked <= 9 * ns + 50
  OBVIOUS
<1>7. IntegrationTime(g, w, ns) = ((26 + clocks) * 10) \div 9
  BY DEF IntegrationTime, ABN_DELAY
<1> HIDE DEF row, asked, lines, clocks
<1> DEFINE half == row \div 2
<1>8. half \in Nat /\ clocks <= asked + half
  BY <1>2, <1>3
<1> HIDE DEF half
<1>9. IntegrationTime(g, w, ns) \in Int /\ 9 * IntegrationTime(g, w, ns) <= 10 * (26 + clocks)
  BY <1>4, <1>7
<1>10. 9 * (IntegrationTime(g, w, ns) - frame) <= 10 * (half + 4)
  BY <1>2, <1>4, <1>5, <1>6, <1>8, <1>9
<1> QED BY <1>9, <1>10 DEF half, row

-----------------------------------------------------------------------------
(* The invariant. *)

LEMMA SensorInitInv == SensorInit => SensorInv
  BY DEF SensorInit, SensorInv, SensorTypeOK, Sized, Timed, ExposureFits, Geometry, Nothing

LEMMA SetResolutionInv ==
  ASSUME SensorInv, NEW g \in Geometry, SetResolution(g)
  PROVE  SensorInv'
<1>1. SensorTypeOK'
  <2>1. /\ BLACK_COLS + g.hoffset \in Int /\ BLACK_COLS + g.hoffset + g.hres - 1 \in Int
        /\ g.voffset \in Int /\ g.voffset + g.vres - 1 \in Int
    BY DEF Geometry, BLACK_COLS
  <2> QED BY <2>1 DEF SensorInv, SensorTypeOK, SetResolution
<1>2. Sized'
  BY DEF SensorInv, SensorTypeOK, Sized, SetResolution, Geometry
<1>3. Timed' /\ ExposureFits'
  BY DEF SensorInv, SensorTypeOK, Timed, ExposureFits, SetResolution
<1> QED BY <1>1, <1>2, <1>3 DEF SensorInv

LEMMA SetPeriodInv ==
  ASSUME SensorInv, NEW g \in Geometry, NEW ns \in Int, SetPeriod(g, ns)
  PROVE  SensorInv'
<1> DEFINE t_frame == (ns + 9) \div 10
           w       == WaveTableFor(g, t_frame)
           least   == lux1310_min_period(g, MIN_WAVETABLE)
<1>1. least \in Nat
  BY PeriodType DEF MIN_WAVETABLE
<1>2. ns >= 10 * least
  BY DEF SetPeriod, t_min_period
<1>3. t_frame \in Int /\ t_frame >= least /\ 10 * t_frame >= ns
  <2> HIDE DEF least
  <2> QED BY <1>1, <1>2, PeriodRoundsUp
<1>4. w \in WaveTables /\ t_frame >= lux1310_min_period(g, w.read_delay)
  <2> HIDE DEF t_frame
  <2> QED BY <1>3, WaveTableFits
<1>5. sensor' = [sensor EXCEPT !.frame_period = t_frame,
                               !.wavetab = w.read_delay, !.start_delay = w.start_delay,
                               !.line_period = RowClocks(g, w.read_delay) - 1,
                               !.timed = g, !.exposed = Nothing, !.period = ns]
  BY DEF SetPeriod
<1> HIDE DEF t_frame, w, least
<1>6. w.read_delay \in Nat /\ w.start_delay \in Nat
  BY <1>4 DEF WaveTables
<1>7. RowClocks(g, w.read_delay) \in Nat \ {0}
  BY <1>6, RowType
<1>8. SensorTypeOK'
  <2>1. Nothing \in Geometry
    BY DEF Geometry, Nothing
  <2>2. RowClocks(g, w.read_delay) - 1 \in Int
    BY <1>7
  <2> QED BY <1>3, <1>5, <1>6, <2>1, <2>2 DEF SensorInv, SensorTypeOK
<1>9. Sized'
  BY <1>5 DEF SensorInv, SensorTypeOK, Sized
<1>10. Timed'
  BY <1>3, <1>4, <1>5, <1>6, <1>7 DEF SensorInv, SensorTypeOK, Timed
<1>11. ExposureFits'
  BY <1>5 DEF SensorInv, SensorTypeOK, ExposureFits
<1> QED BY <1>8, <1>9, <1>10, <1>11 DEF SensorInv

LEMMA SetExposureInv ==
  ASSUME SensorInv, NEW g \in Geometry, NEW ns \in Int, SetExposure(g, ns)
  PROVE  SensorInv'
<1> DEFINE w == sensor.wavetab
<1>1. sensor \in [x_start : Int, x_end : Int, y_start : Int, y_end : Int,
              wavetab : Nat, start_delay : Nat, line_period : Int,
              frame_period : Int, int_time : Int, gain : Nat, offset : Int,
              sized : Geometry, timed : Geometry, exposed : Geometry, period : Int,
              calfile : Int]
  BY DEF SensorInv, SensorTypeOK
<1>2. /\ sensor.line_period + 1 = RowClocks(g, w)
      /\ 10 * sensor.frame_period >= sensor.period
  BY DEF SensorInv, Timed, SetExposure
<1>3. RowClocks(g, MIN_WAVETABLE) \in Nat
  BY RowType DEF MIN_WAVETABLE
<1>4. ns \in Nat /\ ns <= image_sensor_max_exposure(sensor.period)
  BY <1>1, <1>3 DEF SetExposure, t_min_exposure, image_sensor_max_exposure, t_exposure_delay, ABN_DELAY
<1>5. /\ IntegrationTime(g, w, ns) \in Int
      /\ 9 * (IntegrationTime(g, w, ns) - sensor.frame_period) <= 10 * (RowClocks(g, w) \div 2 + 4)
  BY <1>1, <1>2, <1>4, IntegrationFits
<1>6. sensor' = [sensor EXCEPT !.int_time = IntegrationTime(g, w, ns), !.exposed = g]
  BY DEF SetExposure
<1>7. SensorTypeOK' /\ Sized' /\ Timed'
  BY <1>5, <1>6 DEF SensorInv, SensorTypeOK, Sized, Timed
<1>8. ExposureFits'
  <2>1. /\ sensor'.int_time = IntegrationTime(g, w, ns)
        /\ sensor'.frame_period = sensor.frame_period
        /\ sensor'.line_period = sensor.line_period
    BY <1>1, <1>6
  <2> QED BY <2>1, <1>2, <1>5 DEF ExposureFits
<1> QED BY <1>7, <1>8 DEF SensorInv

LEMMA SetGainInv ==
  ASSUME SensorInv, NEW gain \in Nat, NEW calfile \in BOOLEAN, SetGain(gain, calfile)
  PROVE  SensorInv'
<1>1. \A x \in Int : SignMagnitude(x) \in Int
  BY DEF SignMagnitude, Magnitude
<1>2. SignMagnitude(IF calfile THEN sensor.calfile ELSE 0) \in Int
  BY <1>1 DEF SensorInv, SensorTypeOK
<1> QED BY <1>2 DEF SetGain, SensorInv, SensorTypeOK, Sized, Timed, ExposureFits

LEMMA CalGainInv ==
  ASSUME SensorInv, NEW level \in Nat, CalGain(level)
  PROVE  SensorInv'
<1>1. Calibration(level) \in Int
  BY DEF Calibration
<1>2. Calibration(level) % 2048 \in Int
  BY <1>1
<1> DEFINE new == Calibration(level)
           low == new % 2048
<1>3. sensor' = [sensor EXCEPT !.offset = low, !.calfile = new]
  BY DEF CalGain
<1>4. new \in Int /\ low \in Int
  BY <1>1, <1>2
<1> HIDE DEF new, low
<1> QED BY <1>3, <1>4 DEF SensorInv, SensorTypeOK, Sized, Timed, ExposureFits

LEMMA SensorNextInv == SensorInv /\ [SensorNext]_sensor => SensorInv'
<1> SUFFICES ASSUME SensorInv, [SensorNext]_sensor
             PROVE  SensorInv'
  OBVIOUS
<1> USE SensorAssumption
<1>1. ASSUME NEW g \in Geometries, SetResolution(g)
      PROVE  SensorInv'
  BY <1>1, SetResolutionInv DEF Geometry
<1>2. ASSUME NEW g \in Geometries, NEW spare \in Spares, SetPeriod(g, t_min_period(g) + spare)
      PROVE  SensorInv'
  <2>1. g \in Geometry
    BY DEF Geometry
  <2>2. t_min_period(g) + spare \in Int
    BY <2>1, AskedPeriodType
  <2> QED BY <1>2, <2>1, <2>2, SetPeriodInv
<1>3. ASSUME NEW g \in Geometries, NEW ns, SetExposure(g, ns)
      PROVE  SensorInv'
  <2>1. g \in Geometry
    BY DEF Geometry
  <2>2. t_min_exposure(g) \in Int
    BY <2>1, RowType DEF t_min_exposure, MIN_WAVETABLE
  <2>3. image_sensor_max_exposure(sensor.period) \in Int
    BY DEF image_sensor_max_exposure, t_exposure_delay, ABN_DELAY, SensorInv, SensorTypeOK
  <2>4. ns \in Int
    BY <1>3, <2>2, <2>3 DEF SetExposure
  <2> QED BY <1>3, <2>1, <2>4, SetExposureInv
<1>4. ASSUME NEW gain \in AskedGains, NEW calfile \in BOOLEAN, SetGain(gain, calfile)
      PROVE  SensorInv'
  BY <1>4, SetGainInv
<1>5. ASSUME NEW level \in Levels, CalGain(level)
      PROVE  SensorInv'
  BY <1>5, CalGainInv
<1>6. CASE UNCHANGED sensor
  BY <1>6 DEF SensorInv, SensorTypeOK, Sized, Timed, ExposureFits
<1> QED BY <1>1, <1>2, <1>3, <1>4, <1>5, <1>6 DEF SensorNext

(* The invariant says what the two registers of a frame have in common.    *)
LEMMA TimedFits == SensorInv => ReadoutFits
<1> SUFFICES ASSUME SensorInv, sensor.sized = sensor.timed, sensor.timed # Nothing
             PROVE  (sensor.y_end - sensor.y_start + 1) * (sensor.line_period + 1) + Overhead
                      <= sensor.frame_period
  BY DEF ReadoutFits
<1> DEFINE row  == RowClocks(sensor.timed, sensor.wavetab)
           vres == sensor.timed.vres
<1>1. /\ sensor.y_end - sensor.y_start + 1 = vres
      /\ sensor.line_period + 1 = row
      /\ sensor.frame_period >= row * vres + Overhead
  BY DEF SensorInv, Sized, Timed, lux1310_min_period
<1>2. vres \in Nat /\ row \in Nat
  BY RowType DEF SensorInv, SensorTypeOK, Geometry
<1>3. row * vres = vres * row
  <2> HIDE DEF row, vres
  <2> QED BY <1>2
<1> QED BY <1>1, <1>3

-----------------------------------------------------------------------------
(* The library never programs a frame that is shorter than the readout of  *)
(* its rows, nor an exposure within its own constraints that outlasts the  *)
(* frame by more than the rounding (lux1310-sensor.c:303-348, 371-419).    *)
THEOREM SensorKeepsFrames == SensorSpec => []FrameFits
<1>1. SensorInv => FrameFits
  BY TimedFits DEF SensorInv, FrameFits
<1> QED BY <1>1, SensorInitInv, SensorNextInv, PTL DEF SensorSpec

-----------------------------------------------------------------------------
(***************************************************************************)
(* For any calls, levels and failures of power: the focus aids on display  *)
(* follow the parameters, and a configuration that is clean is the one on  *)
(* file.                                                                   *)
(*                                                                         *)
(* As long as the two threads did not overlap, the register lacks at most  *)
(* the aids whose setters are still to run (AidsButNames), the copy that a *)
(* setter took of it is fresh, and the one that a change of state took of  *)
(* the parameters too (AidsInv).  What was saved is a configuration that   *)
(* every setter takes as it is, so loading gives back the file (LoadsFile).*)
(***************************************************************************)

ParamNames == SavedNames \cup {"videoZoom"}

(* What every setter takes as it is.                                       *)
Settled(values) ==
  /\ values["focusPeakingColor"] \in Colors
  /\ values["focusPeakingLevel"] \in 0 .. MaxLevel
  /\ values["zebraLevel"] \in 0 .. MaxLevel
  /\ values["overlayPosition"] # "nowhere"

AidRecords == [peak : BOOLEAN, zebra : BOOLEAN, color : Colors]

(* What a call changes in the register.                                    *)
Shown == AidNames \cup {"colorMode"}

DbusLocals ==
  [pc : {"idle", "save"}] \cup [pc : {"test"}, names : SUBSET Shown]
    \cup [pc : {"merge"}, names : SUBSET Shown, name : Shown, aids : AidRecords]

PlayerLocals ==
  [pc : {"idle"}] \cup [pc : {"register", "state"}, to : {"live", "paused"}, aids : AidRecords]

ParamTypes ==
  /\ DOMAIN param = ParamNames /\ Settled(param)
  /\ register \in AidRecords
  /\ playstate \in {"live", "paused"}
  /\ dbus \in DbusLocals
  /\ player \in PlayerLocals

(* The names of the eight parameters, and the types that matter.           *)
LEMMA ParamTable ==
  /\ Names = {"focusPeakingColor", "focusPeakingLevel", "zebraLevel", "overlayEnable",
              "overlayFormat", "overlayPosition", "videoZoom", "videoState"}
  /\ SavedNames = {"focusPeakingColor", "focusPeakingLevel", "zebraLevel", "overlayEnable",
                   "overlayFormat", "overlayPosition"}
  /\ cam_dbus_params["focusPeakingColor"].type = "color"
  /\ cam_dbus_params["focusPeakingLevel"].type = "level"
  /\ cam_dbus_params["zebraLevel"].type = "level"
  /\ cam_dbus_params["overlayEnable"].type = "boolean"
  /\ cam_dbus_params["overlayFormat"].type = "string"
  /\ cam_dbus_params["overlayPosition"].type = "position"
  /\ cam_dbus_params["videoZoom"].type = "zoom"
  /\ \A n \in SavedNames : cam_dbus_params[n].set
<1>1. Names = {"focusPeakingColor", "focusPeakingLevel", "zebraLevel", "overlayEnable",
               "overlayFormat", "overlayPosition", "videoZoom", "videoState"}
  BY DEF Names, cam_dbus_params
<1>2. /\ \A n \in {"focusPeakingColor", "focusPeakingLevel", "zebraLevel", "overlayEnable",
                  "overlayFormat", "overlayPosition"} :
           cam_dbus_params[n].saved = TRUE /\ cam_dbus_params[n].set = TRUE
      /\ cam_dbus_params["videoZoom"].saved = FALSE /\ cam_dbus_params["videoState"].saved = FALSE
  BY DEF cam_dbus_params, Param
<1>3. /\ cam_dbus_params["focusPeakingColor"].type = "color"
      /\ cam_dbus_params["focusPeakingLevel"].type = "level"
      /\ cam_dbus_params["zebraLevel"].type = "level"
      /\ cam_dbus_params["overlayEnable"].type = "boolean"
      /\ cam_dbus_params["overlayFormat"].type = "string"
      /\ cam_dbus_params["overlayPosition"].type = "position"
      /\ cam_dbus_params["videoZoom"].type = "zoom"
  BY DEF cam_dbus_params, Param
<1>4. SavedNames = {"focusPeakingColor", "focusPeakingLevel", "zebraLevel", "overlayEnable",
                    "overlayFormat", "overlayPosition"}
  BY <1>1, <1>2 DEF SavedNames
<1> QED BY <1>1, <1>2, <1>3, <1>4

LEMMA DefaultsSettled == DOMAIN Defaults = SavedNames /\ Settled(Defaults)
<1>1. /\ cam_dbus_params["focusPeakingColor"].default = "cyan"
      /\ cam_dbus_params["focusPeakingLevel"].default = 0
      /\ cam_dbus_params["zebraLevel"].default = 0
      /\ cam_dbus_params["overlayPosition"].default = "bottom"
  BY DEF cam_dbus_params, Param
<1> QED BY <1>1, ParamTable, ParamAssumption DEF Defaults, Settled, Colors

(* What a setter stores.                                                   *)
LEMMA StoredSettled ==
  ASSUME NEW name, NEW value, Takes(name, value),
         cam_dbus_params[name].type = "level" => value \in Int
  PROVE  /\ name = "focusPeakingColor" => StoredValue(name, value) \in Colors
         /\ name \in {"focusPeakingLevel", "zebraLevel"} => StoredValue(name, value) \in 0 .. MaxLevel
         /\ name = "overlayPosition" => StoredValue(name, value) # "nowhere"
<1>1. \A v \in Int : Clamped(v, 0, MaxLevel) \in 0 .. MaxLevel
  BY ParamAssumption DEF Clamped
<1> QED BY <1>1, ParamTable DEF Takes, StoredValue

(* What a call assigns.                                                    *)
LEMMA AssignedEach ==
  ASSUME NEW values, NEW pairs \in Inputs
  PROVE  /\ DOMAIN Assigned(values, pairs) = DOMAIN values
         /\ \A n \in DOMAIN values :
              \/ \E pair \in pairs : /\ pair.name = n /\ Takes(n, pair.value)
                                     /\ Assigned(values, pairs)[n] = StoredValue(n, pair.value)
              \/ /\ ~\E pair \in pairs : pair.name = n /\ Takes(n, pair.value)
                 /\ Assigned(values, pairs)[n] = values[n]
<1>1. ASSUME NEW n \in DOMAIN values, NEW pair \in pairs, pair.name = n, Takes(n, pair.value)
      PROVE  Assigned(values, pairs)[n] = StoredValue(n, pair.value)
  <2>1. \A p \in pairs : p.name = n => p = pair
    BY <1>1, ParamAssumption
  <2>2. (CHOOSE p \in pairs : p.name = n) = pair
    BY <1>1, <2>1
  <2> QED BY <1>1, <2>2 DEF Assigned
<1>2. ASSUME NEW n \in DOMAIN values, ~\E pair \in pairs : pair.name = n /\ Takes(n, pair.value)
      PROVE  Assigned(values, pairs)[n] = values[n]
  BY <1>2 DEF Assigned
<1>3. DOMAIN Assigned(values, pairs) = DOMAIN values
  BY DEF Assigned
<1> QED BY <1>1, <1>2, <1>3

LEMMA AssignedSettled ==
  ASSUME NEW values, DOMAIN values = ParamNames, Settled(values), NEW pairs \in Inputs
  PROVE  Settled(Assigned(values, pairs))
<1> DEFINE now == Assigned(values, pairs)
<1>1. {"focusPeakingColor", "focusPeakingLevel", "zebraLevel", "overlayPosition"} \subseteq ParamNames
  BY ParamTable DEF ParamNames
<1>2. \A pair \in pairs :
        Takes(pair.name, pair.value) /\ cam_dbus_params[pair.name].type = "level" => pair.value \in Int
  BY ParamAssumption DEF Takes
<1>3. \A n \in ParamNames :
        \/ \E value : /\ Takes(n, value) /\ now[n] = StoredValue(n, value)
                      /\ cam_dbus_params[n].type = "level" => value \in Int
        \/ now[n] = values[n]
  BY <1>2, AssignedEach
<1> HIDE DEF now
<1>4. now["focusPeakingColor"] \in Colors
  BY <1>1, <1>3, StoredSettled DEF Settled
<1>5. now["focusPeakingLevel"] \in 0 .. MaxLevel
  BY <1>1, <1>3, StoredSettled DEF Settled
<1>6. now["zebraLevel"] \in 0 .. MaxLevel
  BY <1>1, <1>3, StoredSettled DEF Settled
<1>7. now["overlayPosition"] # "nowhere"
  BY <1>1, <1>3, StoredSettled DEF Settled
<1> QED BY <1>4, <1>5, <1>6, <1>7 DEF Settled, now

(* What is on file.                                                        *)
Config(content) == DOMAIN content = SavedNames /\ Settled(content)

LEMMA SavedIsConfig ==
  ASSUME Settled(param)
  PROVE  Config(dbus_save_params(param))
BY ParamTable DEF Config, Settled, dbus_save_params, Reread

LEMMA LoadsFile ==
  ASSUME NEW content, Config(content), content # NoConfig, content = [n \in SavedNames |-> content[n]]
  PROVE  Loaded(content) = content
<1> DEFINE pairs == {[name |-> n, value |-> content[n]] : n \in SavedNames}
<1>1. ASSUME NEW n \in SavedNames
      PROVE  Assigned(Defaults, pairs)[n] = content[n]
  <2> DEFINE own == [name |-> n, value |-> content[n]]
  <2>1. own \in pairs /\ own.name = n /\ own.value = content[n]
    OBVIOUS
  <2>2. \A pair \in pairs : pair.name = n => pair = own
    OBVIOUS
  <2>3. (CHOOSE pair \in pairs : pair.name = n) = own
    <3> HIDE DEF pairs, own
    <3> QED BY <2>1, <2>2
  <2>4. Takes(n, content[n])
    BY ParamTable DEF Takes, Config, Settled
  <2>5. StoredValue(n, content[n]) = content[n]
    BY ParamTable, ParamAssumption DEF StoredValue, Clamped, Config, Settled
  <2>6. n \in DOMAIN Defaults
    BY DEF Defaults
  <2> HIDE DEF own, pairs
  <2> QED BY <2>1, <2>3, <2>4, <2>5, <2>6 DEF Assigned
<1>2. DOMAIN Assigned(Defaults, pairs) = SavedNames
  BY DEF Assigned, Defaults
<1>3. Assigned(Defaults, pairs) = [n \in SavedNames |-> Assigned(Defaults, pairs)[n]]
  BY DEF Assigned, Defaults
<1> HIDE DEF pairs
<1> QED BY <1>1, <1>2, <1>3 DEF Loaded, pairs

-----------------------------------------------------------------------------
Setting == dbus.pc \in {"test", "merge"}

(* The register shows the aids, but for those whose setters are to run.    *)
AidsBut(names) ==
  /\ "focusPeakingLevel" \notin names => register.peak = Aids(param).peak
  /\ "zebraLevel" \notin names => register.zebra = Aids(param).zebra
  /\ "focusPeakingColor" \notin names => register.color = Aids(param).color

Unchanging == player = Resting

AidsInv ==
  ~tangled =>
    /\ ~Unchanging =>
         /\ ~Setting
         /\ player.aids = Aids(param)
         /\ player.to = "live" /\ player.pc = "state" => register = player.aids
         /\ player.to = "paused" /\ player.pc = "register" => playstate = "paused"
    /\ Unchanging =>
         /\ dbus.pc = "merge" => playstate = "live" /\ dbus.aids = register
         /\ playstate = "live" => AidsBut(IF Setting THEN dbus.names ELSE {})
         /\ playstate = "paused" => ~register.peak /\ ~register.zebra

LEMMA AidsType ==
  ASSUME NEW values, Settled(values)
  PROVE  Aids(values) \in AidRecords /\ Hidden(Aids(values)) \in AidRecords
<1>1. \A x \in AidRecords : Hidden(x) \in AidRecords
  BY DEF Hidden, AidRecords
<1>2. (values["focusPeakingLevel"] > 0) \in BOOLEAN /\ (values["zebraLevel"] > 0) \in BOOLEAN
  OBVIOUS
<1>3. Aids(values) \in AidRecords
  BY <1>2 DEF Aids, AidRecords, Settled
<1> QED BY <1>1, <1>3

LEMMA MergedType ==
  ASSUME NEW aids \in AidRecords, NEW name \in Shown, NEW values, Settled(values)
  PROVE  /\ Merged(aids, name, values) \in AidRecords
         /\ name = "focusPeakingColor" =>
              /\ Merged(aids, name, values).color = Aids(values).color
              /\ aids.peak = Aids(values).peak => Merged(aids, name, values).peak = Aids(values).peak
              /\ aids.zebra = Aids(values).zebra => Merged(aids, name, values).zebra = Aids(values).zebra
         /\ name = "focusPeakingLevel" =>
              /\ Merged(aids, name, values).peak = Aids(values).peak
              /\ Merged(aids, name, values).zebra = aids.zebra
              /\ Merged(aids, name, values).color = aids.color
         /\ name = "zebraLevel" =>
              /\ Merged(aids, name, values).zebra = Aids(values).zebra
              /\ Merged(aids, name, values).peak = aids.peak
              /\ Merged(aids, name, values).color = aids.color
         /\ name = "colorMode" => Merged(aids, name, values) = aids
<1> DEFINE all == Aids(values)
<1>1. all \in AidRecords
  BY AidsType
<1> HIDE DEF all
<1>2. CASE name = "focusPeakingColor"
  <2>1. Merged(aids, name, values) =
          [peak |-> aids.peak \/ all.peak, zebra |-> aids.zebra \/ all.zebra, color |-> all.color]
    BY <1>2 DEF Merged, all
  <2>2. /\ aids.peak \in BOOLEAN /\ aids.zebra \in BOOLEAN
        /\ all.peak \in BOOLEAN /\ all.zebra \in BOOLEAN /\ all.color \in Colors
    BY <1>1 DEF AidRecords
  <2>3. (aids.peak \/ all.peak) \in BOOLEAN /\ (aids.zebra \/ all.zebra) \in BOOLEAN
    OBVIOUS
  <2>4. Merged(aids, name, values) \in AidRecords
    BY <2>1, <2>2, <2>3 DEF AidRecords
  <2>5. /\ aids.peak = all.peak => (aids.peak \/ all.peak) = all.peak
        /\ aids.zebra = all.zebra => (aids.zebra \/ all.zebra) = all.zebra
    BY <2>2
  <2> QED BY <1>2, <2>1, <2>4, <2>5 DEF all
<1>3. CASE name = "focusPeakingLevel"
  <2>1. Merged(aids, name, values) = [aids EXCEPT !.peak = all.peak]
    BY <1>3 DEF Merged, all
  <2>2. all.peak \in BOOLEAN
    BY <1>1 DEF AidRecords
  <2> QED BY <1>3, <2>1, <2>2 DEF AidRecords, all
<1>4. CASE name = "zebraLevel"
  <2>1. Merged(aids, name, values) = [aids EXCEPT !.zebra = all.zebra]
    BY <1>4 DEF Merged, all
  <2>2. all.zebra \in BOOLEAN
    BY <1>1 DEF AidRecords
  <2> QED BY <1>4, <2>1, <2>2 DEF AidRecords, all
<1>5. CASE name = "colorMode"
  <2>1. Merged(aids, name, values) = aids
    BY <1>5 DEF Merged
  <2> QED BY <1>5, <2>1
<1> QED BY <1>2, <1>3, <1>4, <1>5 DEF Shown, AidNames

(* What each step does to the two threads.                                 *)
LEMMA SetMoves ==
  ASSUME ParamTypes, cam_video_set \/ cam_video_configure \/ cam_video_reset
  PROVE  /\ ParamTypes' /\ UNCHANGED <<register, playstate, player>> /\ ~Setting
         /\ \/ UNCHANGED dbus /\ UNCHANGED tangled /\ Aids(param') = Aids(param)
            \/ /\ dbus'.pc = "test" /\ (~tangled' => ~tangled /\ Unchanging)
               /\ "focusPeakingColor" \notin dbus'.names => Aids(param').color = Aids(param).color
               /\ "focusPeakingLevel" \notin dbus'.names => Aids(param').peak = Aids(param).peak
               /\ "zebraLevel" \notin dbus'.names => Aids(param').zebra = Aids(param).zebra
<1>1. ~Setting /\ UNCHANGED <<register, playstate, player>>
  BY DEF cam_video_set, cam_video_configure, cam_video_reset, Setting, Resting, displayVars
<1>2. \A names \in SUBSET Shown : [pc |-> "test", names |-> names] \in DbusLocals
  BY DEF DbusLocals
<1>3. /\ SavedNames \subseteq ParamNames /\ "videoZoom" \notin SavedNames
      /\ AidNames = {"focusPeakingColor", "focusPeakingLevel", "zebraLevel"}
      /\ AidNames \subseteq ParamNames /\ AidNames \subseteq Shown
  BY ParamTable DEF ParamNames, AidNames, Shown
<1>4. CASE cam_video_reset
  <2>1. dbus' = [pc |-> "test", names |-> AidNames] /\ tangled' = (tangled \/ player # Resting)
    BY <1>4 DEF cam_video_reset
  <2>2. DOMAIN param' = ParamNames /\ \A n \in SavedNames : param'[n] = Defaults[n]
    BY <1>3, <1>4 DEF cam_video_reset, Reset, ParamTypes
  <2>3. Settled(param')
    BY <2>2, DefaultsSettled, ParamTable DEF Settled
  <2>4. ParamTypes'
    BY <1>1, <1>2, <1>3, <2>1, <2>2, <2>3 DEF ParamTypes
  <2> QED BY <1>1, <1>3, <2>1, <2>4 DEF Unchanging
<1>5. CASE cam_video_set
  <2>1. PICK pairs \in Inputs :
          LET taken == {pair \in pairs : Takes(pair.name, pair.value)}
              shown == {pair.name : pair \in taken} \cap AidNames
          IN /\ param' = Assigned(param, pairs)
             /\ IF shown # {}
                THEN /\ dbus' = [pc |-> "test", names |-> shown]
                     /\ tangled' = (tangled \/ player # Resting)
                ELSE UNCHANGED <<dbus, tangled>>
    BY <1>5 DEF cam_video_set
  <2> DEFINE shown == {pair.name : pair \in {p \in pairs : Takes(p.name, p.value)}} \cap AidNames
  <2>2. DOMAIN param' = ParamNames /\ Settled(param')
    BY <2>1, AssignedEach, AssignedSettled DEF ParamTypes
  <2>3. \A n \in AidNames : n \notin shown => param'[n] = param[n]
    <3>1. \A n \in AidNames : n \notin shown => ~\E pair \in pairs : pair.name = n /\ Takes(n, pair.value)
      OBVIOUS
    <3> HIDE DEF shown
    <3> QED BY <1>3, <2>1, <3>1, AssignedEach DEF ParamTypes
  <2>4. /\ "focusPeakingColor" \notin shown => Aids(param').color = Aids(param).color
        /\ "focusPeakingLevel" \notin shown => Aids(param').peak = Aids(param).peak
        /\ "zebraLevel" \notin shown => Aids(param').zebra = Aids(param).zebra
    <3> HIDE DEF shown
    <3> QED BY <1>3, <2>3 DEF Aids
  <2>5. CASE shown # {}
    <3>1. dbus' = [pc |-> "test", names |-> shown] /\ tangled' = (tangled \/ player # Resting)
      BY <2>1, <2>5
    <3>2. shown \in SUBSET Shown
      BY <1>3
    <3> HIDE DEF shown
    <3>3. ParamTypes'
      BY <1>1, <1>2, <2>2, <3>1, <3>2 DEF ParamTypes
    <3> QED BY <1>1, <2>4, <3>1, <3>3 DEF Unchanging
  <2>6. CASE shown = {}
    <3>1. UNCHANGED <<dbus, tangled>>
      BY <2>1, <2>6
    <3>2. \A n \in AidNames : param'[n] = param[n]
      BY <2>3, <2>6
    <3>3. Aids(param') = Aids(param)
      BY <1>3, <3>2 DEF Aids
    <3> QED BY <1>1, <2>2, <3>1, <3>3 DEF ParamTypes
  <2> QED BY <2>5, <2>6
<1>6. CASE cam_video_configure
  <2>1. /\ dbus' = [pc |-> "test", names |-> {"colorMode"}] /\ tangled' = (tangled \/ player # Resting)
        /\ UNCHANGED param
    BY <1>6 DEF cam_video_configure, configVars
  <2>2. ParamTypes'
    BY <1>1, <1>2, <2>1 DEF ParamTypes, Shown
  <2> QED BY <1>1, <2>1, <2>2 DEF Unchanging
<1> QED BY <1>4, <1>5, <1>6

LEMMA DbusRecords ==
  ASSUME ParamTypes
  PROVE  /\ dbus.pc \in {"test", "merge"} => dbus.names \in SUBSET Shown
         /\ dbus.pc = "merge" => dbus.name \in Shown /\ dbus.aids \in AidRecords
         /\ Resting \in DbusLocals /\ [pc |-> "save"] \in DbusLocals
         /\ \A names \in SUBSET Shown : [pc |-> "test", names |-> names] \in DbusLocals
         /\ \A names \in SUBSET Shown, name \in Shown, aids \in AidRecords :
              [pc |-> "merge", names |-> names, name |-> name, aids |-> aids] \in DbusLocals
         /\ dbus.pc = "test" => dbus = [pc |-> "test", names |-> dbus.names]
BY DEF ParamTypes, DbusLocals, Resting

LEMMA SetterMoves ==
  ASSUME ParamTypes
  PROVE  /\ TestLive =>
              /\ ParamTypes' /\ UNCHANGED <<param, register, playstate, player, tangled>>
              /\ dbus.pc = "test"
              /\ IF playstate = "live"
                 THEN dbus'.pc = "merge" /\ dbus'.names = dbus.names /\ dbus'.aids = register
                 ELSE dbus'.pc # "merge"
         /\ MergeAid =>
              /\ ParamTypes' /\ UNCHANGED <<param, playstate, player, tangled>>
              /\ dbus.pc = "merge" /\ register' = Merged(dbus.aids, dbus.name, param)
              /\ \/ dbus'.pc = "idle" /\ dbus.names = {dbus.name}
                 \/ dbus'.pc = "test" /\ dbus'.names = dbus.names \ {dbus.name}
         /\ OpenFile \/ Save =>
              /\ ParamTypes' /\ UNCHANGED <<param, register, playstate, player, tangled>>
              /\ ~Setting /\ dbus'.pc \notin {"test", "merge"}
<1>1. TestLive =>
        /\ ParamTypes' /\ UNCHANGED <<param, register, playstate, player, tangled>>
        /\ dbus.pc = "test"
        /\ IF playstate = "live"
           THEN dbus'.pc = "merge" /\ dbus'.names = dbus.names /\ dbus'.aids = register
           ELSE dbus'.pc # "merge"
  <2> SUFFICES ASSUME TestLive
               PROVE  /\ dbus' \in DbusLocals
                      /\ IF playstate = "live"
                         THEN dbus'.pc = "merge" /\ dbus'.names = dbus.names /\ dbus'.aids = register
                         ELSE dbus'.pc # "merge"
    BY DEF TestLive, ParamTypes, configVars, displayVars
  <2>1. dbus.pc = "test" /\ dbus.names \in SUBSET Shown /\ register \in AidRecords
    BY DbusRecords DEF TestLive, ParamTypes
  <2>2. PICK name \in dbus.names :
          dbus' = IF playstate = "live"
                  THEN [pc |-> "merge", names |-> dbus.names, name |-> name, aids |-> register]
                  ELSE IF dbus.names = {name} THEN Resting
                  ELSE [dbus EXCEPT !.names = @ \ {name}]
    BY DEF TestLive
  <2>3. name \in Shown /\ dbus.names \ {name} \in SUBSET Shown
    BY <2>1
  <2>4. [dbus EXCEPT !.names = @ \ {name}] = [pc |-> "test", names |-> dbus.names \ {name}]
    BY <2>1, DbusRecords
  <2>5. CASE playstate = "live"
    BY <2>1, <2>2, <2>3, <2>5, DbusRecords
  <2>6. CASE playstate # "live" /\ dbus.names = {name}
    BY <2>2, <2>6, DbusRecords DEF Resting
  <2>7. CASE playstate # "live" /\ dbus.names # {name}
    BY <2>2, <2>3, <2>4, <2>7, DbusRecords
  <2> QED BY <2>5, <2>6, <2>7
<1>2. MergeAid =>
        /\ ParamTypes' /\ UNCHANGED <<param, playstate, player, tangled>>
        /\ dbus.pc = "merge" /\ register' = Merged(dbus.aids, dbus.name, param)
        /\ \/ dbus'.pc = "idle" /\ dbus.names = {dbus.name}
           \/ dbus'.pc = "test" /\ dbus'.names = dbus.names \ {dbus.name}
  <2> SUFFICES ASSUME MergeAid
               PROVE  /\ dbus' \in DbusLocals /\ register' \in AidRecords
                      /\ \/ dbus'.pc = "idle" /\ dbus.names = {dbus.name}
                         \/ dbus'.pc = "test" /\ dbus'.names = dbus.names \ {dbus.name}
    BY DEF MergeAid, ParamTypes, configVars
  <2>1. dbus.names \ {dbus.name} \in SUBSET Shown /\ dbus.name \in Shown /\ dbus.aids \in AidRecords
    BY DbusRecords DEF MergeAid
  <2>2. register' \in AidRecords
    BY <2>1, MergedType DEF MergeAid, ParamTypes
  <2>3. CASE dbus.names = {dbus.name}
    BY <2>2, <2>3, DbusRecords DEF MergeAid, Resting
  <2>4. CASE dbus.names # {dbus.name}
    BY <2>1, <2>2, <2>4, DbusRecords DEF MergeAid
  <2> QED BY <2>3, <2>4
<1>3. OpenFile \/ Save =>
        /\ ParamTypes' /\ UNCHANGED <<param, register, playstate, player, tangled>>
        /\ ~Setting /\ dbus'.pc \notin {"test", "merge"}
  <2>1. ASSUME OpenFile \/ Save
        PROVE  dbus' \in DbusLocals /\ ~Setting /\ dbus'.pc \notin {"test", "merge"}
    BY <2>1, DbusRecords DEF OpenFile, Save, Setting, Resting, ParamTypes
  <2> QED BY <2>1 DEF OpenFile, Save, ParamTypes, displayVars
<1> QED BY <1>1, <1>2, <1>3

LEMMA PlayerRecords ==
  ASSUME ParamTypes
  PROVE  /\ ~Unchanging => /\ player.pc \in {"register", "state"}
                           /\ player.to \in {"live", "paused"} /\ player.aids \in AidRecords
                           /\ player = [pc |-> player.pc, to |-> player.to, aids |-> player.aids]
         /\ player.pc \in {"register", "state"} => ~Unchanging
         /\ Resting \in PlayerLocals
         /\ \A pc \in {"register", "state"}, to \in {"live", "paused"}, aids \in AidRecords :
              [pc |-> pc, to |-> to, aids |-> aids] \in PlayerLocals
BY DEF ParamTypes, PlayerLocals, Resting, Unchanging

LEMMA PlayerMoves ==
  ASSUME ParamTypes
  PROVE  /\ Begin =>
              /\ ParamTypes' /\ UNCHANGED <<param, register, playstate, dbus>>
              /\ ~Unchanging' /\ player'.aids = Aids(param)
              /\ \/ player'.to = "live" /\ player'.pc = "register"
                 \/ player'.to = "paused" /\ player'.pc = "state"
              /\ (tangled' <=> Setting)
         /\ WriteRegister =>
              /\ ParamTypes' /\ UNCHANGED <<param, playstate, dbus, tangled>>
              /\ player.pc = "register" /\ ~Unchanging
              /\ \/ /\ player.to = "live" /\ register' = player.aids
                    /\ ~Unchanging' /\ player'.pc = "state" /\ player'.to = "live"
                    /\ player'.aids = player.aids
                 \/ /\ player.to = "paused" /\ register' = Hidden(player.aids) /\ Unchanging'
         /\ WriteState =>
              /\ ParamTypes' /\ UNCHANGED <<param, register, dbus, tangled>>
              /\ player.pc = "state" /\ ~Unchanging /\ playstate' = player.to
              /\ \/ player.to = "live" /\ Unchanging'
                 \/ /\ player.to = "paused" /\ ~Unchanging' /\ player'.pc = "register"
                    /\ player'.to = "paused" /\ player'.aids = player.aids
<1>1. ASSUME Begin
      PROVE  /\ ParamTypes' /\ UNCHANGED <<param, register, playstate, dbus>>
             /\ ~Unchanging' /\ player'.aids = Aids(param)
             /\ \/ player'.to = "live" /\ player'.pc = "register"
                \/ player'.to = "paused" /\ player'.pc = "state"
             /\ (tangled' <=> Setting)
  <2>1. PICK to \in {"live", "paused"} :
          player' = [pc |-> IF to = "live" THEN "register" ELSE "state", to |-> to, aids |-> Aids(param)]
    BY <1>1 DEF Begin
  <2>2. Aids(param) \in AidRecords
    BY AidsType DEF ParamTypes
  <2>3. (IF to = "live" THEN "register" ELSE "state") \in {"register", "state"}
    OBVIOUS
  <2>4. player' \in PlayerLocals
    BY <2>1, <2>2, <2>3, PlayerRecords
  <2>5. ~Unchanging'
    BY <2>1 DEF Unchanging, Resting
  <2>6. tangled' <=> Setting
    BY <1>1 DEF Begin, Setting
  <2> QED BY <1>1, <2>1, <2>4, <2>5, <2>6 DEF Begin, ParamTypes, configVars
<1>2. ASSUME WriteRegister
      PROVE  /\ ParamTypes' /\ UNCHANGED <<param, playstate, dbus, tangled>>
             /\ player.pc = "register" /\ ~Unchanging
             /\ \/ /\ player.to = "live" /\ register' = player.aids
                   /\ ~Unchanging' /\ player'.pc = "state" /\ player'.to = "live"
                   /\ player'.aids = player.aids
                \/ /\ player.to = "paused" /\ register' = Hidden(player.aids) /\ Unchanging'
  <2>1. player.pc = "register" /\ ~Unchanging /\ player.aids \in AidRecords /\ player.to \in {"live", "paused"}
    BY <1>2, PlayerRecords DEF WriteRegister
  <2>2. Hidden(player.aids) \in AidRecords
    BY <2>1 DEF Hidden, AidRecords
  <2>3. CASE player.to = "live"
    <3>1. player' = [pc |-> "state", to |-> "live", aids |-> player.aids] /\ register' = player.aids
      BY <1>2, <2>1, <2>3, PlayerRecords DEF WriteRegister
    <3>2. player' \in PlayerLocals /\ ~Unchanging'
      BY <2>1, <3>1, PlayerRecords DEF Unchanging, Resting
    <3> QED BY <1>2, <2>1, <2>3, <3>1, <3>2 DEF WriteRegister, ParamTypes, configVars
  <2>4. CASE player.to = "paused"
    <3>1. player' = Resting /\ register' = Hidden(player.aids)
      BY <1>2, <2>4 DEF WriteRegister
    <3> QED BY <1>2, <2>1, <2>2, <2>4, <3>1, PlayerRecords DEF WriteRegister, ParamTypes, configVars, Unchanging
  <2> QED BY <2>1, <2>3, <2>4
<1>3. ASSUME WriteState
      PROVE  /\ ParamTypes' /\ UNCHANGED <<param, register, dbus, tangled>>
             /\ player.pc = "state" /\ ~Unchanging /\ playstate' = player.to
             /\ \/ player.to = "live" /\ Unchanging'
                \/ /\ player.to = "paused" /\ ~Unchanging' /\ player'.pc = "register"
                   /\ player'.to = "paused" /\ player'.aids = player.aids
  <2>1. player.pc = "state" /\ ~Unchanging /\ player.aids \in AidRecords /\ player.to \in {"live", "paused"}
    BY <1>3, PlayerRecords DEF WriteState
  <2>2. CASE player.to = "live"
    <3>1. player' = Resting
      BY <1>3, <2>2 DEF WriteState
    <3> QED BY <1>3, <2>1, <2>2, <3>1, PlayerRecords DEF WriteState, ParamTypes, configVars, Unchanging
  <2>3. CASE player.to = "paused"
    <3>1. player' = [pc |-> "register", to |-> "paused", aids |-> player.aids]
      BY <1>3, <2>1, <2>3, PlayerRecords DEF WriteState
    <3>2. player' \in PlayerLocals /\ ~Unchanging'
      BY <2>1, <3>1, PlayerRecords DEF Unchanging, Resting
    <3> QED BY <1>3, <2>1, <2>3, <3>1, <3>2 DEF WriteState, ParamTypes, configVars
  <2> QED BY <2>1, <2>2, <2>3
<1> QED BY <1>1, <1>2, <1>3

LEMMA AidsInvNext ==
  ASSUME ParamTypes, AidsInv,
         \/ cam_video_set \/ cam_video_configure \/ cam_video_reset \/ TestLive \/ MergeAid
         \/ OpenFile \/ Save \/ Begin \/ WriteRegister \/ WriteState
  PROVE  ParamTypes' /\ AidsInv'
<1>1. AidNames = {"focusPeakingColor", "focusPeakingLevel", "zebraLevel"}
  BY DEF AidNames
<1>2. CASE cam_video_set \/ cam_video_configure \/ cam_video_reset
  <2>1. ParamTypes' /\ UNCHANGED <<register, playstate, player>> /\ ~Setting
    BY <1>2, SetMoves
  <2>2. Unchanging' = Unchanging
    BY <2>1 DEF Unchanging
  <2>3. CASE UNCHANGED dbus /\ UNCHANGED tangled /\ Aids(param') = Aids(param)
    BY <2>1, <2>2, <2>3 DEF AidsInv, AidsBut, Setting
  <2>4. CASE ~(UNCHANGED dbus /\ UNCHANGED tangled /\ Aids(param') = Aids(param))
    <3> SUFFICES ASSUME ~tangled'
                 PROVE  AidsInv'
      BY <2>1 DEF AidsInv
    <3>1. ~tangled /\ Unchanging /\ Unchanging' /\ dbus'.pc = "test"
      BY <1>2, <2>2, <2>4, SetMoves
    <3>2. playstate = "live" => AidsBut({})
      BY <2>1, <3>1 DEF AidsInv
    <3>3. playstate = "live" =>
            /\ "focusPeakingLevel" \notin dbus'.names => register.peak = Aids(param').peak
            /\ "zebraLevel" \notin dbus'.names => register.zebra = Aids(param').zebra
            /\ "focusPeakingColor" \notin dbus'.names => register.color = Aids(param').color
      BY <1>2, <2>1, <2>4, <3>2, SetMoves DEF AidsBut
    <3> QED BY <2>1, <3>1, <3>3 DEF AidsInv, AidsBut, Setting, ParamTypes
  <2> QED BY <2>1, <2>3, <2>4
<1>3. CASE TestLive
  <2>1. /\ ParamTypes' /\ UNCHANGED <<param, register, playstate, player, tangled>>
        /\ dbus.pc = "test"
        /\ IF playstate = "live"
           THEN dbus'.pc = "merge" /\ dbus'.names = dbus.names /\ dbus'.aids = register
           ELSE dbus'.pc # "merge"
    BY <1>3, SetterMoves
  <2>2. Unchanging' = Unchanging
    BY <2>1 DEF Unchanging
  <2> QED BY <2>1, <2>2 DEF AidsInv, AidsBut, Setting
<1>4. CASE MergeAid
  <2>1. /\ ParamTypes' /\ UNCHANGED <<param, playstate, player, tangled>>
        /\ dbus.pc = "merge" /\ register' = Merged(dbus.aids, dbus.name, param)
        /\ \/ dbus'.pc = "idle" /\ dbus.names = {dbus.name}
           \/ dbus'.pc = "test" /\ dbus'.names = dbus.names \ {dbus.name}
    BY <1>4, SetterMoves
  <2>2. Unchanging' = Unchanging
    BY <2>1 DEF Unchanging
  <2> SUFFICES ASSUME ~tangled
               PROVE  AidsInv'
    BY <2>1 DEF AidsInv
  <2>3. Unchanging /\ playstate = "live" /\ dbus.aids = register /\ AidsBut(dbus.names)
    BY <2>1 DEF AidsInv, Setting
  <2>4. dbus.name \in Shown /\ register \in AidRecords /\ Settled(param)
    BY <2>1, DbusRecords DEF ParamTypes
  <2>5. /\ "focusPeakingLevel" \notin dbus.names \ {dbus.name} => register'.peak = Aids(param).peak
        /\ "zebraLevel" \notin dbus.names \ {dbus.name} => register'.zebra = Aids(param).zebra
        /\ "focusPeakingColor" \notin dbus.names \ {dbus.name} => register'.color = Aids(param).color
    BY <1>1, <2>1, <2>3, <2>4, MergedType DEF AidsBut, Shown
  <2>6. /\ UNCHANGED param /\ playstate' = "live" /\ Unchanging' /\ dbus'.pc # "merge"
        /\ \/ ~Setting' /\ dbus.names \ {dbus.name} = {}
           \/ Setting' /\ dbus'.names = dbus.names \ {dbus.name}
    BY <2>1, <2>2, <2>3 DEF Setting
  <2> QED BY <2>5, <2>6 DEF AidsInv, AidsBut
<1>5. CASE OpenFile \/ Save
  <2>1. /\ ParamTypes' /\ UNCHANGED <<param, register, playstate, player, tangled>>
        /\ ~Setting /\ dbus'.pc \notin {"test", "merge"}
    BY <1>5, SetterMoves
  <2>2. Unchanging' = Unchanging
    BY <2>1 DEF Unchanging
  <2> QED BY <2>1, <2>2 DEF AidsInv, AidsBut, Setting
<1>6. CASE Begin
  BY <1>6, PlayerMoves DEF AidsInv, Setting
<1>7. CASE WriteRegister
  <2>1. \A x \in AidRecords : ~Hidden(x).peak /\ ~Hidden(x).zebra
    BY DEF Hidden, AidRecords
  <2>2. ~Unchanging => player.aids \in AidRecords
    BY PlayerRecords
  <2> QED BY <1>7, <2>1, <2>2, PlayerMoves DEF AidsInv, Setting, ParamTypes
<1>8. CASE WriteState
  <2>1. register \in AidRecords /\ player.aids = register => AidsBut({}) \/ player.aids # Aids(param)
    BY DEF AidsBut
  <2> QED BY <1>8, PlayerMoves DEF AidsInv, AidsBut, Setting
<1> QED BY <1>2, <1>3, <1>4, <1>5, <1>6, <1>7, <1>8

-----------------------------------------------------------------------------
(* The file.                                                               *)
OnFile(values) ==
  \/ file = [n \in SavedNames |-> values[n]]
  \/ file = dbus_save_params(values)

FileInv ==
  /\ file # NoConfig => Config(file) /\ file = [n \in SavedNames |-> file[n]]
  /\ ~dirty /\ ~unsaved => file # NoConfig /\ OnFile(param)
  /\ dbus.pc = "save" => dirty

ParamInv == ParamTypes /\ AidsInv /\ FileInv

LEMMA NoConfigIsNone == \A content : DOMAIN content = SavedNames => content # NoConfig
<1>1. DOMAIN NoConfig = {} /\ "zebraLevel" \in SavedNames
  BY ParamTable DEF NoConfig
<1> QED BY <1>1

LEMMA StartsAs ==
  ASSUME NEW saved, Settled(saved)
  PROVE  /\ DOMAIN AllParams(saved) = ParamNames /\ Settled(AllParams(saved))
         /\ \A n \in SavedNames : AllParams(saved)[n] = saved[n]
<1>1. SavedNames \subseteq ParamNames
  BY DEF ParamNames
<1>2. \A n \in SavedNames : AllParams(saved)[n] = saved[n]
  BY <1>1 DEF AllParams
<1> QED BY <1>2, ParamTable DEF AllParams, ParamNames, Settled

LEMMA LoadedSettled ==
  ASSUME FileInv
  PROVE  Settled(Loaded(file)) /\ (file # NoConfig => Loaded(file) = file)
<1>1. CASE file = NoConfig
  BY <1>1, DefaultsSettled DEF Loaded
<1>2. CASE file # NoConfig
  BY <1>2, LoadsFile DEF FileInv, Config
<1> QED BY <1>1, <1>2

LEMMA RestartInv ==
  ASSUME FileInv, Restart
  PROVE  ParamInv'
<1>1. /\ DOMAIN param' = ParamNames /\ Settled(param')
      /\ \A n \in SavedNames : param'[n] = Loaded(file)[n]
  BY LoadedSettled, StartsAs DEF Restart
<1>2. register' = Hidden(Aids(Defaults)) /\ register' \in AidRecords /\ ~register'.peak /\ ~register'.zebra
  <2>1. \A x \in AidRecords : ~Hidden(x).peak /\ ~Hidden(x).zebra
    BY DEF Hidden, AidRecords
  <2> QED BY <2>1, DefaultsSettled, AidsType DEF Restart
<1>3. ParamTypes'
  BY <1>1, <1>2 DEF Restart, ParamTypes, DbusLocals, PlayerLocals, Resting
<1>4. AidsInv'
  BY <1>2 DEF Restart, AidsInv, Unchanging, Setting, Resting
<1>5. FileInv'
  <2>1. UNCHANGED file /\ dirty' = (file = NoConfig) /\ dbus' = Resting
    BY DEF Restart
  <2>2. file # NoConfig => file = [n \in SavedNames |-> param'[n]]
    BY <1>1, LoadedSettled DEF FileInv
  <2> QED BY <2>1, <2>2 DEF FileInv, OnFile, Resting
<1> QED BY <1>3, <1>4, <1>5 DEF ParamInv

LEMMA FileInvNext ==
  ASSUME ParamTypes, FileInv,
         \/ cam_video_set \/ cam_video_configure \/ cam_video_reset \/ TestLive \/ MergeAid
         \/ OpenFile \/ Save \/ Begin \/ WriteRegister \/ WriteState
  PROVE  FileInv'
<1>1. CASE cam_video_set
  <2>1. PICK pairs \in Inputs :
          LET taken == {pair \in pairs : Takes(pair.name, pair.value)}
              shown == {pair.name : pair \in taken} \cap AidNames
          IN /\ param' = Assigned(param, pairs)
             /\ dirty' = (dirty \/ \E pair \in taken : cam_dbus_params[pair.name].saved)
             /\ IF shown # {}
                THEN dbus' = [pc |-> "test", names |-> shown]
                ELSE UNCHANGED dbus
    BY <1>1 DEF cam_video_set
  <2>2. dbus'.pc # "save" /\ UNCHANGED <<file, unsaved>>
    BY <1>1, <2>1 DEF cam_video_set, Resting
  <2>3. ~dirty' => ~dirty /\ \A n \in SavedNames : param'[n] = param[n]
    <3>1. \A n \in SavedNames : cam_dbus_params[n].saved /\ n \in DOMAIN param
      BY DEF SavedNames, ParamTypes, ParamNames
    <3>2. ~dirty' => \A n \in SavedNames : ~\E pair \in pairs : pair.name = n /\ Takes(n, pair.value)
      BY <2>1, <3>1
    <3> QED BY <2>1, <3>1, <3>2, AssignedEach
  <2>4. ~dirty' => (OnFile(param) => OnFile(param)')
    <3>1. (\A n \in SavedNames : param'[n] = param[n])
             => /\ [n \in SavedNames |-> param'[n]] = [n \in SavedNames |-> param[n]]
                /\ dbus_save_params(param') = dbus_save_params(param)
      BY DEF dbus_save_params
    <3> QED BY <2>2, <2>3, <3>1 DEF OnFile
  <2> QED BY <2>2, <2>3, <2>4 DEF FileInv
<1>2. CASE cam_video_reset
  BY <1>2 DEF cam_video_reset, FileInv
<1>3. CASE TestLive \/ MergeAid
  <2>1. dbus'.pc # "save"
    BY <1>3, DbusRecords DEF TestLive, MergeAid, Resting
  <2>2. UNCHANGED <<param, dirty, file, unsaved>>
    BY <1>3 DEF TestLive, MergeAid, configVars
  <2> QED BY <2>1, <2>2 DEF FileInv, OnFile, dbus_save_params
<1>4. CASE OpenFile
  <2>1. CASE dirty /\ file' = NoConfig /\ dbus' = [pc |-> "save"] /\ UNCHANGED <<dirty, unsaved>>
    BY <2>1 DEF FileInv
  <2>2. CASE unsaved' = TRUE /\ UNCHANGED <<file, dbus>>
    BY <1>4, <2>2 DEF OpenFile, FileInv, Resting
  <2>3. CASE UNCHANGED <<file, dbus, dirty, unsaved>>
    BY <1>4, <2>3 DEF OpenFile, FileInv, OnFile
  <2> QED BY <1>4, <2>1, <2>2, <2>3 DEF OpenFile
<1>5. CASE Save
  <2>1. UNCHANGED param /\ file' = dbus_save_params(param) /\ dbus' = Resting
    BY <1>5 DEF Save
  <2>2. Config(file') /\ file' # NoConfig /\ file' = [n \in SavedNames |-> file'[n]]
    BY <2>1, SavedIsConfig, NoConfigIsNone DEF ParamTypes, Config, dbus_save_params
  <2> QED BY <2>1, <2>2 DEF FileInv, OnFile, Resting
<1>6. CASE Begin \/ WriteRegister \/ WriteState
  BY <1>6 DEF Begin, WriteRegister, WriteState, configVars, FileInv, OnFile
<1>7. CASE cam_video_configure
  BY <1>7 DEF cam_video_configure, configVars, FileInv, OnFile
<1> QED BY <1>1, <1>2, <1>3, <1>4, <1>5, <1>6, <1>7

LEMMA ParamInitInv == ParamInit => ParamInv
<1> SUFFICES ASSUME ParamInit PROVE ParamInv
  OBVIOUS
<1>1. DOMAIN param = ParamNames /\ Settled(param)
  BY DefaultsSettled, StartsAs DEF ParamInit
<1>2. register \in AidRecords /\ ~register.peak /\ ~register.zebra
  <2>1. \A x \in AidRecords : ~Hidden(x).peak /\ ~Hidden(x).zebra
    BY DEF Hidden, AidRecords
  <2> QED BY <2>1, DefaultsSettled, AidsType DEF ParamInit
<1>3. ParamTypes
  BY <1>1, <1>2 DEF ParamInit, ParamTypes, DbusLocals, PlayerLocals, Resting
<1> QED
  BY <1>2, <1>3 DEF ParamInit, ParamInv, AidsInv, FileInv, Unchanging, Setting, Resting

LEMMA ParamInvNext == ParamInv /\ [ParamNext]_paramVars => ParamInv'
<1> SUFFICES ASSUME ParamInv, [ParamNext]_paramVars PROVE ParamInv'
  OBVIOUS
<1>1. CASE UNCHANGED paramVars
  BY <1>1 DEF paramVars, configVars, displayVars, ParamInv, ParamTypes, AidsInv, FileInv, AidsBut,
              Setting, Unchanging, OnFile
<1>2. CASE Restart
  BY <1>2, RestartInv DEF ParamInv
<1>3. CASE ParamNext /\ ~Restart
  BY <1>3, AidsInvNext, FileInvNext DEF ParamInv, ParamNext
<1> QED BY <1>1, <1>2, <1>3

(* Whatever is set and however the state of playback changes, the aids on  *)
(* display follow the parameters, for as long as a set and a change did    *)
(* not overlap (dbus-params.c:129-237, playback.c:346-357, 642-729).       *)
THEOREM AidsAreFollowed == ParamInit /\ [][ParamNext]_paramVars => []AidsFollowParams
<1>1. ParamInv => AidsFollowParams
  <2> SUFFICES ASSUME ParamInv, ~Setting, Unchanging, ~tangled
               PROVE  IF playstate = "live" THEN register = Aids(param)
                      ELSE ~register.peak /\ ~register.zebra
    BY DEF AidsFollowParams, Setting, Unchanging
  <2>1. register \in AidRecords /\ Aids(param) \in AidRecords /\ playstate \in {"live", "paused"}
    BY AidsType DEF ParamInv, ParamTypes
  <2>2. playstate = "live" => AidsBut({})
    BY DEF ParamInv, AidsInv
  <2>3. \A x, y \in AidRecords : x.peak = y.peak /\ x.zebra = y.zebra /\ x.color = y.color => x = y
    BY DEF AidRecords
  <2>4. playstate = "live" => register = Aids(param)
    BY <2>1, <2>2, <2>3 DEF AidsBut
  <2> QED BY <2>1, <2>4 DEF ParamInv, AidsInv
<1> QED BY <1>1, ParamInitInv, ParamInvNext, PTL

(* Wherever power fails, what is clean is on file: a restart gives back    *)
(* what was saved last (dbus-params.c:755-811, dbus-video.c:121-137).      *)
THEOREM CleanIsOnFile == ParamInit /\ [][ParamNext]_paramVars => []RestartKeeps
<1>1. ParamInv => RestartKeeps
  <2> SUFFICES ASSUME ParamInv, ~dirty, ~unsaved
               PROVE  \/ Loaded(file) = [n \in SavedNames |-> param[n]]
                      \/ Loaded(file) = [n \in SavedNames |-> Reread(n, param[n])]
    BY DEF RestartKeeps
  <2>1. OnFile(param) /\ Loaded(file) = file
    BY LoadedSettled DEF ParamInv, FileInv
  <2> QED BY <2>1 DEF OnFile, dbus_save_params
<1> QED BY <1>1, ParamInitInv, ParamInvNext, PTL

-----------------------------------------------------------------------------
(***************************************************************************)
(* For every set of connections and requests, every size of the buffers,   *)
(* of a response and of an event: no connection of the gateway is          *)
(* forgotten, none waits for two operations, and what a client receives is *)
(* whole and in order.                                                     *)
(*                                                                         *)
(* NeverForgotten counts operations.  It is kept because a pending write   *)
(* is never for more than the buffer that it empties (Answering): so the   *)
(* write that ends leaves data, with which scgi_send_more starts another,  *)
(* or none, and then the connection changes state or ends.                 *)
(***************************************************************************)
Cell == ({"head", "extra"} \cup Nat) \X Nat

(* A connection that is not destroyed.  Nothing depends on what its        *)
(* handler answered.                                                       *)
FieldNames == {"state", "request", "route", "reading", "writing", "gone", "rxlen", "bodylen", "tx",
          "extra", "status", "called", "extralen"}

Fields(r) == r = [f \in FieldNames |-> r[f]]

Held(r) ==
  /\ Fields(r)
  /\ r.request \in WebRequest
  /\ r.rxlen \in Nat /\ r.bodylen \in Nat /\ r.writing \in Nat
  /\ r.tx \in Seq(Cell) /\ r.extra \in Seq(Cell)

(* What there is to send, in each state.                                   *)
ToSend(r) == IF r.state = "EXTRA" THEN r.extra ELSE r.tx

Incomplete(r) == Held(r) /\ r.state \in {"NEW", "HEADERS", "BODY"} /\ r.writing = 0

Reading(r) == Incomplete(r) /\ r.reading = TRUE

Answered(r) == Held(r) /\ r.state \in {"RESPONSE", "EXTRA", "SUBSCRIBE"} /\ r.reading = FALSE

Answering(r) ==
  /\ Answered(r)
  /\ r.writing <= Len(ToSend(r))
  /\ r.writing = 0 <=> r.state = "SUBSCRIBE" /\ r.tx = <<>>

(* Everything is sent.                                                     *)
Emptied(r) == Answered(r) /\ r.state = "EXTRA" /\ r.writing = 0 /\ r.extra = <<>>

Ended(r) == r = NoConnection \/ r.state = "destroyed"

Kept(r) == Ended(r) \/ Reading(r) \/ Answering(r)

ScgiInv ==
  /\ conn = [c \in Connections |-> conn[c]]
  /\ \A c \in Connections : Kept(conn[c])
  /\ events \in Nat

-----------------------------------------------------------------------------
LEMMA UnitsType ==
  ASSUME NEW n \in Nat, NEW name \in {"head", "extra"} \cup Nat
  PROVE  Units(name, n) \in Seq(Cell) /\ Len(Units(name, n)) = n
<1>1. Units(name, n) \in [1 .. n -> Cell]
  BY DEF Units, Cell
<1> QED
  BY <1>1

LEMMA DestroyedEnded ==
  ASSUME NEW r, NEW reason
  PROVE  Ended(Destroyed(r, reason))
BY DEF Destroyed, Ended

LEMMA WantsMore ==
  ASSUME NEW r, Incomplete(r)
  PROVE  Kept(scgi_want_more(r))
<1>1. CASE Room(r) <= 0
  BY <1>1, DestroyedEnded DEF scgi_want_more, Kept
<1>2. CASE ~(Room(r) <= 0)
  <2>1. scgi_want_more(r) = [r EXCEPT !.reading = TRUE]
    BY <1>2 DEF scgi_want_more
  <2>2. Reading([r EXCEPT !.reading = TRUE])
    BY DEF Incomplete, Reading, Held, Fields, FieldNames
  <2> QED
    BY <2>1, <2>2 DEF Kept
<1> QED
  BY <1>1, <1>2

(* scgi_send_more starts the next write; what it leaves without one has    *)
(* sent everything.                                                        *)
LEMMA SendsMore ==
  ASSUME NEW r, Answered(r), r.writing = 0
  PROVE  \/ Answering(scgi_send_more(r))
         \/ /\ Emptied(scgi_send_more(r))
            /\ r.state = "EXTRA" \/ (r.state = "RESPONSE" /\ r.tx = <<>>)
<1>1. CASE r.state \in {"RESPONSE", "SUBSCRIBE"} /\ r.tx # <<>>
  <2> DEFINE s == [r EXCEPT !.writing = Len(r.tx)]
  <2>1. scgi_send_more(r) = s
    BY <1>1 DEF scgi_send_more, Answered, Held, Fields, FieldNames
  <2>2. Len(r.tx) \in Nat \ {0}
    BY <1>1, EmptySeq DEF Answered, Held
  <2>3. /\ s.writing = Len(r.tx) /\ s.tx = r.tx /\ s.state = r.state
        /\ Answered(s)
    BY <2>2 DEF Answered, Held, Fields, FieldNames
  <2>4. Answering(s)
    <3> HIDE DEF s
    <3> QED
      BY <1>1, <2>2, <2>3 DEF Answering, ToSend
  <2> QED
    BY <2>1, <2>4
<1>2. CASE r.state = "EXTRA" \/ (r.state = "RESPONSE" /\ r.tx = <<>>)
  <2> DEFINE s == [r EXCEPT !.state = "EXTRA", !.writing = Len(r.extra)]
  <2>1. scgi_send_more(r) = s
    BY <1>2 DEF scgi_send_more, Answered, Held, Fields, FieldNames
  <2>2. Len(r.extra) \in Nat /\ (Len(r.extra) = 0 => r.extra = <<>>)
    BY LenProperties, EmptySeq DEF Answered, Held
  <2>3. /\ s.writing = Len(r.extra) /\ s.extra = r.extra /\ s.state = "EXTRA"
        /\ Answered(s)
    BY <2>2 DEF Answered, Held, Fields, FieldNames
  <2>4. Answering(s) \/ Emptied(s)
    <3> HIDE DEF s
    <3> QED
      BY <2>2, <2>3 DEF Answering, Emptied, ToSend
  <2> QED
    BY <1>2, <2>1, <2>4
<1>3. CASE r.state = "SUBSCRIBE" /\ r.tx = <<>>
  <2>1. scgi_send_more(r) = r
    BY <1>3 DEF scgi_send_more
  <2>2. Answering(r)
    BY <1>3, EmptySeq DEF Answering, ToSend
  <2> QED
    BY <2>1, <2>2
<1>4. \/ r.state \in {"RESPONSE", "SUBSCRIBE"} /\ r.tx # <<>>
      \/ r.state = "EXTRA" \/ (r.state = "RESPONSE" /\ r.tx = <<>>)
      \/ r.state = "SUBSCRIBE" /\ r.tx = <<>>
  BY DEF Answered
<1> QED
  BY <1>1, <1>2, <1>3, <1>4

LEMMA AnswerSizes ==
  ASSUME NEW request, NEW handler, NEW answer \in Answers(request, handler)
  PROVE  answer.extra \in Nat
<1> DEFINE RightSize(answers) == \A a \in answers : a.extra \in {0, ExtraSize}
<1>1. ASSUME NEW status, NEW called
      PROVE  RightSize({Result(status, 0, called)})
  BY DEF Result
<1>2. ASSUME NEW method, NEW errors
      PROVE  RightSize(Called(method, errors))
  BY DEF Called, Result
<1> HIDE DEF RightSize
<1>3. /\ RightSize(scgi_subscribe(request)) /\ RightSize(scgi_describe(request))
      /\ RightSize(scgi_property(request)) /\ RightSize(scgi_property_group(request))
      /\ RightSize(scgi_call_void(request)) /\ RightSize(scgi_call_args(request))
  <2>1. RightSize(scgi_subscribe(request))
    BY <1>1, Zenon DEF scgi_subscribe
  <2>2. RightSize(scgi_describe(request)) /\ RightSize(scgi_call_void(request))
    BY <1>2, Zenon DEF scgi_describe, scgi_call_void
  <2>3. RightSize(scgi_property(request))
    BY <1>1, <1>2, Zenon DEF scgi_property
  <2>4. RightSize(scgi_property_group(request))
    <3>1. \/ \E method : scgi_property_group(request) = Called(method, scgi_error_handler)
          \/ \E status : scgi_property_group(request) = {Result(status, 0, "")}
      BY DEF scgi_property_group
    <3>2. ASSUME NEW method, scgi_property_group(request) = Called(method, scgi_error_handler)
          PROVE  RightSize(scgi_property_group(request))
      BY <1>2, <3>2
    <3>3. ASSUME NEW status, scgi_property_group(request) = {Result(status, 0, "")}
          PROVE  RightSize(scgi_property_group(request))
      BY <1>1, <3>3
    <3> QED
      BY <3>1, <3>2, <3>3
  <2>5. RightSize(scgi_call_args(request))
    BY <1>1, <1>2, Zenon DEF scgi_call_args
  <2> QED
    BY <2>1, <2>2, <2>3, <2>4, <2>5
<1>4. RightSize({Result(404, 0, "")}) /\ RightSize({Result(200, 0, "")})
  BY <1>1
<1>5. RightSize(Answers(request, handler))
  BY <1>3, <1>4, Zenon DEF Answers
<1>6. answer.extra \in {0, ExtraSize}
  BY <1>5 DEF RightSize
<1> QED
  BY <1>6, ScgiAssumption

(* A response has headers, so there is something to write.                 *)
LEMMA Responds ==
  ASSUME NEW r, Incomplete(r), r.reading = FALSE, NEW answer, answer.extra \in Nat
  PROVE  Kept(scgi_send_more(Responding(r, answer)))
<1> DEFINE s == Responding(r, answer)
<1>1. HeaderSize \in Nat \ {0}
  BY ScgiAssumption
<1>2. /\ Units("head", HeaderSize) \in Seq(Cell)
      /\ Units("head", HeaderSize) # <<>>
  BY <1>1, UnitsType, EmptySeq
<1>3. Units("extra", answer.extra) \in Seq(Cell)
  BY UnitsType
<1>4. /\ s.state \in {"RESPONSE", "SUBSCRIBE"} /\ s.tx = Units("head", HeaderSize)
      /\ s.writing = 0
      /\ Answered(s)
  BY <1>2, <1>3 DEF Responding, Answered, Incomplete, Held, Fields, FieldNames
<1> HIDE DEF s
<1>5. Answering(scgi_send_more(s))
  BY <1>2, <1>4, SendsMore
<1> QED
  BY <1>5 DEF Kept, s

LEMMA BodyProcessed ==
  ASSUME NEW r, Incomplete(r), r.reading = FALSE, NEW s \in ProcessBody(r)
  PROVE  Kept(s)
<1>1. CASE r.bodylen < r.request.body
  BY <1>1, WantsMore DEF ProcessBody
<1>2. CASE ~(r.bodylen < r.request.body)
  <2>1. PICK answer \in Answers(r.request, r.route) : s = scgi_send_more(Responding(r, answer))
    BY <1>2 DEF ProcessBody
  <2> QED
    BY <2>1, AnswerSizes, Responds
<1> QED
  BY <1>1, <1>2

LEMMA HeadersProcessed ==
  ASSUME NEW r, Incomplete(r), r.reading = FALSE, NEW s \in ProcessHeaders(r)
  PROVE  Kept(s)
<1>1. CASE r.rxlen < r.request.head
  BY <1>1, WantsMore DEF ProcessHeaders
<1>2. CASE s = TooLarge(r)
  BY <1>2, Responds DEF TooLarge, Result
<1>3. CASE /\ ~(r.rxlen < r.request.head)
           /\ s # TooLarge(r)
  <2> DEFINE body == [r EXCEPT !.state = "BODY", !.bodylen = r.rxlen - r.request.head,
                               !.rxlen = r.request.head]
  <2>1. s \in ProcessBody(body)
    BY <1>3 DEF ProcessHeaders
  <2>2. r.request.head \in Nat /\ r.rxlen - r.request.head \in Nat
    BY <1>3 DEF Incomplete, Held, WebRequest
  <2>3. Incomplete(body) /\ body.reading = FALSE
    BY <2>2 DEF Incomplete, Held, Fields, FieldNames
  <2> QED
    BY <2>1, <2>3, BodyProcessed
<1> QED
  BY <1>1, <1>2, <1>3

LEMMA DataProcessed ==
  ASSUME NEW r, Incomplete(r), r.reading = FALSE, NEW s \in scgi_process_data(r)
  PROVE  Kept(s)
<1>1. CASE r.state = "NEW" /\ r.rxlen = 0
  BY <1>1, WantsMore DEF scgi_process_data
<1>2. CASE r.state = "NEW" /\ r.rxlen > 0
  <2> DEFINE headers == [r EXCEPT !.state = "HEADERS"]
  <2>1. Incomplete(headers) /\ headers.reading = FALSE
    BY DEF Incomplete, Held, Fields, FieldNames
  <2>2. s \in ProcessHeaders(headers) \/ s = Destroyed(r, "invalid")
    BY <1>2 DEF scgi_process_data
  <2> QED
    BY <2>1, <2>2, HeadersProcessed, DestroyedEnded DEF Kept
<1>3. CASE r.state = "HEADERS"
  BY <1>3, HeadersProcessed DEF scgi_process_data
<1>4. CASE r.state = "BODY"
  BY <1>4, BodyProcessed DEF scgi_process_data
<1>5. r.state \in {"NEW", "HEADERS", "BODY"} /\ (r.rxlen = 0 \/ r.rxlen > 0)
  BY DEF Incomplete, Held
<1> QED
  BY <1>1, <1>2, <1>3, <1>4, <1>5

(* What is left to send once n units are written.                          *)
SentPart(r, n) ==
  IF r.state = "EXTRA"
  THEN [r EXCEPT !.writing = 0, !.extra = SubSeq(@, n + 1, Len(@))]
  ELSE [r EXCEPT !.writing = 0, !.tx = SubSeq(@, n + 1, Len(@))]

LEMMA LeftAnswered ==
  ASSUME NEW r, Answering(r), NEW n \in 1 .. r.writing
  PROVE  Answered(SentPart(r, n)) /\ SentPart(r, n).writing = 0
<1>1. /\ r.tx \in Seq(Cell) /\ r.extra \in Seq(Cell)
      /\ n + 1 \in Nat \ {0}
  BY DEF Answering, Answered, Held
<1>2. /\ SubSeq(r.tx, n + 1, Len(r.tx)) \in Seq(Cell)
      /\ SubSeq(r.extra, n + 1, Len(r.extra)) \in Seq(Cell)
  BY <1>1, SMT
<1>3. CASE r.state = "EXTRA"
  BY <1>2, <1>3 DEF SentPart, Answering, Answered, Held, Fields, FieldNames
<1>4. CASE r.state # "EXTRA"
  BY <1>2, <1>4 DEF SentPart, Answering, Answered, Held, Fields, FieldNames
<1> QED
  BY <1>3, <1>4

(* A write that ends leaves the rest, what came since, or nothing.         *)
LEMMA Sent ==
  ASSUME NEW r, Answering(r), NEW n \in 1 .. r.writing
  PROVE  Kept(SentUnits(r, n))
<1> DEFINE left == SentPart(r, n)
           rest == scgi_send_more(left)
<1>1. SentUnits(r, n) =
        IF rest.state # "SUBSCRIBE" /\ rest.writing = 0 THEN Destroyed(rest, "done") ELSE rest
  BY DEF SentUnits, SentPart
<1>2. Answered(left) /\ left.writing = 0
  BY LeftAnswered
<1> HIDE DEF left
<1>3. Answering(rest) \/ Emptied(rest)
  BY <1>2, SendsMore
<1> HIDE DEF rest
<1>4. CASE Answering(rest)
  BY <1>1, <1>4 DEF Kept, Answering
<1>5. CASE Emptied(rest)
  BY <1>1, <1>5, DestroyedEnded DEF Kept, Emptied
<1> QED
  BY <1>3, <1>4, <1>5

(* An event is sent at once, after the write that is pending, or dropped.  *)
LEMMA Signalled ==
  ASSUME NEW r, Answering(r), r.state = "SUBSCRIBE", NEW event \in Seq(Cell)
  PROVE  Kept(scgi_send_more(scgi_write_payload(r, event)))
<1> DEFINE s == scgi_write_payload(r, event)
<1>1. /\ r.tx \in Seq(Cell) /\ r.writing \in Nat
      /\ r.writing <= Len(r.tx)
  BY DEF Answering, Answered, Held, ToSend
<1>2. /\ r.tx \o event \in Seq(Cell)
      /\ Len(r.tx) <= Len(r.tx \o event)
  <2>1. /\ r.tx \o event \in Seq(Cell)
        /\ Len(r.tx \o event) = Len(r.tx) + Len(event)
    BY <1>1, ConcatProperties
  <2>2. Len(event) \in Nat /\ Len(r.tx) \in Nat
    BY <1>1, LenProperties
  <2> QED
    BY <2>1, <2>2
<1>3. s = r \/ s = [r EXCEPT !.tx = r.tx \o event]
  BY DEF scgi_write_payload, Answering, Answered, Held, Fields, FieldNames
<1>4. /\ Answered(s) /\ s.state = "SUBSCRIBE"
      /\ s.writing = r.writing /\ s.writing <= Len(s.tx)
  <2>1. CASE s = r
    BY <1>1, <2>1 DEF Answering
  <2>2. CASE s = [r EXCEPT !.tx = r.tx \o event]
    <3> HIDE DEF s
    <3>1. /\ s.state = r.state /\ s.writing = r.writing /\ s.tx = r.tx \o event
          /\ Answered(s)
      BY <1>2, <2>2 DEF Answering, Answered, Held, Fields, FieldNames
    <3>2. Len(r.tx) \in Nat /\ Len(r.tx \o event) \in Nat
      BY <1>1, <1>2, LenProperties
    <3> QED
      BY <1>1, <1>2, <3>1, <3>2
  <2> QED
    BY <1>3, <2>1, <2>2
<1> HIDE DEF s
<1>5. ASSUME s.writing = 0
      PROVE  Kept(scgi_send_more(s))
  BY <1>4, <1>5, SendsMore DEF Kept
<1>6. ASSUME s.writing # 0
      PROVE  Kept(scgi_send_more(s))
  <2>1. s.tx # <<>>
    BY <1>1, <1>4, <1>6, EmptySeq
  <2>2. scgi_send_more(s) = s
    BY <1>4, <1>6, <2>1 DEF scgi_send_more, Answered, Held, Fields, FieldNames
  <2>3. Answering(s)
    BY <1>4, <1>6, <2>1 DEF Answering, ToSend
  <2> QED
    BY <2>2, <2>3 DEF Kept
<1> QED
  BY <1>5, <1>6, Zenon DEF s

-----------------------------------------------------------------------------
(* Every action changes one connection, or all that subscribed.            *)
LEMMA OneConnection ==
  ASSUME ScgiInv, NEW c \in Connections, NEW r, Kept(r),
         conn' = [conn EXCEPT ![c] = r], events' = events
  PROVE  ScgiInv'
BY DEF ScgiInv

LEMMA LiveKept ==
  ASSUME ScgiInv, NEW c \in Connections, Live(c)
  PROVE  Reading(conn[c]) \/ Answering(conn[c])
BY DEF ScgiInv, Live, Kept, Ended, NoConnection

THEOREM ScgiInitial == ScgiInit => ScgiInv
BY DEF ScgiInit, ScgiInv, Kept, Ended

THEOREM ScgiStep == ScgiInv /\ [ScgiNext]_scgiVars => ScgiInv'
<1> SUFFICES ASSUME ScgiInv, [ScgiNext]_scgiVars
             PROVE  ScgiInv'
  OBVIOUS
<1>1. ASSUME NEW c \in Connections, DataReady(c)
      PROVE  ScgiInv'
  <2>1. Reading(conn[c])
    BY <1>1, LiveKept DEF DataReady, Answering, Answered
  <2>2. PICK n \in 0 .. Room(conn[c]) :
          \E r \in scgi_process_data(Received(conn[c], n)) : conn' = [conn EXCEPT ![c] = r]
    BY <1>1 DEF DataReady
  <2>3. PICK r \in scgi_process_data(Received(conn[c], n)) : conn' = [conn EXCEPT ![c] = r]
    BY <2>2
  <2>4. n \in Nat
    BY <2>2
  <2>5. Incomplete(Received(conn[c], n)) /\ Received(conn[c], n).reading = FALSE
    <3>1. conn[c].rxlen + n \in Nat /\ conn[c].bodylen + n \in Nat
      BY <2>1, <2>4 DEF Reading, Incomplete, Held
    <3>2. CASE conn[c].state = "BODY"
      BY <2>1, <3>1, <3>2 DEF Received, Reading, Incomplete, Held, Fields, FieldNames
    <3>3. CASE conn[c].state # "BODY"
      BY <2>1, <3>1, <3>3 DEF Received, Reading, Incomplete, Held, Fields, FieldNames
    <3> QED
      BY <3>2, <3>3
  <2>6. Kept(r)
    BY <2>3, <2>5, DataProcessed
  <2> QED
    BY <1>1, <2>3, <2>6, OneConnection DEF DataReady
<1>2. ASSUME NEW c \in Connections, ReadFails(c) \/ SendFails(c)
      PROVE  ScgiInv'
  <2>1. Kept(Destroyed(conn[c], "error"))
    BY DestroyedEnded DEF Kept
  <2> QED
    BY <1>2, <2>1, OneConnection DEF ReadFails, SendFails
<1>3. ASSUME NEW c \in Connections, SendDone(c)
      PROVE  ScgiInv'
  <2>1. Answering(conn[c])
    <3>1. Live(c) /\ conn[c].writing # 0
      BY <1>3 DEF SendDone
    <3> QED
      BY <3>1, LiveKept DEF Reading, Incomplete
  <2>2. PICK n \in 1 .. conn[c].writing : conn' = [conn EXCEPT ![c] = SentUnits(conn[c], n)]
    BY <1>3 DEF SendDone
  <2> QED
    BY <1>3, <2>1, <2>2, Sent, OneConnection DEF SendDone
<1>4. ASSUME NEW c \in Connections, ClientLeaves(c)
      PROVE  ScgiInv'
  <2> DEFINE r == [conn[c] EXCEPT !.gone = TRUE]
  <2>1. Reading(conn[c]) \/ Answering(conn[c])
    BY <1>4, LiveKept DEF ClientLeaves
  <2>2. Kept(r)
    <3>1. CASE Reading(conn[c])
      BY <3>1 DEF Kept, Reading, Incomplete, Held, Fields, FieldNames
    <3>2. CASE Answering(conn[c])
      <4>1. /\ r.state = conn[c].state /\ r.writing = conn[c].writing
            /\ r.tx = conn[c].tx /\ r.extra = conn[c].extra
            /\ Answered(r)
        BY <3>2 DEF Answering, Answered, Held, Fields, FieldNames
      <4> HIDE DEF r
      <4> QED
        BY <3>2, <4>1 DEF Kept, Answering, ToSend
    <3> QED
      BY <2>1, <3>1, <3>2
  <2>3. conn' = [conn EXCEPT ![c] = r] /\ events' = events
    BY <1>4 DEF ClientLeaves
  <2> HIDE DEF r
  <2> QED
    BY <2>2, <2>3, OneConnection
<1>5. ASSUME NEW c \in Connections, NEW request \in WebRequests[c], Incoming(c, request)
      PROVE  ScgiInv'
  <2> DEFINE r == [state |-> "NEW", request |-> request, route |-> Route(request.path),
                   reading |-> TRUE, writing |-> 0, gone |-> FALSE,
                   rxlen |-> 0, bodylen |-> 0, tx |-> <<>>, extra |-> <<>>, status |-> 0,
                   called |-> "", extralen |-> 0]
  <2>1. request \in WebRequest
    BY ScgiAssumption
  <2>2. Kept(r)
    <3>1. Fields(r)
      BY DEF Fields, FieldNames
    <3>2. <<>> \in Seq(Cell)
      BY EmptySeq
    <3> QED
      BY <2>1, <3>1, <3>2 DEF Kept, Reading, Incomplete, Held
  <2>3. conn' = [conn EXCEPT ![c] = r] /\ events' = events
    BY <1>5 DEF Incoming
  <2> HIDE DEF r
  <2> QED
    BY <2>2, <2>3, OneConnection
<1>6. CASE scgi_signal_handler
  <2>1. events' \in Nat
    BY <1>6 DEF scgi_signal_handler, ScgiInv
  <2>2. Units(events', EventSize) \in Seq(Cell)
    BY <2>1, UnitsType, ScgiAssumption
  <2>3. ASSUME NEW c \in Connections
        PROVE  Kept(conn'[c])
    <3>1. CASE conn[c].state # "SUBSCRIBE"
      BY <1>6, <3>1 DEF scgi_signal_handler, ScgiInv
    <3>2. CASE conn[c].state = "SUBSCRIBE"
      <4>1. Live(c)
        BY <3>2 DEF Live
      <4>2. Answering(conn[c])
        BY <3>2, <4>1, LiveKept DEF Reading, Incomplete
      <4>3. conn'[c] = scgi_send_more(scgi_write_payload(conn[c], Units(events', EventSize)))
        BY <1>6, <3>2 DEF scgi_signal_handler
      <4> QED
        BY <2>2, <3>2, <4>2, <4>3, Signalled
    <3> QED
      BY <3>1, <3>2
  <2>4. conn' = [c \in Connections |-> conn'[c]]
    BY <1>6 DEF scgi_signal_handler
  <2> QED
    BY <2>1, <2>3, <2>4 DEF ScgiInv
<1>7. CASE UNCHANGED scgiVars
  BY <1>7 DEF scgiVars, ScgiInv
<1> QED
  BY <1>1, <1>2, <1>3, <1>4, <1>5, <1>6, <1>7 DEF ScgiNext

THEOREM ScgiAccounts == ScgiInv => NeverForgotten
<1> SUFFICES ASSUME ScgiInv, NEW c \in Connections, Live(c)
             PROVE  LET pending == (IF conn[c].reading THEN 1 ELSE 0)
                                     + (IF conn[c].writing > 0 THEN 1 ELSE 0)
                    IN pending = IF conn[c].state = "SUBSCRIBE" /\ conn[c].tx = <<>> THEN 0 ELSE 1
  BY DEF NeverForgotten
<1>1. CASE Reading(conn[c])
  BY <1>1 DEF Reading, Incomplete
<1>2. CASE Answering(conn[c])
  BY <1>2 DEF Answering, Answered, Held
<1> QED
  BY <1>1, <1>2, LiveKept

(* No connection is forgotten, and none has an operation that could end    *)
(* after it was freed: the callbacks of scgi.c start exactly one operation *)
(* for each that ends, or free the connection (scgi.c:36-145, 299-335).    *)
THEOREM GatewayForgetsNone == ScgiSpec => []NeverForgotten
<1> QED
  BY ScgiInitial, ScgiStep, ScgiAccounts, PTL DEF ScgiSpec

-----------------------------------------------------------------------------
(***************************************************************************)
(* What arrives.  A connection keeps what it has yet to send behind what   *)
(* its client has received, so that together they are the whole answer     *)
(* (Sending).  A write that ends moves a part from the one to the other.   *)
(* An event that does not fit is dropped whole, so that what a subscriber  *)
(* has and will get is headers and whole events (Streamed).                *)
(***************************************************************************)
Whole(n) == Units("head", HeaderSize) \o Units("extra", n)

Streamed(units, newest) ==
  /\ units \in Seq(Cell)
  /\ EventStream(units)
  /\ HeaderSize <= Len(units)
  /\ \A i \in HeaderSize + 1 .. Len(units) : units[i][1] \in 1 .. newest

Sending(r, a, newest) ==
  /\ a \in Seq(Cell)
  /\ r.state \in {"none", "NEW", "HEADERS", "BODY"} => a = <<>>
  /\ r.state \in {"RESPONSE", "EXTRA"} =>
       /\ r.extralen \in Nat
       /\ (a \o r.tx) \o r.extra = Whole(r.extralen)
       /\ r.state = "EXTRA" => r.tx = <<>>
  /\ r.state = "destroyed" /\ r.reason = "done" => a = Whole(r.extralen)
  /\ r.state = "SUBSCRIBE" => Streamed(a \o r.tx, newest)

StreamInv ==
  /\ arrived = [c \in Connections |-> arrived[c]]
  /\ \A c \in Connections : Sending(conn[c], arrived[c], events)

(* A connection with nothing arrived: what data that came makes of it.     *)
Fresh(r) ==
  \/ r.state \in {"NEW", "HEADERS", "BODY"}
  \/ r.state = "destroyed" /\ r.reason # "done"
  \/ /\ r.state \in {"RESPONSE", "SUBSCRIBE"}
     /\ r.extralen \in Nat
     /\ r.tx = Units("head", HeaderSize) /\ r.extra = Units("extra", r.extralen)

(* Remainders, for any size of an event. *)
LEMMA PartOfEvent ==
  ASSUME NEW e \in Nat \ {0}, NEW y \in Nat, y % e = 0, NEW j \in 0 .. e - 1
  PROVE  (y + j) % e = j
OBVIOUS

LEMMA NextEvent ==
  ASSUME NEW e \in Nat \ {0}, NEW y \in Nat, y % e = 0
  PROVE  (y + e) % e = 0
<1> DEFINE x == y + e
           d == y \div e
           b == x \div e
           m == x % e
<1>1. x \in Nat /\ e \in Nat /\ e > 0
  OBVIOUS
<1> HIDE DEF x
<1>2. x = e * b + m /\ m \in 0 .. e - 1 /\ b \in Int
  BY <1>1
<1>3. y = e * d /\ d \in Int
  OBVIOUS
<1> HIDE DEF b, d, m
<1>4. e * (b - d - 1) = 0 - m
  BY <1>2, <1>3 DEF x
<1> DEFINE f == b - d - 1
<1>5. f \in Int /\ e * f = 0 - m
  BY <1>2, <1>3, <1>4
<1> HIDE DEF f
<1>6. ~(f >= 1) /\ ~(f <= -1)
  BY <1>1, <1>2, <1>5
<1>7. f = 0
  BY <1>5, <1>6
<1>8. m = 0
  BY <1>1, <1>2, <1>5, <1>7
<1> QED
  BY <1>8 DEF m, x

LEMMA HeadStreams ==
  ASSUME NEW newest
  PROVE  Streamed(Units("head", HeaderSize), newest)
<1> DEFINE u == Units("head", HeaderSize)
<1>1. HeaderSize \in Nat \ {0} /\ EventSize \in Nat \ {0}
  BY ScgiAssumption
<1>2. u \in Seq(Cell) /\ Len(u) = HeaderSize
  BY <1>1, UnitsType
<1> HIDE DEF u
<1>3. SubSeq(u, 1, HeaderSize) = u
  BY <1>2, SubSeqFull
<1>4. (Len(u) - HeaderSize) % EventSize = 0
  <2>1. 0 % EventSize = 0
    BY <1>1
  <2>2. Len(u) - HeaderSize = 0
    BY <1>1, <1>2
  <2> QED
    BY <2>1, <2>2
<1>5. HeaderSize + 1 .. Len(u) = {}
  BY <1>1, <1>2
<1> QED
  BY <1>1, <1>2, <1>3, <1>4, <1>5 DEF Streamed, EventStream, u

(* A later event, whole, continues a stream of events.                     *)
LEMMA EventStreams ==
  ASSUME NEW s \in Seq(Cell), NEW newest \in Nat, Streamed(s, newest)
  PROVE  Streamed(s \o Units(newest + 1, EventSize), newest + 1)
<1> DEFINE u == Units(newest + 1, EventSize)
           t == s \o u
           n == Len(s)
           h == HeaderSize
           e == EventSize
<1>1. h \in Nat \ {0} /\ e \in Nat \ {0}
  BY ScgiAssumption
<1>2. /\ u \in Seq(Cell) /\ Len(u) = e
      /\ \A i \in 1 .. e : u[i] = <<newest + 1, i>>
  <2>1. newest + 1 \in {"head", "extra"} \cup Nat
    OBVIOUS
  <2>2. u \in Seq(Cell) /\ Len(u) = e
    BY <1>1, <2>1, UnitsType
  <2>3. \A i \in 1 .. e : u[i] = <<newest + 1, i>>
    BY DEF Units
  <2> QED
    BY <2>2, <2>3
<1> HIDE DEF u
<1>3. n \in Nat /\ h <= n
  BY DEF Streamed
<1>4. /\ t \in Seq(Cell) /\ Len(t) = n + e
      /\ \A i \in 1 .. n : t[i] = s[i]
      /\ \A i \in 1 .. e : t[n + i] = <<newest + 1, i>>
  <2>1. /\ t \in Seq(Cell) /\ Len(t) = n + Len(u)
        /\ \A i \in 1 .. n + Len(u) : t[i] = IF i <= n THEN s[i] ELSE u[i - n]
    BY <1>2, ConcatProperties
  <2> HIDE DEF t, n
  <2>2. ASSUME NEW i \in 1 .. n PROVE t[i] = s[i]
    BY <1>1, <1>2, <1>3, <2>1
  <2>3. ASSUME NEW i \in 1 .. e PROVE t[n + i] = <<newest + 1, i>>
    <3> DEFINE j == n + i
    <3>1. j \in 1 .. n + Len(u) /\ ~(j <= n) /\ j - n = i
      BY <1>1, <1>2, <1>3
    <3> HIDE DEF j
    <3>2. t[j] = u[i]
      BY <3>1, <2>1
    <3> QED
      BY <3>2, <1>2 DEF j
  <2> QED
    BY <1>2, <2>1, <2>2, <2>3
<1>5. SubSeq(t, 1, h) = Units("head", h)
  <2>1. SubSeq(s, 1, h) = Units("head", h)
    BY DEF Streamed, EventStream
  <2>2. h \in 1 .. n /\ 1 \in 1 .. n
    BY <1>1, <1>3
  <2>3. SubSeq(t, 1, h) = SubSeq(s, 1, h)
    BY <1>2, <2>2, SubSeqOfConcat1
  <2> QED
    BY <2>1, <2>3
<1> HIDE DEF t
<1> DEFINE y == n - h
<1>6. y \in Nat /\ y % e = 0
  BY <1>1, <1>3 DEF Streamed, EventStream
<1>7. (Len(t) - h) % e = 0
  <2>1. (y + e) % e = 0
    BY <1>1, <1>6, NextEvent
  <2>2. Len(t) - h = y + e
    BY <1>1, <1>3, <1>4
  <2> QED
    BY <2>1, <2>2
<1> DEFINE part(i) == ((i - (h + 1)) % e) + 1
<1>8. \A i \in h + 1 .. n :
        /\ s[i][2] = part(i)
        /\ s[i][1] \in 1 .. newest
        /\ i > h + 1 => IF part(i) = 1 THEN s[i - 1][1] < s[i][1] ELSE s[i - 1][1] = s[i][1]
  BY DEF Streamed, EventStream
<1>9. \A k \in 1 .. e : part(n + k) = k
  <2> SUFFICES ASSUME NEW k \in 1 .. e PROVE part(n + k) = k
    OBVIOUS
  <2> DEFINE j == k - 1
  <2>1. j \in 0 .. e - 1 /\ j + 1 = k
    BY <1>1
  <2>2. (y + j) % e = j
    BY <1>1, <1>6, <2>1, PartOfEvent
  <2>3. (n + k) - (h + 1) = y + j
    BY <1>1, <1>3
  <2> QED
    BY <2>1, <2>2, <2>3
<1> HIDE DEF y
<1> DEFINE fine(i) ==
      /\ t[i][2] = part(i)
      /\ t[i][1] \in 1 .. newest + 1
      /\ i > h + 1 => IF part(i) = 1 THEN t[i - 1][1] < t[i][1] ELSE t[i - 1][1] = t[i][1]
<1>10. ASSUME NEW i \in h + 1 .. n
       PROVE  fine(i)
  <2>1. i \in 1 .. n /\ (i > h + 1 => i - 1 \in 1 .. n)
    BY <1>1, <1>3
  <2>2. t[i] = s[i] /\ (i > h + 1 => t[i - 1] = s[i - 1])
    BY <1>4, <2>1
  <2>3. t[i][1] \in 1 .. newest + 1
    BY <1>8, <2>2
  <2> HIDE DEF part
  <2> QED
    BY <1>8, <2>2, <2>3
<1>11. ASSUME NEW k \in 1 .. e
       PROVE  fine(n + k)
  <2>1. t[n + k] = <<newest + 1, k>> /\ part(n + k) = k
    BY <1>4, <1>9
  <2>2. ASSUME n + k > h + 1
        PROVE  IF k = 1 THEN t[n + k - 1][1] < newest + 1 ELSE t[n + k - 1][1] = newest + 1
    <3>1. CASE k = 1
      <4>1. n \in h + 1 .. n /\ n \in 1 .. n /\ n + k - 1 = n
        BY <1>1, <1>3, <2>2, <3>1
      <4>2. t[n + k - 1] = s[n]
        BY <1>4, <4>1
      <4>3. s[n][1] \in 1 .. newest
        BY <1>8, <4>1
      <4> QED
        BY <3>1, <4>2, <4>3
    <3>2. CASE k # 1
      <4> DEFINE j == k - 1
      <4>1. j \in 1 .. e /\ n + k - 1 = n + j
        BY <1>1, <1>3, <3>2
      <4> HIDE DEF j
      <4>2. t[n + k - 1] = <<newest + 1, j>>
        BY <1>4, <4>1
      <4> QED
        BY <3>2, <4>2
    <3> QED
      BY <3>1, <3>2
  <2> HIDE DEF part
  <2> QED
    BY <2>1, <2>2
<1>12. ASSUME NEW i \in h + 1 .. Len(t)
       PROVE  fine(i)
  <2>1. CASE i <= n
    BY <1>1, <1>3, <1>10, <2>1
  <2>2. CASE i > n
    <3> DEFINE k == i - n
    <3>1. k \in 1 .. e /\ n + k = i
      BY <1>1, <1>3, <1>4, <2>2
    <3> HIDE DEF k, fine
    <3>2. fine(n + k)
      BY <1>11, <3>1
    <3> QED
      BY <3>1, <3>2
  <2> QED
    BY <1>1, <1>3, <2>1, <2>2
<1>13. EventStream(t)
  BY <1>5, <1>7, <1>12 DEF EventStream
<1>14. \A i \in h + 1 .. Len(t) : t[i][1] \in 1 .. newest + 1
  BY <1>12
<1>15. h <= Len(t)
  BY <1>1, <1>3, <1>4
<1> QED
  BY <1>4, <1>13, <1>14, <1>15 DEF Streamed, t, u

(* What is sent depends on the state and the two buffers only. *)
LEMMA Alike ==
  ASSUME NEW r, NEW s, NEW a, NEW newest, Sending(r, a, newest),
         s.state = r.state, s.state # "destroyed",
         s.tx = r.tx, s.extra = r.extra, s.extralen = r.extralen
  PROVE  Sending(s, a, newest)
BY DEF Sending

LEMMA SendMoreSends ==
  ASSUME NEW r, Answered(r), NEW a, NEW newest, Sending(r, a, newest)
  PROVE  Sending(scgi_send_more(r), a, newest)
<1>1. CASE r.state \in {"RESPONSE", "SUBSCRIBE"} /\ r.tx # <<>>
  <2> DEFINE s == [r EXCEPT !.writing = IF r.writing = 0 THEN Len(r.tx) ELSE r.writing]
  <2>1. scgi_send_more(r) = s
    BY <1>1 DEF scgi_send_more, Answered, Held, Fields, FieldNames
  <2>2. s.state = r.state /\ s.tx = r.tx /\ s.extra = r.extra /\ s.extralen = r.extralen
    BY DEF Answered, Held, Fields, FieldNames
  <2> HIDE DEF s
  <2> QED
    BY <1>1, <2>1, <2>2, Alike
<1>2. CASE r.state = "EXTRA" \/ (r.state = "RESPONSE" /\ r.tx = <<>>)
  <2> DEFINE s == [r EXCEPT !.state = "EXTRA",
                            !.writing = IF r.writing = 0 THEN Len(r.extra) ELSE r.writing]
  <2>1. scgi_send_more(r) = s
    BY <1>2 DEF scgi_send_more, Answered, Held, Fields, FieldNames
  <2>2. s.state = "EXTRA" /\ s.tx = r.tx /\ s.extra = r.extra /\ s.extralen = r.extralen
    BY DEF Answered, Held, Fields, FieldNames
  <2> HIDE DEF s
  <2>3. Sending(s, a, newest)
    BY <1>2, <2>2 DEF Sending
  <2> QED
    BY <2>1, <2>3
<1>3. CASE r.state = "SUBSCRIBE" /\ r.tx = <<>>
  BY <1>3 DEF scgi_send_more
<1> QED
  BY <1>1, <1>2, <1>3 DEF Answered

LEMMA Regroup ==
  ASSUME NEW a \in Seq(Cell), NEW x \in Seq(Cell), NEW y \in Seq(Cell)
  PROVE  (a \o x) \o y = a \o (x \o y)
BY SMT

(* Units that are written move from the buffer to what has arrived. *)
LEMMA UnitsMove ==
  ASSUME NEW a \in Seq(Cell), NEW t \in Seq(Cell), NEW n \in 1 .. Len(t)
  PROVE  /\ SubSeq(t, 1, n) \in Seq(Cell) /\ SubSeq(t, n + 1, Len(t)) \in Seq(Cell)
         /\ a \o SubSeq(t, 1, n) \in Seq(Cell)
         /\ (a \o SubSeq(t, 1, n)) \o SubSeq(t, n + 1, Len(t)) = a \o t
<1> DEFINE x == SubSeq(t, 1, n)
           y == SubSeq(t, n + 1, Len(t))
<1>1. x \in Seq(Cell) /\ y \in Seq(Cell)
  BY SMT
<1>2. x \o y = t
  <2>1. /\ 1 \in 1 .. Len(t) + 1 /\ n \in 1 - 1 .. Len(t)
        /\ Len(t) \in n .. Len(t)
    OBVIOUS
  <2>2. x \o y = SubSeq(t, 1, Len(t))
    BY <2>1, ConcatAdjacentSubSeq
  <2> QED
    BY <2>2, SubSeqFull
<1> HIDE DEF x, y
<1>3. (a \o x) \o y = a \o (x \o y)
  BY <1>1, Regroup
<1>4. a \o x \in Seq(Cell)
  BY <1>1, ConcatProperties
<1> QED
  BY <1>1, <1>2, <1>3, <1>4 DEF x, y

LEMMA SentSends ==
  ASSUME NEW r, Answering(r), NEW n \in 1 .. r.writing, NEW a, NEW newest, Sending(r, a, newest)
  PROVE  Sending(SentUnits(r, n), a \o SubSeq(ToSend(r), 1, n), newest)
<1> DEFINE left == SentPart(r, n)
           rest == scgi_send_more(left)
           b == a \o SubSeq(ToSend(r), 1, n)
<1>1. SentUnits(r, n) =
        IF rest.state # "SUBSCRIBE" /\ rest.writing = 0 THEN Destroyed(rest, "done") ELSE rest
  BY DEF SentUnits, SentPart
<1>2. Answered(left) /\ left.writing = 0
  BY LeftAnswered
<1>3. a \in Seq(Cell) /\ r.tx \in Seq(Cell) /\ r.extra \in Seq(Cell) /\ n \in 1 .. Len(ToSend(r))
  <2>1. r.tx \in Seq(Cell) /\ r.extra \in Seq(Cell) /\ r.writing \in Nat /\ r.writing <= Len(ToSend(r))
    BY DEF Answering, Answered, Held
  <2>2. ToSend(r) \in Seq(Cell)
    BY <2>1 DEF ToSend
  <2>3. Len(ToSend(r)) \in Nat
    BY <2>2, LenProperties
  <2> QED
    BY <2>1, <2>3 DEF Sending
<1>4. Sending(left, b, newest)
  <2>1. CASE r.state = "EXTRA"
    <3> DEFINE y == SubSeq(r.extra, n + 1, Len(r.extra))
    <3>1. left.state = "EXTRA" /\ left.tx = r.tx /\ left.extra = y /\ left.extralen = r.extralen
      BY <2>1 DEF SentPart, Answering, Answered, Held, Fields, FieldNames
    <3>2. b \in Seq(Cell) /\ b \o y = a \o r.extra
      BY <1>3, <2>1, UnitsMove DEF ToSend
    <3> HIDE DEF b, y, left
    <3>3. r.tx = <<>> /\ (a \o r.tx) \o r.extra = Whole(r.extralen) /\ r.extralen \in Nat
      BY <2>1 DEF Sending
    <3>4. b \o r.tx = b /\ a \o r.tx = a
      BY <1>3, <3>2, <3>3, ConcatEmptySeq
    <3>5. (b \o left.tx) \o left.extra = Whole(left.extralen)
      BY <3>1, <3>2, <3>3, <3>4
    <3> QED
      BY <3>1, <3>2, <3>3, <3>5 DEF Sending
  <2>2. CASE r.state # "EXTRA"
    <3> DEFINE y == SubSeq(r.tx, n + 1, Len(r.tx))
    <3>1. left.state = r.state /\ left.tx = y /\ left.extra = r.extra /\ left.extralen = r.extralen
      BY <2>2 DEF SentPart, Answering, Answered, Held, Fields, FieldNames
    <3>2. b \in Seq(Cell) /\ b \o y = a \o r.tx
      BY <1>3, <2>2, UnitsMove DEF ToSend
    <3> HIDE DEF b, y, left
    <3>3. r.state \in {"RESPONSE", "SUBSCRIBE"}
      BY <2>2 DEF Answering, Answered
    <3> QED
      BY <3>1, <3>2, <3>3 DEF Sending
  <2> QED
    BY <2>1, <2>2
<1> HIDE DEF left, b
<1>5. Sending(rest, b, newest)
  BY <1>2, <1>4, SendMoreSends
<1>6. Answering(rest) \/ Emptied(rest)
  BY <1>2, SendsMore
<1> HIDE DEF rest
<1>7. CASE rest.state # "SUBSCRIBE" /\ rest.writing = 0
  <2>1. rest.state = "EXTRA" /\ rest.extra = <<>>
    BY <1>6, <1>7 DEF Answering, Emptied
  <2>2. b \in Seq(Cell) /\ rest.tx = <<>> /\ (b \o rest.tx) \o rest.extra = Whole(rest.extralen)
    BY <1>5, <2>1 DEF Sending
  <2>3. b \o <<>> = b
    BY <2>2, ConcatEmptySeq
  <2>4. b = Whole(rest.extralen)
    BY <2>1, <2>2, <2>3
  <2>5. Sending(Destroyed(rest, "done"), b, newest)
    BY <2>2, <2>4 DEF Sending, Destroyed
  <2> QED
    BY <1>1, <1>7, <2>5 DEF b
<1>8. CASE ~(rest.state # "SUBSCRIBE" /\ rest.writing = 0)
  BY <1>1, <1>5, <1>8 DEF b
<1> QED
  BY <1>7, <1>8

(* An event is put behind the stream, or dropped. *)
LEMMA EventSends ==
  ASSUME NEW r, Answering(r), r.state = "SUBSCRIBE", NEW a, NEW newest \in Nat,
         Sending(r, a, newest)
  PROVE  Sending(scgi_send_more(scgi_write_payload(r, Units(newest + 1, EventSize))), a, newest + 1)
<1> DEFINE u == Units(newest + 1, EventSize)
           s == scgi_write_payload(r, u)
<1>1. /\ r.tx \in Seq(Cell) /\ a \in Seq(Cell) /\ u \in Seq(Cell)
      /\ Streamed(a \o r.tx, newest)
  <2>1. newest + 1 \in {"head", "extra"} \cup Nat /\ EventSize \in Nat
    BY ScgiAssumption
  <2>2. u \in Seq(Cell)
    BY <2>1, UnitsType
  <2> HIDE DEF u
  <2>3. r.tx \in Seq(Cell)
    BY DEF Answering, Answered, Held
  <2>4. a \in Seq(Cell) /\ Streamed(a \o r.tx, newest)
    BY DEF Sending
  <2> QED
    BY <2>2, <2>3, <2>4
<1>2. Streamed((a \o r.tx) \o u, newest + 1)
  BY <1>1, EventStreams DEF Streamed
<1>3. Streamed(a \o r.tx, newest + 1)
  <2>1. 1 .. newest \subseteq 1 .. newest + 1
    OBVIOUS
  <2> QED
    BY <1>1, <2>1 DEF Streamed
<1> HIDE DEF u
<1>4. r.tx \o u \in Seq(Cell) /\ (a \o r.tx) \o u = a \o (r.tx \o u)
  BY <1>1, ConcatProperties, Regroup
<1>5. s = r \/ s = [r EXCEPT !.tx = r.tx \o u]
  BY DEF scgi_write_payload, Answering, Answered, Held, Fields, FieldNames
<1>6. Answered(s) /\ Sending(s, a, newest + 1)
  <2>1. CASE s = r
    BY <1>1, <1>3, <2>1 DEF Answering, Sending
  <2>2. CASE s = [r EXCEPT !.tx = r.tx \o u]
    <3> HIDE DEF s
    <3>1. s.state = "SUBSCRIBE" /\ s.tx = r.tx \o u /\ Answered(s)
      BY <1>4, <2>2 DEF Answering, Answered, Held, Fields, FieldNames
    <3> QED
      BY <1>1, <1>2, <1>4, <3>1 DEF Sending
  <2> QED
    BY <1>5, <2>1, <2>2
<1> HIDE DEF s
<1>7. Sending(scgi_send_more(s), a, newest + 1)
  BY <1>6, SendMoreSends
<1> QED
  BY <1>7 DEF s, u

-----------------------------------------------------------------------------
(* Data that comes ends the connection, or is answered, or leaves it       *)
(* reading.                                                                *)
LEMMA FreshSends ==
  ASSUME NEW r, Fresh(r), NEW newest
  PROVE  Sending(r, <<>>, newest)
<1> DEFINE h == Units("head", HeaderSize)
<1>1. HeaderSize \in Nat
  BY ScgiAssumption
<1>2. h \in Seq(Cell) /\ <<>> \in Seq(Cell)
  BY <1>1, UnitsType, EmptySeq
<1>3. <<>> \o h = h
  BY <1>2, ConcatEmptySeq
<1>4. Streamed(h, newest)
  BY HeadStreams
<1> HIDE DEF h
<1>5. CASE r.state \in {"NEW", "HEADERS", "BODY"} \/ (r.state = "destroyed" /\ r.reason # "done")
  BY <1>2, <1>5 DEF Sending
<1>6. CASE /\ r.state \in {"RESPONSE", "SUBSCRIBE"}
           /\ r.extralen \in Nat
           /\ r.tx = h /\ r.extra = Units("extra", r.extralen)
  BY <1>2, <1>3, <1>4, <1>6 DEF Sending, Whole, h
<1> QED
  BY <1>5, <1>6 DEF Fresh, h

LEMMA DestroyedFresh ==
  ASSUME NEW r, NEW reason, reason # "done"
  PROVE  Fresh(Destroyed(r, reason))
BY DEF Fresh, Destroyed

LEMMA WantsFresh ==
  ASSUME NEW r, Incomplete(r)
  PROVE  Fresh(scgi_want_more(r))
<1>1. CASE Room(r) <= 0
  BY <1>1, DestroyedFresh DEF scgi_want_more
<1>2. CASE ~(Room(r) <= 0)
  BY <1>2 DEF scgi_want_more, Incomplete, Fresh, Held, Fields, FieldNames
<1> QED
  BY <1>1, <1>2

LEMMA RespondsFresh ==
  ASSUME NEW r, Incomplete(r), NEW answer, answer.extra \in Nat
  PROVE  Fresh(scgi_send_more(Responding(r, answer)))
<1> DEFINE s == Responding(r, answer)
           t == [s EXCEPT !.writing = IF s.writing = 0 THEN Len(s.tx) ELSE s.writing]
<1>1. HeaderSize \in Nat \ {0}
  BY ScgiAssumption
<1>2. Units("head", HeaderSize) # <<>>
  BY <1>1, UnitsType, EmptySeq
<1>3. /\ s.state \in {"RESPONSE", "SUBSCRIBE"} /\ s.tx = Units("head", HeaderSize)
      /\ s.extra = Units("extra", answer.extra) /\ s.extralen = answer.extra
      /\ Fields(s)
  BY DEF Responding, Incomplete, Held, Fields, FieldNames
<1> HIDE DEF s
<1>4. scgi_send_more(s) = t
  BY <1>2, <1>3 DEF scgi_send_more, Fields, FieldNames
<1>5. t.state = s.state /\ t.tx = s.tx /\ t.extra = s.extra /\ t.extralen = s.extralen
  BY <1>3 DEF Fields, FieldNames
<1> HIDE DEF t
<1> QED
  BY <1>3, <1>4, <1>5 DEF Fresh, s

LEMMA BodyFresh ==
  ASSUME NEW r, Incomplete(r), NEW s \in ProcessBody(r)
  PROVE  Fresh(s)
<1>1. CASE r.bodylen < r.request.body
  BY <1>1, WantsFresh DEF ProcessBody
<1>2. CASE ~(r.bodylen < r.request.body)
  <2>1. PICK answer \in Answers(r.request, r.route) : s = scgi_send_more(Responding(r, answer))
    BY <1>2 DEF ProcessBody
  <2> QED
    BY <2>1, AnswerSizes, RespondsFresh
<1> QED
  BY <1>1, <1>2

LEMMA HeadersFresh ==
  ASSUME NEW r, Incomplete(r), NEW s \in ProcessHeaders(r)
  PROVE  Fresh(s)
<1>1. CASE r.rxlen < r.request.head
  BY <1>1, WantsFresh DEF ProcessHeaders
<1>2. CASE s = TooLarge(r)
  BY <1>2, RespondsFresh DEF TooLarge, Result
<1>3. CASE /\ ~(r.rxlen < r.request.head)
           /\ s # TooLarge(r)
  <2> DEFINE body == [r EXCEPT !.state = "BODY", !.bodylen = r.rxlen - r.request.head,
                               !.rxlen = r.request.head]
  <2>1. s \in ProcessBody(body)
    BY <1>3 DEF ProcessHeaders
  <2>2. r.request.head \in Nat /\ r.rxlen - r.request.head \in Nat
    BY <1>3 DEF Incomplete, Held, WebRequest
  <2>3. Incomplete(body)
    BY <2>2 DEF Incomplete, Held, Fields, FieldNames
  <2> QED
    BY <2>1, <2>3, BodyFresh
<1> QED
  BY <1>1, <1>2, <1>3

LEMMA DataFresh ==
  ASSUME NEW r, Incomplete(r), NEW s \in scgi_process_data(r)
  PROVE  Fresh(s)
<1>1. CASE r.state = "NEW" /\ r.rxlen = 0
  BY <1>1, WantsFresh DEF scgi_process_data
<1>2. CASE r.state = "NEW" /\ r.rxlen > 0
  <2> DEFINE headers == [r EXCEPT !.state = "HEADERS"]
  <2>1. Incomplete(headers)
    BY DEF Incomplete, Held, Fields, FieldNames
  <2>2. s \in ProcessHeaders(headers) \/ s = Destroyed(r, "invalid")
    BY <1>2 DEF scgi_process_data
  <2> QED
    BY <2>1, <2>2, HeadersFresh, DestroyedFresh
<1>3. CASE r.state = "HEADERS"
  BY <1>3, HeadersFresh DEF scgi_process_data
<1>4. CASE r.state = "BODY"
  BY <1>4, BodyFresh DEF scgi_process_data
<1>5. r.state \in {"NEW", "HEADERS", "BODY"} /\ (r.rxlen = 0 \/ r.rxlen > 0)
  BY DEF Incomplete, Held
<1> QED
  BY <1>1, <1>2, <1>3, <1>4, <1>5

(* Data that a connection received leaves it incomplete until it is looked at. *)
LEMMA ReceivedIncomplete ==
  ASSUME NEW r, Reading(r), NEW n \in Nat
  PROVE  Incomplete(Received(r, n)) /\ Received(r, n).reading = FALSE
<1>1. r.rxlen + n \in Nat /\ r.bodylen + n \in Nat
  BY DEF Reading, Incomplete, Held
<1>2. CASE r.state = "BODY"
  BY <1>1, <1>2 DEF Received, Reading, Incomplete, Held, Fields, FieldNames
<1>3. CASE r.state # "BODY"
  BY <1>1, <1>3 DEF Received, Reading, Incomplete, Held, Fields, FieldNames
<1> QED
  BY <1>2, <1>3

LEMMA OneStream ==
  ASSUME ScgiInv, StreamInv, NEW c \in Connections, NEW r, NEW a, Sending(r, a, events),
         conn' = [conn EXCEPT ![c] = r], arrived' = [arrived EXCEPT ![c] = a], events' = events
  PROVE  StreamInv'
BY DEF ScgiInv, StreamInv

(* Nothing arrives while a connection only reads, fails or leaves. *)
LEMMA SameStream ==
  ASSUME ScgiInv, StreamInv, NEW c \in Connections, NEW r, Sending(r, arrived[c], events),
         conn' = [conn EXCEPT ![c] = r], arrived' = arrived, events' = events
  PROVE  StreamInv'
<1>1. arrived' = [arrived EXCEPT ![c] = arrived[c]]
  BY DEF StreamInv
<1> QED
  BY <1>1, OneStream

LEMMA StreamStep == ScgiInv /\ StreamInv /\ [ScgiNext]_scgiVars => StreamInv'
<1> SUFFICES ASSUME ScgiInv, StreamInv, [ScgiNext]_scgiVars
             PROVE  StreamInv'
  OBVIOUS
<1>1. ASSUME NEW c \in Connections, DataReady(c)
      PROVE  StreamInv'
  <2>1. Reading(conn[c])
    BY <1>1, LiveKept DEF DataReady, Answering, Answered
  <2>2. PICK n \in 0 .. Room(conn[c]) :
          \E r \in scgi_process_data(Received(conn[c], n)) : conn' = [conn EXCEPT ![c] = r]
    BY <1>1 DEF DataReady
  <2>3. PICK r \in scgi_process_data(Received(conn[c], n)) : conn' = [conn EXCEPT ![c] = r]
    BY <2>2
  <2>4. Fresh(r)
    <3>1. n \in Nat
      BY <2>2
    <3> QED
      BY <2>1, <2>3, <3>1, ReceivedIncomplete, DataFresh
  <2>5. arrived[c] = <<>>
    BY <2>1 DEF StreamInv, Sending, Reading, Incomplete
  <2>6. Sending(r, arrived[c], events)
    BY <2>4, <2>5, FreshSends
  <2> QED
    BY <1>1, <2>3, <2>6, SameStream DEF DataReady
<1>2. ASSUME NEW c \in Connections, ReadFails(c) \/ SendFails(c)
      PROVE  StreamInv'
  <2>1. Sending(Destroyed(conn[c], "error"), arrived[c], events)
    BY DEF StreamInv, Sending, Destroyed
  <2> QED
    BY <1>2, <2>1, SameStream DEF ReadFails, SendFails
<1>3. ASSUME NEW c \in Connections, SendDone(c)
      PROVE  StreamInv'
  <2>1. Answering(conn[c])
    <3>1. Live(c) /\ conn[c].writing # 0
      BY <1>3 DEF SendDone
    <3> QED
      BY <3>1, LiveKept DEF Reading, Incomplete
  <2>2. PICK n \in 1 .. conn[c].writing :
          /\ arrived' = [arrived EXCEPT ![c] = arrived[c] \o SubSeq(ToSend(conn[c]), 1, n)]
          /\ conn' = [conn EXCEPT ![c] = SentUnits(conn[c], n)]
    BY <1>3 DEF SendDone, ToSend, StreamInv
  <2>3. Sending(conn[c], arrived[c], events)
    BY DEF StreamInv
  <2>4. Sending(SentUnits(conn[c], n), arrived[c] \o SubSeq(ToSend(conn[c]), 1, n), events)
    BY <2>1, <2>3, SentSends
  <2> QED
    BY <1>3, <2>2, <2>4, OneStream DEF SendDone
<1>4. ASSUME NEW c \in Connections, ClientLeaves(c)
      PROVE  StreamInv'
  <2> DEFINE r == [conn[c] EXCEPT !.gone = TRUE]
  <2>1. Reading(conn[c]) \/ Answering(conn[c])
    BY <1>4, LiveKept DEF ClientLeaves
  <2>2. /\ r.state = conn[c].state /\ r.state # "destroyed" /\ r.tx = conn[c].tx
        /\ r.extra = conn[c].extra /\ r.extralen = conn[c].extralen
    BY <1>4, <2>1 DEF ClientLeaves, Live, Reading, Incomplete, Answering, Answered, Held, Fields, FieldNames
  <2>3. conn' = [conn EXCEPT ![c] = r] /\ events' = events /\ arrived' = arrived
    BY <1>4 DEF ClientLeaves
  <2>4. Sending(conn[c], arrived[c], events)
    BY DEF StreamInv
  <2> HIDE DEF r
  <2>5. Sending(r, arrived[c], events)
    BY <2>2, <2>4, Alike
  <2> QED
    BY <2>3, <2>5, SameStream
<1>5. ASSUME NEW c \in Connections, NEW request \in WebRequests[c], Incoming(c, request)
      PROVE  StreamInv'
  <2> DEFINE r == [state |-> "NEW", request |-> request, route |-> Route(request.path),
                   reading |-> TRUE, writing |-> 0, gone |-> FALSE,
                   rxlen |-> 0, bodylen |-> 0, tx |-> <<>>, extra |-> <<>>, status |-> 0,
                   called |-> "", extralen |-> 0]
  <2>1. Fresh(r)
    BY DEF Fresh
  <2>2. conn' = [conn EXCEPT ![c] = r] /\ events' = events /\ arrived' = arrived
    BY <1>5 DEF Incoming
  <2> HIDE DEF r
  <2>3. arrived[c] = <<>>
    <3>1. conn[c].state = "none"
      <4>1. conn[c] = NoConnection
        BY <1>5 DEF Incoming
      <4>2. NoConnection.state = "none"
        BY DEF NoConnection
      <4> QED
        BY <4>1, <4>2
    <3>2. Sending(conn[c], arrived[c], events)
      BY DEF StreamInv
    <3> QED
      BY <3>1, <3>2 DEF Sending
  <2>4. Sending(r, arrived[c], events)
    BY <2>1, <2>3, FreshSends
  <2> QED
    BY <2>2, <2>4, SameStream
<1>6. CASE scgi_signal_handler
  <2>1. events \in Nat /\ events' = events + 1 /\ arrived' = arrived
    BY <1>6 DEF scgi_signal_handler, ScgiInv
  <2>2. ASSUME NEW c \in Connections
        PROVE  Sending(conn'[c], arrived[c], events + 1)
    <3>1. Sending(conn[c], arrived[c], events)
      BY DEF StreamInv
    <3>2. CASE conn[c].state # "SUBSCRIBE"
      <4>1. conn'[c] = conn[c]
        BY <1>6, <3>2 DEF scgi_signal_handler
      <4> QED
        BY <3>1, <3>2, <4>1 DEF Sending
    <3>3. CASE conn[c].state = "SUBSCRIBE"
      <4>1. Live(c)
        BY <3>3 DEF Live
      <4>2. Answering(conn[c])
        BY <3>3, <4>1, LiveKept DEF Reading, Incomplete
      <4>3. conn'[c] = scgi_send_more(scgi_write_payload(conn[c], Units(events + 1, EventSize)))
        BY <1>6, <2>1, <3>3 DEF scgi_signal_handler
      <4> QED
        BY <2>1, <3>1, <3>3, <4>2, <4>3, EventSends
    <3> QED
      BY <3>2, <3>3
  <2> QED
    BY <2>1, <2>2 DEF StreamInv
<1>7. CASE UNCHANGED scgiVars
  BY <1>7 DEF scgiVars, StreamInv
<1> QED
  BY <1>1, <1>2, <1>3, <1>4, <1>5, <1>6, <1>7 DEF ScgiNext

(* However writes are split and whatever is dropped when a client is slow, *)
(* a response arrives in order and whole, and a subscriber receives whole  *)
(* events in the order of the signals (scgi.c:121-145, 443-459).           *)
THEOREM StreamsArriveIntact == ScgiSpec => []StreamIntact
<1>1. ScgiInit => StreamInv
  <2> SUFFICES ASSUME ScgiInit PROVE StreamInv
    OBVIOUS
  <2>1. <<>> \in Seq(Cell)
    BY EmptySeq
  <2> QED
    BY <2>1 DEF ScgiInit, StreamInv, Sending, NoConnection
<1>2. ScgiInv /\ StreamInv => StreamIntact
  <2> SUFFICES ASSUME ScgiInv, StreamInv, NEW c \in Connections
               PROVE  /\ Live(c) /\ conn[c].state \in {"RESPONSE", "EXTRA"} =>
                           arrived[c] \o conn[c].tx \o conn[c].extra =
                             Units("head", HeaderSize) \o Units("extra", conn[c].extralen)
                      /\ conn[c].state = "destroyed" /\ conn[c].reason = "done" =>
                           arrived[c] = Units("head", HeaderSize) \o Units("extra", conn[c].extralen)
                      /\ conn[c].state = "SUBSCRIBE" =>
                           EventStream(arrived[c] \o conn[c].tx)
    BY DEF StreamIntact
  <2>1. Sending(conn[c], arrived[c], events)
    BY DEF StreamInv
  <2> QED
    BY <2>1 DEF Sending, Whole, Streamed
<1> QED
  BY <1>1, <1>2, ScgiInitial, ScgiStep, StreamStep, PTL DEF ScgiSpec
=============================================================================
