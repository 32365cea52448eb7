----------------------------- MODULE FpgaLoader -----------------------------
(***************************************************************************)
(* cam-loader (cam-loader.c with lib/fpga-loader.c, lib/fpga-mmap.c and    *)
(* lib/ioport.c): sends a bitstream to the FPGA over SPI, sets up the      *)
(* memory bus to it and resets its logic; with -u it only holds the device *)
(* in its configuration state.  Every transfer may fail, the program may   *)
(* be killed between two steps and started again, and the bytes may be     *)
(* spoilt on their way.                                                    *)
(*                                                                         *)
(* A bitstream is [device, chunks, seekable]: the ID in its header (0 when *)
(* the header has none that the loader recognises), the chunks that are in *)
(* the file, and whether the file can be rewound.  A whole image has the   *)
(* chunks 1 .. ImageSize.  The pins that the board definitions name exist. *)
(***************************************************************************)
EXTENDS Integers, Sequences

CONSTANTS
  Bitstreams,  (* the files a user may pass                                 *)
  Fitted,      (* ID of the FPGA on the board                               *)
  ImageSize,   (* chunks of a whole image                                   *)
  MaxRuns,     (* bound: starts of the program                              *)
  MaxFaults    (* bound: failures and spoilt chunks in a behaviour          *)

ASSUME LoaderAssumption ==
  /\ Bitstreams \subseteq [device : Nat, chunks : Seq(Nat), seekable : BOOLEAN]
  /\ Fitted \in Nat \ {0}
  /\ {ImageSize, MaxRuns, MaxFaults} \subseteq Nat

VARIABLES
  loader,  (* the program: where it is, its argument, its exit status       *)
  device,  (* the FPGA: its configuration port and what runs in it          *)
  bus,     (* the memory controller's setting for the FPGA                  *)
  faults,  (* failures so far                                               *)
  runs     (* starts so far                                                 *)

loaderVars == <<loader, device, bus, faults, runs>>

WholeImage == [i \in 1 .. ImageSize |-> i]
NoFile == [device |-> 0, chunks |-> <<>>, seekable |-> FALSE]

(* mode is held, ready, enabled, burst, loaded or user; got is what the    *)
(* last burst brought; reset tells that the logic was reset since then.    *)
LoaderInit ==
  /\ loader = [pc |-> "exit", file |-> NoFile, sent |-> 0, status |-> 1]
  /\ device = [mode |-> "ready", selected |-> FALSE, got |-> <<>>, from |-> 0, reset |-> FALSE]
  /\ bus = "unset"
  /\ faults = 0
  /\ runs = 0

-----------------------------------------------------------------------------
(* The FPGA (external).                                                    *)

(* A burst ends when the chip select is released.                          *)
Deselected(d) ==
  [d EXCEPT !.selected = FALSE, !.mode = IF @ = "burst" THEN "loaded" ELSE @]

(* The configuration is accepted: a whole image for this device.           *)
Done(d) == d.mode \in {"loaded", "user"} /\ d.got = WholeImage /\ d.from = Fitted

Obeyed(d, cmd) ==
  CASE cmd = "REFRESH" -> [d EXCEPT !.mode = "ready", !.got = <<>>, !.from = 0, !.reset = FALSE]
    [] cmd = "ENABLE"  -> [d EXCEPT !.mode = IF @ = "ready" THEN "enabled" ELSE @]
    [] cmd = "DISABLE" -> [d EXCEPT !.mode = IF @ = "loaded" THEN "user" ELSE @]
    [] OTHER           -> d

-----------------------------------------------------------------------------
Leave(status) == loader' = [loader EXCEPT !.pc = "exit", !.status = status]
Step(pc) == loader' = [loader EXCEPT !.pc = pc]

(* An error of the operating system: the program cleans up and exits 1.    *)
Fault == faults < MaxFaults /\ faults' = faults + 1
Failed == Fault /\ Leave(1)

(* The user starts the program, with a bitstream or with -u.               *)
Start ==
  /\ loader.pc = "exit"
  /\ runs < MaxRuns
  /\ runs' = runs + 1
  /\ \E file \in Bitstreams \cup {NoFile} :
       loader' = [pc |-> "open", file |-> file, sent |-> 0, status |-> 1]
  /\ UNCHANGED <<device, bus, faults>>

(* Board definitions, pins and file; -u only pulls PROGn low.              *)
OpenPins ==
  /\ loader.pc = "open"
  /\ \/ Failed /\ UNCHANGED device
     \/ /\ loader.file = NoFile
        /\ device' = [device EXCEPT !.mode = "held", !.got = <<>>]
        /\ Leave(0)
        /\ UNCHANGED faults
     \/ loader.file # NoFile /\ Step("program") /\ UNCHANGED <<device, faults>>
  /\ UNCHANGED <<bus, runs>>

(* The ID that the file asks for; a file that cannot be rewound, or whose  *)
(* header is not understood, is for any device.                            *)
fpga_peek_devid(file) == IF file.seekable THEN file.device ELSE 0

(* PROGn low and high again, with the chip select released.                *)
EnterProgramming ==
  /\ loader.pc = "program"
  /\ device' = [mode |-> "ready", selected |-> FALSE, got |-> <<>>, from |-> 0, reset |-> FALSE]
  /\ Step("id")
  /\ UNCHANGED <<bus, faults, runs>>

(* One command: selected for the transfer only; a failed transfer may or   *)
(* may not have reached the device.                                        *)
fpga_spi_xfer(pc, cmd, proceed) ==
  /\ loader.pc = pc
  /\ \/ Failed /\ device' \in {Deselected(device), Obeyed(Deselected(device), cmd)}
     \/ device' = Obeyed(Deselected(device), cmd) /\ proceed /\ UNCHANGED faults
  /\ UNCHANGED <<bus, runs>>

(* The wrong device: the length of the transfer is returned, not an error, *)
(* and main takes every result but zero for a failure.                     *)
CheckId ==
  IF fpga_peek_devid(loader.file) \in {0, Fitted} THEN Step("refresh") ELSE Leave(1)
ReadId == fpga_spi_xfer("id", "READ_ID", CheckId)
RefreshDevice == fpga_spi_xfer("refresh", "REFRESH", Step("enable"))
Enable == fpga_spi_xfer("enable", "ENABLE", Step("burst"))

(* fpga_spi_sendbits: the command and all chunks in one selection.         *)
BeginBurst ==
  /\ loader.pc = "burst"
  /\ \/ Failed /\ device' = Deselected(device)
     \/ /\ device' = [device EXCEPT !.selected = TRUE,
                                    !.mode = IF @ = "enabled" THEN "burst" ELSE @]
        /\ Step("send")
        /\ UNCHANGED faults
  /\ UNCHANGED <<bus, runs>>

(* A chunk goes out, perhaps spoilt; an error of read or of the transfer   *)
(* releases the chip select.                                               *)
SendChunk ==
  /\ loader.pc = "send"
  /\ loader.sent < Len(loader.file.chunks)
  /\ \/ Failed /\ device' = Deselected(device)
     \/ \E chunk \in {loader.file.chunks[loader.sent + 1], 0} :
          /\ IF chunk = 0 THEN Fault ELSE UNCHANGED faults
          /\ device' = IF device.selected /\ device.mode = "burst"
                       THEN [device EXCEPT !.got = Append(@, chunk),
                                           !.from = loader.file.device]
                       ELSE device
          /\ loader' = [loader EXCEPT !.sent = @ + 1]
  /\ UNCHANGED <<bus, runs>>

EndBurst ==
  /\ loader.pc = "send"
  /\ loader.sent = Len(loader.file.chunks)
  /\ device' = Deselected(device)
  /\ Step("status")
  /\ UNCHANGED <<bus, faults, runs>>

(* Bug variant: the status is only logged.                                 *)
LoggedStatus == Step("disable")

CheckStatus == IF Done(device) THEN Step("disable") ELSE Leave(1)
ReadStatus == fpga_spi_xfer("status", "READ_STATUS", CheckStatus)
Disable == fpga_spi_xfer("disable", "DISABLE", Step("gpmc"))

-----------------------------------------------------------------------------
(* The memory controller is reset, then its chip selects are programmed.   *)
gpmc_setup ==
  /\ \/ loader.pc = "gpmc" /\ Failed /\ UNCHANGED bus
     \/ loader.pc = "gpmc" /\ bus' = "reset" /\ Step("selects") /\ UNCHANGED faults
     \/ loader.pc = "selects" /\ bus' = "set" /\ Step("map") /\ UNCHANGED faults
  /\ UNCHANGED <<device, runs>>

(* fpga_open maps the registers and opens the GPIOs; then the logic reset. *)
ResetLogic ==
  /\ loader.pc = "map"
  /\ \/ Failed /\ UNCHANGED device
     \/ /\ device' = [device EXCEPT !.reset = bus = "set" /\ device.mode = "user"]
        /\ Leave(0)
        /\ UNCHANGED faults
  /\ UNCHANGED <<bus, runs>>

(* The program is killed: the pins stay as they are.                       *)
Killed ==
  /\ loader.pc # "exit"
  /\ Failed
  /\ UNCHANGED <<device, bus, runs>>

LoaderNext ==
  \/ Start \/ OpenPins \/ EnterProgramming \/ ReadId \/ RefreshDevice \/ Enable
  \/ BeginBurst \/ SendChunk \/ EndBurst \/ ReadStatus \/ Disable
  \/ gpmc_setup \/ ResetLogic \/ Killed

LoaderSpec == LoaderInit /\ [][LoaderNext]_loaderVars

-----------------------------------------------------------------------------
(* When cam-loader reports success for a bitstream, whatever failed or was *)
(* killed before, the FPGA runs the whole of that bitstream, unspoilt and  *)
(* made for it, in user mode and freshly reset, behind a bus that is set up *)
(* - and until the next start nothing disturbs that.                       *)
LoadedMeansRunning ==
  loader.pc = "exit" /\ loader.status = 0 /\ loader.file # NoFile =>
    /\ device.mode = "user" /\ device.reset /\ bus = "set"
    /\ device.got = loader.file.chunks
    /\ Done(device)
=============================================================================
