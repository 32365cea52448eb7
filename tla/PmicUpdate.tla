----------------------------- MODULE PmicUpdate -----------------------------
(***************************************************************************)
(* The firmware update of the power controller: pcUtil -u                  *)
(* (updateFirmware of pcUtil/comms.c, main of pcUtil/pcutil.c), the        *)
(* reader of Intel hex files (pcUtil/intelHex.c) and the boot script       *)
(* (scripts/chronos-pmic-loader.sh) that calls pcUtil -i, -v and -u one    *)
(* after the other.  Each call is a process with a ring of its own; an     *)
(* answer that comes too late for one may reach the next.                  *)
(* Addresses count cells; a page has PageSize cells, a block of data may   *)
(* reach into the page after its own.                                      *)
(***************************************************************************)
EXTENDS PmicLink, FiniteSets

CONSTANTS
  Updater,    (* the thread of the process                                   *)
  Files,      (* hex files: sequences of records                             *)
  PageSize,   (* FLASH_PAGE_SIZE_BYTES                                       *)
  IvtPages,   (* pages from IVT_START_BYTES to IVT_END_BYTES                 *)
  UserPages,  (* pages from LOWER_ADDRESS to UPPER_ADDRESS                   *)
  BootPages,  (* pages of the bootloader                                     *)
  MaxProcesses,  (* bound                                                    *)
  MaxAsked    (* bound: commands                                             *)

Record == [type : {"data"}, address : Nat, length : 0 .. PageSize]
          \cup [type : {"extend"}, base : Nat]
          \cup [type : {"eof", "bad"}]

(* What a process may send for one of the files.                           *)
UpdateCommands ==
  {[op |-> op, arg |-> 0] : op \in
     {"IS_IN_BOOTLOADER", "JUMP_TO_BOOTLOADER", "GET_APP_VERSION", "JUMP_TO_PGM"}}
  \cup {[op |-> "ERASE_PAGE", arg |-> page] : page \in IvtPages \cup UserPages}
  \cup UNION {{[op |-> "WRITE_DATA", arg |-> [record |-> i, page |-> page + part]] :
                 i \in 1 .. Len(f), page \in IvtPages \cup UserPages, part \in {0, 1}} : f \in Files}

(* A record fits into a page: data of updateFirmware has room for 16 bytes,*)
(* a page has 128 (comms.c:270, pcutil.h:38).                              *)
ASSUME UpdateAssumption ==
  /\ Updater \in Threads
  /\ PageSize \in Nat \ {0}
  /\ IvtPages \subseteq Nat /\ UserPages \subseteq Nat /\ BootPages \subseteq Nat
  /\ IsFiniteSet(IvtPages \cup UserPages) /\ IvtPages # {}
  /\ (IvtPages \cup UserPages) \cap BootPages = {}
  /\ \A f \in Files : f \in Seq(Record)
  /\ UpdateCommands \subseteq Commands

VARIABLES
  file,        (* the file to load                                           *)
  job,         (* the process: its option and how far it is                  *)
  script,      (* the boot script                                            *)
  controller,  (* what the controller runs: "app" or "boot"                  *)
  flash,       (* its flash memory: the record a cell holds                  *)
  processes,   (* so far                                                     *)
  fooled       (* history: the last process that took the late answer to an  *)
               (* erase or a block of an earlier one for its own, or 0       *)

updateVars == <<file, job, script, controller, flash, processes, fooled>>

Pages == IvtPages \cup UserPages \cup BootPages
Cells(pages) == UNION {page * PageSize .. page * PageSize + PageSize - 1 : page \in pages}

(* In whole pages; the code passes over a record that starts at the very   *)
(* last byte.                                                              *)
Flashable(address) == address \in Cells(IvtPages \cup UserPages)

EraseOrder == LET pages == IvtPages \cup UserPages
              IN [i \in 1 .. Cardinality(pages) |->
                   CHOOSE page \in pages : Cardinality({q \in pages : q < page}) = i - 1]

-----------------------------------------------------------------------------
(* The hex file. *)

(* Records that only set the upper half of the address are passed over.    *)
RecordAt(i) ==
  IF \E j \in i .. Len(file) : file[j].type # "extend"
  THEN CHOOSE j \in i .. Len(file) :
         file[j].type # "extend" /\ \A k \in i .. j - 1 : file[k].type = "extend"
  ELSE 0

addressHi(i) ==
  LET before == {j \in 1 .. i - 1 : file[j].type = "extend"}
  IN IF before = {} THEN 0
     ELSE file[CHOOSE j \in before : \A k \in before : k <= j].base

Address(i) == addressHi(i) + file[i].address

(* A line that is no record, one of an unknown type and the end of the     *)
(* file without an end record all stop the reader.                         *)
IntelHexReadLine(i) ==
  LET j == RecordAt(i)
  IN IF j # 0 /\ file[j].type \in {"data", "eof"}
     THEN [ok |-> TRUE, at |-> j, length |-> IF file[j].type = "data" THEN file[j].length ELSE 0]
     ELSE [ok |-> FALSE, at |-> j, length |-> 0]

(* The next record to program at or after record i, 0 when the loop ends.  *)
Skipped(i) ==
  LET line == IntelHexReadLine(i)
  IN line.ok /\ line.length > 0 /\ ~Flashable(Address(line.at))

Lines == {i \in 1 .. Len(file) : IntelHexReadLine(i).at = i}

NextData(i) ==
  LET stops == {j \in Lines : j >= i /\ ~Skipped(j)}
      j     == CHOOSE s \in stops : \A k \in stops : s <= k
  IN IF stops = {} \/ IntelHexReadLine(j).length = 0 THEN 0 ELSE j

-----------------------------------------------------------------------------
(* The controller, external. *)

CellsOf(i) == Address(i) .. Address(i) + file[i].length - 1

Page(address) == address \div PageSize

Reset(cmd) ==
  CASE cmd.op = "JUMP_TO_BOOTLOADER" -> "boot"
    [] cmd.op = "JUMP_TO_PGM" -> "app"
    [] OTHER -> controller

(* Flash is programmed cell by cell; a block is filled up with ones, which *)
(* change nothing.                                                         *)
Written(cmd) ==
  CASE cmd.op = "ERASE_PAGE" -> [a \in DOMAIN flash |-> IF Page(a) = cmd.arg THEN 0 ELSE flash[a]]
    [] cmd.op = "WRITE_DATA" ->
         [a \in DOMAIN flash |->
            IF Page(a) = cmd.arg.page /\ a \in CellsOf(cmd.arg.record) /\ flash[a] = 0
            THEN cmd.arg.record ELSE flash[a]]
    [] OTHER -> flash

(* The program does not know the commands of the bootloader.               *)
Obeys(cmd) ==
  \/ cmd.op \in {"IS_IN_BOOTLOADER", "JUMP_TO_BOOTLOADER", "GET_APP_VERSION"}
  \/ controller = "boot"

Execute ==
  /\ inbox # <<>>
  /\ LET cmd == Head(inbox).cmd
     IN IF Obeys(cmd)
        THEN /\ Answer(IF cmd.op = "IS_IN_BOOTLOADER" /\ controller = "boot" THEN 1 ELSE 0)
             /\ controller' = Reset(cmd)
             /\ flash' = Written(cmd)
        ELSE /\ inbox' = Tail(inbox)
             /\ quiet' = FALSE
             /\ UNCHANGED <<request, replies, ring, readIndex, writeIndex, unread, overrun,
                            last, count, losses, controller, flash>>
  /\ UNCHANGED <<file, job, script, processes, fooled>>

-----------------------------------------------------------------------------
(* The process. *)

NoJob == [pc |-> "none"]

UpdateInit ==
  /\ file \in Files
  /\ job = NoJob
  /\ script = "start"
  /\ controller \in {"app", "boot"}
  /\ flash = [a \in Cells(Pages) |-> -1]
  /\ processes = 0
  /\ fooled = 0

(* main: the serial line is opened, the receive thread starts with an      *)
(* empty ring; answers that came while nobody had the line open are gone.  *)
Launch(option) ==
  /\ job.pc \in {"none", "exit"}
  /\ processes < MaxProcesses
  /\ processes' = processes + 1
  /\ job' = [pc |-> "ask", option |-> option, line |-> 1, ok |-> FALSE]
  /\ readIndex' = 0 /\ writeIndex' = 0
  /\ ring' = [s \in Slot |-> NoReply]
  /\ unread' = <<>>
  /\ \E k \in 0 .. Len(replies) : replies' = SubSeq(replies, k + 1, Len(replies))
  /\ UNCHANGED <<request, inbox, overrun, quiet, last, count, losses, file, controller, flash, fooled>>

(* The option -u given by hand, as often as one likes.                     *)
UpdateByHand ==
  /\ script \in {"start", "over"}
  /\ Launch("-u")
  /\ script' = "over"

(* The script goes on to the version when the controller runs its program, *)
(* and to the update when that version is older.                           *)
ScriptMode ==
  /\ script = "start"
  /\ Launch("-i")
  /\ script' = "mode"

ScriptVersion ==
  /\ script = "mode"
  /\ job.pc = "exit"
  /\ IF job.ok /\ job.value = 0
     THEN Launch("-v") /\ script' = "version"
     ELSE script' = "over" /\ UNCHANGED <<linkVars, file, job, controller, flash, processes, fooled>>

(* Without an answer the version is empty, and the comparison fails, which *)
(* does not stop the script.                                               *)
ScriptUpdate ==
  /\ script = "version"
  /\ job.pc = "exit"
  /\ Launch("-u")
  /\ script' = "over"

ScriptUpToDate ==
  /\ script = "version"
  /\ job.pc = "exit"
  /\ job.ok
  /\ script' = "over"
  /\ UNCHANGED <<linkVars, file, job, controller, flash, processes, fooled>>

(* The command a process sends at each place.                              *)
Command ==
  CASE job.pc = "ask" /\ job.option = "-v" -> [op |-> "GET_APP_VERSION", arg |-> 0]
    [] job.pc = "ask" /\ job.option # "-v" -> [op |-> "IS_IN_BOOTLOADER", arg |-> 0]
    [] job.pc = "jump"    -> [op |-> "JUMP_TO_BOOTLOADER", arg |-> 0]
    [] job.pc = "erase"   -> [op |-> "ERASE_PAGE", arg |-> EraseOrder[job.line]]
    [] job.pc = "program" -> [op |-> "WRITE_DATA", arg |-> [record |-> job.line, page |-> Page(Address(job.line))]]
    [] job.pc = "second"  -> [op |-> "WRITE_DATA", arg |-> [record |-> job.line, page |-> Page(Address(job.line)) + 1]]
    [] job.pc = "run"     -> [op |-> "JUMP_TO_PGM", arg |-> 0]

Ask ==
  /\ job.pc \notin {"none", "exit"}
  /\ count < MaxAsked
  /\ Transmit(Updater, Command)
  /\ UNCHANGED updateVars

Exit(ok) == [pc |-> "exit", ok |-> ok, option |-> job.option, line |-> job.line,
             value |-> request[Updater].value]

Goto(pc, line) == [job EXCEPT !.pc = pc, !.line = line]

(* Where the loop over the file goes for the records from i on.            *)
Program(i) == LET j == NextData(i) IN IF j = 0 THEN Goto("run", i) ELSE Goto("program", j)

(* Bug variant: the part of a record in the next page is forgotten.        *)
ProgrammedOnePage == Program(job.line + 1)

Programmed ==
  IF job.pc = "program" /\ Page(Address(job.line)) # Page(Address(job.line) + file[job.line].length - 1)
  THEN Goto("second", job.line)
  ELSE Program(job.line + 1)

(* Bug variant: the answer to a block of data is not looked at.            *)
updateFirmwareUnchecked ==
  IF ~request[Updater].ok /\ job.pc \notin {"run", "program", "second"} THEN Exit(FALSE)
  ELSE CASE job.pc = "ask" -> IF request[Updater].value = 1 THEN Goto("erase", 1) ELSE Goto("jump", 1)
         [] job.pc = "jump" -> Goto("erase", 1)
         [] job.pc = "erase" -> IF job.line < Len(EraseOrder) THEN Goto("erase", job.line + 1) ELSE Program(1)
         [] job.pc \in {"program", "second"} -> Programmed
         [] job.pc = "run" -> Exit(TRUE)

(* updateFirmware after each answer.  The command that starts the program  *)
(* may fail.                                                               *)
updateFirmware ==
  IF ~request[Updater].ok /\ job.pc # "run" THEN Exit(FALSE)
  ELSE CASE job.pc = "ask" -> IF request[Updater].value = 1 THEN Goto("erase", 1) ELSE Goto("jump", 1)
         [] job.pc = "jump" -> Goto("erase", 1)
         [] job.pc = "erase" -> IF job.line < Len(EraseOrder) THEN Goto("erase", job.line + 1) ELSE Program(1)
         [] job.pc \in {"program", "second"} -> Programmed
         [] job.pc = "run" -> Exit(TRUE)

Fooled ==
  /\ request[Updater].ok /\ request[Updater].from # request[Updater].id
  /\ request[Updater].cmd.op \in {"ERASE_PAGE", "WRITE_DATA"}

Continue ==
  /\ request[Updater].pc = "answered"
  /\ request' = [request EXCEPT ![Updater] = Idle]
  /\ job' = IF job.option = "-u" THEN updateFirmware ELSE Exit(request[Updater].ok)
  /\ fooled' = IF Fooled THEN processes ELSE fooled
  /\ UNCHANGED <<inbox, replies, ring, readIndex, writeIndex, unread, overrun, quiet, last, count, losses,
                 file, script, controller, flash, processes>>

UpdateNext ==
  \/ UpdateByHand \/ ScriptMode \/ ScriptVersion \/ ScriptUpdate \/ ScriptUpToDate
  \/ Ask \/ Continue \/ Execute
  \/ (Thread(Updater) \/ AcceptPacket) /\ UNCHANGED updateVars

-----------------------------------------------------------------------------
(* Properties. *)

DataRecords == {i \in 1 .. Len(file) : file[i].type = "data"}

(* Every line can be read, the last is the end record, no record is empty  *)
(* (which would end the loop), every record is wholly inside the memory to *)
(* load or wholly outside, and no two speak of one cell.                   *)
WellFormed ==
  /\ \A i \in 1 .. Len(file) : file[i].type \in {"data", "extend", "eof"}
  /\ \A i \in 1 .. Len(file) : file[i].type = "eof" <=> i = Len(file)
  /\ \A i \in DataRecords : file[i].length > 0
  /\ \A i \in DataRecords : \A a \in CellsOf(i) : Flashable(a) <=> Flashable(Address(i))
  /\ \A i, j \in DataRecords : i # j => CellsOf(i) \cap CellsOf(j) = {}

(* What the file says of a cell.                                           *)
Image(a) ==
  LET records == {i \in DataRecords : a \in CellsOf(i)}
  IN IF records = {} \/ ~Flashable(a) THEN 0 ELSE CHOOSE i \in records : TRUE

FlashIsImage == \A a \in Cells(IvtPages \cup UserPages) : flash[a] = Image(a)
FlashIsOld   == \A a \in Cells(Pages) : flash[a] = -1

(* An update that reports success has put the whole file into the flash    *)
(* memory, whatever earlier attempts left behind: their commands may still *)
(* be carried out, and their late answers mislead it, as long as it takes  *)
(* none for the answer to an erase or a block of its own.  The code cannot *)
(* tell such an answer (comms.c:264-373, 397-429).                         *)
SuccessMeansLoaded ==
  (job.pc = "exit" /\ job.option = "-u" /\ job.ok /\ fooled # processes /\ WellFormed) => FlashIsImage

(* The bootloader is never overwritten, and the controller is never told   *)
(* to run a program that is loaded in part: an update cut short leaves it  *)
(* in its bootloader (comms.c:276-371).  Again unless an answer to an      *)
(* earlier attempt stood in for one that was lost.                         *)
NeverRunsAPart ==
  /\ \A a \in Cells(BootPages) : flash[a] = -1
  /\ controller = "app" /\ fooled = 0 /\ WellFormed => FlashIsOld \/ FlashIsImage

(* An update that reports success has read the file to its end record.     *)
(* The comment of updateFirmware: "Returns - true if successful, false     *)
(* otherwise" (comms.c:268).                                               *)
SuccessMeansWholeFile ==
  (job.pc = "exit" /\ job.option = "-u" /\ job.ok) => file[Len(file)].type = "eof"
                   /\ \A i \in 1 .. Len(file) : file[i].type # "bad"
=============================================================================
