# Formal model of chronos-cli

Chronos is a high-speed camera. This repository holds the programs that run on
its ARM core beside the FPGA: `cam-pipeline`, which displays, plays back and
saves video, and a few smaller daemons and tools. This directory holds TLA+
models of the programs' control logic, TLC configurations that check them on
small instances, and TLAPS proofs of what matters most for every instance.

Paths below are relative to `src/` of the repository.

## 1. The system

### cam-pipeline (`pipeline/`, `lib/segment.c`)

The FPGA records frames into a ring of video memory without the processor's
help. `cam-pipeline` learns from a FIFO which blocks were recorded, keeps a list
of them, and drives the FPGA's display port, whose output a GStreamer pipeline
turns into an LCD picture, an HDMI signal, an RTSP stream or a file. It has
these threads:

| thread | code | what it does |
|---|---|---|
| main | `cam-pipeline.c` `main` | builds a GStreamer pipeline for a mode, sleeps on the signal pipe while it runs, tears it down, starts over |
| GLib | `cam_bus_watch`, `dbus-video.c`, `dbus-params.c` | messages of the GStreamer bus, D-Bus methods |
| playback | `playback.c` `playback_thread` | FIFO, frame-sync edges, command pipe |
| RTSP | `rtsp-server.c` | its own select loop |
| GStreamer | external | streaming threads |
| POSIX signals | `handle_sighup`, `handle_sigint`, `playback_signal` | write characters or commands to a pipe |

They share one `struct pipeline_state`. Only the segment list has a mutex, and
not every access takes it.

| component | state | operations | interacts by | what is hard | what makes it correct |
|---|---|---|---|---|---|
| Segments (`lib/segment.c`) | linked list of blocks, totals | add with eviction, delete, flush, lookup | called by playback, walked by a D-Bus getter, used by `cam-recover` | laps of the ring, blocks of different size, roll-over, eviction from the head only | disjoint segments, nothing listed that is overwritten, frame numbers in recording order |
| Playback engine (`playback.c`) | playstate, position, range, rate, preroll, buffer level, display registers | 5 commands and seeks, fsync by state, 3 signals, pause | command pipe from all threads, play fields stored without a lock | render and edge feed each other, read-modify-write races, flow control, lost edges | never stops by itself, drops no frame of a save, stays in its range |
| Main loop (`cam-pipeline.c`) | args, runmode, pipeline, signal pipe | start, run, tear down in pause, live, play, save mode | signal pipe, bus watch, `args.mode` written by D-Bus | restart racing start and teardown, messages of an old pipeline, failures | never sleeps for ever, saves end and are not repeated, ends on SIGINT |
| Video D-Bus service (`dbus-video.c`) | deferred signals, overlay | playback, livedisplay, recordfile, liverecord, pause, stop, flush, reset, set, get | stores args, commands playback, restarts main | tests and stores without a lock | accepted requests take effect, refused ones do not |
| Parameters (`dbus-params.c`) | table over `pipeline_state` | get, set, describe, save, load, notify | stores into fields other threads read | type conversion, partial failure of a set | what is saved is loaded again, notifications follow changes |
| RTSP server | connections, one session | setup, play, pause, teardown, timeout | hook that adds a stream host to the pipeline | a second client, expiry, partial requests | one consistent session, timeouts happen |
| H.264 and live recording (`h264.c`) | output descriptors | build, check size, errors | restarts main | full disk, failed element | file closed once |
| Outputs (`lcd.c`, `hdmi.c`, `overlay.c`, `screencap.c`, `raw.c`, `dng.c`), audio, GStreamer elements | graph | build | main | formats | data, hardly any control |

### Other programs

| component | state | operations | what is hard | what makes it correct |
|---|---|---|---|---|
| Power controller utility (`pcUtil/`) | receive state machine, ring of received packets, client threads | request and reply on a serial line, firmware update, socket daemon | late replies, full ring, threads writing at once without a lock, update cut short | an answer belongs to its request; no half of a program is ever run |
| SCGI gateway (`scgi/`) | connections, subscribers | parse, call D-Bus, respond, events | asynchronous read and write on one object, slow subscribers | every connection is destroyed once, answers are sent whole |
| FPGA loader (`cam-loader.c`, `lib/fpga-loader.c`) | the FPGA's configuration port | program and verify | failures and kills between two transfers | success means that the FPGA runs the image |
| Video recovery (`cam-recover.c`) | segment list, directory | dump memory to files | recording meanwhile, a table that was lapped, an old directory | all frames, once, in order |
| Frame files (`pipeline/dng.c`, `raw.c`, `lib/tiff.c`) | directory, file number | make the directory, write a file per buffer | refusals half way, names in use | one save per directory, headers that can be read |
| Image sensor (`lib/lux1310-sensor.c`) | registers | resolution, period, exposure, gain | rounding between three clocks, calls in any order | the programmed timing can be kept |
| JSON and D-Bus (`lib/dbus-json.c`, `client/cam-json.c`) | a call | print, parse, call | nesting, number types, errors | what was sent comes out |
| Firmware logger (`fwlogger/`) | shared ring of a co-processor | read, resynchronise | reader behind writer | no record twice |
| EDID, EEPROM, register dump | none | parsing, printing | numeric edges | values in range |

`PROJECT.json` lists every component with its sources and status, and under
`hazards` each place where the code could go wrong in a way a test would hardly
reach, with the property that would catch it or the reason why there is none.

## 2. Modules

| module | models |
|---|---|
| `Recording` | what the list promises its readers: a log of takes of bounded capacity, without addresses |
| `Segments` | the operators of `lib/segment.c`: inclusion, overlap, length, offset, numbering, lookup, eviction |
| `SegmentRing` | the list together with the sequencer that records, the playback thread that drains and flushes, and the D-Bus getter that walks |
| `Segments_proofs` | lemmas on these operators that hold of every list, whoever builds it |
| `SegmentRing_proofs` | listed segments are disjoint, their frames are in memory, play in order and are walked consistently; eviction is never needless; the list is a `Recording` |
| `Playback` | the playback engine with everything that steers it |
| `MCPlayback` | values for the model checking of `Playback` |
| `PlaybackLoss` | `Playback` when a frame-sync edge can get lost |
| `Playback_proofs` | its type invariant, that the engine never starves, and that a save drops no frame |
| `Pipeline` | the main loop, the bus watch, the D-Bus handlers' effect on the mode, signals and shutdown |
| `Pipeline_proofs` | its type invariant, that the main loop is always woken, and that no save is started unasked |
| `PmicFrame` | the bytes on the line to the power controller: frames, CRC, receive state machine, several writers |
| `PmicLink` | request and reply: threads, time-outs, the ring of receive buffers, the controller |
| `PmicDaemon` | extends `PmicLink` with the socket daemon and its clients |
| `PmicUpdate` | extends `PmicLink` with the firmware update, the hex file, the flash memory and the boot script |
| `Pmic_proofs` | frames that have the line to themselves arrive; the ring is a queue, answers keep their order, and belong to their question on a quiet line; an update loads its file and runs no part of it; the types of all of these |
| `MCPmic` | the model checking of these |
| `RtspSession` | the one session of the RTSP server, its hook, and the main thread that builds and releases the sink |
| `RtspServer` | extends `RtspSession` with connections, the receive buffer, parsing and the methods |
| `Rtsp_proofs` | the session's type invariant, that the sink streams to whom the session says, whoever asks for what, and that a client that waits is answered as it asked |
| `Scgi` | the gateway from the web to D-Bus: connections, routes, calls, event streams |
| `ParamStore` | the parameter table with its file, and the focus aids in the display's control register |
| `SensorTiming` | the timing registers of the LUX1310 and the constraints a caller is told |
| `FpgaLoader` | `cam-loader`: the FPGA's configuration over SPI, memory controller, reset |
| `Programs_proofs` | these four: every frame that is programmed can be kept, a success of the loader means a running FPGA, the focus aids follow the parameters, a clean configuration is on file; no connection of the gateway is forgotten, and what is sent arrives whole and in order |
| `Tiff` | operators: the layout of a TIFF header, and what a reader needs of it |
| `FrameFiles` | saves that write a file per frame, or raw files |
| `Recover` | `cam-recover`, with the list of `Segments` and the headers of `Tiff` |
| `Files_proofs` | every header can be read, the image files of a directory are the frames of one save, and recovered frames come whole and in order |
| `DbusJson` | printing and reading of values, and the client `cam-json` |
| `MCPrograms` | the model checking of the programs from `RtspSession` on |

Operators named in a comment as *bug variant* are plausible mistakes in the
definition that follows them. No specification uses them; each is known to
violate the property it is listed with under `mutants` in `PROJECT.json`.

### Segments and SegmentRing

Addresses are counted in frames, because every address the sequencer reports is
a whole number of frames after `rec_start`; each division of the code is then
exact. The doubly linked list is a sequence. `segno`, `frameno` and the totals
are recomputed by `video_seglist_update` on every change, so they are functions
of the list, not variables. `Evicts` states which number `k` of segments the
eviction loop frees: the first `k` overlap the new segment and the next does not.

`ram` stamps every frame with its number in recording order, so that properties
can tell whether a listed frame is still the one that was listed. The sequencer
is external: a block of any size starts after the last address used, is filled
`m` frames long, and laps itself when `m` exceeds its size. `NextSegment` ends a
walk at a freed segment; the code follows a dangling pointer there, which is what
`LockCoversList` is about.

`Recording` is the abstract specification. A listed segment stands for the take
`hi - nframes + 1 .. hi` (`TakeOf`); under this mapping `SegmentRing` implements
`Recording` (`ImplementsRecording`): comparing addresses at the head of the list
evicts exactly as many takes as no longer fit into `RingSize` frames, and takes
stay in the order they were shot. `PlaybackInOrder` ties the takes to memory:
the address looked up for a frame number holds the frame its take says.

Actions and code: `DrainBegin`, `playback_region_add`, `DrainEnd` are the locked
part of `playback_thread`'s loop; `Command` and `video_segment_delete` the flush
after it; `WalkBegin`, `WalkStep`, `WalkEnd` are `cam_video_segments_getter`.

### Playback

One variable per group of fields. `thread` holds the program counter and the
locals of `playback_thread`; a step ends where another thread can run in between
with a visible effect. A seek is three steps: `ApplySeek` changes the state,
`SeekLoad` reads position and range and may write the command for the return to
live display, `SeekStore` stores the position. `playback_fsync` is one action
per playstate; the wait for buffers is an action that is not enabled until the
loop would end. Each D-Bus handler that stores several fields is split the same
way. `total` stands for the segment list, which `SegmentRing` models.

What is abstracted: the timing registers, the frame-rate estimate, `printf`, and
the FPGA address, for which the frame number stands. `display.sync` is a readout
in progress, `display.irq` the edge of the frame-sync GPIO.

The D-Bus `set` of a play field is one action that may store any of position
(-1, live display, included), rate, start and length, in any state: the code
checks nothing.

### Pipeline

`main.pc` is the place in `main`'s loop: `copy` (memcpy of the arguments),
`pause`, `home` (the mode to return to after a save), `launch`, `start` (the wait
for PLAYING), `run` (the read of the signal pipe), `ready` and `null` (teardown),
`next`. `gst` is the pipeline of GStreamer, external: it posts messages to `bus`
and changes state, also between `start` and `ready`. The bus watch and the D-Bus
handlers run on one thread, so a handler in progress (`caller`) keeps messages
waiting. `gst.told` and `gst.granted` are history variables. "save" stands for
all seven file formats, which differ in the graph only.

`Playback` and `Pipeline` overlap on purpose: each has the other's side as far as
it matters (`Pipeline.Command` is the playback thread; `Playback.StartPipeline`,
`SourcePlaying`, `EndOfStream` and `Teardown` are main and its bus watch).

### PmicFrame, PmicLink, PmicDaemon, PmicUpdate

The line is modelled at two levels. `PmicFrame` has the bytes: `Send` begins a
frame, `PutByte` is one byte of a writer, and as several threads write without a
lock, the bytes of their frames mix; the CRC is the real one, with a table of
remainders, and `Xor` is defined by division, because the module is proved about.
`HeardWasSent` is what `PmicLink` relies on: a frame that meets another one, or
loses a byte, is lost, and does not turn into a different packet. Checksums have
16 bits, so this cannot hold of all packets; it is checked of those in the run.
In `PmicLink` a frame is therefore one message, which is lost at will when it was
`mixed` or a loss is left. `Take` is `rxDataReceive` and the comparison of the
command byte; the time of five seconds may end in any state (`TimeOut`). `id`,
`unread`, `overrun`, `quiet` and `last` are history: they number the questions so
that properties can tell whose an answer is.

In `PmicDaemon` each client of the socket has a thread that sends commands;
a second of silence is a request for battery data like any other. In
`PmicUpdate` a process (`job`) starts with an empty ring, while answers to its
predecessor may still be on the line. Addresses count cells, a page has
`PageSize` of them, and a cell of `flash` holds the record that was written
there, -1 for the old content and 0 for an erased cell. Hex files are sequences
of records; text and checksums of a line are abstracted to whether the line can
be read. `WellFormed` names the files about which the update promises anything:
readable lines with one end record, no data record that is empty (which ends the
loop as the end record does) or lies across the border of the memory to load, and
no two records for one cell.

An answer carries the command's byte and nothing that tells one erase or block
from another (`comms.c:397-429`). When an update is given up and tried again, the
late answer to a block of the first attempt passes for the answer to a block of
the second that was lost or is still waiting. `fooled` remembers the last attempt
to which this happened. Without it both properties fail: with four processes, one
page and one record, answers to given-up attempts let the last update report a
success while its own block is still under way, and with one frame lost as well
the controller runs a program with that block missing. `SuccessMeansLoaded` and
`NeverRunsAPart` say that this is the only way.

### RtspSession and RtspServer

There is no lock between the server's thread and the main thread. `run` is the
server's thread inside `rtsp_server_run_hook`, where the hook is tested, loaded
again and called; `main` is the main thread between two pipelines; every step is
one access to a shared field. `sink` counts how often each host was added to the
`multiudpsink`. `raced` remembers that the session changed while the hook was
being set: then the pipeline can show a session that is gone until the next
change, which is a defect of the code, and `StreamFollowsSession` says that it
is the only one. `SelectFails` is the loop's end after a negative time-out
(`rtsp-server.c:460`), `died` a crash: the hook cleared between its test and its
call, a sink that was released, a body that was not received, a range of one
port.

`RtspServer` keeps the receive buffer line by line. The code neither resets the
length nor the offset after a request, and moves the rest over lines that were
cut up by terminators while the connection's pointers still refer to them; all
of this is in `Answered`, `MethodOf` and `SidOf`, by the flag `whole`. A buffer
that is full when the connection becomes ready is answered with 413 before
anything is received or parsed (`rtsp-server.c:415-419`).

### Scgi, ParamStore

`Scgi` counts data in units and names the units of a response and of each event,
so that a property can compare what arrived with what was meant. A connection
has at most one operation under way; `DataReady` and `SendDone` are the
callbacks with all they do. Paths are sequences of characters since routes are
regular expressions that are searched for anywhere in the path. They are compiled
without regard to case (`scgi.c:507`); paths and routes of the model are in lower
case.

`ParamStore` keeps one parameter of every kind. A call sets any number of them
(`dbus-video.c:157`): an element of `Inputs` is the set of name and value pairs of
one call. `cam_video_configure` is there for its write to the control register,
which puts back the aids it read (`dbus-video.c:276-279`). Losing power (and restarting)
may happen at any time; opening the file may fail. The setters of the focus aids
read, change and write the control register of the display in steps, against the
playback thread that changes the same register; a set that overlaps such a
change is `tangled`.

### SensorTiming, FpgaLoader, Frame files, Recover, DbusJson

`SensorTiming` takes requests in nanoseconds like the code; the caller is
external, as no program of the repository uses this part. `FpgaLoader` lets
every transfer fail, with or without an effect on the device, chunks be spoilt,
and the program be killed between two steps.

In `FrameFiles` a path is the sequence of its segments, "." and ".." among them,
which `Resolved` follows; the file system may refuse any directory of it, and any
file. A file is one write of the header and the frame: if it is cut short, some
number of bytes of the header arrived (`Cuts`) and not all of the frame, and what
a reader then finds of the header is `HeaderOf`. The probes look at no result of a
write, so such files stay among the others: `FilesAreFrames` promises a readable
header and the n-th buffer of each file whose own write did not fail, and of the
others only that they have no other buffer's frame. A raw file (`raws`) is a
sequence of buffers, appended by each probe; what a failed write leaves of one is 0
or nothing. `troubles` remembers which writes failed.

In `Recover` the table is read entry by entry (`LoadEntry`), as the loop at
`cam-recover.c:373` copies them, while the camera may go on recording. One block
that it records between the first look at the table and the end makes the recovery
`stale`, and the property is about the others. A readout may come late. A file of which a
write fails after it was opened (`cam-recover.c:292-305`) is `Cut`: it is empty, has
a header only, or part of its frame. An entry of the table that was never used is
all zeros. `DbusJson` starts
from the tokens of a text (the tokenizer is a vendored library) and keeps a
number's value in hundredths, which is what tells the number formats apart.

### Why two MC modules for several programs

`MCPmic` and `MCPrograms` each check programs that share no state: a variable
tells which one a behaviour is of, and the others stand still. This is the same
as checking them one by one; each property speaks of the variables of one
program, which keep their initial values in the behaviours of the others.

## 3. Runs

| run | question | bounds |
|---|---|---|
| `SegmentRing` | Is the list right? | ring of 4 frames, 8 frames recorded (two turns), blocks of every size, laps of up to one block, 1 flush |
| `SegmentLock` | Does the mutex protect the walk? No | the same with 4 frames |
| `Playback` | Is the engine alive, are saves complete, does playback settle? | 2 frames, start at frame 1, loops of 0 and 1 frames, rates -1 and 3 at 2 frames per second, seeks of -2 and 1, pipe of 2 commands, 3 buffers, watchdog of 1, 4 calls |
| `PlaybackSeek` | Does a seek stay in its loop? No | loop of one frame |
| `PlaybackLoss` | Does the watchdog retry? No | 2 calls, watchdog of 2 |
| `Pipeline` | Does the main loop always go on, do saves and the program end? | 2 frames per save, 2 calls or signals and one SIGINT, 1 fault, 2 queued commands |
| `PipelineSave` | Is a save complete? No | as `Pipeline`, no faults |
| `PipelineRestart` | Does it settle after a fault? No | as `Pipeline` |
| `Pmic` | Do requests get their own answers, do they end, and does an update load the file and never run a part of it? | two writers, 3 frames, 1 lost byte; two clients, 2 requests, a ring of 2, 2 losses; 4 hex files, 4 pages of 2 cells, 3 processes, 16 commands |
| `FirmwareUpdate` | Is an update that reports success complete? No | as `Pmic` |
| `Programs` | Do the gateway, the RTSP server, the parameters, the sensor, the loader, the saved files, the recovery and the JSON client keep their promises? | see below |
| `Routing` | Does a web request call the method it names? No | as `Programs` |

Why these bounds are enough to be of interest. A ring of four holds up to four
segments, so a new block can evict none, some or all of them, and eight frames
make two turns, the second over segments of another size; every branch of the
offset computation (full, partial, lapped, wrapped) occurs. Rate 3 at two frames
per second alternates one-frame and two-frame steps, and -1 steps back at every
other edge, so remainders of both signs occur; a pipe of two is full after two
commands, so commands are lost; three buffers are the least for which a level
above 2 exists. Four calls allow a pipeline start (which counts two, like
a parameter written over D-Bus) and two calls around it, or two starts. In `Pipeline`, two calls and a SIGINT are enough for a restart
to meet a start, a run, a teardown and another restart.

In `Pmic`, one packet holds the start byte, so that the receiver can start
in the middle of a frame; a ring of 2 holds one packet, so two answers overrun it
(the code has 4 slots, which four clients fill in the same way); the hex files
have a record that reaches into the next page, an extended address with data
outside of the memory to load, an unreadable line, and no end. Three processes
are the calls of the boot script, and also an update given up and tried again
while the answers to the first are under way. Two losses are what it takes for a
late answer to be taken for a lost one within three processes: with two the
condition on `fooled` is needed, with one it never matters.

In `Programs`:

* gateway: two connections, one of which asks for any of ten pages (a stream of
  events, bodies in parts, too large or malformed, a head that does not fit the
  buffer, parameters that cannot be parsed, no such page, OPTIONS), buffers of 3
  units, 2 events of 2 units, so that a slow subscriber's buffer is full before the
  second;
* session: two hosts, one identifier, two pipelines: a pipeline can be released
  and another one built while the hook runs;
* streams: two connections, three requests of the first and one with a body of
  the second, a buffer of 6 lines, full after two requests;
* parameters: every kind of value, clamped, refused and escaped, calls with one
  and with three of them, 2 sets, 2 changes of the playback state, 1 loss of power
  or failure of the file;
* sensor: full frame, a small one, one that is too wide, periods at the limit and
  beyond each longer wave table, shortest and longest exposure;
* loader: 5 bitstreams, 3 chunks, 2 starts, 2 faults; files: 2 saves of 2 buffers,
  4 formats, serial numbers around the lengths at which a tag moves, four paths
  (in the root, below it, the same by way of "..", and with a slash at the end), 1
  trouble, which may leave nothing of a header, part of its tags, or all of it;
* recovery: region of 3 frames, a table of 2 entries, which 3 blocks lap, 4 frames,
  4 command lines, 1 hitch; JSON: 6 replies, nested, with every type.

`CHECK_DEADLOCK FALSE` is given where the system really stops: after the exit
command, in `Pipeline` when the program has ended, and in the other programs
when they have exited or when a bound is reached.

### Fairness

* `Playback`: the playback thread (as one thread, `ThreadStep`), because the
  scheduler runs it; the steps of a D-Bus call once it has begun; the display's
  readout and the source's capture, because a readout that was started ends. No
  fairness for new calls, signals, the main loop, the encoder or `LiveFrame`.
* `PlaybackLoss` assumes the same; the display may lose edges but need not.
* `Pipeline`: main, the bus watch, the playback thread and the steps of a handler
  that has begun; of GStreamer, that it reaches PLAYING, delivers frames while
  not paused and answers an end of stream, unless a fault comes first. No
  fairness for calls, signals and faults.

* `PmicDaemon` (`DaemonFairness`): each client's thread, including the end of its
  five seconds. None for the controller, the line and the clients.
* `RtspServer` (`RtspFairness`): the hook runs to its end, and each turn of the
  loop serves every connection that is ready. None for clients.
* `Scgi` (`ScgiFairness`): the main loop runs the callback of an operation that
  can complete. None for clients and signals; a client that goes away is told
  apart (`gone`).

### What the violation runs show

* `SegmentLock`: `video_segment_flush` runs after `segmutex` was released
  (`playback.c:675-678`); a getter that holds it stands on a freed segment.
  `pipeline.h:167`: "Lock access to the segment list."
* `PlaybackSeek`: the reverse wrap of `playback_frame_seek` (`playback.c:147-150`)
  lands on `playend`, one past the last frame, when the remainder is 0.
* `PlaybackLoss`: the watchdog reads `manual_sync` (`playback.c:749`), where a
  render writes it; "retrying frame!" retries nothing.
* `PipelineSave`: a SIGHUP character written between two pipelines is read by the
  next; if that is a save, it ends at once.
* `PipelineRestart`: teardown's own state change leaves a 0 in the signal pipe
  after a fault, which ends the next pipeline, whose teardown leaves another.
* `FirmwareUpdate`: the loop over the hex file (`comms.c:319`) ends at the first
  line that cannot be read as it does at the end record, and the update starts
  the program and reports success.
* `Routing`: the route of property groups is the pattern `p$`, searched anywhere
  in the path (`main.c:428`), so `stop` reads properties and is never called.

## 4. Proofs

A theorem holds for every value of the constants under the assumptions named in
the modules: `RegionAssumption` (the region is not empty), `RingAssumption` (the
live buffer lies outside it), `PlaybackAssumption`, `PipelineAssumption`,
`LinkAssumption`, `DaemonAssumption`, `SensorAssumption`, `LoaderAssumption`,
`ParamAssumption`, `ScgiAssumption` and `RtspAssumption` (kinds of the constants; a ring has at
least two slots, a response has headers, a parameter's default can be set),
`FrameAssumption` (a packet has between one byte and the size of the receive
buffer: `comms.c:359-397`, `comms.h:40`), `FilesAssumption` (a serial number has at
most `CAMERA_SERIAL_LENGTH` characters: `pipeline.h`; a cut lies within the header),
`RecoverAssumption` (a block
fits in the region; the region does not begin at address 0, where the zeros of an
unused entry would pass for a block: `cam-recover.c:378-384`),
`UpdateAssumption` (pages of the program and of the bootloader differ, a record
fits into a page: `comms.c:270`, `pcutil.h:38`), `SessionAssumption` (there is a
host). The bounds (`MaxFrames`, `MaxCalls`, `MaxProcesses`, ...) are arbitrary
numbers, so a theorem speaks of behaviours of any length.

* `SegmentRing_proofs`: `TypeCorrect`, `SegmentsDisjoint`. Disjointness is not
  inductive, since it says nothing of where the next block starts. The invariant
  is `TypeOK /\ Ordered(seglist) /\ Chain(fifo, wp, seglist)`. `Ordered`: measured
  from the head of the list, segments follow one another within one turn of the
  ring. `Chain`: each FIFO entry starts where the one before ended, live display
  entries aside, the first where the list ends, and the next block where the last
  entry ends. A new segment that does not overlap the head therefore ends before
  it, and overlaps no other; this is why eviction from the head suffices.
* `SegmentRing_proofs`, memory and the log: `ListedSegmentsIntact`, `PlaysInOrder`,
  `EvictionIsNeeded`, `WalksAreConsistent`, `RefinesRecording`. The sequencer runs ahead of the list,
  so what memory holds is said of the whole line of segments, those listed and
  those still in the FIFO (`LineInv`): each frame of the line has its stamp, or
  lies in a later segment of the line, and then its stamp is later too. Draining
  moves the border and leaves the line alone. From the second half follows that
  no eviction is needless. For the refinement, listed segments are `Adjacent`:
  each starts where the one before ended. Then distances are sums of lengths, and
  an overlap of addresses is the same as a sum that exceeds the ring. `WalkInv`
  keeps what a getter has counted equal to the sum up to where it stands.
* `Playback_proofs`: `TypeCorrect`, `EngineAlive`, `NoFramesDropped`. `Engine`
  strengthens `NeverStarves` to every place of the loop from which the thread goes
  back to poll without rendering, and adds that the thread reads only from a pipe
  that is not empty and that a wait for buffers ends in a render. The type
  invariant needs that a seek leads to a natural number from any integer position
  and any range, which is the lemma `TargetType`. For `NoFrameDropped`, `SaveInv`
  accounts for buffers: what is free covers the frames read out and not yet
  captured and the level of which the thread still thinks (`Buffers`), and at most
  one preroll is on its way, before the save begins (`OnePreroll`). The second is
  what the code does not ensure: a preroll command that an earlier pipeline left
  in the pipe is carried out in the save, and two prerolls count twice.
  `source.late` remembers that a save began with a preroll command waiting; the
  property speaks of all behaviours until then.
* `Pipeline_proofs`: `TypeCorrect`, `MainWakes`, `NoSaveUnasked`. `Awake` extends
  `EndIsComing` to the wait for PLAYING, since a pipeline may end before main
  comes to read. `Promised` says that accepted saves not started yet are at least
  as many as the copies of "save" in `args.mode` and in main's local copy.
* `Pmic_proofs`, the bytes: `AloneArrives`, by `FrameInv`. As long as no frame met
  another and no byte was lost, the line is `AtRest`, where what was heard is what
  was sent, or carries the rest of one frame (`Carrying`): the writer has the bytes
  after the k-th, and the receiver is where k bytes lead (`Received`), with the
  checksum of those bytes. `Checksums` is the recursive function of the code's
  loop; that its value depends on the bytes so far only is what the proof needs,
  not what the polynomial is. Zeros of a length below 256, a start byte inside the
  data and the swapped bytes of the checksum fall out of the cases on k.
* `Pmic_proofs`, all views: `MCPmicTypes`, by `ViewsInv`, which puts the invariants
  of the line, the daemon and the update together. Its first part says that the
  receiver never stores beyond its buffer (`RxOK`), whatever bytes mix or get lost.
* `Pmic_proofs`, requests and answers: `RingQueues`, `AnswersOrdered`, `QuietBelongs`. The
  invariant is `LinkInv`: types, `RingIsQueue`, `Ordered` and `Quiet`. `Ordered`
  follows a question all the way: what is unread is older than what is on the
  line, and that older than what the controller has yet to answer; only so is an
  answer that is taken newer than the last. `Quiet`: a quiet line carries at most
  one question, and says at each place which one. `QuietAnswersBelong` needs
  that there are two slots, so that a single packet never fills the ring.
* `Pmic_proofs`, the update: `SuccessIsLoaded`, `NoPartRuns`, by `UpdateInv`. It
  stands on `LinkInv`: since questions are answered in order, the answer to the
  newest means that no command of an earlier attempt is left to be carried out
  (`NewestAnswered`). That is so from the first erase that was answered on
  (`Begun`), and from then on the memory is known at each place of the update:
  `Ready` before its command is carried out, `Reached` after it. These say which
  pages are erased, and then that cells hold the image as far as the records go
  (`Holds(Sofar(n))`, `Holds(Half(n))` between the two blocks of a record) and
  nothing else. That a file can be read in order, passing over what is not to be
  loaded, are the lemmas `NextIs`, `GoesOn` and `WholeRecord`. `Running` adds that
  a command to run the program is the oldest on the line, behind a whole image.
* `Rtsp_proofs`, the session: `SessionTypes`, `SessionStreams`,
  `RequestsMoveTheStream`. `StreamFollowsSession` speaks of a server at rest.
  `SessionInv` adds what holds while the hook has still to tell the sink (`Told`:
  it shows the session of before the change), that an argument of the hook is
  never of a pipeline to come (`Closures`), and that only a session being torn down
  has another one waiting for it (`Waiting`). It is kept by what anybody may ask
  of the session, and by what the methods ask of it, with the process dying in
  between (`AnswerInv`).
* `Rtsp_proofs`, the connections: `AnswersFitRequests`. `Talk` says where a client
  that waits is: between two requests, being read, being answered or being
  refused. Nothing resets the buffer, so the k-th request begins at line 3k - 2 of
  what was ever received, and this is the place to which the pointers of the
  connection lead. While it is read, lines received and lines on their way are one
  stream in which the request is written (`Written`), and the state says how many
  of its lines were parsed (`ParsedTo`); `RestParsed` carries this over any number
  of lines received at once, and `NothingMoved` says that the move after the answer
  moves nothing, as nothing follows the request. A client that does not wait, or
  that has sent a body, has none of this.
* `Programs_proofs`, the sensor: `SensorKeepsFrames`. `ReadoutFits` compares
  registers that two calls wrote; `SensorInv` says which geometry and wave table
  each of them was computed for (`Sized`, `Timed`). The arithmetic is in the lemmas
  on `RowClocks` and `IntegrationTime`: rounding to rows adds at most half a row.
* `Programs_proofs`, the loader: `LoaderTruthful`. The loader never reads the image
  back; the device tells it only that it took one as whole. `LoaderInv` adds to the
  types what mode each place of the program relies on (`Modes`) and that the image
  in the device is, chunk by chunk, the file's or spoilt (`Copied`): a whole image
  has no spoilt chunk, so it is the file's.
* `Programs_proofs`, the parameters: `AidsAreFollowed`, `CleanIsOnFile`, by
  `ParamInv`. While setters run, the register shows the aids but for those whose
  setters are still to come (`AidsBut`); while the playback thread changes the
  register, it holds the aids it will restore. For the file, `OnFile` allows both
  forms a value can have there, and `LoadsFile` that loading either one yields what
  was stored, since every setter takes again what it once took.
* `Programs_proofs`, the gateway: `GatewayForgetsNone`, `StreamsArriveIntact`.
  `ScgiInv` says of each connection that it reads an incomplete request (`Reading`) or writes an answer,
  no more of it than there is (`Answering`). A write that ends then leaves a rest,
  for which `scgi_send_more` starts the next, or nothing, and the connection moves
  on or ends. It holds whatever the handlers answer and however much of a buffer a
  write takes. `StreamInv` puts what arrived, the buffer and the rest that waits
  together: they are the response, or (`Streamed`) headers and then whole events,
  each later than the one before.
* `Files_proofs`, headers: `HeaderReadable`, of every table of tags that fits, with
  directories inside it. Values are laid out one after another on even offsets,
  each in a room of its own (`RoomsFollow`), those of a directory within a directory
  in the room of the entry that points to it (`ExtentInRoom`). What each format puts
  into its table is small enough (`FrameTagsSmall`, `RecoverTagsSmall`).
* `Files_proofs`, saves: `FilesOfFrames`, by `FilesInv`. A directory that exists is
  never taken for a save, so its image files are the running save's, or there are
  none; the number in a file's name runs with the buffers, also past a file that
  cannot be created. A file has all of its header and its frame, or the write of
  that very buffer failed, and a whole header is readable (`WholeHeader`). A raw file
  is truncated when a save opens it, so it grows by that save's buffers alone, in
  order (`RawGrows`). What is not on file, failed.
* `Files_proofs`, recovery: `RecoveredFrames`, by `RecoverInv`. Its witness is the
  sequence of all blocks ever recorded, of which the program sees only the table.
  `Blocked`: they follow one another in the ring, and a frame of one is in memory or
  lies in a later one. `Tabled`: the table has the last of them, number b at place
  b modulo its size, blocks outside of the region aside. Read from the oldest entry
  on, the list holds after each entry the last of the blocks so far that share no
  memory (`LinkShows`, `EntryShows`), and after the last entry the newest block
  (`AllRead`). A later block that took a frame from a
  listed one would have evicted it, so listed blocks are whole (`ListedWhole`), and
  looked up by number their frames come in the order of recording (`InOrder`).
  `FilesWritten` says that each file holds the frame of its number, came late or
  was cut short, and that none is missing unless something went wrong. Block numbers
  have no width here; in the table they have 24 bits (`fpga.h:330`), whose overflow
  is not modelled.

The provers cannot instantiate the library's induction theorems, which take an
operator as a parameter. Sums over lists and searches in them are nevertheless
proved about, where they are recursive functions or `CHOOSE`: by the least
element of a set of counterexamples (`Least` and `SetInduction` of `Segments_proofs`,
`LeastNumber` and `UpFrom` of `Pmic_proofs` and `Rtsp_proofs`).

Only model-checked:

* all liveness properties, which the prover does not handle under fairness
  (`Settles`, `PositionIsShown`, `SavesEnd`, `DisplayFollowsMode`, `Exits`,
  `RequestEnds`, `RequestServed`, `EveryRequestAnswered`);
* `HeardWasSent` of `PmicFrame`: there are packets for which it is false, since a
  mixture of two frames can have the checksum of a third packet, so it is a fact
  about the packets of the run and not a theorem;
* `ReplyComesThrough` of `DbusJson`, whose values and tokens are nested to any
  depth: printing and parsing are `RECURSIVE` operators, and what they compute goes
  by induction over data, which the prover cannot take.

## 5. Not modelled

* Pixels, image formats and GStreamer graphs: data without control.
* The lifetime of GStreamer objects and of file descriptors. This leaves open:
  the wait for buffers tests `vidsrc` and then uses it (`playback.c:269`); the
  end-of-stream handler uses `state->pipeline` while main may release it
  (`cam-pipeline.c:537`); a descriptor stays in the state after it was closed
  (`h264.c:107`, `dng.c:283`, `raw.c:71`); cleanup destroys `segmutex` after one
  second, held or not (`playback.c:808`).
* Contents of `pipeline_args` other than the mode. Setting `playbackPosition`
  during a save (`dbus-params.c:360`) is in `Playback` (the set of a play field),
  but no property looks at it.
* A seek loads its fields once in `Playback`; the code loads `playlength` for the
  test for zero and again for the modulo (`playback.c:133`).
* Changes of resolution between recordings: the region and the frame size are
  loaded again from the FPGA for each entry of the FIFO (`playback.c:304-306`), and
  are constants of `SegmentRing`.
* A block that is still being recorded: the sequencer is external, and writes a
  block and posts it to the FIFO in one step of `SegmentRing` and `Recover`. The
  index of the newest block and an entry of the table are likewise read in one step
  of `LoadEntry`; recording meanwhile makes the recovery `stale` either way.
* Between the values of one `set` the code displays each aid before it stores the
  next; `ParamStore` stores all values of a call, then displays them one by one.
  Names that differ in case only are not given twice in a call. The pause that
  follows a reset (`dbus-video.c:553`) is any later change of the playback state
  (`Begin`). The geometry that `cam_video_configure` stores is not modelled.
* Spoilt read-backs of the FPGA: faults of `FpgaLoader` hit transfers to the device.
  A loader that reads a wrong status cannot be right about it.
* Gain and offset calibration of the sensor are in `SensorTiming` as steps that
  change its registers, but no property is about their values.
* Timing: `poll` and the ten-second wait time out at any time; the delays of
  100 ms, which only make races less likely, have no effect in the models.
* An update of the controller while the daemon uses the same line; the options of
  `pcUtil` that are one request each.
* Register access, voltages and link calibration of the sensor, the calibration
  that `cam-recover` applies to pixels, descriptions and update signals of
  parameters, the introspection of the D-Bus interface.
* The components with status `not_modelled` in `PROJECT.json`: the firmware
  logger is vendor code for a co-processor and a candidate for later; outputs,
  overlay, audio, GStreamer elements, EEPROMs, the register dump and the scripts
  are device I/O, drawing, tables or printing.

### Seen while modelling

Where these are inside a model, it keeps them as they are in the code; no
property is about them.

* RTSP: the wait for a body adds the offset where it should be taken away
  (`rtsp-server.c:402`); a client port range of one port divides by zero
  (`rtsp-methods.c:117`); OPTIONS offers PAUSE, which gets 405; the time to the
  session's end mixes seconds and nanoseconds (`rtsp-server.c:460`).
* Parameters: the zebra threshold is only written in live display
  (`dbus-params.c:224`); strings in the file are escaped but not unescaped.
* Loader: `fpga_open` frees a pointer it has not set (`fpga-mmap.c:42`); missing
  pins are ignored (`fpga-loader.c:177`).
* Files: `cam_tiff_sink` gives no error text (`dng.c:522`); the probes look at no
  result of a write.
* Recovery: the working directory is recognised by its full name only, so
  `-f -d .` empties it (`cam-recover.c:572-577`); the end of the whole region is
  one past its last frame (`cam-recover.c:559`); block numbers of 24 bits are compared
  with the whole counter (`cam-recover.c:385-386`); the fast readout copies what is in the
  engine's buffer when it is late.
* JSON: an array in a value is parsed as an object (`dbus-json.c:396`) and tokens
  past the last may be read (`:249`); an array of strings is printed as if its
  elements were boxed (`:156`); unsigned numbers are printed as signed (`:114`);
  `cam-json` uses an error that is not set for an empty file (`cam-json.c:218`),
  receives without a time-out (`:307`), and exits 0 after an error reply.
* Sensor: the offset calibration writes two's complement (`lux1310-sensor.c:494`)
  where setting the gain writes sign and magnitude (`:446-448`);
  `lux1310_set_exposure` returns no value.

## 6. Plan

In this order; done unless marked.

1. `Recording`, `Segments`, `SegmentRing` and proofs.
2. `Playback`, `PlaybackLoss` and proofs.
3. `Pipeline` and proofs. To do: an abstract specification of a save (asked,
   running, ended, home) that `Pipeline` implements.
4. `PmicFrame`, `PmicLink`, `PmicDaemon`, `PmicUpdate` and proofs.
5. `Scgi` and proofs.
6. `RtspSession`, `RtspServer` and proofs.
7. `ParamStore` and proofs. To do: the deferred signals of `dbus-video.c`.
8. `SensorTiming` and `FpgaLoader` with proofs (in `Programs_proofs`), `Tiff`, `FrameFiles`, `Recover`,
   `DbusJson`.
9. Proofs that the list is a log of takes (`SegmentRing_proofs`), that a save drops
   no frame, that streams arrive intact, that the parameters are kept, that an
   update loads its file, and that the answers of the RTSP server fit.
10. To do: the reader of the firmware logger; file descriptors of saves; the two
    loads of a seek.
11. Proofs that headers can be read, that files are the frames of one save, that
    recovered frames come in order, and that frames alone on the line arrive.
