# Verification of Simple-Web-integrated-DAQ

TLA+ models of the data acquisition system in `src/`, the TLC configurations that check
them on small instances, and TLAPS proofs of nearly every safety property those runs check, for all
values of the constants.  Paths in this file are short: `daqd.cpp:424` is line 424 of `src/src/control/daqd.cpp`.

## 1. The system

A detector's front-end boards serve frames over TCP.  `daqd` is the daemon: it takes
commands over a ZeroMQ REP socket, runs one acquisition at a time in a thread, writes
the frames into numbered files, inserts a row per closed file into a MySQL run log, and
publishes every frame and its status on ZeroMQ PUB sockets.  `datamon` follows the
frames (over ZeroMQ, or in the files), decodes them and feeds text, ROOT and analysis
sinks.  A FastAPI backend starts the processes, forwards commands and shows the run log.

### Inventory

| Component | State | Operations | Hard behaviour | Right when | Module |
|---|---|---|---|---|---|
| **Acquisition run** `core/daq_runtime.cpp`, `core/blocking_queue.hpp` | atomics `running`, `stop_requested`, `marked_dead`, `alive_worker_count`, `startup_failed` ...; the queue; the writer's locals; files | connect, reconnect, give a device up, read, push; pop, number, publish, rotate, write, log; join and return | one worker per device, a writer and a main thread on separate atomics; lost devices; failing files and inserts | event numbers follow the queue, a clean return lost nothing, files, rows and return code agree, the count of live workers is exact, the run ends when told | `DaqRuntime`, `RunContract` |
| **Control daemon** `control/daqd.cpp` | `state_`, `running_`, `worker_`, `active_cfg_`, published count, startup status | start, stop, pause, resume, shutdown, exit; callbacks of the run | callbacks and commands share a mutex that must not be held over a join; a run may end by itself at any point of a command; waiting with a deadline | one owner of the thread, answers mean what they say, pause and resume continue the numbering, the command thread comes back | `DaqService`, `ControlPlane`, `StartRequest` |
| **Run log** `core/mysql_logger.cpp`, `scripts/init_mysql_log.sql` | table `daq_log`, UNIQUE (run, subrun) | resolve a run number, insert, update a status | any statement may fail; it outlives crashes; it knows only closed files | no key twice; numbers never reused for a file that exists | `DaqService`, `RunLogView` |
| **Device link** `drivers/tcp_device_driver.cpp`, `kc705_tof` front end and validator | socket, partial frame | connect, read, disconnect; feed, reset | streams cut anywhere, hangups, malformed frames | what is handed on are good frames, in order, and all of them, and their words mean what the device put in | `TcpDeviceDriver`, `DeviceStream`, `Kc705Word` |
| **Data link** `publish_data` of `daqd.cpp`, `core/data_frame_header.hpp`, `monitor/zmq_frame_source.cpp` | parts sent and received | send and receive a record of four parts | loss, sends that fail half way, two header versions | a record delivered is one that was published | `DataLink` |
| **File sources** `monitor/frame_source.cpp` | file, position, next event number | next frame, next subrun, next run | files are read while they are written | whole frames, in order, with their numbers | `RunFiles` |
| **Online monitor** `control/datamon.cpp`, `monitor/pipeline.cpp`, `monitor/sink_*.cpp` | sinks, active run, selected analysis | read, decode, consume, finalise, snapshot | any call may fail in the middle of a list | sinks stay in step, analyses are called in the order they expect, plots show one run | `MonitorPipeline`, `MonitorOptions` |
| **Control clients** `control_api/*`, `daqctl.cpp`, `daqmon.cpp` | none between calls | request with a 2 s limit, subscribe | a late answer meets a closed socket; arguments are quoted and split again | the caller knows what happened | `ControlPlane`, `CommandLine` |
| **Run-log summary** `web/app.py` | none: reads the table | one line per run | rows of pauses, rotations and failures are merged | totals and verdict are those of the run | `RunLogView` |
| **Monitor process** `web/app.py` | `_DATAMON_PROC`, `_DATAMON_PID`, state file | start, stop, status, select | requests run concurrently; the backend restarts | one monitor at a time, found again after a restart | `MonitorProcess` |
| **Options and configuration** `core/daq_cli.cpp`, `datamon.cpp`, forms of `web/app.py` | fixed after start | check a form, write arguments, parse them, build the pipeline | one configuration goes through four programs, each with checks of its own | what runs is what was asked for and is shown; nothing that would divide by zero, wait for nothing or end the daemon | `StartRequest`, `MonitorOptions`, `Getopt` |
| **Module registry**, **decoder**, **analysis options** | tables filled before `main` | register, look up, decode, parse | a name registered twice; an analysis for another decoder | both programs that look see the same module | `MonitorOptions`, `Kc705Word` |
| **Rest of the backend** `web/app.py` | configuration, `daqd` child | start `daqd`, forward commands | as above | one child at a time | - |
| **Histograms**, **web pages** | plots | draw | - | - | - |

Interactions: workers to writer through the blocking queue; writer to daemon through
`on_frame_published` (under the daemon's mutex) and to the run log; daemon to run through
the stop word and `std::thread`; daemon to monitor over PUB and through the files;
clients and backend to the daemon over REQ/REP; backend to its children through signals.

`PROJECT.json` lists every component with its status and, under `hazards`, what is hard
to test in the code, line by line, with the properties that watch it.

## 2. Plan

Done, in the order in which a mistake would cost most data:

1. `DaqRuntime`: the run with all its threads; `RunContract`: what a run promises.
2. `DaqService`: the daemon over an abstract run, the run log and the files.
3. `DeviceStream` over `TcpDeviceDriver`: framing and resynchronisation.
4. `RunFiles`, `DataLink`, `MonitorPipeline`: the ways of a frame to the operator.
5. `ControlPlane` with `CommandLine`: clients with their limits against one command thread.
6. `RunLogView`, `MonitorProcess`: what the backend makes of the run log and of processes.
7. `StartRequest`, `MonitorOptions` over `Getopt`, `Kc705Word`: how a configuration and a word
   come through the programs that each look at a part of them.
8. Proofs about the run (`DaqRuntimeProofs`: types, alive count, numbering, files, rows, return code,
   startup verdict, contract) and the daemon (`DaqServiceProofs`: ownership of the thread, its answers, the
   place it derives, pause and resume, files).
9. Proofs about the device's stream (`DeviceStreamProofs`), the online stream (`DataLinkProofs`), the files
   (`RunFilesProofs`), and datamon's sinks and analyses (`MonitorPipelineProofs`).
10. Proofs about what people are told: clients (`ControlPlaneProofs`), pages and the run-log summary
   (`WebBackendProofs`).
11. Proofs about configurations on their way: of a start (`ControlPlaneProofs`), of a monitor
   (`WebBackendProofs`).

Ahead, had one more time:

* `pause` and `resume` with their answers in `ControlPlane`; two operators in
  `MonitorProcess`, with the property weakened to what the code then keeps.
* An abstract specification of the data path from device to sink, implemented by
  `DeviceStream`, `DaqRuntime` and `DataLink` in turn.

## 3. The modules

Three conventions hold everywhere.  A step of a thread ends at its next access to something
shared (an atomic, a queue, a lock, a file, the database, a message).  What may go wrong is
the environment's choice: where one run would have to mix too much, `Init` picks a set of
faults (`faults`), a scene (`scene`), a version or a kind of source, and a behaviour keeps to
it, so that properties can say under which conditions they hold.  Operators named
`Bug...` are variants of the definition that follows them, with a plausible mistake; nothing in
the specifications refers to them, and `PROJECT.json` names the property each one breaks.

### DaqRuntime

`pc[d]` is the place of the worker of device `d` in `run_worker`, `wpc` that of
`run_writer`, `mpc` that of the rest of `RunDaqCore`.

* *Connecting* (`FirstConnect` ... `GiveUp`): the outer loop of `run_worker`, with the
  first connection, the reconnect window (`window[d]`: off, open, over), and the
  degradation that takes a device off `alive_worker_count`.  The separate atomics
  are written in separate actions (`Degrade`, `MarkLost`, `TellLost`; `Revive`, `Rejoin`),
  in the order of the code.  The compare-exchange loop at 126-134 is one action: it
  commits on the value it last read, and no property sees the failed attempts.
  The test that the run is live (line 100) is one step with what a connection then does
  (`Connects`): a worker that passes the test just before a stop connects just before it here.
  That a front end is unknown or has no driver (lines 78 to 95) is left out, as parsing a device
  has already found both.
* *Reading* (`ReadFrame`, `PushFrame`, `ReadFatal`, `ReadRecoverable`, `LinkLost`,
  `WorkerExit`): the inner loop.  A frame is its device and its place in that device's
  stream.
* *Writing* (`MakeOutputDir` ... `WriterFailClose`): pop, open or rotate the subrun file,
  number, publish, write and flush, log; every failure exit of the code is an action or a
  disjunct of one.
* *Ending* (`LeavePoll`, `CloseQueue`, `ReturnCode`) and the *environment*
  (`RequestStop`, `StartupDeadline`, `WindowExpires`).

`accepted`, `published`, `disk` and `run_log` are what leaves the run.  `disk` holds the
records in the files; opening a file removes what it held.

### RunContract

The abstract specification: frames are accepted, stored in that order under their
number, and a run returns `clean` only with everything stored.  `DaqRuntime` implements
it under the mapping in `Contract` (checked as `KeepsContract`, and proved).

### DaqService

The control thread (`ctl`) walks through the critical sections of a command; the
acquisition thread (`thread`) through what of `RunDaqCore` the daemon, the files and the
run log see.  `handle` says whether `worker_` holds a thread: assigning to it or
destroying it then is `std::terminate` (`ctl = "terminated"`).  `CurrentSubrun` and
`EventsInFile` are what the daemon derives from its count of records for the status and for `pause`.  `Crash` kills the process
at any step; files and run log stay.  A write or flush that fails may leave bytes behind: such a file, if it holds
no whole record, is `torn`.  It gets no row (`daq_runtime.cpp:371`), so that its number is given out again and the next
start truncates it (line 389); `Records` are the other files.

### DeviceStream and TcpDeviceDriver

`TcpDeviceDriver` is one socket: connect, `ReadBytes` in raw mode (`ReadOk`, `ReadLost`), disconnect,
and the other end, which sends and closes or resets.  `hup` says whether `poll` reports an orderly
close as `POLLHUP`, as some hosts do.  `DeviceStream` puts it between a device and
the validator: `Feed` cuts frames out of `buffer`, as many as are whole, and the worker's `Read` hands on
what was cut out unless the verdict is fatal.  A frame is four cells, the parts the validator looks
at, and a chunk is shorter than a frame, as 8 bytes are to 12.

`Kc705Word`, which it extends, is the word in a payload: `BuildWord` of the device, the bytes on the
wire, `BoardOf` of the validator and `FrameToEvent` of the decoder, over fields of any size.

### RunFiles

The writer appends frames (in one or two flushes), rotates, pauses, resumes and goes on to another
run, under any number that has no file: `--Run-start` may leave numbers out or go back, which `numbering`
remembers.  It never fails here; what is left by one that does is in `DaqRuntime` and `DaqService`.  The
reader is `LiveRunFileSource` or `FileFrameSource`; each look at the file system is a
step, so that the writer comes in between.  `late` records the frames completed between
the read that came short and the look at the next file.  A stop may be requested at any time (`RequestStop`),
and the source then ends as if there were no more data (`StopEnds`).

### DataLink

`publish_data` sends topic, source, header and payload as four parts (`SendMore`, `SendLast`), each of
which may fail and leave a message open.  The header is modelled as bytes to a small base, so that
field widths, offsets and both versions matter.  `ZmqDataFrameSource` receives part by part.

### MonitorPipeline

`Run` of the pipeline with the sinks in the order `datamon.cpp` builds them, `Consume` and
`Finalise` of each.  `life` keeps for each analysis what it was called with, and `misuse` what it
would not expect (an event without a run, a second initialisation, a call after the end), and `plots`
the runs whose events are in its plots.
A loop over the analyses is one step that stops at the first failing call.

### ControlPlane and CommandLine

`ControlPlane` has `daqctl`'s request with its limit, the daemon's loop that serves one request at a
time and publishes its status in between (`Look`, `Tell`), and `daqmon`.  Time is a count of
ticks.  `start` waits for `Deadline` of them, a number of 32 bits, and then answers that its check timed out, without
another look (`PollStartup`).  A run that is late (`scene.late`) may decide its startup after that: its
`connect()` may block, but it also takes its own deadline after it has looked up its number once more
(`daq_runtime.cpp:500` to 531), and sleeps for `reconnect_ms` and tries to connect again before it tests the
deadline (lines 101, 106 and 175).  A start that asks for help ends the daemon (`AskForHelp`).  `CommandLine` is a pair of functions: `join_args` of `daqctl` and the splitting in `daqd`,
over characters that stand for their classes; `ControlPlane` extends it, as a start travels as such a text.

### StartRequest, MonitorOptions and Getopt

Pure functions, over texts that are sequences of words and separators.  `Getopt` (external) is
`getopt_long` as a fold over the arguments, and `std::stoul` with its wrapping of negative numbers,
scaled to numbers TLC has.  `StartRequest` has the form of the web page with its checks
(`Accepted`, `ValidDevice`), the argument vector made of it (`StartArgs`), what arrives at the
daemon, and `ParseDaqArgs` with `ParseDeviceSpec`; `Wanted` says, with no arguments in between,
what a form asks for.  `MonitorOptions` has the registry (`Registered`, `FindIn`), `datamon`'s
`ParseArgs` and the pipeline `main` builds (`Fits`, `Sinks`), the options of an analysis
(`TrendPoints`), and the backend's choice of decoder and command line (`ChosenDecoder`,
`MonitorArgs`).  `ControlPlane` extends the first and `MonitorProcess` the second.

### RunLogView

One run through its acquisitions: which rows the writer inserts, which one a pause marks, which ones
failures leave, and `Summary`, the line the backend makes of them.  `Read` are the rows the page gets to see:
`_run_mysql_query` strips the output (`app.py:330`), and with it the tab before an empty list of lost devices in the last
line of all, which is the first subrun of the oldest run listed (`Cut`); and a line that does not have nine parts is
passed over (line 1386), which also happens to every line of a run whose comment has a tab, as the query is `--raw`
(line 310).  A comment with a line break, which cuts every line in two, is not modelled.

### MonitorProcess

The handlers of the backend for `datamon`, each step one section under `_DATAMON_LOCK` or one
access outside it; the processes; the state file; and a backend that restarts.  `shown` is the
monitor whose decoder and analyses the pages are told (`_DATAMON_ACTIVE_*`).  A page that asks for the status
looks for the monitor under the lock (`Status`), and reads what is shown without it (`Report`).

## 4. Runs

| Run | Question | Instance |
|---|---|---|
| `runtime_strict` | numbering, order, completeness, rows, return code, contract | 2 devices, 2 frames each, 2 records per file, every fault, a duration, 1 lost connection; devices symmetric |
| `runtime_partial` | alive count and verdicts where the run may go on without a device; a stop or failure ends the run; the startup is decided | 2 devices, 1 frame each, 1 record per file, a subrun offset, 2 lost connections; fairness |
| `runtime_exhausted` | *finding*: "all modules disconnected" said with one connected | 2 devices, 2 lost connections, no data |
| `service_commands` | ownership of the thread, meaning of the answers, numbering over pause and resume, no `std::terminate`, every command is answered | 2 acquisitions, 3 records each, 2 per file; one of the fault sets: all, no database fault and no crash, database only, none |
| `service_crash` | *finding*: a crashed run's file is overwritten | 2 acquisitions of 1 record, crash |
| `stream_frames` | only good frames, in order, all of them, none held back; words survive | 3 frames per connection, 2 connections; honest devices or not, `POLLHUP` on close or not |
| `files_sources` | whole frames with true numbers; what the live source leaves behind; ends | 3 frames, 2 per file, 3 runs in any order, 1 pause, a stop at any time; live source with and without a time limit, or one file |
| `link_stream` | delivered is what was published | 3 records, headers at the limits of their fields, both versions, queue of 2 |
| `pipeline_sinks` | order of calls, ends, success, snapshots, plots, signals | text, ROOT and realtime sinks with 2 analyses, 3 frames of 2 runs, 2 selections, `--max-events 2`; 3 fault sets |
| `control_requests` | answers are true; every lasting state is published; clients come back; arguments survive | 2 clients, 2 requests, patience of 2 ticks against a startup limit of 1; startups in time and a watcher, or neither; up to 2 arguments of 4 characters together; forms with one or two devices and up to one unusual entry; command lines of up to 3 settings |
| `log_totals` | totals, pauses and verdict of the summary | 2 devices, 5 records, 2 per file, resumed at subruns up to 3, every fault; the oldest run listed or another, up to 2 tabs in its comment |
| `monitor_requests` | one monitor, found again, stopped when told, and what it runs is what is shown | an operator, a polling page, a chooser; 3 processes; restarts or selections; up to 2 of 4 analyses, 2 decoders, command lines of up to 3 settings |

*Bounds.*  Every constant named `Max...` caps what the environment does and appears in guards only.
In `runtime_strict` two devices with two frames each give every order in the queue, and two records
per file make a file fill, rotate and be left half full.  With two lost connections in
`runtime_partial` both devices can be down at once, and one can go, return and go again; the
last-one test, the reconnect window and the mark all race there.  Whatever the number of
devices, the alive count is proved (section 5).  Two acquisitions in `service_commands`
are a start and what may follow it: a resume, a second start, a start over a run that has
ended by itself.  Three chunks do not fit two frames, so in
`stream_frames` a chunk ends at every place of a frame.  In `control_requests` a client gives up
before, at, and after the moment the daemon answers; two requests are enough for an answer
that belongs to another one.  Three processes in `monitor_requests` are one found after a restart,
one that replaces it and one more.  Three settings of a command line are an option, one it is in conflict
with, and one that comes in between or again.

*Fairness.*  Each model assumes only that the operating system schedules threads and that
waits with a limit end; nothing is assumed of operators, devices or data.

* `DaqRuntime`: each worker's own progress, the writer, the main thread, and the passing of time
  (`StartupDeadline`, `WindowExpires`).  `ReadBytes`, `connect` and the main loop's sleep have time
  limits.  Not: a successful connection, data, a lost link, a stop request.
* `DaqService`: both threads; and a run that was asked to stop leaves its loop, which is
  part of `StartsAndEnds`, checked in `runtime_partial`.
* `DeviceStream`, `MonitorPipeline`, `MonitorProcess`: the worker, `datamon`'s thread, each handler.
* `RunFiles`: the reader, and that a flush begun reaches the file in full.
* `DataLink`: the source, and that a record begun is sent.
* `ControlPlane`: the daemon's loop, the watcher, the clock, the client's limit; a run asked to
  stop ends; a startup is decided where the scene says so.  Strong fairness for a look at the status that
  finds something to publish: the daemon looks at least once a second, and requests
  can take that place again and again only if their senders time it so.

Deadlock is checked except in `ControlPlane`, `DataLink`, `DeviceStream`, `RunFiles` and `RunLogView`, where a
behaviour ends when the bounds are used up, the source has ended or the process is gone.

Several properties a run checks are conjunctions of named parts, each stated with its comment in
the module: `FilesAndRowsAgree` of the run, `DaemonKnowsItsRun` and `ThreadIsOwned`
of the daemon, `FramingIsRight`, `DeliveredIsTrue`, `SourcesAreComplete`, `LinkKeepsRecords`, `SinksAgree`,
`SummaryAddsUp`, `AnswersAreTrue`, `EveryoneIsTold`, `StartIsFaithful`, `OneKnownMonitor`, `StartsWhatItShows`,
`BackendTellsTrue`.
The type invariant of a module is one of the parts.

Each property, and with few exceptions each of its parts, has a mutant in `PROJECT.json`: a change of
a modelled definition, such as a dropped guard or a missing reset, with which the run fails.

## 5. Proofs

The proofs are in eight modules, one for each part of the system that keeps a state.  Each has an
inductive invariant, `IInv` (`LogInv` for the run log), a conjunction of named parts; TLC has checked every
one of them on the instance of the run before it was proved.  Every invariant and every step property that
the passing runs check is proved; what is left to TLC are the properties about progress, named at the end.

**The run.**  `DaqRuntimeProofs` proves for every set of devices, every number of
frames and every choice of faults (under `ConstantsAssumption`, which says no more than
that the constants have their types, the set of devices is finite and not empty, and a
file holds at least one event):

* `TypeCorrect`, `AliveCountCorrect`, `ExhaustedAlone`.  `AliveCountExact` is not inductive:
  it has to be known that a worker between two of its atomic steps has its mark in the
  state that step left (`Marks`), and that `connected_count` counts the devices of
  `connected_once` (`CountsExact`).  `WorkerInv` is their conjunction; the writer, the main
  thread and the environment leave all of its variables alone.
* `NumberingCorrect`, `FilesCorrect`, `ContractKept`.  `PipelineInv` says where every
  accepted frame is: the queue is the tail of `accepted` beyond the frames taken
  (`QueueIsTail`), the writer's place fixes how many were published and written
  (`WriterPlace`), the file being written is the current subrun's and the next one is
  empty (`FilesPlace`), and the queue is closed by the main thread only after all workers
  are gone (`JoinOrder`).  The refinement follows: `PushFrame` is `Accept`, `WriteFrame` is
  `Store`, `ReturnCode` is `Return`, and the rest stutters.

* `FilesAndRowsCorrect`, `CleanRunCorrect`, `FinalStatusCorrect`, `VerdictCorrect`.
  With these every safety property that the runs check of `DaqRuntime` is proved.  `IInv` adds to
  `PipelineInv` why the writer's place (`Counters`) is also that of the disk: so many records of the
  current subrun (`Counted`), so many files before it, each with its row (`Rows`).  A row stays true as its
  file is not written to again.  The status in the last row is decided when the queue is closed and drained,
  by a flag that other threads raise: `Endings` says that it is settled by then, as only a failed worker
  or the main thread, after the last worker, closes the queue.  `Delivery` follows each frame from its
  validator to the queue; one may get lost in a worker's hands, but only in a run that has failed.
  `Verdicts` relates a startup verdict on its way to the set of devices that connected.

**The daemon.**  `DaqServiceProofs` proves for every file size, every number of acquisitions and records
and every choice of faults (under `ServiceAssumption`, which gives the constants their types):

* `ThreadOwned`, `DaemonKnows`, `PauseResumable`, `FilesKept`: every invariant `service_commands` checks, and
  its action property.

None is inductive, and none can be proved without most of the others: `IInv` is the conjunction of

* `TypeInv`, with the places at which the two threads may be together (`ControlPlace`, `RunBounds`): a
  command between two of its critical sections, and a thread that may exit in between;
* `Ownership`: who holds `worker_` at each of these places, and that only a paused daemon remembers a run;
* `Answers`: the state and the return code agree once the thread is gone, and a startup said to be good was;
* `Place`: the writer's place in its subrun against the daemon's count at every step between the
  publication of a record, its callback and the next rotation.  It rests on two facts about division
  (`NextPlace`, `OneQuotient`), which say when the quotient of the next count is another;
* `Numbers`: as long as the run log is reliable, every file with records has its row, but the one being
  written (`FilesHaveRows`), and the current subrun is above all that are logged (`CurrentIsNew`).
  A pause that marks its row, and a resume that takes the number after it, keep both;
* `OnCommand`: if runs end on command only, the stop word and the failure flag are clear while nobody
  waits for the run, so nothing ends it behind the daemon's back.

**The device's stream.**  `DeviceStreamProofs` proves for every number of connections and frames, every
malformed frame and every chunk shorter than a frame (under `StreamAssumption`, which says that and gives the
constants their types):

* `FramingCorrect`, `CloseCorrect`: `FramingIsRight` with its five parts, and `CloseLosesNothing`.  What the
  device sent in this connection is `Stream`, what was read with what still waits.  `InvSent` knows it cell by
  cell as far as its frames are good (`Begins`), and of the first malformed one that it does not pass
  for a frame whatever follows (`NoFrameAt`): one that lacks its last part would, if the next began with a
  footer.  `InvTaken` says that the buffer is the end of what was read, behind as many whole frames as were handed on.
  As a chunk is shorter than a frame, one call of `Feed` sees the end of one frame at most (`WholeFrames`).
* `PayloadsCorrect`: `PayloadsAreReadable`, for fields of any size and words of any number of bytes.  A time within
  its field leaves the channel alone, and a channel the board (`FieldsApart`).  The bytes on the wire are the digits
  of the word (`Weights` says what each counts for), and reading them adds the same digits up again (`WordRead`).
  That is induction over the bytes: of the numbers of bytes for which a claim fails there would be a smallest
  (`Climb`), and the library's fold is shown to be what a loop over the places computes (`IterExists`, `PlaceByPlace`).

**The online stream.**  `DataLinkProofs` proves for every number of values of a byte above two, every set of
headers that fit their fields, every queue and number of records (under `LinkAssumption`):

* `LinkCorrect`, `HeadersCorrect`: every invariant `link_stream` checks.  The source takes parts by fours
  and never asks where a message ends, so nothing in its state says whether it is in step.  `IInv` speaks of
  the stream of all parts that wait, with those the source has taken in front (`Stream`): which part may
  follow which (`Follows`, once with all sends good and once with sends that fail), that the stream ends with a
  payload (`InvStream`), what an open message ends with (`InvOpen`), and that payloads
  rise from what is delivered through the stream to the record at hand (`Rising`, `InvDelivered`).
  `HeaderComesBack` says that both versions of the header are recognised and read back as they were
  written, from the facts about division that `ShortComesBack` and `LongComesBack` rest on.

**The sinks.**  `MonitorPipelineProofs` proves for any number of analyses, whichever of the sinks are built, any
frames, requests and faults (under `PipelineAssumption`, which gives the constants their types):

* `SinksCorrect`, `AnalysesCorrect`, `FinaliseCorrect`, `SuccessCorrect`: every invariant `pipeline_sinks` checks.
  A lemma per kind of call (`InitCalls`, ..., `FinalCalls`) says what a loop over the analyses leaves of each of
  them, whether it gets through or stops half way.  The invariant ties what the sinks have seen (`InvSeen`), the
  ROOT file (`InvRoot`) and what the analyses have been called with (`InvRuns`, `InvInit`, `InvOver`, `InvDrawn`)
  to the place of the thread.  After a loop that stopped half way the analyses no longer agree; what is said of
  all of them holds as long as Run has not failed or none of them fails (`Orderly`).  `FinaliseCorrect` rests on
  one fact about the order of the sinks: a ROOT file that cannot be created when it is finalised was needed by no
  earlier message, so no analysis behind it was ever called (the last part of `InvRoot`).

**The files.**  `RunFilesProofs` proves for every size of a file and every number of frames, runs and pauses
(under `FilesAssumption`, which gives the constants their types and asks for one run and one event per file):

* `Delivers`, `Skips`, `FileEnds`: every invariant `files_sources` checks, and the part of
  `SourcesAreComplete` that is not about progress.  The files have an order (`Earlier`), which is that of the
  frames in them (`InvFrames`, `InvFiles`), and only the writer's own file, the last, may end within a frame
  (`InvWriting`).  A reader that only moves forward so delivers in order, and whole frames as long as its
  place is even (`InvReader`, `InvDelivered`).  What it leaves behind depends on where it stands: before it
  looks for the next subrun, everything left in its file was completed after its short read; before it looks
  for the next run, so was everything in later subruns (`InvPassed`).  As long as nothing was paused, a
  record's file and place in it fix its number, and the reader counts the same (`InvLabels`).  Whether numbers
  went back is known to the end (`InvNumbers`): only then may an older file come behind a newer one.  `FileEnds` needs
  no strengthening for the stop request, which is set and never taken back.

**What clients are told.**  `ControlPlaneProofs` proves for any number of clients and requests, any patience
and any startup limit (under `PlaneAssumption`):

* `AnswersTrue`: `AnswersAreTrue` with its five parts.  An answer is read long after it was given, when
  others have started and stopped runs; why it is still true is a matter of age.  Requests are served in the
  order of their numbers (`InvInbox`), also when one that was given up is taken out of the middle of the queue, so
  the run at hand is never that of a younger request than the one served (`InvRun`).  "Ok" to a start is given once
  its run has connected, which is not taken back, and to a stop once the run has ended, after which only a
  younger start makes another (`OkHolds`, `ErrorHolds`).  An error to a start is given only when the run is over or its
  startup has failed (`Verdict`); that the check timed out, only when `Deadline` ticks have passed, which a run that is not
  late does not let happen, unless the deadline has wrapped to 0 (`InvLate`, `DeadlineIs`).
* `EveryArgumentArrives`, `EverySplitStays` (and from them two of the four parts of `StartFaithful`):
  the quoting of `daqctl` and the splitting of `daqd` undo each other, for lists of any length of texts of any length.  What is
  known of a joined list is `Joined`: it is white before and behind, and after what stands between, `split_args` has all
  arguments but the empty ones, and neither a quote nor an escape is open.  An argument more keeps that: an
  empty one adds a blank behind, the first of the others makes all before it white, and any further one follows a
  blank that ends the word before it (`JoinedMore`).  So the command is taken off and the rest trimmed without loss
  (`CommandTaken`).  Induction over a list is by a shortest prefix that fails (`Grow`).
* `EveryFormArrives`, `EveryLineSane` (and from them the two other parts of `StartFaithful`, which proves
  `StartIsFaithful`).  `EveryLineSane` is about any list of any texts: an argument is read from where those before it
  left off (`ReadOn`), an option taken from where those before it left off (`TakeOn`), and no option makes the
  configuration one of a bad number or device (`TakeType`).  `EveryFormArrives` is about any texts, any numbers and
  any number of devices: `Gets` says of the list the backend has written so far that `getopt_long` reads all of it
  and that the configuration is then what the form asks for up to there.  Each piece carries that on.  For a
  device, `SpecReads` takes the text apart at its first `=`, first `@` and last `:` and gets the device back, which
  `ValidIsGood` applies to what the backend has validated; for a number, `NumeralReads` says that it is read as
  itself or refused, or wraps, which the property allows.  An empty text is lost on the way; that of an output
  directory takes its option's value from the next argument, and `daqd` then refuses what is left over.
  Of spelled numbers the proofs use `NumeralAssumption`: those of `Ints` differ from each other, from the
  separators and from the dashes.  TLC evaluates it for the numbers of the runs.

**The web backend.**  `WebBackendProofs` proves for any number of threads of the backend and of monitors
(under `MonitorAssumption`), and for the run log for any set of devices, events per file and faults (under
`ViewAssumption`):

* `KnownCorrect`, `ToldTrue`: what one operator is told of the monitor, whatever other threads poll or select.  A
  monitor that runs is the child that `PROC` names, or an orphan that the state file names (`InvChild`, `InvKnown`).
  Between two sections of a handler one of `PROC`, `PID` and the file may be behind; which one, `StartPlace` and
  `StopPlace` say for each place of the operator's thread.  A selection may write a pid that is behind, and the file
  is then wrong, but only where no restart will read it (`InvFiled`).  `InvShown` ties what the pages show to the
  monitor, as long as a handle or a pid is known; a page that found the monitor running left one of them behind, and
  only a stop that has ended the monitor clears both (`StartPlace` at `report`).
* `LogAddsUpAlways`, `FailuresShown`: both invariants `log_totals` checks.  There is one row per subrun, none
  yet for the one at hand, and nothing after a row of a failure (`InvRows`); rows and open file
  hold what was written (`InvSum`); marked rows are the pauses (`InvPaused`).  What the page loses of a run it shows is the
  row of the first subrun (`Lost`), never the last row, which carries the verdict (`LastIsLast`).  The summary adds numbers up with a fold over a set
  of rows.  That the fold is the number of pairs of a subrun and one of its events (`SumIsCount`) is
  induction over data: the proof takes a smallest set of rows for which it is wrong, which exists as the
  subsets of a finite set are well founded, and takes one row away.
* `EveryPipelineWorks`, `EveryMonitorIsAsShown` (and from them `ShowsWhatStarts`, which proves `StartsWhatItShows`; under
  `OptionsAssumption`, which asks of registered names that they are not empty and have no `=`, and of the numbers that 1 and 1000 are
  among them).  `EveryPipelineWorks` is about any list of any texts: no option takes an interval of 0 (`Settling`,
  kept by `TakeType`), the checks behind the options leave one source (`OneSource`), and an analysis that was built
  has been looked up and compared with the decoder (`FitsWell`, which goes by the first module of a name, `FirstFound`).
  `EveryMonitorIsAsShown` is about any names, numbers and any number of analyses, with `Gets` as above; at its end
  the decoder the backend chose is one that fits each analysis, as both programs find the same module of a name
  (`ChosenFits`), and an analysis without options keeps a trend (`NoSpec`).

Model-checked only:

* everything under fairness (liveness and ENABLED are not in the prover's reach): `StartsAndEnds`, `CommandsAreAnswered`, `FramesArrive`, `RecordsArrive`, `StopEndsDatamon`, `EveryoneIsTold`,
  `RequestsAreAnswered`;
* the two properties that are violated.

The theorems about command lines take `getopt_long` and `std::stoul` to be as `Getopt` has them, and prove
nothing of the C library.

No module uses a RECURSIVE operator; where the code loops over data, the models use functions, folds from
the community modules, or one step per turn of the loop.

## 6. Findings

1. `runtime_exhausted`: mark and count of a recovering device change in two steps
   (`daq_runtime.cpp:192`), and another worker may end the run in between, saying that all modules
   are disconnected.
2. `service_crash`: after a crash before the first file is closed, the run number is given out
   again and the flushed file is opened with `trunc` (`daq_runtime.cpp:389`), against the
   comment at line 448 that speaks of crash resilience.

### Conditions the properties carry

Where the code does not keep a property in full, and no text of the repository promises that it
does, the property names the condition under which it holds:

* `NeverTerminates` holds for runs that end on command only.  A run that ended by itself is not
  joined by `shutdown` (`daqd.cpp:424`), and `start` assigns over it if it ends during the wait for
  the database (`daqd.cpp:521`): both are `std::terminate`.
* `FramesArrive` of `RunFiles` and `PauseIsResumable`: a pause before the first record skips a subrun
  number (`daqd.cpp:378`), and the live source waits for the number that was skipped.  It waits as well for a run number
  that `--Run-start` has left out, as it tries the number after its own only (`frame_source.cpp:157`); and runs whose numbers
  go back are followed in the order of their numbers (`DeliversWholeFramesInOrder`, `OnlyTheRaceSkips`).
* `EndsAtTheEnd`: a source that is told to stop ends where it is, as if the data ended (`frame_source.cpp:57`).
* `FilesAreNotOverwritten`, `PauseIsResumable`: of records that were written and flushed.  Of a file whose first
  record failed the bytes are truncated by the next acquisition of that number.
* `OnlyTheRaceSkips`: frames completed between the live source's short read and its look for the
  next file are left behind (`frame_source.cpp:226`); event labels are then off (`EventLabelsAreTrue`).
* `SnapshotsAreUpToDate`: an analysis selected by the poll of this very snapshot is saved as last drawn
  (`sink_realtime.cpp:266`).
* `NothingLeftOpen`: a sink behind one whose `Finalise` fails is closed by its destructor only
  (`pipeline.cpp:22`).
* `FailureRowsAreShown`: a failed run whose row could not be inserted leaves only completed rows
  (`daq_runtime.cpp:421`), and is shown as completed.  And the page loses lines: that of the first subrun of the oldest run it
  lists, unless it names a lost device (`app.py:330` and 1386), so that a failed run of one file is not shown at all; and
  the lines of a run whose comment has a tab (line 310).
* `TotalsAreTrue`, `PausesAreCounted`: but for that first subrun, whose events and pause the oldest run listed is short of.
* `AnswersAreTrue`: a start whose check timed out is told just that.  It says nothing of the run: `start` stops waiting, not the
  run (`daqd.cpp:306`), and a device that connects later is read all the same.  With a
  `startup_connect_timeout_sec` of 2^32 - 1 the sum at `daqd.cpp:289` wraps, and every start is told so at once.
* `HeadersAreGenuine` allows one wrong payload: after a send that failed half way, parts of two records are
  put together, and the source may skip for ever (`zmq_frame_source.cpp:170`).
* `CloseLosesNothing`: where `poll` reports an orderly close as `POLLHUP`, unread bytes are lost
  (`tcp_device_driver.cpp:89`).
* `ArgumentsArrive`: an empty argument is lost between quoting and splitting.  `FormArrives` shows that the
  forms of the web page do not suffer from it, but for an empty output directory, which is refused.
* `FormArrives`: numbers of the web configuration are not bounded by the backend; `daqd` refuses them, unless
  one is so far below zero that `std::stoul` wraps it to a small one.
* A start that asks for help (`daqctl start -h` with something before it) ends the daemon by `std::exit`, with a run that is on and without
  an answer (`daq_cli.cpp:189`); `NobodyWaitsForever` holds since clients give up.
* `MonitorIsAsShown`: intervals of 0 ms in the web configuration are handed on, and `datamon` refuses them.
* `ShownIsRunning`: not while a start is under way, and not if the monitor has ended since the page found it: `get_monitor_status`
  reads the decoder and the analyses without the lock (`app.py:655`), so that a stop in between leaves it "running" with no
  decoder, and a start with another monitor's.  And a selection may leave a state file without the decoder.
* `OneKnownMonitor` and `BackendTellsTrue`: one operator (`OneOperator`); two who start at the same time get
  two monitors (`app.py:827`).  And no restart where analyses are selected, as `set_selected_analysis` writes
  the state file from globals it reads without the lock (`app.py:668`): a backend restarted after that may not know
  its monitor.

## 7. Not modelled

* The text of statuses, comments and log lines, escaping, and the formatting of times; the options that
  name endpoints; socket set-up.
* The driver's conversion of words to host order, which no front end asks for.
* `UpdateRunLogModules`, which has no caller, and the list of device errors in the daemon.
* ROOT's own state, what is written to text and trees, the axes of histograms.  (The time of an event is a double, which
  drops the lowest of its 56 bits above 2^53.)
* The exit code the backend shows of a monitor that fails at once, which `app.py:844` may overwrite with 0.
* Memory: the queue is unbounded in the code, and nothing looks at its length.
* Configuration files and their reload, and the start of `daqd` in the backend; the pages, which display what the
  backend says; reuse of process ids by the operating system.
