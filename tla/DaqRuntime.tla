----------------------------- MODULE DaqRuntime -----------------------------
(***************************************************************************)
(* One acquisition run: RunDaqCore of src/core/daq_runtime.cpp from the    *)
(* point where the threads are spawned to the return code.  One worker     *)
(* thread per device reads validated frames and pushes them into the       *)
(* blocking queue; one writer thread pops, numbers, publishes and writes   *)
(* them into subrun files and logs each closed file in the run log; the    *)
(* main thread waits for the end of the run, joins and returns.            *)
(*                                                                         *)
(* A step is what a thread does up to and including its next access to an  *)
(* atomic, the queue, a callback, a file or the database.  Accesses that   *)
(* nobody else can tell apart from one are taken together; the others are  *)
(* steps of their own, at a program counter named for what comes next.     *)
(***************************************************************************)
EXTENDS Integers, Sequences, FiniteSets

CONSTANTS
  Devices,       \* cfg.devices, one worker thread each
  EventsPerFile, \* cfg.events_per_file, at least 1 (ParseDaqArgs refuses 0)
  SubrunStart,   \* cfg.subrun_start
  AllowPartial,  \* cfg.allow_partial_run_on_runtime_disconnect
  HasDuration,   \* cfg.duration_sec > 0
  Faults,        \* what may go wrong outside the program in this instance
  MaxFrames,     \* bound: frames one device delivers
  MaxDrops,      \* bound: connections lost, over all devices
  NoFrame

AllFaults == {"fatal", "recoverable", "mkdir", "open", "write", "insert"}

ASSUME ConstantsAssumption ==
  /\ IsFiniteSet(Devices) /\ Devices # {}
  /\ EventsPerFile \in Nat \ {0}
  /\ SubrunStart \in Nat
  /\ AllowPartial \in BOOLEAN
  /\ HasDuration \in BOOLEAN
  /\ Faults \subseteq AllFaults
  /\ MaxFrames \in Nat
  /\ MaxDrops \in Nat
  /\ NoFrame \notin Devices \X (1 .. MaxFrames)

\* A frame is known by the device it came from and its place in that device's
\* stream; its bytes never decide anything here.
Frame  == Devices \X (1 .. MaxFrames)
Record == [event : Nat, subrun : Nat, frame : Frame]
Status == [kind : {"completed", "stopped", "error", "exit"}, lost : Nat]
Row    == [subrun : Nat, nevents : Nat, status : Status, absent : SUBSET Devices]

-----------------------------------------------------------------------------
VARIABLES
  \* the atomics shared by the threads, and the stop word daqd writes
  running, stop_requested, connected_once, connected_count, marked_dead,
  alive_count, loss_count, exhausted, startup_failed, writer_ok,
  \* what the callbacks told the caller
  notified, last_error,
  \* BlockingQueue: q_ and closed_
  queue, closed,
  \* the workers: program counter, reconnect window, frames read so far
  pc, window, produced,
  \* the writer thread's locals
  wpc, rec, subrun, events, next_event, file_open, seen_loss, hit, pending,
  \* what leaves the run: frames taken into the queue (in order), published
  \* records, records in the files, run log rows
  accepted, published, disk, run_log,
  \* the main thread
  mpc, rc,
  \* the environment: connections lost so far, startup deadline passed
  drops, startup_due

atomics   == <<connected_once, connected_count, marked_dead, alive_count,
               loss_count, exhausted>>
flags     == <<running, startup_failed, writer_ok>>
told      == <<notified, last_error>>
queueVars == <<queue, closed>>
locals    == <<rec, subrun, events, next_event, file_open, seen_loss, hit, pending>>
writer    == <<wpc, locals>>
output    == <<accepted, published, disk, run_log>>
mainVars  == <<mpc, rc>>
env       == <<stop_requested, drops, startup_due>>

\* What no connecting worker, no writer step and no main step touches.
beside        == <<queueVars, produced, writer, output, mainVars, env>>
OutsideWriter == <<atomics, told, pc, window, produced, mainVars, env>>
OutsideMain   == <<atomics, startup_failed, writer_ok, told, pc, window, produced,
                   writer, queue, output, env>>

vars == <<atomics, flags, told, pc, window, beside>>

-----------------------------------------------------------------------------
(* The loop conditions of the workers and of the main thread.              *)
Live == running /\ stop_requested = 0

AllConnected == connected_count = Cardinality(Devices)

WorkerGoes(d, from, to) == pc[d] = from /\ pc' = [pc EXCEPT ![d] = to]

DeadNow == {d \in Devices : marked_dead[d]}

Init ==
  /\ running = TRUE /\ stop_requested = 0
  /\ connected_once = [d \in Devices |-> FALSE] /\ connected_count = 0
  /\ marked_dead = [d \in Devices |-> FALSE]
  /\ alive_count = Cardinality(Devices)
  /\ loss_count = [d \in Devices |-> 0]
  /\ exhausted = FALSE /\ startup_failed = FALSE /\ writer_ok = TRUE
  /\ notified = "none" /\ last_error = "none"
  /\ queue = <<>> /\ closed = FALSE
  /\ pc = [d \in Devices |-> "connect"]
  /\ window = [d \in Devices |-> "off"]
  /\ produced = [d \in Devices |-> 0]
  /\ wpc = "mkdir" /\ rec = NoFrame /\ subrun = SubrunStart
  /\ events = 0 /\ next_event = 0 /\ file_open = FALSE
  /\ seen_loss = [d \in Devices |-> 0] /\ hit = {}
  /\ pending = [kind |-> "stopped", lost |-> 0]
  /\ accepted = <<>> /\ published = {} /\ disk = {} /\ run_log = {}
  /\ mpc = "poll" /\ rc = 0
  /\ drops = 0 /\ startup_due = FALSE

-----------------------------------------------------------------------------
(* Worker threads: connecting.  A failed ConnectDevice that changes nothing *)
(* (device not yet due, or already given up) is a stuttering step.          *)

\* ConnectDevice succeeds: the reconnect window is closed.  (The loop's test that
\* the run is live comes earlier: a connection after a stop is one before it here.)
Connects(d, to) ==
  /\ Live /\ WorkerGoes(d, "connect", to)
  /\ window' = [window EXCEPT ![d] = "off"]

CountFirst(d, complete) ==
  /\ ~connected_once[d]
  /\ connected_once' = [connected_once EXCEPT ![d] = TRUE]
  /\ connected_count' = connected_count + 1
  /\ Connects(d, IF complete THEN "notify_ok" ELSE "read")
  /\ UNCHANGED <<marked_dead, alive_count, loss_count, exhausted, flags, told, beside>>

\* Mutant: the count of connected devices is not compared before notifying.
BugNotifyEarly(d) == CountFirst(d, TRUE)

\* First connection of d: connected_once.exchange(true), connected_count + 1.
FirstConnect(d) == CountFirst(d, connected_count + 1 = Cardinality(Devices))

\* call_once(on_startup_status(true)) by the worker that completed the count.
NotifyOk(d) ==
  /\ WorkerGoes(d, "notify_ok", "read")
  /\ notified' = IF notified = "none" THEN "ok" ELSE notified
  /\ UNCHANGED <<atomics, flags, last_error, window, beside>>

\* Mutant: the result of connected_once.exchange is ignored.
BugCountAgain(d) ==
  /\ connected_once[d] /\ ~marked_dead[d] /\ Connects(d, "read")
  /\ connected_count' = connected_count + 1
  /\ UNCHANGED <<connected_once, marked_dead, alive_count, loss_count, exhausted,
                 flags, told, beside>>

\* A later connection of a device that was never given up.
Reconnect(d) ==
  /\ connected_once[d] /\ ~marked_dead[d] /\ Connects(d, "read")
  /\ UNCHANGED <<atomics, flags, told, beside>>

\* marked_dead[d] is written, whichever way.
Mark(d, dead) ==
  /\ marked_dead' = [marked_dead EXCEPT ![d] = dead]
  /\ UNCHANGED <<connected_once, connected_count, alive_count, loss_count, exhausted,
                 flags, told, beside>>

\* A device that had been given up connects: first its mark is exchanged ...
Revive(d) ==
  connected_once[d] /\ marked_dead[d] /\ Connects(d, "rejoin") /\ Mark(d, FALSE)

\* alive_worker_count changes by n.
CountAlive(n) ==
  /\ alive_count' = alive_count + n
  /\ UNCHANGED <<connected_once, connected_count, marked_dead, loss_count, exhausted,
                 flags, told, window, beside>>

\* Mutant: a recovered device is not counted again.
BugNotCounted(d) == WorkerGoes(d, "rejoin", "read") /\ CountAlive(0)

\* ... then alive_worker_count is incremented.
Rejoin(d) == WorkerGoes(d, "rejoin", "read") /\ CountAlive(1)

\* startup_failed is set; nothing else of the flags changes.
RaiseFailure ==
  startup_failed' = TRUE /\ UNCHANGED <<running, writer_ok, window, beside>>

\* Mutant: the startup deadline is only logged.
BugKeepTrying(d) ==
  /\ Live /\ ~connected_once[d] /\ startup_due /\ pc[d] = "connect"
  /\ UNCHANGED vars

\* Never connected and the startup deadline is over: the run fails ...
StartupTimeout(d) ==
  /\ Live /\ ~connected_once[d] /\ startup_due
  /\ WorkerGoes(d, "connect", "notify_failed")
  /\ RaiseFailure
  /\ UNCHANGED <<atomics, told>>

\* ... which is told once, by call_once(on_startup_status(false)).
NotifyFailed(d) ==
  /\ WorkerGoes(d, "notify_failed", "fail_stop")
  /\ IF notified = "none"
     THEN notified' = "failed" /\ last_error' = "startup"
     ELSE UNCHANGED told
  /\ UNCHANGED <<atomics, flags, window, beside>>

\* A connected device is being sought again.
Missing(d) == Live /\ pc[d] = "connect" /\ connected_once[d] /\ ~marked_dead[d]

\* A failed reconnection outside a window opens one.
OpenWindow(d) ==
  /\ Missing(d) /\ window[d] = "off"
  /\ window' = [window EXCEPT ![d] = "open"]
  /\ UNCHANGED <<atomics, flags, told, pc, beside>>

\* A failed reconnection after the window; may the run go on without d?
TimedOut(d) == Missing(d) /\ window[d] = "over"
MayDegrade == AllowPartial /\ AllConnected

\* The CAS loop takes d off the alive count ...
Degrade(d) ==
  /\ TimedOut(d) /\ MayDegrade /\ alive_count > 1
  /\ WorkerGoes(d, "connect", "mark_lost")
  /\ CountAlive(-1)

\* ... then d is marked dead ...
MarkLost(d) ==
  WorkerGoes(d, "mark_lost", "tell_lost") /\ Mark(d, TRUE) /\ UNCHANGED window

CountLoss(d) ==
  /\ loss_count' = [loss_count EXCEPT ![d] = @ + 1]
  /\ UNCHANGED <<connected_once, connected_count, marked_dead, alive_count, notified>>

\* ... and the loss is counted and reported; d keeps trying to reconnect.
TellLost(d) ==
  /\ WorkerGoes(d, "tell_lost", "connect")
  /\ CountLoss(d) /\ last_error' = "degraded"
  /\ window' = [window EXCEPT ![d] = "off"]
  /\ UNCHANGED <<exhausted, flags, beside>>

LastToGo(d, limit) ==
  /\ TimedOut(d) /\ MayDegrade /\ alive_count <= limit
  /\ WorkerGoes(d, "connect", "tell_last")
  /\ Mark(d, TRUE) /\ UNCHANGED window

\* Mutant: off by one in the test for the last worker.
BugNotTheLast(d) == LastToGo(d, 2)

\* No other worker is counted alive: d is marked dead without a decrement ...
Exhaust(d) == LastToGo(d, 1)

\* ... and the run fails: "all modules disconnected".
TellLast(d) ==
  /\ WorkerGoes(d, "tell_last", "fail_stop")
  /\ CountLoss(d) /\ last_error' = "exhausted"
  /\ exhausted' = TRUE
  /\ RaiseFailure

\* Partial runs not allowed, or startup not complete: the run fails.
GiveUp(d) ==
  /\ TimedOut(d) /\ ~MayDegrade
  /\ WorkerGoes(d, "connect", "fail_stop")
  /\ last_error' = "reconnect"
  /\ RaiseFailure
  /\ UNCHANGED <<atomics, notified>>

\* The tail of every worker failure: running = false, then queue.Close().
FailStop(d) ==
  /\ WorkerGoes(d, "fail_stop", "fail_close")
  /\ running' = FALSE
  /\ UNCHANGED <<atomics, startup_failed, writer_ok, told, window, beside>>

FailClose(d) ==
  /\ WorkerGoes(d, "fail_close", "failed")
  /\ closed' = TRUE
  /\ UNCHANGED <<atomics, flags, told, window, queue, produced, writer, output,
                 mainVars, env>>

-----------------------------------------------------------------------------
(* Worker threads: reading.  A chunk that completes no frame, and a read    *)
(* timeout, are stuttering steps.                                           *)

\* ReadBytes and Feed yield the next frame of d.
ReadFrame(d) ==
  /\ Live /\ produced[d] < MaxFrames
  /\ WorkerGoes(d, "read", "push")
  /\ produced' = [produced EXCEPT ![d] = @ + 1]
  /\ UNCHANGED <<atomics, flags, told, window, queueVars, writer, output, mainVars, env>>

PushAccepted(d) ==
  /\ ~closed
  /\ WorkerGoes(d, "push", "read")
  /\ queue' = Append(queue, <<d, produced[d]>>)
  /\ accepted' = Append(accepted, <<d, produced[d]>>)
  /\ UNCHANGED <<atomics, flags, told, window, closed, produced, writer, published,
                 disk, run_log, mainVars, env>>

\* queue.Push under the queue's mutex: refused once the queue is closed, and
\* then the worker ends with the frame in its hands.
PushFrame(d) ==
  \/ PushAccepted(d)
  \/ /\ closed /\ WorkerGoes(d, "push", "done")
     /\ UNCHANGED <<atomics, flags, told, window, beside>>

\* The validator refuses the stream for good: the run fails.
ReadFatal(d) ==
  /\ Live /\ "fatal" \in Faults
  /\ WorkerGoes(d, "read", "fail_stop")
  /\ RaiseFailure
  /\ UNCHANGED <<atomics, told>>

\* The link to d is given up after a read, and a connection sought again.
Unlink(d, w) ==
  /\ Live /\ drops < MaxDrops
  /\ WorkerGoes(d, "read", "connect")
  /\ window' = [window EXCEPT ![d] = w] /\ drops' = drops + 1
  /\ UNCHANGED <<atomics, flags, told, queueVars, produced, writer, output, mainVars,
                 stop_requested, startup_due>>

\* The validator asks for a fresh start: disconnect and reconnect, no window.
ReadRecoverable(d) == "recoverable" \in Faults /\ Unlink(d, "off")

\* The connection is lost: disconnect, reset, open a reconnect window.
LinkLost(d) == Unlink(d, "open")

Leaves(d, loops) ==
  /\ ~Live
  /\ \E loop \in loops : WorkerGoes(d, loop, "done")
  /\ UNCHANGED <<atomics, flags, told, window, beside>>

\* Mutant: only the inner loop looks at the stop word; the outer one tries on.
BugConnectForever(d) ==
  Leaves(d, {"read"}) \/ (pc[d] = "connect" /\ ~Live /\ UNCHANGED vars)

\* Either loop finds the run over.
WorkerExit(d) == Leaves(d, {"connect", "read"})

-----------------------------------------------------------------------------
(* The writer thread.                                                      *)

WriterGoes(from, to) == wpc = from /\ wpc' = to

\* refresh_disconnect_events.
FreshLosses == {d \in Devices : loss_count[d] > seen_loss[d]}

RefreshLosses ==
  IF AllowPartial
  THEN /\ hit' = hit \cup FreshLosses
       /\ seen_loss' = [d \in Devices |-> IF d \in FreshLosses THEN loss_count[d]
                                                              ELSE seen_loss[d]]
  ELSE UNCHANGED <<hit, seen_loss>>

\* status_with_disconnects("completed").
CompletedStatus(hits) ==
  [kind |-> "completed",
   lost |-> IF AllowPartial THEN Cardinality(hits \cup DeadNow) ELSE 0]

\* The row write_run_log inserts for the current subrun.
RowNow(status) ==
  [subrun |-> subrun, nevents |-> events, status |-> status, absent |-> DeadNow]

\* UNIQUE KEY (run, subrun) of the run log table.
KeyFree == \A row \in run_log : row.subrun # subrun

\* write_run_log: nothing for an empty file, otherwise an INSERT.
LogSucceeds(status) ==
  IF events = 0
  THEN UNCHANGED run_log
  ELSE KeyFree /\ run_log' = run_log \cup {RowNow(status)}

LogFails ==
  /\ events > 0
  /\ "insert" \in Faults \/ ~KeyFree
  /\ UNCHANGED run_log

MakeOutputDir ==
  /\ \/ WriterGoes("mkdir", "pop")
     \/ "mkdir" \in Faults /\ WriterGoes("mkdir", "fail_flag")
  /\ UNCHANGED <<OutsideWriter, flags, queueVars, locals, output>>

\* A frame is taken from the queue, leaving rest; the losses so far are folded
\* in; the frame needs a first file, a fresh file, or goes to the file at hand.
Take(frame, rest, full) ==
  /\ queue # <<>>
  /\ rec' = frame /\ queue' = rest
  /\ RefreshLosses
  /\ \/ ~file_open /\ WriterGoes("pop", "open") /\ UNCHANGED pending
     \/ file_open /\ full /\ WriterGoes("pop", "rotate") /\ pending' = CompletedStatus(hit')
     \/ file_open /\ ~full /\ WriterGoes("pop", "emit") /\ UNCHANGED pending
  /\ UNCHANGED <<OutsideWriter, flags, closed, subrun, events, next_event, file_open,
                 output>>

\* Mutant: the deque is popped at the end it was pushed.
BugPopNewest ==
  Take(queue[Len(queue)], SubSeq(queue, 1, Len(queue) - 1), events >= EventsPerFile)

\* Mutant: > instead of >= in the rollover test.
BugOneTooMany == Take(Head(queue), Tail(queue), events > EventsPerFile)

\* Pop returns the oldest frame.
PopFrame == Take(Head(queue), Tail(queue), events >= EventsPerFile)

\* The full file is logged and closed, the next subrun is to begin.
CloseSubrun(next) ==
  /\ \/ /\ WriterGoes("rotate", "open") /\ LogSucceeds(pending)
        /\ file_open' = FALSE /\ subrun' = next
     \/ /\ WriterGoes("rotate", "fail_flag") /\ LogFails
        /\ UNCHANGED <<file_open, subrun>>
  /\ UNCHANGED <<OutsideWriter, flags, queueVars, rec, events, next_event, seen_loss,
                 hit, pending, accepted, published, disk>>

\* Mutant: ++subrun_number is missing.
BugSameSubrun == CloseSubrun(subrun)

RotateSubrun == CloseSubrun(subrun + 1)

\* open_run_file: truncates, and starts the loss tracking of the subrun afresh.
OpenCounting(n) ==
  /\ \/ /\ WriterGoes("open", "emit")
        /\ file_open' = TRUE /\ events' = n
        /\ seen_loss' = loss_count /\ hit' = {}
        /\ disk' = {r \in disk : r.subrun # subrun}
     \/ /\ "open" \in Faults /\ WriterGoes("open", "fail_flag")
        /\ UNCHANGED <<file_open, events, seen_loss, hit, disk>>
  /\ UNCHANGED <<OutsideWriter, flags, queueVars, rec, subrun, next_event, pending,
                 accepted, published, run_log>>

\* Mutant: events_in_current_file is not reset.
BugNoReset == OpenCounting(events)

OpenFile == OpenCounting(0)

\* The frame gets its number and goes to on_frame_ready before it is written.
EmitFrame ==
  /\ WriterGoes("emit", "write")
  /\ published' = published \cup
                    {[event |-> next_event, subrun |-> subrun, frame |-> rec]}
  /\ next_event' = next_event + 1
  /\ UNCHANGED <<OutsideWriter, flags, queueVars, rec, subrun, events, file_open,
                 seen_loss, hit, pending, accepted, disk, run_log>>

WithRecord == disk \cup {[event |-> next_event - 1, subrun |-> subrun, frame |-> rec]}

WriteTo(after) ==
  /\ WriterGoes("write", "pop")
  /\ disk' = after /\ events' = events + 1 /\ rec' = NoFrame
  /\ UNCHANGED <<OutsideWriter, flags, queueVars, subrun, next_event, file_open,
                 seen_loss, hit, pending, accepted, published, run_log>>

\* Mutant: a failed write is taken for a success.
BugIgnoreWrite == \E after \in {disk, WithRecord} : WriteTo(after)

WriteFrame == WriteTo(WithRecord)

\* write or flush fails: the bytes may have reached the file all the same.  The
\* subrun is logged as "error" if that insert succeeds.
WriteFails ==
  /\ "write" \in Faults /\ WriterGoes("write", "fail_flag")
  /\ disk' \in {disk, WithRecord}
  /\ LogSucceeds([kind |-> "error", lost |-> 0]) \/ LogFails
  /\ UNCHANGED <<OutsideWriter, flags, queueVars, locals, accepted, published>>

\* Mutant: the status does not look at run_failed.
BugAlwaysStopped(hits) ==
  IF events >= EventsPerFile THEN CompletedStatus(hits)
                             ELSE [kind |-> "stopped", lost |-> 0]

\* The status of the file left open when the queue is closed and drained.
FinalStatus(hits) ==
  IF startup_failed
  THEN IF exhausted THEN [kind |-> "exit", lost |-> Cardinality(DeadNow)]
                    ELSE [kind |-> "error", lost |-> 0]
  ELSE IF events >= EventsPerFile THEN CompletedStatus(hits)
                                  ELSE [kind |-> "stopped", lost |-> 0]

\* Pop returns false: the open file, if any, is still to be logged.
PopClosed ==
  /\ closed /\ queue = <<>>
  /\ \/ /\ file_open /\ WriterGoes("pop", "seal")
        /\ RefreshLosses /\ pending' = FinalStatus(hit')
     \/ /\ ~file_open /\ WriterGoes("pop", "done")
        /\ UNCHANGED <<hit, seen_loss, pending>>
  /\ UNCHANGED <<OutsideWriter, flags, queueVars, rec, subrun, events, next_event,
                 file_open, output>>

SealRun ==
  /\ \/ /\ WriterGoes("seal", "done") /\ LogSucceeds(pending) /\ file_open' = FALSE
     \/ /\ WriterGoes("seal", "fail_flag") /\ LogFails /\ UNCHANGED file_open
  /\ UNCHANGED <<OutsideWriter, flags, queueVars, rec, subrun, events, next_event,
                 seen_loss, hit, pending, accepted, published, disk>>

\* run_writer returned false: writer_ok = false, startup_failed = true ...
WriterFailFlag ==
  /\ WriterGoes("fail_flag", "fail_stop")
  /\ writer_ok' = FALSE /\ startup_failed' = TRUE
  /\ UNCHANGED <<OutsideWriter, running, queueVars, locals, output>>

\* ... running = false ...
WriterFailStop ==
  /\ WriterGoes("fail_stop", "fail_close")
  /\ running' = FALSE
  /\ UNCHANGED <<OutsideWriter, startup_failed, writer_ok, queueVars, locals, output>>

\* ... queue.Close().
WriterFailClose ==
  /\ WriterGoes("fail_close", "failed")
  /\ closed' = TRUE
  /\ UNCHANGED <<OutsideWriter, flags, queue, locals, output>>

-----------------------------------------------------------------------------
(* The main thread.                                                        *)

\* The polling loop ends: duration over, a thread failed, or a stop request.
LeavePoll ==
  /\ mpc = "poll" /\ mpc' = "join"
  /\ ~Live \/ HasDuration
  /\ running' = FALSE
  /\ UNCHANGED <<OutsideMain, closed, rc>>

CloseWhen(joined) ==
  /\ mpc = "join" /\ mpc' = "drain"
  /\ joined
  /\ closed' = TRUE
  /\ UNCHANGED <<OutsideMain, running, rc>>

\* Mutant: the queue is closed before the workers are joined.
BugCloseFirst == CloseWhen(TRUE)

\* Every worker joined: no more frames can come, the queue is closed.
CloseQueue == CloseWhen(\A d \in Devices : pc[d] \in {"done", "failed"})

\* The writer joined: RunDaqCore returns.
ReturnCode ==
  /\ mpc = "drain" /\ mpc' = "returned"
  /\ wpc \in {"done", "failed"}
  /\ rc' = IF writer_ok /\ ~startup_failed THEN 0 ELSE 1
  /\ UNCHANGED <<OutsideMain, running, closed>>

-----------------------------------------------------------------------------
(* The environment: daqd's stop word, and time.                            *)

\* What only the environment changes is all it changes.
inside == <<atomics, flags, told, pc, queueVars, produced, writer, output, mainVars>>

\* DaqService::stop writes 1, pause writes 2, both while the run is on; the run
\* only asks whether it is zero, so one value stands for both.
RequestStop ==
  /\ stop_requested = 0 /\ mpc # "returned"
  /\ stop_requested' = 1
  /\ UNCHANGED <<inside, window, drops, startup_due>>

StartupDeadline ==
  /\ ~startup_due /\ ~AllConnected
  /\ startup_due' = TRUE
  /\ UNCHANGED <<inside, window, drops, stop_requested>>

WindowExpires(d) ==
  /\ window[d] = "open" /\ pc[d] = "connect"
  /\ window' = [window EXCEPT ![d] = "over"]
  /\ UNCHANGED <<inside, env>>

-----------------------------------------------------------------------------
ConnectStep(d) ==
  FirstConnect(d) \/ NotifyOk(d) \/ Reconnect(d) \/ Revive(d) \/ Rejoin(d)

GiveUpStep(d) ==
  \/ StartupTimeout(d) \/ NotifyFailed(d) \/ OpenWindow(d)
  \/ Degrade(d) \/ MarkLost(d) \/ TellLost(d)
  \/ Exhaust(d) \/ TellLast(d) \/ GiveUp(d)
  \/ FailStop(d) \/ FailClose(d)

ReadStep(d) ==
  \/ ReadFrame(d) \/ PushFrame(d) \/ ReadFatal(d) \/ ReadRecoverable(d)
  \/ LinkLost(d) \/ WorkerExit(d)

Worker(d) == ConnectStep(d) \/ GiveUpStep(d) \/ ReadStep(d)

Writer ==
  \/ MakeOutputDir \/ PopFrame \/ RotateSubrun \/ OpenFile \/ EmitFrame
  \/ WriteFrame \/ WriteFails \/ PopClosed \/ SealRun
  \/ WriterFailFlag \/ WriterFailStop \/ WriterFailClose

Main == LeavePoll \/ CloseQueue \/ ReturnCode

Environment ==
  \/ RequestStop
  \/ StartupDeadline
  \/ \E d \in Devices : WindowExpires(d)

\* RunDaqCore has returned.
Returned == mpc = "returned" /\ UNCHANGED vars

Next ==
  \/ \E d \in Devices : Worker(d)
  \/ Writer \/ Main \/ Environment \/ Returned

Spec == Init /\ [][Next]_vars

-----------------------------------------------------------------------------
(* Correctness properties.                                                 *)

WorkerPC == {"connect", "notify_ok", "rejoin", "read", "push", "notify_failed",
             "mark_lost", "tell_lost", "tell_last", "fail_stop", "fail_close",
             "failed", "done"}
WriterPC == {"mkdir", "pop", "open", "rotate", "emit", "write", "seal", "fail_flag",
             "fail_stop", "fail_close", "failed", "done"}

\* Every variable keeps its kind; in particular alive_worker_count, a uint32_t,
\* never wraps below zero and never exceeds the number of devices.
TypeOK ==
  /\ running \in BOOLEAN /\ closed \in BOOLEAN /\ stop_requested \in {0, 1}
  /\ connected_once \in [Devices -> BOOLEAN]
  /\ connected_count \in 0..Cardinality(Devices)
  /\ marked_dead \in [Devices -> BOOLEAN]
  /\ alive_count \in 0..Cardinality(Devices)
  /\ loss_count \in [Devices -> Nat] /\ seen_loss \in [Devices -> Nat]
  /\ exhausted \in BOOLEAN /\ startup_failed \in BOOLEAN /\ writer_ok \in BOOLEAN
  /\ notified \in {"none", "ok", "failed"}
  /\ last_error \in {"none", "startup", "degraded", "exhausted", "reconnect"}
  /\ queue \in Seq(Frame) /\ accepted \in Seq(Frame)
  /\ pc \in [Devices -> WorkerPC] /\ wpc \in WriterPC
  /\ window \in [Devices -> {"off", "open", "over"}]
  /\ produced \in [Devices -> 0 .. MaxFrames]
  /\ rec \in Frame \cup {NoFrame}
  /\ subrun \in Nat /\ events \in Nat /\ next_event \in Nat
  /\ file_open \in BOOLEAN /\ hit \in SUBSET Devices /\ pending \in Status
  /\ published \in SUBSET Record /\ disk \in SUBSET Record
  /\ run_log \in SUBSET Row
  /\ mpc \in {"poll", "join", "drain", "returned"} /\ rc \in {0, 1}
  /\ drops \in Nat /\ startup_due \in BOOLEAN

\* Event numbers are the order in which the queue took the frames, from 0 and
\* without a gap, whatever the interleaving of the workers and the writer.
NumberedInPushOrder ==
  /\ {r.event : r \in published} = 0 .. next_event - 1
  /\ \A r \in published :
       r.event < Len(accepted) /\ accepted[r.event + 1] = r.frame

\* A record reaches the online stream before its file and is in no file without
\* having been published; only the last published one may be missing from disk.
DiskTrailsStream ==
  /\ disk \subseteq published
  /\ \A r \in published \ disk : r.event = next_event - 1

\* The subrun a record goes to is the one daqd computes from the number of
\* published events alone (current_subrun_number_locked).
SubrunAsDaqdDerivesIt ==
  \A r \in published : r.subrun = SubrunStart + r.event \div EventsPerFile

\* A run log row counts exactly the records in its file, and "completed" is only
\* said of a full one.  Only a failed write may leave one record more on disk.
LogMatchesFiles ==
  \A row \in run_log :
    LET inFile == Cardinality({r \in disk : r.subrun = row.subrun})
    IN /\ row.nevents \in 1 .. EventsPerFile
       /\ inFile = row.nevents \/ (inFile = row.nevents + 1 /\ wpc # "done")
       /\ row.status.kind = "completed" => row.nevents = EventsPerFile

\* The UNIQUE KEY (run, subrun) of the run log never refuses the writer.
RowKeyNeverTaken == wpc \in {"rotate", "seal", "write"} => KeyFree

\* Return code 0 means that nothing was lost: every frame any validator delivered
\* is in a file and every file has its row.
CleanRunIsComplete ==
  mpc = "returned" /\ rc = 0 =>
    /\ {r.frame : r \in disk} = {f \in Frame : f[2] <= produced[f[1]]}
    /\ {row.subrun : row \in run_log} = {r.subrun : r \in disk}

\* A file still open at the end gets the status the return code stands for.
FinalStatusMatchesReturnCode ==
  mpc = "returned" =>
    \A row \in run_log :
      row.subrun = subrun => (row.status.kind \in {"completed", "stopped"} <=> rc = 0)

\* on_startup_status(true) is only ever said when every device has connected,
\* and (false) only when the run fails with a device that never did.
StartupVerdict ==
  /\ notified = "ok" => \A d \in Devices : connected_once[d]
  /\ notified = "failed" =>
       startup_failed /\ \E d \in Devices : ~connected_once[d]

\* d has been taken off alive_worker_count and not been put back.
Uncounted(d) ==
  \/ pc[d] \in {"mark_lost", "rejoin"}
  \/ marked_dead[d] /\ pc[d] \notin {"tell_last", "fail_stop", "fail_close", "failed"}

\* alive_worker_count is exact at every step although it and worker_marked_dead
\* are separate atomics changed in separate steps.
AliveCountExact ==
  alive_count = Cardinality(Devices) - Cardinality({d \in Devices : Uncounted(d)})

\* A run is declared lost ("all modules disconnected") only by a worker that sees
\* every other device taken off the alive count.
ExhaustedOnlyWhenAlone ==
  [][\A d \in Devices :
       pc[d] # "tell_last" /\ pc'[d] = "tell_last" =>
         \A e \in Devices \ {d} : Uncounted(e)]_vars

\* What the error of an exhausted run says, "runtime failed: all modules
\* disconnected": no other device is connected when that is decided.
ExhaustedMeansAllDisconnected ==
  [][\A d \in Devices :
       pc[d] # "tell_last" /\ pc'[d] = "tell_last" =>
         \A e \in Devices \ {d} : pc[e] \notin {"rejoin", "read", "push"}]_vars

\* Opening a file with trunc never throws away a record already written.
FilesKeepTheirRecords == [][disk \subseteq disk']_disk

-----------------------------------------------------------------------------
(* The run keeps the contract of RunContract.                              *)
Contract == INSTANCE RunContract WITH
  stored  <- {<<r.event, r.frame>> : r \in disk},
  outcome <- IF mpc # "returned" THEN "on" ELSE IF rc = 0 THEN "clean" ELSE "failed"

\* No frame accepted is lost, duplicated or reordered on its way to disk, and
\* RunDaqCore returns 0 only with all of them there.
KeepsContract == Contract!Spec

-----------------------------------------------------------------------------
(* Liveness.  The operating system schedules every thread: a connect()       *)
(* attempt, ReadBytes (poll timeout), the mysql client and the joins return. *)
(* Time passes.  Nothing is assumed of the devices or of the operator: no    *)
(* fairness for a connection to succeed or break, for data, or for a stop.   *)
Scheduled(d) ==
  NotifyOk(d) \/ Rejoin(d) \/ GiveUpStep(d) \/ PushFrame(d) \/ WorkerExit(d)

Fairness ==
  /\ \A d \in Devices : WF_vars(Scheduled(d)) /\ WF_vars(WindowExpires(d))
  /\ WF_vars(Writer) /\ WF_vars(Main) /\ WF_vars(StartupDeadline)

FairSpec == Spec /\ Fairness

\* What is published, in the files and in the run log agrees, in every
\* interleaving of the writer with the rest: the disk is at most the last record
\* behind the stream, the subrun is the one daqd derives, rows count their files'
\* records, and no row is refused for its key (daq_runtime.cpp:413, 434, 450).
FilesAndRowsAgree ==
  DiskTrailsStream /\ SubrunAsDaqdDerivesIt /\ LogMatchesFiles /\ RowKeyNeverTaken

\* The caller is told within the deadline how the startup went, or the run ends;
\* and a stop or pause request, or a failure of any thread, always brings the run
\* to its return, also while workers wait for a device and the writer for a frame
\* (daq_runtime.cpp:184, 250, 465, 605).  Verdict, request, failure and return are
\* never taken back, so what holds again and again holds from some point on.
StartsAndEnds ==
  []<>( /\ notified # "none" \/ mpc = "returned"
        /\ stop_requested # 0 \/ startup_failed => mpc = "returned" )
=============================================================================
