----------------------------- MODULE DaqService -----------------------------
(***************************************************************************)
(* The daemon: DaqService and the command loop of src/control/daqd.cpp.    *)
(* One control thread answers start, stop, pause, resume and shutdown, one *)
(* command at a time; each acquisition runs in a thread of its own that    *)
(* calls back into the service under its mutex.  A step is one critical    *)
(* section of the mutex, one database call, or one wait.                   *)
(*                                                                         *)
(* RunDaqCore, which DaqRuntime models, is taken here for what the daemon  *)
(* sees of it: it says once how the startup went, opens files and          *)
(* publishes records, inserts rows, and returns a code.  The run log and   *)
(* the files outlive the process.                                          *)
(***************************************************************************)
EXTENDS Integers, FiniteSets

CONSTANTS
  EventsPerFile, \* events_per_file of every run
  MaxRequest,    \* bound: run numbers a client asks for
  MaxEvents,     \* bound: records one acquisition publishes
  MaxStarts,     \* bound: acquisitions started
  FaultSets      \* what may happen besides commands: a behaviour takes one of
                 \* these sets and draws its faults from it

\* The run's duration ends, a thread of it fails, a database call fails, the
\* process is killed.
AllFaults == {"duration", "failure", "database", "crash"}

ASSUME ServiceAssumption ==
  /\ EventsPerFile \in Nat \ {0}
  /\ MaxRequest \in Nat /\ MaxEvents \in Nat /\ MaxStarts \in Nat
  /\ FaultSets \subseteq SUBSET AllFaults

AutoRun    == -1                       \* no run number requested
Runs    == 0 .. MaxRequest + MaxStarts
Subruns == Nat
File    == Runs \X Subruns          \* runNNNNN_subNNNNN.dat
Row     == [file : File, status : {"completed", "stopped", "error", "paused"}]

VARIABLES
  \* members of DaqService, under mu_ (stop_requested_ is not)
  running, state, stop_requested, shutting_down, last_exit, published,
  ready, ready_ok, cfg,
  \* std::thread worker_: does the member hold a thread?
  handle,
  \* the thread that runs RunDaqCore: where it is, its writer's file, its outcome
  thread, subrun, events, failed,
  \* the control thread: where it is, the command, its argument, its last answer
  ctl, cmd, request, reply,
  \* on disk and in the database
  files, run_log,
  \* those of the files all of whose bytes are of a record that failed
  torn,
  \* acquisitions started so far, and what may go wrong
  starts, faults

serviceVars == <<running, state, stop_requested, shutting_down, last_exit, published,
                 ready, ready_ok, cfg, handle>>
runVars     == <<thread, subrun, events, failed>>
ctlVars     == <<ctl, cmd, request, reply>>
kept        == <<files, torn, run_log>>
limits      == <<starts, faults>>
vars        == <<serviceVars, runVars, ctlVars, kept, limits>>

Config == [run : Runs, subrun_start : Subruns, allow_existing : BOOLEAN]

\* Mutant: the published records are divided without the - 1.
BugSubrunEarly == cfg.subrun_start + published \div EventsPerFile

\* Mutant: published = 0 is not set apart, and 0 - 1 wraps (at a width TLC counts).
BugZeroWraps ==
  cfg.subrun_start + ((published + 2^16 - 1) % 2^16) \div EventsPerFile

\* current_subrun_number_locked: from the count of published records alone.
CurrentSubrun ==
  cfg.subrun_start +
    (IF published = 0 THEN 0 ELSE (published - 1) \div EventsPerFile)

\* Mutant: a full file counts as an empty one.
BugEventsInFile == published % EventsPerFile

\* events_in_file of the status line, again from that count alone.
EventsInFile == IF published = 0 THEN 0 ELSE ((published - 1) % EventsPerFile) + 1

\* The files that hold a record whose write and flush succeeded.
Records == files \ torn

Logged == {row.file : row \in run_log}
CurrentFile == <<cfg.run, subrun>>

NoConfig == [run |-> 0, subrun_start |-> 0, allow_existing |-> FALSE]

Init ==
  /\ running = FALSE /\ state = "idle" /\ stop_requested = 0
  /\ shutting_down = FALSE /\ last_exit = 0 /\ published = 0
  /\ ready = FALSE /\ ready_ok = FALSE
  /\ cfg = NoConfig /\ handle = FALSE
  /\ thread = "none" /\ subrun = 0 /\ events = 0 /\ failed = FALSE
  /\ ctl = "recv" /\ cmd = "none" /\ request = AutoRun /\ reply = "none"
  /\ files = {} /\ torn = {} /\ run_log = {} /\ starts = 0 /\ faults \in FaultSets

-----------------------------------------------------------------------------
(* The control thread.                                                     *)

Goes(from, to) == ctl = from /\ ctl' = to
Answer(text)   == reply' = text

\* A command is received (REP socket, one at a time).
Receive(c, n) ==
  /\ ~shutting_down
  /\ Goes("recv", CASE c \in {"start", "resume"} -> "reap"
                    [] c \in {"stop", "pause"}   -> "halt"
                    [] c = "shutdown"            -> "ask_running")
  /\ c \in {"start", "resume"} => starts < MaxStarts
  /\ cmd' = c /\ request' = n
  /\ UNCHANGED <<serviceVars, runVars, reply, kept, limits>>

\* reap_finished_worker: a thread whose run is over is taken and joined.
ReapFinished ==
  /\ IF running \/ ~handle
     THEN Goes("reap", IF cmd = "start" THEN "resolve" ELSE "begin") /\ UNCHANGED handle
     ELSE Goes("reap", "reap_join") /\ handle' = FALSE
  /\ UNCHANGED <<running, state, stop_requested, shutting_down, last_exit, published,
                 ready, ready_ok, cfg, runVars, cmd, request, reply, kept, limits>>

ReapJoin ==
  /\ thread = "exited"
  /\ Goes("reap_join", IF cmd = "start" THEN "resolve" ELSE "begin")
  /\ UNCHANGED <<serviceVars, runVars, cmd, request, reply, kept, limits>>

\* ResolveRunNumber: a requested number must be new, else MAX(run) + 1.
RunsLogged == {file[1] : file \in Logged}
NextRun == IF RunsLogged = {} THEN 0
           ELSE 1 + CHOOSE n \in RunsLogged : \A m \in RunsLogged : m <= n

\* The mysql client cannot be started, or fails.
QueryFails == "database" \in faults

ResolveRun ==
  /\ \/ /\ request \in RunsLogged \/ QueryFails
        /\ Goes("resolve", "recv") /\ Answer("error") /\ UNCHANGED request
     \/ /\ request \notin RunsLogged
        /\ Goes("resolve", "begin") /\ UNCHANGED reply
        /\ request' = IF request = AutoRun THEN NextRun ELSE request
  /\ UNCHANGED <<serviceVars, runVars, cmd, kept, limits>>

\* start_locked.  Assigning to worker_ while it still holds a thread calls
\* std::terminate.
StartLocked(config) ==
  /\ running' = TRUE /\ state' = "running" /\ stop_requested' = 0
  /\ published' = 0 /\ ready' = FALSE /\ ready_ok' = FALSE
  /\ cfg' = config /\ handle' = TRUE
  /\ thread' = "resolve" /\ subrun' = config.subrun_start
  /\ events' = 0 /\ failed' = FALSE
  /\ ctl' = IF handle THEN "terminated" ELSE "poll"
  /\ starts' = starts + 1
  /\ UNCHANGED <<shutting_down, last_exit, cmd, request, reply, kept, faults>>

Refuse == Goes("begin", "recv") /\ Answer("error")
          /\ UNCHANGED <<serviceVars, runVars, cmd, request, kept, limits>>

BeginRun ==
  /\ ctl = "begin" /\ cmd = "start"
  /\ \/ (running \/ state = "paused") /\ Refuse
     \/ /\ ~running /\ state # "paused"
        /\ StartLocked([run |-> request, subrun_start |-> 0, allow_existing |-> FALSE])

ResumeRun ==
  /\ ctl = "begin" /\ cmd = "resume"
  /\ \/ (running \/ state # "paused") /\ Refuse
     \/ /\ ~running /\ state = "paused"
        /\ StartLocked([cfg EXCEPT !.allow_existing = TRUE])

\* Mutant: any status is good news.
BugReadyIsOk ==
  /\ Goes("poll", "recv")
  /\ \/ running /\ ready /\ Answer("ok")
     \/ ~running /\ Answer("error")
     \/ running /\ ~ready /\ Answer("timeout")
  /\ UNCHANGED <<serviceVars, runVars, cmd, request, kept, limits>>

\* The wait for the startup status: answered by the run's end, by the status, or
\* by the deadline, which leaves the run alone.
PollStartup ==
  /\ Goes("poll", "recv")
  /\ \/ running /\ ready /\ ready_ok /\ Answer("ok")
     \/ (~running \/ (ready /\ ~ready_ok)) /\ Answer("error")
     \/ running /\ ~ready /\ Answer("timeout")
  /\ UNCHANGED <<serviceVars, runVars, cmd, request, kept, limits>>

\* Where a command that ends with stop() goes on.
AfterStop == IF cmd = "stop" THEN "recv" ELSE "shut"

\* stop() and pause(), first critical section: nothing to halt, or the stop word
\* is written and the thread is taken out of worker_.
NothingToHalt ==
  /\ ~running
  /\ Goes("halt", IF cmd = "pause" THEN "recv" ELSE AfterStop)
  /\ IF cmd # "pause" /\ state = "paused"
     THEN state' = "idle" /\ Answer("ok")
     ELSE UNCHANGED state /\ Answer("error")
  /\ UNCHANGED <<running, stop_requested, shutting_down, last_exit, published, ready,
                 ready_ok, cfg, handle, runVars, cmd, request, kept, limits>>

Halt(word) ==
  /\ running
  /\ Goes("halt", "join")
  /\ state' = IF cmd = "pause" THEN "pausing" ELSE "stopping"
  /\ stop_requested' = word
  /\ handle' = FALSE
  /\ UNCHANGED <<running, shutting_down, last_exit, published, ready, ready_ok, cfg,
                 runVars, cmd, request, reply, kept, limits>>

\* Mutant: pause forgets the stop word.
BugPauseUnasked == Halt(IF cmd = "pause" THEN 0 ELSE 1)

HaltRun == Halt(IF cmd = "pause" THEN 2 ELSE 1)

\* stop(), after the join: the thread has left its verdict in state_ already.
StopEnds(joined, verdict) ==
  /\ cmd # "pause" /\ joined
  /\ Goes("join", AfterStop)
  /\ state' = verdict
  /\ Answer("ok")
  /\ UNCHANGED <<running, stop_requested, shutting_down, last_exit, published, ready,
                 ready_ok, cfg, handle, runVars, cmd, request, kept, limits>>

StopVerdict == IF ~running /\ state = "stopping"
               THEN IF last_exit = 0 THEN "idle" ELSE "error"
               ELSE state

\* Mutant: the thread is let go instead of joined.
BugDetach == StopEnds(TRUE, StopVerdict)

\* Mutant: stopped is idle, whatever the run returned.
BugStoppedIsIdle == StopEnds(thread = "exited", "idle")

StopJoined == StopEnds(thread = "exited", StopVerdict)

\* pause(), after the join: a failed run cannot be paused; otherwise the last row
\* is marked and the next subrun prepared.
PauseFailed ==
  /\ last_exit # 0
  /\ state' = "error" /\ Answer("error")
  /\ UNCHANGED <<cfg, run_log>>

Mark(row, file, text) == IF row.file = file THEN [row EXCEPT !.status = text] ELSE row

PauseTo(next) ==
  /\ last_exit = 0
  /\ run_log' = IF published = 0 THEN run_log
                ELSE {Mark(row, <<cfg.run, CurrentSubrun>>, "paused") : row \in run_log}
  /\ cfg' = [cfg EXCEPT !.subrun_start = next, !.allow_existing = TRUE]
  /\ state' = "paused" /\ Answer("ok")

\* UPDATE fails: the pause is reported as an error.
PauseUnmarked ==
  /\ last_exit = 0 /\ published > 0 /\ "database" \in faults
  /\ state' = "error" /\ Answer("error")
  /\ UNCHANGED <<cfg, run_log>>

PauseEnds(next) ==
  /\ cmd = "pause" /\ thread = "exited"
  /\ Goes("join", "recv")
  /\ PauseFailed \/ PauseTo(next) \/ PauseUnmarked
  /\ UNCHANGED <<running, stop_requested, shutting_down, last_exit, published, ready,
                 ready_ok, handle, runVars, cmd, request, files, torn, limits>>

\* Mutant: the subrun is counted from the subrun the run began with.
BugSameSubrun == PauseEnds(cfg.subrun_start + 1)

PauseJoined == PauseEnds(CurrentSubrun + 1)

\* shutdown(): is_running() in one critical section, stop() in others, and the
\* flag in the last one.
ThenGo(next) ==
  /\ Goes("ask_running", next)
  /\ UNCHANGED <<serviceVars, runVars, cmd, request, reply, kept, limits>>

\* Mutant: shutdown does not stop the run.
BugJustShut == ThenGo("shut")

AskRunning == ThenGo(IF running THEN "halt" ELSE "shut")

ShutDown ==
  /\ Goes("shut", IF cmd = "shutdown" THEN "recv" ELSE "destroy")
  /\ shutting_down' = TRUE /\ Answer("ok")
  /\ UNCHANGED <<running, state, stop_requested, last_exit, published, ready, ready_ok,
                 cfg, handle, runVars, cmd, request, kept, limits>>

\* The command loop ends on shutdown, or on SIGINT and SIGTERM, and main() calls
\* shutdown() before the service goes.
LeaveLoop ==
  /\ Goes("recv", "ask_running")
  /\ cmd' = "exit"
  /\ UNCHANGED <<serviceVars, runVars, request, reply, kept, limits>>

\* ~DaqService: the second shutdown() finds nothing running; the destructor of a
\* worker_ that holds a thread calls std::terminate.
Destroy ==
  /\ Goes("destroy", IF handle THEN "terminated" ELSE "gone")
  /\ UNCHANGED <<serviceVars, runVars, cmd, request, reply, kept, limits>>

-----------------------------------------------------------------------------
(* The acquisition thread: RunDaqCore as the service sees it.              *)

\* The steps of RunDaqCore proper leave the service and the control thread alone.
Alive == ctl # "terminated"
ThreadGoes(from, to) == Alive /\ thread = from /\ thread' = to
apart == <<running, state, stop_requested, shutting_down, last_exit, cfg, handle,
           ctlVars, limits>>

\* The run number is resolved again, unless the run is a resumed one.
CoreResolve ==
  /\ \/ /\ cfg.allow_existing \/ cfg.run \notin RunsLogged
        /\ ThreadGoes("resolve", "acquire") /\ UNCHANGED failed
     \/ /\ ~cfg.allow_existing /\ (cfg.run \in RunsLogged \/ QueryFails)
        /\ ThreadGoes("resolve", "leave") /\ failed' = TRUE
  /\ UNCHANGED <<apart, published, ready, ready_ok, subrun, events, kept>>

\* on_startup_status, at most once: all devices connected, or the run fails.
StartupStatus ==
  /\ ~ready /\ ready' = TRUE
  /\ \/ /\ ThreadGoes("acquire", "acquire") /\ ready_ok' = TRUE /\ UNCHANGED failed
     \/ /\ "failure" \in faults
        /\ ThreadGoes("acquire", "seal") /\ ready_ok' = FALSE /\ failed' = TRUE
  /\ UNCHANGED <<apart, published, subrun, events, kept>>

\* A row for the writer's file.
InsertRow(text) ==
  CurrentFile \notin Logged /\ run_log' = run_log \cup {[file |-> CurrentFile, status |-> text]}

InsertFails ==
  ("database" \in faults \/ CurrentFile \in Logged) /\ UNCHANGED run_log

\* A frame needs a file.  The full one is logged first; open truncates.
Truncate(n) ==
  /\ subrun' = n /\ events' = 0
  /\ files' = files \ {<<cfg.run, n>>} /\ torn' = torn \ {<<cfg.run, n>>}

FirstFile ==
  /\ published = 0 /\ published < MaxEvents
  /\ ThreadGoes("acquire", "emit")
  /\ Truncate(subrun)
  /\ UNCHANGED <<apart, published, ready, ready_ok, failed, run_log>>

NextFile ==
  /\ published > 0 /\ published < MaxEvents /\ events >= EventsPerFile
  /\ \/ /\ ThreadGoes("acquire", "emit") /\ InsertRow("completed") /\ Truncate(subrun + 1)
        /\ UNCHANGED failed
     \/ /\ ThreadGoes("acquire", "leave") /\ InsertFails /\ failed' = TRUE
        /\ UNCHANGED <<subrun, events, files, torn>>
     \/ /\ "failure" \in faults
        /\ ThreadGoes("acquire", "leave") /\ InsertRow("completed") /\ failed' = TRUE
        /\ subrun' = subrun + 1 /\ UNCHANGED <<events, files, torn>>
  /\ UNCHANGED <<apart, published, ready, ready_ok>>

SameFile ==
  /\ published > 0 /\ published < MaxEvents /\ events < EventsPerFile
  /\ ThreadGoes("acquire", "emit")
  /\ UNCHANGED <<apart, published, ready, ready_ok, subrun, events, failed, kept>>

\* on_frame_published counts the record ...
PublishFrame ==
  /\ ThreadGoes("emit", "write")
  /\ published' = published + 1
  /\ UNCHANGED <<apart, ready, ready_ok, subrun, events, failed, kept>>

\* ... and it is written and flushed.
WriteFrame ==
  /\ ThreadGoes("write", "acquire")
  /\ events' = events + 1 /\ files' = files \cup {CurrentFile}
  /\ UNCHANGED <<apart, published, ready, ready_ok, subrun, failed, run_log, torn>>

\* write or flush fails: the record is published, the row counts it out, and the
\* file may be left with bytes of it, or with all of it.  If it is the first of its
\* file there is no row (line 371): nothing but the file itself tells of those bytes.
WriteFails ==
  /\ "failure" \in faults
  /\ ThreadGoes("write", "leave") /\ failed' = TRUE
  /\ (IF events = 0 THEN UNCHANGED run_log ELSE InsertRow("error")) \/ InsertFails
  /\ \/ UNCHANGED <<files, torn>>
     \/ /\ events = 0
        /\ files' = files \cup {CurrentFile} /\ torn' = torn \cup {CurrentFile}
  /\ UNCHANGED <<apart, published, ready, ready_ok, subrun, events>>

\* The run comes to its end: asked to, by duration, or by a failing thread.
EndRun ==
  /\ ThreadGoes("acquire", "seal")
  /\ \/ (stop_requested # 0 \/ "duration" \in faults) /\ UNCHANGED failed
     \/ "failure" \in faults /\ failed' = TRUE
  /\ UNCHANGED <<apart, published, ready, ready_ok, subrun, events, kept>>

FinalStatus == IF failed THEN "error"
               ELSE IF events >= EventsPerFile THEN "completed" ELSE "stopped"

SealFile ==
  /\ ThreadGoes("seal", "leave")
  /\ \/ (IF events = 0 THEN UNCHANGED run_log ELSE InsertRow(FinalStatus)) /\ UNCHANGED failed
     \/ events > 0 /\ InsertFails /\ failed' = TRUE
  /\ UNCHANGED <<apart, published, ready, ready_ok, subrun, events, files, torn>>

\* The thread's last critical section; the thread ends, worker_ still holds it.
RunReturns ==
  /\ ThreadGoes("leave", "exited")
  /\ running' = FALSE
  /\ last_exit' = IF failed THEN 1 ELSE 0
  /\ state' = IF failed THEN "error" ELSE "idle"
  /\ UNCHANGED <<stop_requested, shutting_down, published, ready, ready_ok, cfg, handle,
                 subrun, events, failed, ctlVars, kept, limits>>

-----------------------------------------------------------------------------
(* The process is killed, or ended by a start that asks for help (see      *)
(* ControlPlane), and started again; files and run log stay.               *)
Crash ==
  /\ "crash" \in faults /\ starts < MaxStarts /\ thread # "none"
  /\ running' = FALSE /\ state' = "idle" /\ stop_requested' = 0
  /\ shutting_down' = FALSE /\ last_exit' = 0 /\ published' = 0
  /\ ready' = FALSE /\ ready_ok' = FALSE /\ cfg' = NoConfig /\ handle' = FALSE
  /\ thread' = "none" /\ subrun' = 0 /\ events' = 0 /\ failed' = FALSE
  /\ ctl' = "recv" /\ cmd' = "none" /\ request' = AutoRun /\ reply' = "none"
  /\ UNCHANGED <<kept, limits>>

-----------------------------------------------------------------------------
Control ==
  \/ ReapFinished \/ ReapJoin \/ ResolveRun \/ BeginRun \/ ResumeRun \/ PollStartup
  \/ NothingToHalt \/ HaltRun \/ StopJoined \/ PauseJoined
  \/ AskRunning \/ ShutDown \/ Destroy

Acquisition ==
  \/ CoreResolve \/ StartupStatus \/ FirstFile \/ NextFile \/ SameFile
  \/ PublishFrame \/ WriteFrame \/ WriteFails \/ EndRun \/ SealFile \/ RunReturns

Operator ==
  \/ \E n \in {AutoRun} \cup 0 .. MaxRequest : Receive("start", n)
  \/ \E c \in {"stop", "pause", "resume", "shutdown"} : Receive(c, AutoRun)
  \/ LeaveLoop

\* The process has ended, one way or the other.
Ended == ctl \in {"gone", "terminated"} /\ UNCHANGED vars

Next == Control \/ Acquisition \/ Operator \/ Crash \/ Ended

Spec == Init /\ [][Next]_vars
-----------------------------------------------------------------------------
(* Correctness properties.                                                 *)

\* Every variable keeps its kind.
TypeOK ==
  /\ running \in BOOLEAN /\ stop_requested \in 0..2 /\ shutting_down \in BOOLEAN
  /\ state \in {"idle", "running", "stopping", "pausing", "paused", "error"}
  /\ last_exit \in {0, 1} /\ published \in Nat
  /\ ready \in BOOLEAN /\ ready_ok \in BOOLEAN /\ cfg \in Config /\ handle \in BOOLEAN
  /\ thread \in {"none", "resolve", "acquire", "emit", "write", "seal", "leave", "exited"}
  /\ subrun \in Subruns /\ events \in Nat /\ failed \in BOOLEAN
  /\ ctl \in {"recv", "reap", "reap_join", "resolve", "begin", "poll", "halt", "join",
              "ask_running", "shut", "destroy", "gone", "terminated"}
  /\ cmd \in {"none", "start", "stop", "pause", "resume", "shutdown", "exit"}
  /\ request \in {AutoRun} \cup Runs /\ reply \in {"none", "ok", "error", "timeout"}
  /\ files \in SUBSET File /\ torn \in SUBSET files /\ run_log \in SUBSET Row /\ starts \in 0 .. MaxStarts
  /\ faults \in FaultSets

\* running_ says exactly that an acquisition thread is under way, and somebody
\* always holds that thread: worker_, or the command that is about to join it.
RunIsOwned ==
  /\ running <=> thread \notin {"none", "exited"}
  /\ running => handle \/ ctl \in {"join", "terminated"}

\* "Ok stopped" and "Ok paused" are said only when the acquisition is over.
HaltedMeansOver ==
  ctl = "recv" /\ cmd \in {"stop", "pause"} /\ reply = "ok" => ~running

\* "Ok started" and "Ok resumed" are said only of a run all of whose devices
\* have connected.
StartedMeansConnected ==
  ctl = "recv" /\ cmd \in {"start", "resume"} /\ reply = "ok" => ready_ok

\* A run that returned non-zero leaves the daemon unhealthy, however it was ended.
FailureLeavesError ==
  ctl = "recv" /\ ~running /\ last_exit = 1 => state = "error"

\* The subrun and the events in it that the daemon reports from its count are
\* those of the writer, while the run goes well: it is never ahead of the writer by
\* more than the record in hand (daqd.cpp:461 and 495).
DaemonKnowsPlace ==
  running /\ ~failed /\ thread # "emit" =>
    CurrentSubrun = subrun /\ EventsInFile = events + (IF thread = "write" THEN 1 ELSE 0)

\* A pause marks the row of the last file, and resuming continues with subruns
\* that have no row and no file with a record that was written and flushed
\* (daqd.cpp:378), as long as the run log is reliable and the daemon lives.  What
\* an earlier failed write left behind may lie there, and is truncated.
PauseIsResumable ==
  state = "paused" /\ faults \intersect {"database", "crash"} = {} =>
    /\ published > 0 =>
         [file |-> <<cfg.run, cfg.subrun_start - 1>>, status |-> "paused"] \in run_log
    /\ \A file \in Records \cup Logged : file[1] = cfg.run => file[2] < cfg.subrun_start

\* As long as the run log is reliable and the daemon lives, no acquisition
\* truncates a file that holds a record that was written and flushed
\* (daq_runtime.cpp:389), although run and subrun numbers come from three places
\* and failed writes leave files that no row names: only those are truncated.
FilesAreNotOverwritten ==
  [][faults \intersect {"database", "crash"} = {} =>
       Records \subseteq Records']_<<files, torn>>

\* daq_runtime.cpp:448: "Keep file output latency low for online monitoring and
\* crash resilience."  What was flushed before a crash is there afterwards.
CrashKeepsFiles == [][Records \subseteq Records']_<<files, torn>>

\* If runs end only on command, no sequence of commands and no exit assigns to or
\* destroys a worker_ that holds a thread (daqd.cpp:424, 521): it is std::terminate.
\* A run that ends by itself and then an exit of the daemon is just that.
NeverTerminates == faults = {} => ctl # "terminated"

-----------------------------------------------------------------------------
(* Liveness.  Both threads are scheduled, waits and database calls return,   *)
(* and a stopped RunDaqCore leaves its loop (StartsAndEnds of DaqRuntime).    *)
(* Nothing is assumed of devices, of the data, or of the operator.           *)
Fairness ==
  /\ WF_vars(Control)
  /\ WF_vars(CoreResolve \/ PublishFrame \/ WriteFrame \/ SealFile \/ RunReturns)
  /\ WF_vars(EndRun /\ stop_requested # 0)

FairSpec == Spec /\ Fairness

\* Every command is answered, and leaving the loop ends the process.
CommandsAreAnswered ==
  ctl \notin {"recv", "gone", "terminated"} ~> ctl \in {"recv", "gone", "terminated"}

\* The daemon knows what became of its acquisition, whoever ended it: answers are
\* true when they are given, a failure leaves an error, and the subrun and events
\* in the status are the writer's (daqd.cpp:298, 329, 335, 461 and 495).
DaemonKnowsItsRun ==
  /\ TypeOK
  /\ HaltedMeansOver /\ StartedMeansConnected
  /\ FailureLeavesError /\ DaemonKnowsPlace

\* At every step somebody owns the acquisition thread, and if runs end only on
\* command it is never destroyed or assigned over (daqd.cpp:326, 424 and 521).
ThreadIsOwned == RunIsOwned /\ NeverTerminates
=============================================================================
