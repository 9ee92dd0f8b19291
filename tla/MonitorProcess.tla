--------------------------- MODULE MonitorProcess ---------------------------
(***************************************************************************)
(* How the web backend (src/web/app.py) runs datamon: the handlers that    *)
(* start it, stop it, report on it and choose the analysis to show.  The   *)
(* handlers run in a pool of threads; they share the handle of the child   *)
(* process, a process id and a state file, from which a restarted backend  *)
(* takes up the monitor it finds running.  A step of a handler is one      *)
(* section under _DATAMON_LOCK, or one access outside it that another      *)
(* handler can see.                                                        *)
(*                                                                         *)
(* Processes are numbered in the order they are spawned, so a process id   *)
(* is never given to another process.  0 stands for None.  What a monitor  *)
(* is started with is MonitorOptions'.                                     *)
(***************************************************************************)
EXTENDS FiniteSets, MonitorOptions

CONSTANTS
  Threads,    \* requests that may be under way at the same time
  Scenes,     \* a behaviour takes one: what each thread may be asked for (does),
              \* and whether the backend may be restarted between requests (restart)
  MaxSpawns   \* bound: monitors spawned

Requests == {"start", "stop", "status", "select"}

ASSUME MonitorAssumption ==
  /\ IsFiniteSet(Threads)
  /\ Scenes \subseteq [does : [Threads -> SUBSET Requests], restart : BOOLEAN]
  /\ MaxSpawns \in Nat

Id    == 1 .. MaxSpawns
MaybeId == 0 .. MaxSpawns

VARIABLES
  proc,     \* each monitor: "none", "up", "zombie" (exited, not reaped), "gone"
  orphans,  \* those whose parent was an earlier backend
  PROC, PID, file, \* _DATAMON_PROC, _DATAMON_PID, the pid in DATAMON_STATE_PATH
  shown, kept, \* the monitor that _DATAMON_ACTIVE_* describe, and the state file
  pc,       \* each thread: "idle" or its next step
  proc_of, pid_of, \* locals of the handlers: proc and pid
  scene

known == <<PROC, PID, file, shown, kept>>
vars  == <<proc, orphans, known, pc, proc_of, pid_of, scene>>

Init ==
  /\ proc = [i \in Id |-> "none"] /\ orphans = {}
  /\ PROC = 0 /\ PID = 0 /\ file = 0 /\ shown = 0 /\ kept = 0 /\ scene \in Scenes
  /\ pc = [t \in Threads |-> "idle"]
  /\ proc_of = [t \in Threads |-> 0] /\ pid_of = [t \in Threads |-> 0]

Up == {i \in Id : proc[i] = "up"}

\* _is_pid_alive: an exited child counts as alive until it is reaped.
PidAlive(i) == i # 0 /\ proc[i] \in {"up", "zombie"}

\* What is left of a process that exits, and of one that is waited for.
Exited(i) == IF i \in orphans THEN "gone" ELSE "zombie"
Reaped(i) == [proc EXCEPT ![i] = IF @ = "zombie" THEN "gone" ELSE @]

Goes(t, from, to) == pc[t] = from /\ pc' = [pc EXCEPT ![t] = to]

-----------------------------------------------------------------------------
(* The environment.                                                        *)

Arrive(t) ==
  /\ pc[t] = "idle"
  /\ \E r \in scene.does[t] : pc' = [pc EXCEPT ![t] = r]
  /\ UNCHANGED <<proc, orphans, known, proc_of, pid_of, scene>>

\* A monitor exits, by itself or because it was told to.
Exit(i) ==
  /\ proc[i] = "up" /\ proc' = [proc EXCEPT ![i] = Exited(i)]
  /\ UNCHANGED <<orphans, known, pc, proc_of, pid_of, scene>>

\* The backend is restarted while it handles no request: its globals are gone,
\* its children belong to init, the file stays.
Restart ==
  /\ scene.restart /\ \A t \in Threads : pc[t] = "idle"
  /\ PROC' = 0 /\ PID' = 0 /\ shown' = 0
  /\ orphans' = orphans \union {i \in Id : proc[i] # "none"}
  /\ proc' = [i \in Id |-> IF proc[i] = "zombie" THEN "gone" ELSE proc[i]]
  /\ UNCHANGED <<file, kept, pc, proc_of, pid_of, scene>>

-----------------------------------------------------------------------------
(* _is_datamon_running, one section under the lock.                        *)

\* The process id that counts without a handle.
KnownPid == IF PID # 0 THEN PID ELSE file

Running == IF PROC # 0 THEN proc[PROC] = "up" ELSE PidAlive(KnownPid)

\* Mutant: only the pid is taken up.
BugKnown(i) == PID' = i /\ UNCHANGED <<PROC, file, shown, kept, proc, scene>>

\* Without a handle the pid and what it shows are taken up from the file.
Known(i) ==
  /\ PID' = i /\ shown' = IF PID = 0 THEN kept ELSE shown
  /\ UNCHANGED <<PROC, file, kept, proc, scene>>

Forget ==
  /\ PROC' = 0 /\ PID' = 0 /\ file' = 0 /\ shown' = 0 /\ kept' = 0
  /\ proc' = IF PROC # 0 THEN Reaped(PROC) ELSE proc

\* Mutant: the state file is not looked at.
BugCheckRunning ==
  CASE Running /\ PROC # 0 -> Known(PROC)
    [] Running /\ PROC = 0 /\ PID # 0 -> Known(PID)
    [] OTHER -> Forget

\* A running child is recorded again, an exited one is reaped; a monitor that is
\* not there is forgotten.
CheckRunning ==
  CASE Running /\ PROC # 0 ->
         /\ PID' = PROC /\ file' = PROC /\ kept' = shown
         /\ UNCHANGED <<PROC, shown, proc, scene>>
    [] Running /\ PROC = 0 -> Known(KnownPid)
    [] ~Running -> Forget

-----------------------------------------------------------------------------
(* get_monitor_status; get_datamon_log tells no more than the pid.         *)

\* Without a monitor there is nothing more to look at.
Status(t) ==
  /\ Goes(t, "status", IF Running THEN "report" ELSE "idle") /\ CheckRunning
  /\ pid_of' = [pid_of EXCEPT ![t] = PID']
  /\ UNCHANGED <<orphans, proc_of, scene>>

\* The page is told of the monitor found running and, read one after the other
\* without the lock, of the decoder, the analyses and the selection shown by now.
Report(t) ==
  /\ Goes(t, "report", "idle")
  /\ UNCHANGED <<orphans, proc, known, proc_of, pid_of, scene>>

-----------------------------------------------------------------------------
(* start_datamon                                                           *)

\* Mutant: a monitor that is running does not keep another from being started.
BugStartCheck(t) ==
  /\ Goes(t, "start", "spawn") /\ CheckRunning
  /\ UNCHANGED <<orphans, proc_of, pid_of, scene>>

StartCheck(t) ==
  /\ Goes(t, "start", IF Running THEN "idle" ELSE "spawn") /\ CheckRunning
  /\ UNCHANGED <<orphans, proc_of, pid_of, scene>>

\* The modules cannot be listed, the request is refused, or Popen fails; in the
\* last case the handle is dropped.
StartFails(t) ==
  /\ Goes(t, "spawn", "idle")
  /\ PROC' \in {PROC, 0}
  /\ UNCHANGED <<orphans, proc, PID, file, shown, kept, proc_of, pid_of, scene>>

\* Popen; whatever handle was there is overwritten.
Spawn(t) ==
  /\ Goes(t, "spawn", "record")
  /\ \E i \in Id :
       /\ proc[i] = "none" /\ \A j \in Id : j < i => proc[j] # "none"
       /\ proc' = [proc EXCEPT ![i] = "up"]
       /\ PROC' = i
  /\ UNCHANGED <<orphans, PID, file, shown, kept, proc_of, pid_of, scene>>

\* The pid of the handle is recorded, outside the lock: the handle is looked at
\* first (one that was dropped meanwhile ends the request in an exception) ...
Record(t) ==
  /\ Goes(t, "record", IF PROC = 0 THEN "idle" ELSE "record write")
  /\ pid_of' = [pid_of EXCEPT ![t] = PROC]
  /\ UNCHANGED <<orphans, proc, known, proc_of, scene>>

\* ... and then the pid set ...
RecordWrite(t) ==
  /\ Goes(t, "record write", "show") /\ PID' = pid_of[t]
  /\ UNCHANGED <<orphans, proc, PROC, file, shown, kept, proc_of, pid_of, scene>>

\* ... and what the monitor was started with.  (A selection is sent in between.)
Show(t) ==
  /\ Goes(t, "show", "keep") /\ shown' = pid_of[t]
  /\ UNCHANGED <<orphans, proc, PROC, PID, file, kept, proc_of, pid_of, scene>>

-----------------------------------------------------------------------------
(* set_selected_analysis                                                   *)

\* The new selection is persisted, and sent to a monitor that runs.
Select(t) ==
  /\ Goes(t, "select", "keep") /\ CheckRunning
  /\ UNCHANGED <<orphans, proc_of, pid_of, scene>>

-----------------------------------------------------------------------------
(* _persist_datamon_state of the two handlers, outside the lock.           *)

\* The pid is looked at first ...
KeepRead(t) ==
  /\ Goes(t, "keep", "keep write") /\ pid_of' = [pid_of EXCEPT ![t] = PID]
  /\ UNCHANGED <<orphans, proc, known, proc_of, scene>>

\* Mutant: the file is not written.
BugKeepWrite(t) ==
  /\ Goes(t, "keep write", "idle")
  /\ UNCHANGED <<orphans, proc, known, proc_of, pid_of, scene>>

\* ... and then the file written or, without a pid, removed.
KeepWrite(t) ==
  /\ Goes(t, "keep write", "idle") /\ file' = pid_of[t]
  /\ kept' = IF pid_of[t] = 0 THEN 0 ELSE shown
  /\ UNCHANGED <<orphans, proc, PROC, PID, shown, proc_of, pid_of, scene>>

-----------------------------------------------------------------------------
(* stop_datamon                                                            *)

StopGrab(t) ==
  /\ Goes(t, "stop", "check")
  /\ proc_of' = [proc_of EXCEPT ![t] = PROC] /\ pid_of' = [pid_of EXCEPT ![t] = PID]
  /\ UNCHANGED <<orphans, proc, known, scene>>

\* "datamon is not running", without a look at the file.
StopNothing(t) ==
  /\ proc_of[t] = 0 /\ ~PidAlive(pid_of[t])
  /\ Goes(t, "check", "idle")
  /\ UNCHANGED <<orphans, proc, known, proc_of, pid_of, scene>>

\* The process the handler is about to stop.
Target(t) == IF proc_of[t] # 0 THEN proc_of[t] ELSE pid_of[t]

\* Mutant: a stop with nothing to stop goes on all the same.
BugStopSignal(t) ==
  /\ Goes(t, "check", "wait")
  /\ UNCHANGED <<proc, orphans, known, proc_of, pid_of, scene>>

StopSignal(t) ==
  /\ proc_of[t] # 0 \/ PidAlive(pid_of[t])
  /\ Goes(t, "check", "wait")
  /\ UNCHANGED <<proc, orphans, known, proc_of, pid_of, scene>>

\* Mutant: a monitor that does not end in time is left alone.
BugStopWaited(t) ==
  /\ Goes(t, "wait", "clear")
  /\ proc' = IF proc_of[t] # 0 THEN Reaped(proc_of[t]) ELSE proc
  /\ UNCHANGED <<orphans, known, proc_of, pid_of, scene>>

\* Mutant: the handler waits for it however long it takes.
BugStopWaits(t) ==
  /\ Goes(t, "wait", "clear") /\ proc[Target(t)] # "up"
  /\ proc' = IF proc_of[t] # 0 THEN Reaped(proc_of[t]) ELSE proc
  /\ UNCHANGED <<orphans, known, proc_of, pid_of, scene>>

\* It ends in time, or is terminated and in the end killed; a child is reaped.
StopWaited(t) ==
  /\ Goes(t, "wait", "clear")
  /\ proc' = [proc EXCEPT ![Target(t)] =
                IF proc_of[t] # 0 THEN "gone" ELSE IF @ = "up" THEN Exited(Target(t)) ELSE @]
  /\ UNCHANGED <<orphans, known, proc_of, pid_of, scene>>

StopClear(t) ==
  /\ Goes(t, "clear", "idle")
  /\ PROC' = 0 /\ PID' = 0 /\ file' = 0 /\ shown' = 0 /\ kept' = 0
  /\ UNCHANGED <<orphans, proc, proc_of, pid_of, scene>>

-----------------------------------------------------------------------------
Handler(t) ==
  \/ Status(t) \/ Report(t) \/ StartCheck(t) \/ StartFails(t) \/ Spawn(t) \/ Record(t) \/ RecordWrite(t) \/ Show(t)
  \/ Select(t) \/ KeepRead(t) \/ KeepWrite(t)
  \/ StopGrab(t) \/ StopNothing(t) \/ StopSignal(t) \/ StopWaited(t) \/ StopClear(t)

Next ==
  \/ \E t \in Threads : Arrive(t) \/ Handler(t)
  \/ \E i \in Id : Exit(i)
  \/ Restart

\* A handler that runs comes to its end; nothing else has to happen.
Spec     == Init /\ [][Next]_vars
FairSpec == Spec /\ \A t \in Threads : WF_vars(Handler(t))

-----------------------------------------------------------------------------
(* Properties.                                                             *)

\* Types; a handler that waits for a monitor to end has one.
TypeOK ==
  /\ proc \in [Id -> {"none", "up", "zombie", "gone"}]
  /\ orphans \subseteq Id
  /\ {PROC, PID, file, shown, kept} \subseteq MaybeId
  /\ proc_of \in [Threads -> MaybeId] /\ pid_of \in [Threads -> MaybeId]
  /\ \A t \in Threads : pc[t] \in {"wait", "clear"} => Target(t) # 0
  /\ \A i \in orphans : proc[i] # "zombie"

\* What most of them need: one thread starts and stops; others may ask for the
\* status at any time and, in a backend that is not restarted, select analyses.
\* (If a selection overwrites the file with an old pid and then the backend is
\* restarted, it does not know its monitor, and may start another.)
Operates(t) == scene.does[t] \intersect {"start", "stop"} # {}
Selects     == \E t \in Threads : "select" \in scene.does[t]
OneOperator ==
  /\ \A t, u \in Threads : Operates(t) /\ Operates(u) => t = u
  /\ ~(scene.restart /\ Selects)

\* There is never more than one monitor, though start_datamon looks for one
\* before it takes the lock to spawn another (app.py:738 and 827).
OneMonitor == Cardinality(Up) <= 1

\* While no request is under way, a running monitor is the one the state file
\* names: a backend that is restarted now finds it (app.py:409-416, 856).  (A
\* selection that persists the state with the pid it read before loses it.)
RestartFindsMonitor ==
  (\A t \in Threads : pc[t] = "idle" /\ "select" \notin scene.does[t]) => Up \subseteq {file}

\* Once stop_datamon has cleared the globals, no monitor runs (app.py:915).
StopLeavesNone ==
  [][OneOperator => \A t \in Threads : pc[t] = "clear" /\ pc'[t] = "idle" => Up = {}]_vars

\* "datamon is not running" is true, unless the monitor was started before the
\* backend was and nobody had asked for the status yet: then only the file
\* knows of it (app.py:872).
NotRunningIsTrue ==
  [][OneOperator => \A t \in Threads :
       pc[t] = "check" /\ pc'[t] = "idle" => Up \subseteq orphans /\ (Up # {} => pid_of[t] = 0)]_vars

\* A start is under way that does not show its monitor yet.
Unshown == \E t \in Threads : pc[t] \in {"spawn", "record", "record write", "show"}

\* A page that is told of a running monitor is told of the decoder and the
\* analyses of that one, whenever it reads them, and also by a backend that found
\* it in the state file; unless a start is under way, or the monitor has ended
\* since it was found: then a stop may have cleared them, or another start set
\* them (app.py:419, 646 to 658, 846 and 915).
ShownIsRunning ==
  [](OneOperator /\ ~Unshown => \A t \in Threads :
       pc[t] = "report" /\ pid_of[t] \in Up => shown = pid_of[t])

\* What a stop waits for is the monitor that runs, if any still does, though it
\* waits without the lock for what it found before (app.py:869 and 915).
StopEndsWhatItFound ==
  \A t \in Threads : pc[t] \in {"wait", "clear"} => Up \subseteq {Target(t)}

\* Every request is answered.
RequestsAreAnswered == \A t \in Threads : []<>(pc[t] = "idle")

\* With one operator there is one monitor at most, and everybody means it: the
\* state file between requests, and a stop that waits for it (app.py:409, 738,
\* 827, 856 and 915).
OneKnownMonitor ==
  TypeOK /\ (OneOperator => OneMonitor /\ RestartFindsMonitor /\ StopEndsWhatItFound)

\* What the backend answers one operator is true: to a stop that found a monitor or none, and
\* to a page that asks what runs (app.py:646, 872 and 915).
BackendTellsTrue == StopLeavesNone /\ NotRunningIsTrue /\ ShownIsRunning

\* What is started is what the backend shows, and no command line gives datamon
\* a pipeline that cannot work (app.py:742 to 824, datamon.cpp:171 to 498).
StartsWhatItShows ==
  \A t \in Threads : pc[t] = "spawn" => MonitorIsAsShown /\ PipelineIsSane
=============================================================================
