--------------------------- MODULE WebBackendProofs ---------------------------
(***************************************************************************)
(* The web backend: the monitor it runs (MonitorProcess), for any number   *)
(* of threads, of monitors and whatever each thread may be asked for, and  *)
(* the line it shows for a run (RunLogView), for any devices, number of    *)
(* events per file, faults and bounds; and the command line it starts a    *)
(* monitor with, for any names, numbers and analyses.                      *)
(*                                                                         *)
(* The monitor.  With one operator a monitor that runs is the child of     *)
(* this backend that PROC names, or an orphan of an earlier one that the   *)
(* state file names (InvKnown, InvChild).  What an operator on the way has *)
(* in hand says which of PROC, PID and the file may be behind at its place *)
(* (StartPlace, StopPlace); a selection may only overwrite the file with   *)
(* a pid that is behind where no restart will read it (InvFiled).          *)
(*                                                                         *)
(* The run log.  There is one row per subrun, none yet for the subrun at   *)
(* hand of a run that goes on, and nothing after a row of a failure        *)
(* (InvRows); the rows and the open file hold what was written (InvSum).   *)
(*                                                                         *)
(* The command line of a monitor.  An argument is read, and an option is   *)
(* taken, from where those before it left off (ReadOn, TakeOn).  For any   *)
(* list of texts this keeps the numbers of datamon's options in range      *)
(* (TakeType), and with the order of its checks no pipeline is built that  *)
(* cannot work (EveryPipelineWorks).  For the list that the backend writes *)
(* Gets says how far it has been read and what the options are by then;    *)
(* each piece the backend adds carries that on, whatever names are in it,  *)
(* because no option of datamon is read out of a value (ReachPair).  The   *)
(* lemmas about lists and getopt_long are the ones ControlPlaneProofs has  *)
(* for the arguments of a start: the options of the two programs are two   *)
(* definitions of the same names, which no module can extend together.     *)
(***************************************************************************)
EXTENDS MonitorProcess, RunLogView, FiniteSetTheorems, WellFoundedInduction, TLAPS

-----------------------------------------------------------------------------
(* The monitor: the parts of the invariant.                                *)

Steps   == {"idle", "report", "spawn", "record", "record write", "show", "keep", "keep write", "check", "wait", "clear"}
            \union Requests
Rising   == {"spawn", "record", "record write", "show"}
Keeping  == {"keep", "keep write"}
OfOperator == {"start", "spawn", "record", "record write", "show", "stop", "check", "wait", "clear"}

\* The parts of TypeOK.
InvMonitors == proc \in [Id -> {"none", "up", "zombie", "gone"}] /\ \A i \in orphans : proc[i] # "zombie"
InvKept     == PROC \in MaybeId /\ PID \in MaybeId /\ file \in MaybeId /\ shown \in MaybeId /\ kept \in MaybeId
InvLocals   ==
  /\ orphans \subseteq Id /\ proc_of \in [Threads -> MaybeId] /\ pid_of \in [Threads -> MaybeId]
  /\ \A t \in Threads : pc[t] \in {"wait", "clear"} => Target(t) # 0
InvTypes == InvMonitors /\ InvKept /\ InvLocals

InvPlaces ==
  /\ scene \in Scenes /\ pc \in [Threads -> Steps]
  /\ \A t \in Threads :
       /\ pc[t] \in OfOperator => Operates(t)
       /\ pc[t] = "select" => "select" \in scene.does[t]
       /\ pc[t] \in Keeping => Operates(t) \/ "select" \in scene.does[t]
  /\ ~scene.restart => orphans = {}

Alive    == {i \in Id : proc[i] \in {"up", "zombie"}}
InvChild == Alive \subseteq {PROC} \union orphans

InvKnown == Up \subseteq {IF PROC # 0 THEN PROC ELSE KnownPid}

StartPlace(t) ==
  /\ pc[t] = "spawn" => Up = {} /\ PROC = 0
  /\ pc[t] \in Rising \union Keeping => Up \subseteq {PROC}
  /\ pc[t] = "record write" => Up \subseteq {pid_of[t]} /\ pid_of[t] # 0
  /\ pc[t] = "show" => Up \subseteq {pid_of[t]} /\ Up \subseteq {PID}
  /\ pc[t] = "keep" /\ ~Selects => Up \subseteq {PID}
  /\ pc[t] = "keep write" /\ ~Selects => Up \subseteq {pid_of[t]}
  /\ pc[t] = "report" => Up = {} \/ PROC # 0 \/ PID # 0
InvStart == \A t \in Threads : StartPlace(t)

\* A start or a selection is under way.
Starting == \E t \in Threads : pc[t] \in Rising \union Keeping

InvFiled == ~Selects /\ ~Starting => Up \subseteq {file} /\ Up \subseteq {kept}

InvShown ==
  (\A t \in Threads : pc[t] \notin Rising) /\ (PROC # 0 \/ PID # 0) => Up \subseteq {shown}

StopPlace(t) ==
  /\ pc[t] \in {"check", "wait", "clear"} => PROC \in {0, proc_of[t]}
  /\ pc[t] = "check" => /\ Target(t) # 0 => Up \subseteq {Target(t)}
                        /\ proc_of[t] = 0 => Up \subseteq orphans
  /\ pc[t] = "wait" => Up \subseteq {Target(t)}
  /\ pc[t] = "clear" => Alive = {}
InvStop == \A t \in Threads : StopPlace(t)

Tracked == InvChild /\ InvKnown /\ InvStart /\ InvFiled /\ InvShown /\ InvStop
IInv    == InvTypes /\ InvPlaces /\ (OneOperator => Tracked)

-----------------------------------------------------------------------------
(* Types and places.                                                       *)

\* The types, which hold whatever requests there are.
LEMMA TypesAre == InvTypes => TypeOK
BY DEF InvTypes, InvMonitors, InvKept, InvLocals, TypeOK

LEMMA PlacesInit == ASSUME Init PROVE InvTypes /\ InvPlaces
BY MonitorAssumption DEF Init, InvTypes, InvMonitors, InvKept, InvLocals, InvPlaces, Id, MaybeId, Steps, OfOperator, Keeping, Requests

\* _is_datamon_running leaves a monitor recorded, taken up from the file, or forgotten.
Recorded  == PROC # 0 /\ proc[PROC] = "up" /\ PID' = PROC /\ file' = PROC /\ kept' = shown
             /\ UNCHANGED <<PROC, shown, proc>>
TakenUp   == PROC = 0 /\ KnownPid # 0 /\ proc[KnownPid] \in {"up", "zombie"}
             /\ PID' = KnownPid /\ shown' = (IF PID = 0 THEN kept ELSE shown)
             /\ UNCHANGED <<PROC, file, kept, proc>>
Forgotten == /\ IF PROC # 0 THEN proc[PROC] # "up" ELSE KnownPid = 0 \/ proc[KnownPid] \notin {"up", "zombie"}
             /\ PROC' = 0 /\ PID' = 0 /\ file' = 0 /\ shown' = 0 /\ kept' = 0
             /\ proc' = IF PROC # 0 THEN Reaped(PROC) ELSE proc

\* _is_datamon_running has one of these three outcomes.
LEMMA Checks == ASSUME CheckRunning PROVE Recorded \/ TakenUp \/ Forgotten
<1>1. CASE Running /\ PROC # 0
  BY <1>1 DEF CheckRunning, Running, Recorded
<1>2. CASE Running /\ PROC = 0
  BY <1>2 DEF CheckRunning, Running, TakenUp, Known, PidAlive
<1>3. CASE ~Running
  BY <1>3 DEF CheckRunning, Running, Forgotten, Forget, PidAlive
<1>4. QED BY <1>1, <1>2, <1>3

LEMMA NoneIsAnId == 0 \in MaybeId
BY MonitorAssumption DEF MaybeId

\* None of them disturbs the types.
LEMMA CheckTypes ==
  ASSUME InvMonitors, InvKept, InvLocals, CheckRunning PROVE InvKept' /\ (UNCHANGED orphans => InvMonitors')
<1>1. CASE Recorded
  BY <1>1 DEF InvMonitors, InvKept, Recorded
<1>2. CASE TakenUp
  BY <1>2 DEF InvMonitors, InvKept, TakenUp, KnownPid
<1>3. CASE Forgotten
  <2>1. InvKept'
    BY <1>3, NoneIsAnId DEF Forgotten, InvKept
  <2>2. ASSUME UNCHANGED orphans PROVE InvMonitors'
    <3>1. CASE PROC = 0
      BY <1>3, <2>2, <3>1 DEF Forgotten, InvMonitors
    <3>2. CASE PROC # 0
      <4>1. proc' = [proc EXCEPT ![PROC] = IF @ = "zombie" THEN "gone" ELSE @]
        BY <1>3, <3>2 DEF Forgotten, Reaped
      <4>2. proc' \in [Id -> {"none", "up", "zombie", "gone"}]
        BY <4>1 DEF InvMonitors
      <4>3. \A i \in Id : proc'[i] = "zombie" => proc[i] = "zombie"
        BY <4>1 DEF InvMonitors
      <4>4. QED BY <2>2, <4>2, <4>3 DEF InvMonitors, InvLocals
    <3>3. QED BY <3>1, <3>2
  <2>3. QED BY <2>1, <2>2
<1>4. QED BY <1>1, <1>2, <1>3, Checks

\* Nor does any step of a handler, of a monitor or of the backend.
LEMMA TypesArrive == ASSUME InvTypes, InvPlaces, NEW t \in Threads, Arrive(t) PROVE InvTypes' /\ InvPlaces'
<1> USE DEF InvTypes
<1>0. PICK r \in Requests : r \in scene.does[t] /\ pc[t] = "idle" /\ pc' = [pc EXCEPT ![t] = r]
  BY MonitorAssumption DEF Arrive, InvPlaces
<1>1. InvMonitors' /\ InvKept'
  BY MonitorAssumption DEF InvMonitors, InvKept, InvLocals, InvPlaces, Arrive, Reaped, Exited, Target, Id, MaybeId, known, Steps
<1>2. InvLocals'
  BY <1>0 DEF InvLocals, InvPlaces, Arrive, Target, Requests
<1>3. InvPlaces'
  BY <1>0 DEF InvPlaces, Arrive, Steps, OfOperator, Keeping, Requests, Operates
<1>4. QED BY <1>1, <1>2, <1>3

LEMMA TypesStatus == ASSUME InvTypes, InvPlaces, NEW t \in Threads, Status(t) PROVE InvTypes' /\ InvPlaces'
<1> USE DEF InvTypes
<1>1. InvMonitors' /\ InvKept'
  BY CheckTypes DEF Status
<1>2. InvLocals'
  BY <1>1 DEF InvKept, InvLocals, InvPlaces, Status, Goes, Target
<1>3. InvPlaces'
  BY MonitorAssumption DEF InvPlaces, Status, Goes, Steps, OfOperator, Keeping, Requests, Operates
<1>4. QED BY <1>1, <1>2, <1>3

LEMMA TypesReport == ASSUME InvTypes, InvPlaces, NEW t \in Threads, Report(t) PROVE InvTypes' /\ InvPlaces'
<1> USE DEF InvTypes
<1>1. InvMonitors' /\ InvKept'
  BY DEF InvMonitors, InvKept, Report, known
<1>2. InvLocals'
  BY DEF InvLocals, InvPlaces, Report, Goes, Target, Steps
<1>3. InvPlaces'
  BY DEF InvPlaces, Report, Goes, Steps, OfOperator, Keeping, Requests, Operates
<1>4. QED BY <1>1, <1>2, <1>3

LEMMA TypesStartCheck == ASSUME InvTypes, InvPlaces, NEW t \in Threads, StartCheck(t) PROVE InvTypes' /\ InvPlaces'
<1> USE DEF InvTypes
<1>1. InvMonitors' /\ InvKept'
  BY CheckTypes DEF StartCheck
<1>2. InvLocals'
  BY MonitorAssumption DEF InvKept, InvLocals, InvPlaces, StartCheck, Goes, Target, PidAlive, MaybeId, known, Steps, Requests
<1>3. InvPlaces'
  BY MonitorAssumption DEF InvPlaces, StartCheck, Goes, Steps, OfOperator, Keeping, Requests, Operates
<1>4. QED BY <1>1, <1>2, <1>3

LEMMA TypesStartFails == ASSUME InvTypes, InvPlaces, NEW t \in Threads, StartFails(t) PROVE InvTypes' /\ InvPlaces'
<1> USE DEF InvTypes
<1>1. InvMonitors' /\ InvKept'
  BY NoneIsAnId DEF InvMonitors, InvKept, StartFails
<1>2. InvLocals'
  BY MonitorAssumption DEF InvKept, InvLocals, InvPlaces, StartFails, Goes, Target, PidAlive, MaybeId, known, Steps, Requests
<1>3. InvPlaces'
  BY MonitorAssumption DEF InvPlaces, StartFails, Goes, Steps, OfOperator, Keeping, Requests, Operates
<1>4. QED BY <1>1, <1>2, <1>3

LEMMA TypesSpawn == ASSUME InvTypes, InvPlaces, NEW t \in Threads, Spawn(t) PROVE InvTypes' /\ InvPlaces'
<1> USE DEF InvTypes
<1>1. InvMonitors' /\ InvKept'
  <2>1. PICK i \in Id : proc' = [proc EXCEPT ![i] = "up"] /\ PROC' = i
    BY DEF Spawn
  <2>2. i \in MaybeId
    BY <2>1, MonitorAssumption DEF Id, MaybeId
  <2>3. QED BY <2>1, <2>2 DEF InvMonitors, InvKept, Spawn
<1>2. InvLocals'
  BY MonitorAssumption DEF InvKept, InvLocals, InvPlaces, Spawn, Goes, Target, PidAlive, MaybeId, known, Steps, Requests
<1>3. InvPlaces'
  BY MonitorAssumption DEF InvPlaces, Spawn, Goes, Steps, OfOperator, Keeping, Requests, Operates
<1>4. QED BY <1>1, <1>2, <1>3

LEMMA TypesRecord == ASSUME InvTypes, InvPlaces, NEW t \in Threads, Record(t) PROVE InvTypes' /\ InvPlaces'
<1> USE DEF InvTypes
<1>1. InvMonitors' /\ InvKept'
  BY MonitorAssumption DEF InvMonitors, InvKept, InvLocals, InvPlaces, Record, Reaped, Exited, Target, Id, MaybeId, known, Steps
<1>2. InvLocals'
  BY MonitorAssumption DEF InvKept, InvLocals, InvPlaces, Record, Goes, Target, PidAlive, MaybeId, known, Steps, Requests
<1>3. InvPlaces'
  BY MonitorAssumption DEF InvPlaces, Record, Goes, Steps, OfOperator, Keeping, Requests, Operates
<1>4. QED BY <1>1, <1>2, <1>3

LEMMA TypesRecordWrite == ASSUME InvTypes, InvPlaces, NEW t \in Threads, RecordWrite(t) PROVE InvTypes' /\ InvPlaces'
<1> USE DEF InvTypes
<1>1. InvMonitors' /\ InvKept'
  BY MonitorAssumption DEF InvMonitors, InvKept, InvLocals, InvPlaces, RecordWrite, Reaped, Exited, Target, Id, MaybeId, known, Steps
<1>2. InvLocals'
  BY MonitorAssumption DEF InvKept, InvLocals, InvPlaces, RecordWrite, Goes, Target, PidAlive, MaybeId, known, Steps, Requests
<1>3. InvPlaces'
  BY MonitorAssumption DEF InvPlaces, RecordWrite, Goes, Steps, OfOperator, Keeping, Requests, Operates
<1>4. QED BY <1>1, <1>2, <1>3

LEMMA TypesShow == ASSUME InvTypes, InvPlaces, NEW t \in Threads, Show(t) PROVE InvTypes' /\ InvPlaces'
<1> USE DEF InvTypes
<1>1. InvMonitors' /\ InvKept'
  BY MonitorAssumption DEF InvMonitors, InvKept, InvLocals, InvPlaces, Show, Reaped, Exited, Target, Id, MaybeId, known, Steps
<1>2. InvLocals'
  BY MonitorAssumption DEF InvKept, InvLocals, InvPlaces, Show, Goes, Target, PidAlive, MaybeId, known, Steps, Requests
<1>3. InvPlaces'
  BY MonitorAssumption DEF InvPlaces, Show, Goes, Steps, OfOperator, Keeping, Requests, Operates
<1>4. QED BY <1>1, <1>2, <1>3

LEMMA TypesSelect == ASSUME InvTypes, InvPlaces, NEW t \in Threads, Select(t) PROVE InvTypes' /\ InvPlaces'
<1> USE DEF InvTypes
<1>1. InvMonitors' /\ InvKept'
  BY CheckTypes DEF Select
<1>2. InvLocals'
  BY MonitorAssumption DEF InvKept, InvLocals, InvPlaces, Select, Goes, Target, PidAlive, MaybeId, known, Steps, Requests
<1>3. InvPlaces'
  BY MonitorAssumption DEF InvPlaces, Select, Goes, Steps, OfOperator, Keeping, Requests, Operates
<1>4. QED BY <1>1, <1>2, <1>3

LEMMA TypesKeepRead == ASSUME InvTypes, InvPlaces, NEW t \in Threads, KeepRead(t) PROVE InvTypes' /\ InvPlaces'
<1> USE DEF InvTypes
<1>1. InvMonitors' /\ InvKept'
  BY MonitorAssumption DEF InvMonitors, InvKept, InvLocals, InvPlaces, KeepRead, Reaped, Exited, Target, Id, MaybeId, known, Steps
<1>2. InvLocals'
  BY MonitorAssumption DEF InvKept, InvLocals, InvPlaces, KeepRead, Goes, Target, PidAlive, MaybeId, known, Steps, Requests
<1>3. InvPlaces'
  BY MonitorAssumption DEF InvPlaces, KeepRead, Goes, Steps, OfOperator, Keeping, Requests, Operates
<1>4. QED BY <1>1, <1>2, <1>3

LEMMA TypesKeepWrite == ASSUME InvTypes, InvPlaces, NEW t \in Threads, KeepWrite(t) PROVE InvTypes' /\ InvPlaces'
<1> USE DEF InvTypes
<1>1. InvMonitors' /\ InvKept'
  BY NoneIsAnId DEF InvMonitors, InvKept, InvLocals, KeepWrite
<1>2. InvLocals'
  BY MonitorAssumption DEF InvKept, InvLocals, InvPlaces, KeepWrite, Goes, Target, PidAlive, MaybeId, known, Steps, Requests
<1>3. InvPlaces'
  BY MonitorAssumption DEF InvPlaces, KeepWrite, Goes, Steps, OfOperator, Keeping, Requests, Operates
<1>4. QED BY <1>1, <1>2, <1>3

LEMMA TypesStopGrab == ASSUME InvTypes, InvPlaces, NEW t \in Threads, StopGrab(t) PROVE InvTypes' /\ InvPlaces'
<1> USE DEF InvTypes
<1>1. InvMonitors' /\ InvKept'
  BY MonitorAssumption DEF InvMonitors, InvKept, InvLocals, InvPlaces, StopGrab, Reaped, Exited, Target, Id, MaybeId, known, Steps
<1>2. InvLocals'
  BY MonitorAssumption DEF InvKept, InvLocals, InvPlaces, StopGrab, Goes, Target, PidAlive, MaybeId, known, Steps, Requests
<1>3. InvPlaces'
  BY MonitorAssumption DEF InvPlaces, StopGrab, Goes, Steps, OfOperator, Keeping, Requests, Operates
<1>4. QED BY <1>1, <1>2, <1>3

LEMMA TypesStopNothing == ASSUME InvTypes, InvPlaces, NEW t \in Threads, StopNothing(t) PROVE InvTypes' /\ InvPlaces'
<1> USE DEF InvTypes
<1>1. InvMonitors' /\ InvKept'
  BY MonitorAssumption DEF InvMonitors, InvKept, InvLocals, InvPlaces, StopNothing, Reaped, Exited, Target, Id, MaybeId, known, Steps
<1>2. InvLocals'
  BY MonitorAssumption DEF InvKept, InvLocals, InvPlaces, StopNothing, Goes, Target, PidAlive, MaybeId, known, Steps, Requests
<1>3. InvPlaces'
  BY MonitorAssumption DEF InvPlaces, StopNothing, Goes, Steps, OfOperator, Keeping, Requests, Operates
<1>4. QED BY <1>1, <1>2, <1>3

LEMMA TypesStopSignal == ASSUME InvTypes, InvPlaces, NEW t \in Threads, StopSignal(t) PROVE InvTypes' /\ InvPlaces'
<1> USE DEF InvTypes
<1>1. InvMonitors' /\ InvKept'
  BY MonitorAssumption DEF InvMonitors, InvKept, InvLocals, InvPlaces, StopSignal, Reaped, Exited, Target, Id, MaybeId, known, Steps
<1>2. InvLocals'
  BY MonitorAssumption DEF InvKept, InvLocals, InvPlaces, StopSignal, Goes, Target, PidAlive, MaybeId, known, Steps, Requests
<1>3. InvPlaces'
  BY MonitorAssumption DEF InvPlaces, StopSignal, Goes, Steps, OfOperator, Keeping, Requests, Operates
<1>4. QED BY <1>1, <1>2, <1>3

LEMMA TypesStopWaited == ASSUME InvTypes, InvPlaces, NEW t \in Threads, StopWaited(t) PROVE InvTypes' /\ InvPlaces'
<1> USE DEF InvTypes
<1>1. InvMonitors' /\ InvKept'
  BY MonitorAssumption DEF InvMonitors, InvKept, InvLocals, InvPlaces, StopWaited, Reaped, Exited, Target, Id, MaybeId, known, Steps
<1>2. InvLocals'
  BY MonitorAssumption DEF InvKept, InvLocals, InvPlaces, StopWaited, Goes, Target, PidAlive, MaybeId, known, Steps, Requests
<1>3. InvPlaces'
  BY MonitorAssumption DEF InvPlaces, StopWaited, Goes, Steps, OfOperator, Keeping, Requests, Operates
<1>4. QED BY <1>1, <1>2, <1>3

LEMMA TypesStopClear == ASSUME InvTypes, InvPlaces, NEW t \in Threads, StopClear(t) PROVE InvTypes' /\ InvPlaces'
<1> USE DEF InvTypes
<1>1. InvMonitors' /\ InvKept'
  BY NoneIsAnId DEF InvMonitors, InvKept, StopClear
<1>2. InvLocals'
  BY MonitorAssumption DEF InvKept, InvLocals, InvPlaces, StopClear, Goes, Target, PidAlive, MaybeId, known, Steps, Requests
<1>3. InvPlaces'
  BY MonitorAssumption DEF InvPlaces, StopClear, Goes, Steps, OfOperator, Keeping, Requests, Operates
<1>4. QED BY <1>1, <1>2, <1>3

LEMMA TypesExit == ASSUME InvTypes, InvPlaces, NEW i \in Id, Exit(i) PROVE InvTypes' /\ InvPlaces'
<1> USE DEF InvTypes
<1>1. InvMonitors' /\ InvKept'
  BY DEF InvMonitors, InvKept, Exit, Exited, known
<1>2. InvLocals'
  BY DEF InvLocals, Exit, Target
<1>3. InvPlaces'
  BY DEF InvPlaces, Exit, Operates
<1>4. QED BY <1>1, <1>2, <1>3

LEMMA TypesRestart == ASSUME InvTypes, InvPlaces, Restart PROVE InvTypes' /\ InvPlaces'
<1> USE DEF InvTypes
<1>1. InvMonitors'
  <2>1. proc' = [i \in Id |-> IF proc[i] = "zombie" THEN "gone" ELSE proc[i]]
    BY DEF Restart
  <2>2. orphans' \subseteq Id
    BY DEF Restart, InvLocals
  <2>3. QED BY <2>1, <2>2 DEF InvMonitors
<1>2. InvKept'
  BY NoneIsAnId DEF InvKept, Restart
<1>3. InvLocals'
  BY DEF InvLocals, Restart, Target
<1>4. InvPlaces'
  BY DEF InvPlaces, Restart, Operates
<1>5. QED BY <1>1, <1>2, <1>3, <1>4

-----------------------------------------------------------------------------
(* The monitor that runs.                                                  *)

\* No monitor runs.
LEMMA TrackedInit == ASSUME Init PROVE Tracked
BY DEF Init, Tracked, InvChild, InvKnown, InvStart, StartPlace, InvFiled, InvShown, InvStop, StopPlace,
       Rising, Keeping, Starting, Up, Alive, KnownPid

\* Two threads on their way are at most the operator and a selection.
LEMMA Alone ==
  ASSUME InvPlaces, OneOperator, NEW t \in Threads, NEW u \in Threads, t # u,
         pc[t] \in OfOperator \union Keeping, pc[u] \in OfOperator \union Keeping
  PROVE  Selects /\ (pc[t] \in Keeping \/ pc[u] \in Keeping)
BY DEF InvPlaces, OneOperator, Selects

\* With selections there is no restart, and so no orphan.
LEMMA NoOrphans == ASSUME InvPlaces, OneOperator, Selects PROVE orphans = {}
BY DEF InvPlaces, OneOperator

LEMMA SelectionsAreOfChildren ==
  ASSUME InvPlaces, OneOperator, InvChild, Selects PROVE Up \subseteq {PROC}
BY NoOrphans DEF InvChild, Up, Alive

\* Most steps let monitors go, and drop the handle only when none runs.
Fades ==
  /\ Up' \subseteq Up /\ Alive' \subseteq Alive
  /\ PROC' = PROC \/ (PROC' = 0 /\ Up' = {})
  /\ PID' = PID \/ Up' \subseteq {PID'}
  /\ UNCHANGED <<orphans, scene>>

\* A step of a thread is none of the others': what holds at their places stays true.
LEMMA OthersStart ==
  ASSUME Fades, NEW u \in Threads, StartPlace(u), pc'[u] = pc[u], pid_of'[u] = pid_of[u]
  PROVE  StartPlace(u)'
<1>1. Selects' <=> Selects
  BY DEF Fades, Selects
<1>2. Up' = {} \/ PID' = PID \/ PID' # 0
  <2>1. 0 \notin Up'
    BY DEF Up, Id
  <2>2. QED BY <2>1 DEF Fades
<1>3. pc'[u] = "report" => Up' = {} \/ PROC' # 0 \/ PID' # 0
  BY <1>2 DEF Fades, StartPlace
<1>4. QED BY <1>1, <1>3 DEF Fades, StartPlace

LEMMA OthersStop ==
  ASSUME Fades, NEW u \in Threads, StopPlace(u), pc'[u] = pc[u],
         pid_of'[u] = pid_of[u], proc_of'[u] = proc_of[u]
  PROVE  StopPlace(u)'
<1>1. Target(u)' = Target(u)
  BY DEF Target
<1>2. QED BY <1>1 DEF Fades, StopPlace

LEMMA NoneRuns == ASSUME Up \subseteq {0} PROVE Up = {}
BY DEF Up, Id

\* All that a step of one thread leaves alone.
Mine(t) ==
  \A u \in Threads \ {t} : pc'[u] = pc[u] /\ pid_of'[u] = pid_of[u] /\ proc_of'[u] = proc_of[u]

\* A step of one thread moves that thread only.
LEMMA StepOf ==
  ASSUME Fades, InvStart, InvStop, NEW t \in Threads, Mine(t), StartPlace(t)', StopPlace(t)'
  PROVE  InvStart' /\ InvStop'
<1>1. ASSUME NEW u \in Threads PROVE StartPlace(u)' /\ StopPlace(u)'
  <2>1. CASE u = t
    BY <2>1
  <2>2. CASE u # t
    <3>1. pc'[u] = pc[u] /\ pid_of'[u] = pid_of[u] /\ proc_of'[u] = proc_of[u]
      BY <2>2 DEF Mine
    <3>2. StartPlace(u) /\ StopPlace(u)
      BY DEF InvStart, InvStop
    <3>3. QED BY <3>1, <3>2, OthersStart, OthersStop
  <2>3. QED BY <2>1, <2>2
<1>2. QED BY <1>1 DEF InvStart, InvStop

\* A step that is neither from nor to a place of a start leaves the others' places.
NoneRises == \A t \in Threads : pc[t] \notin Rising
\* While nobody starts, what is said of a start says nothing.
LEMMA SameStarts ==
  ASSUME NEW t \in Threads, Mine(t), pc[t] \in Rising \union Keeping <=> pc'[t] \in Rising \union Keeping,
         pc[t] \in Rising <=> pc'[t] \in Rising
  PROVE  (Starting' <=> Starting) /\ (NoneRises' <=> NoneRises)
<1>1. \A u \in Threads : pc'[u] \in Rising \union Keeping <=> pc[u] \in Rising \union Keeping
  BY DEF Mine
<1>2. \A u \in Threads : pc'[u] \in Rising <=> pc[u] \in Rising
  BY DEF Mine
<1>3. QED BY <1>1, <1>2 DEF Starting, NoneRises

-----------------------------------------------------------------------------
(* _is_datamon_running.                                                    *)

\* What _is_datamon_running forgets does not run.
LEMMA ForgetsNone ==
  ASSUME InvTypes, InvChild, InvKnown, Forgotten, UNCHANGED orphans
  PROVE  Up = {} /\ Up' = {} /\ Alive' = {}
<1>1. Up = {}
  <2>1. CASE PROC # 0
    BY <2>1 DEF InvKnown, Forgotten, Up
  <2>2. CASE PROC = 0 /\ KnownPid = 0
    BY <2>2, NoneRuns DEF InvKnown
  <2>3. CASE PROC = 0 /\ KnownPid # 0
    BY <2>3 DEF InvKnown, Forgotten, Up
  <2>4. QED BY <2>1, <2>2, <2>3
<1>2. Alive \subseteq {PROC}
  BY <1>1 DEF InvTypes, InvMonitors, InvChild, Alive, Up
<1>3. Alive' = {}
  <2>1. CASE PROC = 0
    <3>1. proc' = proc
      BY <2>1 DEF Forgotten
    <3>2. QED BY <1>2, <2>1, <3>1 DEF Alive, Id
  <2>2. CASE PROC # 0
    <3>1. proc' = [proc EXCEPT ![PROC] = IF @ = "zombie" THEN "gone" ELSE @] /\ proc[PROC] # "up"
      BY <2>2 DEF Forgotten, Reaped
    <3>2. QED BY <1>2, <3>1 DEF Alive, InvTypes, InvMonitors
  <2>3. QED BY <2>1, <2>2
<1>4. Up' = {}
  BY <1>3 DEF Alive, Up
<1>5. QED BY <1>1, <1>3, <1>4

\* After _is_datamon_running everything there is to know about the monitor is known.
LEMMA CheckTracks ==
  ASSUME InvTypes, InvPlaces, OneOperator, Tracked, CheckRunning, UNCHANGED <<orphans, scene>>
  PROVE  /\ Fades /\ InvChild' /\ InvKnown'
         /\ ~Running => Up' = {} /\ PROC' = 0
         /\ Running => PROC' # 0 \/ PID' # 0
         /\ ~Selects /\ ~Starting => Up' \subseteq {file'} /\ Up' \subseteq {kept'}
         /\ NoneRises /\ (PROC' # 0 \/ PID' # 0) => Up' \subseteq {shown'}
<1> USE DEF Tracked
<1>1. CASE Recorded
  <2>1. Up' = Up /\ Alive' = Alive /\ Up \subseteq {PROC} /\ Running
    BY <1>1 DEF Recorded, Up, Alive, InvKnown, Running
  <2>2. Fades /\ InvChild' /\ InvKnown'
    BY <1>1, <2>1 DEF Recorded, Fades, InvChild, InvKnown
  <2>3. ASSUME NoneRises PROVE Up' \subseteq {shown'} /\ Up' \subseteq {kept'}
    BY <1>1, <2>1, <2>3 DEF Recorded, NoneRises, InvShown
  <2>4. ~Starting => NoneRises
    BY DEF Starting, NoneRises
  <2>5. Up' \subseteq {file'}
    BY <1>1, <2>1 DEF Recorded
  <2>6. PROC' # 0
    BY <1>1 DEF Recorded
  <2>7. QED BY <2>1, <2>2, <2>3, <2>4, <2>5, <2>6
<1>2. CASE TakenUp
  <2>1. Up' = Up /\ Alive' = Alive /\ Up \subseteq {KnownPid} /\ Running /\ PROC = 0
    BY <1>2 DEF TakenUp, Up, Alive, InvKnown, Running, PidAlive
  <2>2. Fades /\ InvChild' /\ InvKnown'
    BY <1>2, <2>1 DEF TakenUp, Fades, InvChild, InvKnown, KnownPid
  <2>3. Starting \/ Selects => Up' = {}
    <3>1. Starting => Up \subseteq {PROC}
      BY DEF Starting, InvStart, StartPlace
    <3>2. Selects => Up \subseteq {PROC}
      BY SelectionsAreOfChildren
    <3>3. QED BY <2>1, <3>1, <3>2, NoneRuns
  <2>4. ASSUME ~Starting, ~Selects PROVE Up' \subseteq {file'} /\ Up' \subseteq {kept'}
    BY <1>2, <2>1, <2>4 DEF TakenUp, InvFiled
  <2>5. ASSUME NoneRises PROVE Up' \subseteq {shown'}
    <3>1. CASE PID # 0
      BY <1>2, <2>1, <2>5, <3>1 DEF TakenUp, NoneRises, InvShown
    <3>2. CASE PID = 0
      BY <1>2, <2>1, <2>3, <3>2 DEF TakenUp, InvFiled
    <3>3. QED BY <3>1, <3>2
  <2>6. PID' # 0
    BY <1>2 DEF TakenUp
  <2>7. QED BY <2>1, <2>2, <2>4, <2>5, <2>6
<1>3. CASE Forgotten
  <2>1. Up' = {} /\ Alive' = {} /\ PROC' = 0 /\ Up = {}
    BY <1>3, ForgetsNone DEF Forgotten
  <2>2. Fades /\ InvChild' /\ InvKnown'
    BY <2>1 DEF Fades, InvChild, InvKnown
  <2>3. ~Running
    BY <1>3 DEF Forgotten, Running, PidAlive
  <2>4. QED BY <2>1, <2>2, <2>3
<1>4. QED BY <1>1, <1>2, <1>3, Checks

\* Steps that look for the monitor and go to a place without obligations.
LEMMA TracksCheck ==
  ASSUME InvTypes, InvPlaces, OneOperator, Tracked, CheckRunning, UNCHANGED <<orphans, scene, proc_of>>,
         NEW t \in Threads, \A u \in Threads \ {t} : pid_of'[u] = pid_of[u], NEW to, pc[t] \in Requests, pc' = [pc EXCEPT ![t] = to],
         \/ to = "idle"
         \/ to = "report" /\ Running
         \/ to = "spawn" /\ ~Running
         \/ to = "keep" /\ Selects
  PROVE  Tracked'
<1> USE DEF Tracked
<1>1. /\ Fades /\ InvChild' /\ InvKnown'
      /\ ~Running => Up' = {} /\ PROC' = 0
      /\ Running => PROC' # 0 \/ PID' # 0
      /\ ~Selects /\ ~Starting => Up' \subseteq {file'} /\ Up' \subseteq {kept'}
      /\ NoneRises /\ (PROC' # 0 \/ PID' # 0) => Up' \subseteq {shown'}
  BY CheckTracks
<1>2. Mine(t) /\ pc'[t] = to
  BY DEF Mine, InvPlaces
<1>3. pc[t] \notin Rising \union Keeping
  BY DEF Requests, Rising, Keeping
<1>4. Selects' <=> Selects
  BY DEF Selects
<1>5. StopPlace(t)'
  BY <1>2 DEF StopPlace
<1>6. StartPlace(t)'
  <2>1. Selects => Up' \subseteq {PROC'}
    BY <1>1, NoOrphans DEF InvChild, Up, Alive
  <2>2. QED BY <1>1, <1>2, <1>4, <2>1 DEF StartPlace, Rising, Keeping
<1>7. InvStart' /\ InvStop'
  BY <1>1, <1>2, <1>5, <1>6, StepOf
<1>8. InvFiled'
  <2>1. SUFFICES ASSUME ~Selects, ~Starting' PROVE Up' \subseteq {file'} /\ Up' \subseteq {kept'}
    BY <1>4 DEF InvFiled
  <2>2. CASE to \in {"idle", "report"}
    <3>1. Starting' <=> Starting
      BY <1>2, <1>3, <2>2, SameStarts DEF Rising, Keeping
    <3>2. QED BY <1>1, <2>1, <3>1
  <2>3. CASE to = "spawn" /\ ~Running
    BY <1>1, <2>3
  <2>4. QED BY <2>1, <2>2, <2>3
<1>9. InvShown'
  <2>1. SUFFICES ASSUME NoneRises', PROC' # 0 \/ PID' # 0 PROVE Up' \subseteq {shown'}
    BY DEF InvShown, NoneRises
  <2>2. to # "spawn"
    BY <1>2, <2>1 DEF NoneRises, Rising
  <2>3. NoneRises
    BY <1>2, <1>3, <2>1 DEF NoneRises, Mine
  <2>4. QED BY <1>1, <2>1, <2>3
<1>10. QED BY <1>1, <1>7, <1>8, <1>9

\* The status, start, selection and stop that begin with that look.
LEMMA TracksStatus ==
  ASSUME InvTypes, InvPlaces, OneOperator, Tracked, NEW t \in Threads, Status(t) PROVE Tracked'
<1> DEFINE to == IF Running THEN "report" ELSE "idle"
<1>1. /\ CheckRunning /\ UNCHANGED <<orphans, scene, proc_of>>
      /\ pc[t] \in Requests /\ pc' = [pc EXCEPT ![t] = to]
      /\ \A u \in Threads \ {t} : pid_of'[u] = pid_of[u]
  BY DEF Status, Goes, Requests, InvTypes, InvLocals
<1>2. to = "idle" \/ (to = "report" /\ Running)
  OBVIOUS
<1> HIDE DEF to
<1>3. QED BY <1>1, <1>2, TracksCheck

LEMMA TracksStartCheck ==
  ASSUME InvTypes, InvPlaces, OneOperator, Tracked, NEW t \in Threads, StartCheck(t) PROVE Tracked'
<1>1. CASE Running
  <2>1. /\ CheckRunning /\ UNCHANGED <<orphans, scene, proc_of, pid_of>>
        /\ pc[t] \in Requests /\ pc' = [pc EXCEPT ![t] = "idle"]
    BY <1>1 DEF StartCheck, Goes, Requests
  <2>2. QED BY <2>1, TracksCheck
<1>2. CASE ~Running
  <2>1. /\ CheckRunning /\ UNCHANGED <<orphans, scene, proc_of, pid_of>>
        /\ pc[t] \in Requests /\ pc' = [pc EXCEPT ![t] = "spawn"]
    BY <1>2 DEF StartCheck, Goes, Requests
  <2>2. QED BY <1>2, <2>1, TracksCheck
<1>3. QED BY <1>1, <1>2

LEMMA TracksSelect ==
  ASSUME InvTypes, InvPlaces, OneOperator, Tracked, NEW t \in Threads, Select(t) PROVE Tracked'
<1>1. Selects
  BY DEF Select, Goes, InvPlaces, Selects
<1>2. /\ CheckRunning /\ UNCHANGED <<orphans, scene, proc_of, pid_of>>
      /\ pc[t] \in Requests /\ pc' = [pc EXCEPT ![t] = "keep"]
  BY DEF Select, Goes, Requests
<1>3. QED BY <1>1, <1>2, TracksCheck

-----------------------------------------------------------------------------
(* Steps that touch neither a monitor nor what is known of it.             *)

\* The steps of a handler one by one.  A request comes in.
LEMMA TracksArrive ==
  ASSUME InvTypes, InvPlaces, OneOperator, Tracked, NEW t \in Threads, Arrive(t) PROVE Tracked'
<1> USE DEF Tracked
<1>1. PICK r \in Requests : pc[t] = "idle" /\ pc' = [pc EXCEPT ![t] = r]
  BY MonitorAssumption DEF Arrive, InvPlaces
<1>2. Fades /\ InvChild' /\ InvKnown' /\ (Selects' <=> Selects) /\ Up' = Up
  BY DEF Arrive, known, Fades, InvChild, InvKnown, KnownPid, Up, Alive, Selects
<1>3. Mine(t) /\ pc'[t] = r
  BY <1>1 DEF Arrive, Mine, InvPlaces
<1>4. StartPlace(t)' /\ StopPlace(t)'
  BY <1>3 DEF StartPlace, StopPlace, Rising, Keeping, Requests
<1>5. (Starting' <=> Starting) /\ (NoneRises' <=> NoneRises)
  BY <1>1, <1>3, SameStarts DEF Rising, Keeping, Requests
<1>6. InvFiled' /\ InvShown'
  BY <1>2, <1>5 DEF Arrive, known, InvFiled, InvShown, NoneRises
<1>7. QED BY <1>2, <1>3, <1>4, <1>6, StepOf

\* A selection or a start reads the pid that it will write.
LEMMA TracksKeepRead ==
  ASSUME InvTypes, InvPlaces, OneOperator, Tracked, NEW t \in Threads, KeepRead(t) PROVE Tracked'
<1> USE DEF Tracked
<1>1. Fades /\ InvChild' /\ InvKnown' /\ (Selects' <=> Selects) /\ Up' = Up
  BY DEF KeepRead, known, Fades, InvChild, InvKnown, KnownPid, Up, Alive, Selects
<1>2. Mine(t)
  BY DEF KeepRead, Goes, Mine, InvPlaces, InvTypes, InvLocals
<1>3. StartPlace(t)'
  BY <1>1 DEF KeepRead, Goes, known, StartPlace, InvStart, InvPlaces, InvTypes, InvLocals, Rising, Keeping
<1>4. StopPlace(t)'
  BY <1>1 DEF KeepRead, Goes, known, StopPlace, InvStop, InvPlaces, InvTypes, InvLocals, Target
<1>5. (Starting' <=> Starting) /\ (NoneRises' <=> NoneRises)
  BY <1>2, SameStarts DEF KeepRead, Goes, InvPlaces, Rising, Keeping
<1>6. InvFiled' /\ InvShown'
  BY <1>1, <1>5 DEF KeepRead, known, InvFiled, InvShown, NoneRises
<1>7. QED BY <1>1, <1>2, <1>3, <1>4, <1>6, StepOf

\* A page is told what is shown.
LEMMA TracksReport ==
  ASSUME InvTypes, InvPlaces, OneOperator, Tracked, NEW t \in Threads, Report(t) PROVE Tracked'
<1> USE DEF Tracked
<1>1. Fades /\ InvChild' /\ InvKnown' /\ (Selects' <=> Selects) /\ Up' = Up
  BY DEF Report, known, Fades, InvChild, InvKnown, KnownPid, Up, Alive, Selects
<1>2. Mine(t) /\ pc[t] = "report" /\ pc'[t] = "idle"
  BY DEF Report, Goes, Mine, InvPlaces
<1>3. StartPlace(t)' /\ StopPlace(t)'
  BY <1>2 DEF StartPlace, StopPlace, Rising, Keeping
<1>4. (Starting' <=> Starting) /\ (NoneRises' <=> NoneRises)
  BY <1>2, SameStarts DEF Rising, Keeping
<1>5. InvFiled' /\ InvShown'
  BY <1>1, <1>4 DEF Report, known, InvFiled, InvShown, NoneRises
<1>6. QED BY <1>1, <1>2, <1>3, <1>5, StepOf

\* A stop takes PROC and the pid, finds nothing, or signals what it found.
LEMMA TracksStopGrab ==
  ASSUME InvTypes, InvPlaces, OneOperator, Tracked, NEW t \in Threads, StopGrab(t) PROVE Tracked'
<1> USE DEF Tracked
<1>1. Fades /\ InvChild' /\ InvKnown' /\ (Selects' <=> Selects) /\ Up' = Up
  BY DEF StopGrab, known, Fades, InvChild, InvKnown, KnownPid, Up, Alive, Selects
<1>2. Mine(t)
  BY DEF StopGrab, Goes, Mine, InvPlaces
<1>3. StartPlace(t)'
  BY <1>1 DEF StopGrab, Goes, known, StartPlace, InvStart, InvPlaces, InvTypes, InvLocals, Rising, Keeping
<1>4. StopPlace(t)'
  <2>1. pc'[t] = "check" /\ proc_of'[t] = PROC /\ pid_of'[t] = PID /\ PROC' = PROC /\ orphans' = orphans
    BY DEF StopGrab, Goes, known, InvPlaces, InvTypes, InvLocals
  <2>2. Target(t)' = IF PROC # 0 THEN PROC ELSE PID
    BY <2>1 DEF Target
  <2>3. Target(t)' # 0 => Up \subseteq {Target(t)'}
    BY <2>2 DEF InvKnown, KnownPid
  <2>4. PROC = 0 => Up \subseteq orphans
    BY DEF InvChild, Up, Alive, Id
  <2>5. QED BY <1>1, <2>1, <2>3, <2>4 DEF StopPlace
<1>5. (Starting' <=> Starting) /\ (NoneRises' <=> NoneRises)
  BY <1>2, SameStarts DEF StopGrab, Goes, InvPlaces, Rising, Keeping
<1>6. InvFiled' /\ InvShown'
  BY <1>1, <1>5 DEF StopGrab, known, InvFiled, InvShown, NoneRises
<1>7. QED BY <1>1, <1>2, <1>3, <1>4, <1>6, StepOf

LEMMA TracksStopNothing ==
  ASSUME InvTypes, InvPlaces, OneOperator, Tracked, NEW t \in Threads, StopNothing(t) PROVE Tracked'
<1> USE DEF Tracked
<1>1. Fades /\ InvChild' /\ InvKnown' /\ (Selects' <=> Selects) /\ Up' = Up
  BY DEF StopNothing, known, Fades, InvChild, InvKnown, KnownPid, Up, Alive, Selects
<1>2. Mine(t)
  BY DEF StopNothing, Goes, Mine, InvPlaces
<1>3. StartPlace(t)'
  BY <1>1 DEF StopNothing, Goes, known, StartPlace, InvStart, InvPlaces, InvTypes, InvLocals, Rising, Keeping
<1>4. StopPlace(t)'
  BY <1>1 DEF StopNothing, Goes, known, StopPlace, InvStop, InvPlaces, InvTypes, InvLocals, Target
<1>5. (Starting' <=> Starting) /\ (NoneRises' <=> NoneRises)
  BY <1>2, SameStarts DEF StopNothing, Goes, InvPlaces, Rising, Keeping
<1>6. InvFiled' /\ InvShown'
  BY <1>1, <1>5 DEF StopNothing, known, InvFiled, InvShown, NoneRises
<1>7. QED BY <1>1, <1>2, <1>3, <1>4, <1>6, StepOf

LEMMA TracksStopSignal ==
  ASSUME InvTypes, InvPlaces, OneOperator, Tracked, NEW t \in Threads, StopSignal(t) PROVE Tracked'
<1> USE DEF Tracked
<1>1. Fades /\ InvChild' /\ InvKnown' /\ (Selects' <=> Selects) /\ Up' = Up
  BY DEF StopSignal, known, Fades, InvChild, InvKnown, KnownPid, Up, Alive, Selects
<1>2. Mine(t)
  BY DEF StopSignal, Goes, Mine, InvPlaces
<1>3. StartPlace(t)'
  BY <1>1 DEF StopSignal, Goes, known, StartPlace, InvStart, InvPlaces, InvTypes, InvLocals, Rising, Keeping
<1>4. StopPlace(t)'
  <2>1. pc[t] = "check" /\ pc'[t] = "wait" /\ UNCHANGED <<proc_of, pid_of, PROC>> /\ Target(t) # 0
    BY DEF StopSignal, Goes, known, InvPlaces, Target, PidAlive
  <2>2. StopPlace(t) /\ Target(t)' = Target(t)
    BY <2>1 DEF InvStop, Target
  <2>3. QED BY <1>1, <2>1, <2>2 DEF StopPlace
<1>5. (Starting' <=> Starting) /\ (NoneRises' <=> NoneRises)
  BY <1>2, SameStarts DEF StopSignal, Goes, InvPlaces, Rising, Keeping
<1>6. InvFiled' /\ InvShown'
  BY <1>1, <1>5 DEF StopSignal, known, InvFiled, InvShown, NoneRises
<1>7. QED BY <1>1, <1>2, <1>3, <1>4, <1>6, StepOf

-----------------------------------------------------------------------------
(* The other steps of a start.                                             *)

\* The process cannot be spawned, or it is, and nothing else runs.
LEMMA TracksStartFails ==
  ASSUME InvTypes, InvPlaces, OneOperator, Tracked, NEW t \in Threads, StartFails(t) PROVE Tracked'
<1> USE DEF Tracked
<1>1. /\ pc[t] = "spawn" /\ pc'[t] = "idle" /\ Mine(t) /\ PROC' \in {PROC, 0}
      /\ UNCHANGED <<proc, PID, file, shown, kept, orphans, scene>>
  BY DEF StartFails, Goes, Mine, InvPlaces
<1>2. Up = {} /\ PROC = 0 /\ PROC' = 0
  BY <1>1 DEF InvStart, StartPlace
<1>3. Up' = {} /\ Alive' = Alive
  BY <1>1, <1>2 DEF Up, Alive
<1>4. Fades /\ InvChild' /\ InvKnown' /\ InvFiled' /\ InvShown'
  BY <1>1, <1>2, <1>3 DEF Fades, InvChild, InvKnown, InvFiled, InvShown
<1>5. StartPlace(t)' /\ StopPlace(t)'
  BY <1>1 DEF StartPlace, StopPlace, Rising, Keeping
<1>6. QED BY <1>1, <1>4, <1>5, StepOf

LEMMA TracksSpawn ==
  ASSUME InvTypes, InvPlaces, OneOperator, Tracked, NEW t \in Threads, Spawn(t) PROVE Tracked'
<1> USE DEF Tracked
<1>1. PICK i \in Id : proc' = [proc EXCEPT ![i] = "up"] /\ PROC' = i
  BY DEF Spawn
<1>2. /\ pc[t] = "spawn" /\ pc'[t] = "record" /\ Mine(t)
      /\ UNCHANGED <<PID, file, shown, kept, orphans, scene>>
  BY DEF Spawn, Goes, Mine, InvPlaces
<1>3. Up = {} /\ PROC = 0
  BY <1>2 DEF InvStart, StartPlace
<1>4. Up' = {i} /\ Alive' \subseteq Alive \union {i}
  BY <1>1, <1>3 DEF Up, Alive, InvTypes, InvMonitors
<1>5. i # 0
  BY DEF Id
<1>6. InvChild' /\ InvKnown'
  <2>1. Alive \subseteq orphans
    BY <1>3 DEF InvChild, Alive, Id
  <2>2. QED BY <1>1, <1>2, <1>4, <1>5, <2>1 DEF InvChild, InvKnown
<1>7. ASSUME NEW u \in Threads PROVE StartPlace(u)' /\ StopPlace(u)'
  <2>1. CASE u = t
    BY <1>1, <1>2, <1>4, <2>1 DEF StartPlace, StopPlace, Rising, Keeping
  <2>2. CASE u # t
    <3>1. pc'[u] = pc[u]
      BY <1>2, <2>2 DEF Mine
    <3>2. pc[u] \in OfOperator \union Keeping => Selects /\ pc[u] \in Keeping
      BY <1>2, <2>2, Alone DEF OfOperator, Keeping
    <3>3. Selects' <=> Selects
      BY <1>2 DEF Selects
    <3>4. StartPlace(u)'
      BY <1>1, <1>4, <1>5, <3>1, <3>2, <3>3 DEF StartPlace, OfOperator, Rising, Keeping
    <3>5. StopPlace(u)'
      BY <3>1, <3>2 DEF StopPlace, OfOperator, Keeping
    <3>6. QED BY <3>4, <3>5
  <2>3. QED BY <2>1, <2>2
<1>8. Starting' /\ ~NoneRises'
  BY <1>2 DEF Starting, NoneRises, Rising
<1>9. QED BY <1>6, <1>7, <1>8 DEF InvStart, InvStop, InvFiled, InvShown, NoneRises

\* The pid is kept and written, and what is shown is the new monitor.
LEMMA TracksRecord ==
  ASSUME InvTypes, InvPlaces, OneOperator, Tracked, NEW t \in Threads, Record(t) PROVE Tracked'
<1> USE DEF Tracked
<1>1. /\ pc[t] = "record" /\ pc'[t] = (IF PROC = 0 THEN "idle" ELSE "record write") /\ Mine(t)
      /\ pid_of'[t] = PROC /\ UNCHANGED <<proc, known, orphans, scene>>
  BY DEF Record, Goes, Mine, InvPlaces, InvTypes, InvLocals
<1>2. Up \subseteq {PROC}
  BY <1>1 DEF InvStart, StartPlace, Rising
<1>3. Fades /\ InvChild' /\ InvKnown' /\ Up' = Up
  BY <1>1 DEF known, Fades, InvChild, InvKnown, KnownPid, Up, Alive
<1>4. PROC = 0 => Up = {}
  BY <1>2, NoneRuns
<1>5. PROC # 0 => Starting' /\ ~NoneRises'
  BY <1>1 DEF Starting, NoneRises, Rising
<1>6. InvFiled' /\ InvShown'
  BY <1>3, <1>4, <1>5 DEF InvFiled, InvShown, NoneRises
<1>7. StartPlace(t)' /\ StopPlace(t)'
  BY <1>1, <1>2, <1>3 DEF known, StartPlace, StopPlace, Rising, Keeping
<1>8. QED BY <1>1, <1>3, <1>6, <1>7, StepOf

LEMMA TracksRecordWrite ==
  ASSUME InvTypes, InvPlaces, OneOperator, Tracked, NEW t \in Threads, RecordWrite(t) PROVE Tracked'
<1> USE DEF Tracked
<1>1. /\ pc[t] = "record write" /\ pc'[t] = "show" /\ Mine(t) /\ PID' = pid_of[t] /\ pid_of' = pid_of
      /\ UNCHANGED <<proc, PROC, file, shown, kept, orphans, scene>>
  BY DEF RecordWrite, Goes, Mine, InvPlaces
<1>2. Up \subseteq {PROC} /\ Up \subseteq {pid_of[t]}
  BY <1>1 DEF InvStart, StartPlace, Rising
<1>3. Up' = Up /\ Alive' = Alive
  BY <1>1 DEF Up, Alive
<1>4. Fades /\ InvChild' /\ InvKnown'
  BY <1>1, <1>2, <1>3, NoneRuns DEF Fades, InvChild, InvKnown
<1>5. Starting' /\ ~NoneRises'
  BY <1>1 DEF Starting, NoneRises, Rising
<1>6. StartPlace(t)' /\ StopPlace(t)'
  BY <1>1, <1>2, <1>3 DEF StartPlace, StopPlace, Rising, Keeping
<1>7. QED BY <1>1, <1>4, <1>5, <1>6, StepOf DEF InvFiled, InvShown, NoneRises

LEMMA TracksShow ==
  ASSUME InvTypes, InvPlaces, OneOperator, Tracked, NEW t \in Threads, Show(t) PROVE Tracked'
<1> USE DEF Tracked
<1>1. /\ pc[t] = "show" /\ pc'[t] = "keep" /\ Mine(t) /\ shown' = pid_of[t] /\ pid_of' = pid_of
      /\ UNCHANGED <<proc, PROC, PID, file, kept, orphans, scene>>
  BY DEF Show, Goes, Mine, InvPlaces
<1>2. Up \subseteq {PROC} /\ Up \subseteq {pid_of[t]} /\ Up \subseteq {PID}
  BY <1>1 DEF InvStart, StartPlace, Rising
<1>3. Up' = Up /\ Alive' = Alive
  BY <1>1 DEF Up, Alive
<1>4. Fades /\ InvChild' /\ InvKnown'
  BY <1>1, <1>3 DEF Fades, InvChild, InvKnown, KnownPid
<1>5. Starting'
  BY <1>1 DEF Starting, Keeping
<1>6. StartPlace(t)' /\ StopPlace(t)'
  BY <1>1, <1>2, <1>3 DEF StartPlace, StopPlace, Rising, Keeping
<1>7. QED BY <1>1, <1>2, <1>3, <1>4, <1>5, <1>6, StepOf DEF InvFiled, InvShown

\* The pid is written with what is shown.
LEMMA TracksKeepWrite ==
  ASSUME InvTypes, InvPlaces, OneOperator, Tracked, NEW t \in Threads, KeepWrite(t) PROVE Tracked'
<1> USE DEF Tracked
<1>1. /\ pc[t] = "keep write" /\ pc'[t] = "idle" /\ Mine(t)
      /\ file' = pid_of[t] /\ kept' = (IF pid_of[t] = 0 THEN 0 ELSE shown)
      /\ UNCHANGED <<proc, PROC, PID, shown, orphans, scene>>
  BY DEF KeepWrite, Goes, Mine, InvPlaces
<1>2. Up \subseteq {PROC} /\ (~Selects => Up \subseteq {pid_of[t]})
  BY <1>1 DEF InvStart, StartPlace, Keeping
<1>3. Up' = Up /\ Alive' = Alive /\ (Selects' <=> Selects)
  BY <1>1 DEF Up, Alive, Selects
<1>4. PROC = 0 => Up = {}
  BY <1>2, NoneRuns
<1>5. Fades /\ InvChild' /\ InvKnown'
  BY <1>1, <1>2, <1>3, <1>4 DEF Fades, InvChild, InvKnown
<1>6. NoneRises' => NoneRises
  BY <1>1 DEF NoneRises, Rising, Mine
<1>7. InvShown'
  BY <1>1, <1>3, <1>6 DEF InvShown, NoneRises
<1>8. InvFiled'
  <2>1. SUFFICES ASSUME ~Selects, ~Starting' PROVE Up \subseteq {file'} /\ Up \subseteq {kept'}
    BY <1>3 DEF InvFiled
  <2>2. NoneRises
    <3>1. NoneRises'
      BY <2>1 DEF Starting, NoneRises, Rising
    <3>2. QED BY <1>6, <3>1
  <2>3. Up \subseteq {shown}
    BY <1>4, <2>2 DEF InvShown, NoneRises
  <2>4. pid_of[t] = 0 => Up = {}
    BY <1>2, <2>1, NoneRuns
  <2>5. QED BY <1>1, <1>2, <2>1, <2>3, <2>4
<1>9. StartPlace(t)' /\ StopPlace(t)'
  BY <1>1 DEF StartPlace, StopPlace, Rising, Keeping
<1>10. QED BY <1>1, <1>5, <1>7, <1>8, <1>9, StepOf

-----------------------------------------------------------------------------
(* The other steps of a stop, and the environment.                         *)

\* The monitor has exited and is reaped, and the stop forgets it.
LEMMA TracksStopWaited ==
  ASSUME InvTypes, InvPlaces, OneOperator, Tracked, NEW t \in Threads, StopWaited(t) PROVE Tracked'
<1> USE DEF Tracked
<1>1. /\ pc[t] = "wait" /\ pc'[t] = "clear" /\ Mine(t)
      /\ UNCHANGED <<orphans, known, proc_of, pid_of, scene>>
  BY DEF StopWaited, Goes, Mine, InvPlaces
<1>2. PROC \in {0, proc_of[t]} /\ Up \subseteq {Target(t)} /\ Target(t) # 0
  BY <1>1 DEF InvStop, StopPlace, InvTypes, InvLocals
<1> DEFINE g == Target(t)
<1>3. proc' = [proc EXCEPT ![g] = IF proc_of[t] # 0 THEN "gone" ELSE IF @ = "up" THEN Exited(g) ELSE @]
  BY DEF StopWaited
<1>4. g \in Id
  BY <1>2, MonitorAssumption DEF InvTypes, InvLocals, Target, MaybeId, Id
<1>5. Alive' = {} /\ Up' = {}
  <2>1. \A i \in Id : i # g => proc'[i] = proc[i]
    BY <1>3 DEF InvTypes, InvMonitors
  <2>2. proc'[g] \notin {"up", "zombie"}
    <3>1. CASE proc_of[t] # 0
      BY <1>3, <1>4, <3>1 DEF InvTypes, InvMonitors
    <3>2. CASE proc_of[t] = 0
      <4>1. proc[g] \in {"up", "zombie"} => g \in orphans
        BY <1>2, <1>4, <3>2 DEF InvChild, Alive
      <4>2. proc[g] # "zombie"
        BY <4>1 DEF InvTypes, InvMonitors
      <4>3. proc[g] = "up" => proc'[g] = "gone"
        BY <1>3, <1>4, <3>2, <4>1 DEF InvTypes, InvMonitors, Exited
      <4>4. proc[g] # "up" => proc'[g] = proc[g]
        BY <1>3, <1>4, <3>2 DEF InvTypes, InvMonitors
      <4>5. QED BY <4>2, <4>3, <4>4
    <3>3. QED BY <3>1, <3>2
  <2>3. \A i \in Id : i # g => proc[i] \notin {"up", "zombie"}
    <3>1. SUFFICES ASSUME NEW i \in Id, i # g, proc[i] = "zombie" PROVE FALSE
      BY <1>2 DEF Up
    <3>2. i = PROC
      BY <3>1 DEF InvChild, Alive, InvTypes, InvMonitors
    <3>3. i = proc_of[t] /\ i # 0
      BY <1>2, <3>2 DEF Id
    <3>4. QED BY <3>1, <3>3 DEF Target
  <2>4. QED BY <2>1, <2>2, <2>3 DEF Alive, Up
<1>6. Fades /\ InvChild' /\ InvKnown' /\ InvFiled' /\ InvShown'
  BY <1>1, <1>5 DEF Fades, InvChild, InvKnown, InvFiled, InvShown, known
<1>7. StartPlace(t)' /\ StopPlace(t)'
  BY <1>1, <1>2, <1>5 DEF StartPlace, StopPlace, Rising, Keeping, known
<1>8. QED BY <1>1, <1>6, <1>7, StepOf

LEMMA TracksStopClear ==
  ASSUME InvTypes, InvPlaces, OneOperator, Tracked, NEW t \in Threads, StopClear(t) PROVE Tracked'
<1> USE DEF Tracked
<1>1. /\ pc[t] = "clear" /\ pc'[t] = "idle" /\ Mine(t) /\ PROC' = 0
      /\ UNCHANGED <<orphans, proc, proc_of, pid_of, scene>>
  BY DEF StopClear, Goes, Mine, InvPlaces
<1>2. Alive' = {} /\ Up' = {}
  BY <1>1 DEF InvStop, StopPlace, Alive, Up
<1>3. Fades /\ InvChild' /\ InvKnown' /\ InvFiled' /\ InvShown'
  BY <1>1, <1>2 DEF Fades, InvChild, InvKnown, InvFiled, InvShown
<1>4. StartPlace(t)' /\ StopPlace(t)'
  BY <1>1 DEF StartPlace, StopPlace, Rising, Keeping
<1>5. QED BY <1>1, <1>3, <1>4, StepOf

\* A monitor exits.
LEMMA TracksExit ==
  ASSUME InvTypes, InvPlaces, OneOperator, Tracked, NEW i \in Id, Exit(i) PROVE Tracked'
<1> USE DEF Tracked
<1>1. /\ proc[i] = "up" /\ proc' = [proc EXCEPT ![i] = Exited(i)]
      /\ UNCHANGED <<orphans, known, pc, proc_of, pid_of, scene>>
  BY DEF Exit
<1>2. Up' \subseteq Up /\ Alive' \subseteq Alive
  BY <1>1 DEF Up, Alive, Exited, InvTypes, InvMonitors
<1>3. Fades /\ InvChild' /\ InvKnown' /\ InvFiled' /\ InvShown'
  BY <1>1, <1>2 DEF Fades, InvChild, InvKnown, InvFiled, InvShown, KnownPid, known, Starting, Selects
<1>4. ASSUME NEW u \in Threads PROVE StartPlace(u)' /\ StopPlace(u)'
  BY <1>1, <1>3, OthersStart, OthersStop DEF InvStart, InvStop
<1>5. QED BY <1>3, <1>4 DEF InvStart, InvStop

\* The backend is restarted: what runs is an orphan that the file names.
LEMMA TracksRestart ==
  ASSUME InvTypes, InvPlaces, OneOperator, Tracked, Restart PROVE Tracked'
<1> USE DEF Tracked
<1>1. /\ \A t \in Threads : pc[t] = "idle" /\ pc'[t] = "idle"
      /\ ~Selects /\ ~Starting /\ PROC' = 0 /\ PID' = 0 /\ UNCHANGED <<file, kept>>
  BY DEF Restart, OneOperator, Starting, Rising, Keeping
<1>2. Up' = Up /\ Alive' \subseteq orphans'
  BY DEF Restart, Up, Alive, InvTypes, InvMonitors
<1>3. InvChild' /\ InvKnown' /\ InvFiled' /\ InvShown'
  BY <1>1, <1>2 DEF InvChild, InvKnown, InvFiled, InvShown, KnownPid
<1>4. InvStart' /\ InvStop'
  BY <1>1 DEF InvStart, InvStop, StartPlace, StopPlace, Rising, Keeping
<1>5. QED BY <1>3, <1>4

-----------------------------------------------------------------------------
(* The invariant.                                                          *)

\* Every step of a handler keeps the invariant.
LEMMA HandlerKeeps ==
  ASSUME InvTypes, InvPlaces, NEW t \in Threads, Handler(t)
  PROVE  InvTypes' /\ InvPlaces' /\ (OneOperator /\ Tracked => Tracked')
<1>1. CASE Status(t)
  BY <1>1, TypesStatus, TracksStatus
<1>2. CASE StartCheck(t)
  BY <1>2, TypesStartCheck, TracksStartCheck
<1>3. CASE StartFails(t)
  BY <1>3, TypesStartFails, TracksStartFails
<1>4. CASE Spawn(t)
  BY <1>4, TypesSpawn, TracksSpawn
<1>5. CASE Record(t)
  BY <1>5, TypesRecord, TracksRecord
<1>6. CASE RecordWrite(t)
  BY <1>6, TypesRecordWrite, TracksRecordWrite
<1>7. CASE Show(t)
  BY <1>7, TypesShow, TracksShow
<1>8. CASE Select(t)
  BY <1>8, TypesSelect, TracksSelect
<1>9. CASE KeepRead(t)
  BY <1>9, TypesKeepRead, TracksKeepRead
<1>10. CASE KeepWrite(t)
  BY <1>10, TypesKeepWrite, TracksKeepWrite
<1>11. CASE StopGrab(t)
  BY <1>11, TypesStopGrab, TracksStopGrab
<1>12. CASE StopNothing(t)
  BY <1>12, TypesStopNothing, TracksStopNothing
<1>13. CASE StopSignal(t)
  BY <1>13, TypesStopSignal, TracksStopSignal
<1>14. CASE StopWaited(t)
  BY <1>14, TypesStopWaited, TracksStopWaited
<1>15. CASE StopClear(t)
  BY <1>15, TypesStopClear, TracksStopClear
<1>16. CASE Report(t)
  BY <1>16, TypesReport, TracksReport
<1>17. QED BY <1>1, <1>2, <1>3, <1>4, <1>5, <1>6, <1>7, <1>8, <1>9, <1>10, <1>11, <1>12, <1>13, <1>14, <1>15, <1>16 DEF Handler

LEMMA SceneStays == ASSUME [Next]_vars PROVE scene' = scene
BY DEF Next, vars, Handler, Arrive, Exit, Restart, Status, Report, StartCheck, StartFails, Spawn, Record, RecordWrite, Show, Select, KeepRead, KeepWrite, StopGrab, StopNothing, StopSignal, StopWaited, StopClear

LEMMA IInvStep == ASSUME IInv, [Next]_vars PROVE IInv'
<1> USE DEF IInv
<1>1. OneOperator' <=> OneOperator
  BY SceneStays DEF OneOperator, Operates, Selects
<1>2. CASE \E t \in Threads : Arrive(t) \/ Handler(t)
  <2>1. PICK t \in Threads : Arrive(t) \/ Handler(t)
    BY <1>2
  <2>2. CASE Arrive(t)
    BY <1>1, <2>2, TypesArrive, TracksArrive
  <2>3. CASE Handler(t)
    BY <1>1, <2>3, HandlerKeeps
  <2>4. QED BY <2>1, <2>2, <2>3
<1>3. CASE \E i \in Id : Exit(i)
  BY <1>1, <1>3, TypesExit, TracksExit
<1>4. CASE Restart
  BY <1>1, <1>4, TypesRestart, TracksRestart
<1>5. CASE UNCHANGED vars
  BY <1>1, <1>5 DEF vars, known, InvTypes, InvMonitors, InvKept, InvLocals, InvPlaces, Tracked, InvChild,
       InvKnown, InvStart, StartPlace, InvFiled, InvShown, InvStop, StopPlace, Starting, Up, Alive, KnownPid,
       Target, Selects, Operates
<1>6. QED BY <1>2, <1>3, <1>4, <1>5 DEF Next

\* With one operator the monitor that runs is the one that PROC or the state file
\* names, at every place of every handler (app.py:646 to 930).
THEOREM IInvAlways == Spec => []IInv
<1>1. Init => IInv
  BY PlacesInit, TrackedInit DEF IInv
<1>2. IInv /\ [Next]_vars => IInv'
  BY IInvStep
<1>3. QED BY <1>1, <1>2, PTL DEF Spec

-----------------------------------------------------------------------------
(* The properties.                                                         *)

\* What the invariant says of the properties.
LEMMA IInvKnows == ASSUME IInv PROVE OneKnownMonitor
<1>1. TypeOK
  BY TypesAre DEF IInv
<1>2. ASSUME OneOperator PROVE OneMonitor /\ RestartFindsMonitor /\ StopEndsWhatItFound
  <2>1. Tracked
    BY <1>2 DEF IInv
  <2>2. OneMonitor
    <3>1. \E x : Up \subseteq {x}
      BY <2>1 DEF Tracked, InvKnown
    <3>2. Up = {} \/ \E x : Up = {x}
      BY <3>1
    <3>3. Cardinality(Up) = 0 \/ Cardinality(Up) = 1
      BY <3>2, FS_EmptySet, FS_Singleton, Zenon
    <3>4. QED BY <3>3 DEF OneMonitor
  <2>3. RestartFindsMonitor
    BY <2>1 DEF Tracked, InvFiled, RestartFindsMonitor, Selects, Starting, Rising, Keeping
  <2>4. StopEndsWhatItFound
    BY <2>1 DEF Tracked, InvStop, StopPlace, StopEndsWhatItFound, Up, Alive
  <2>5. QED BY <2>2, <2>3, <2>4
<1>3. QED BY <1>1, <1>2 DEF OneKnownMonitor

\* With one operator there is at most one monitor, a backend that is restarted finds
\* it in its file, and a stop waits for the monitor that runs (app.py:409, 738, 827,
\* 856 and 915).
THEOREM KnownCorrect == Spec => []OneKnownMonitor
BY IInvAlways, IInvKnows, PTL

\* A request that leaves its place does so by a step of its own.
LEMMA OwnStep ==
  ASSUME IInv, [Next]_vars, NEW t \in Threads, pc'[t] # pc[t], pc[t] # "idle" PROVE Handler(t)
<1>1. Next
  BY DEF vars
<1>2. PICK u \in Threads : Arrive(u) \/ Handler(u)
  BY <1>1 DEF Next, Exit, Restart
<1>3. u = t
  BY <1>2 DEF IInv, InvPlaces, Handler, Goes, Arrive, Status, Report, StartCheck, StartFails, Spawn, Record, RecordWrite, Show, Select, KeepRead, KeepWrite, StopGrab, StopNothing, StopSignal, StopWaited, StopClear
<1>4. QED BY <1>2, <1>3 DEF Arrive

\* What ShownIsRunning says of a state.
IsShown ==
  OneOperator /\ ~Unshown =>
    \A t \in Threads : pc[t] = "report" /\ pid_of[t] \in Up => shown = pid_of[t]

\* The page that found a monitor left its process id behind: as long as one runs,
\* either a handle or a pid is known, and so what is shown is it.
LEMMA IInvShows == ASSUME IInv PROVE IsShown
<1>1. SUFFICES ASSUME OneOperator, ~Unshown, NEW t \in Threads, pc[t] = "report", pid_of[t] \in Up
               PROVE  shown = pid_of[t]
  BY DEF IsShown
<1>2. Tracked
  BY <1>1 DEF IInv
<1>3. \A u \in Threads : pc[u] \notin Rising
  BY <1>1 DEF Unshown, Rising
<1>4. PROC # 0 \/ PID # 0
  BY <1>1, <1>2 DEF Tracked, InvStart, StartPlace
<1>5. Up \subseteq {shown}
  BY <1>2, <1>3, <1>4 DEF Tracked, InvShown
<1>6. QED BY <1>1, <1>5

\* What the backend answers one operator is true: after a stop none runs, what it
\* calls not running does not run, and a page that finds a monitor running is told
\* of that one's decoder, however late it reads it, unless a start is under way or
\* that monitor has ended (app.py:646 to 658, 872 and 915).
THEOREM ToldTrue == Spec => BackendTellsTrue
<1> DEFINE Stopped(t)    == pc[t] = "clear" /\ pc'[t] = "idle" => Up = {}
           NotRunning(t) == pc[t] = "check" /\ pc'[t] = "idle"
                              => Up \subseteq orphans /\ (Up # {} => pid_of[t] = 0)
<1>1. ASSUME IInv, [Next]_vars, OneOperator, NEW t \in Threads
      PROVE  Stopped(t) /\ NotRunning(t)
  <2> USE DEF IInv, Tracked
  <2>1. Stopped(t)
    BY <1>1 DEF InvStop, StopPlace, Up, Alive
  <2>2. ASSUME pc[t] = "check", pc'[t] = "idle" PROVE Up \subseteq orphans /\ (Up # {} => pid_of[t] = 0)
    <3>1. StopNothing(t)
      <4>1. Handler(t)
        BY <1>1, <2>2, OwnStep
      <4>2. QED BY <2>2, <4>1, <1>1 DEF InvPlaces, Handler, Goes, Status, Report, StartCheck, StartFails, Spawn, Record, RecordWrite, Show, Select, KeepRead, KeepWrite, StopGrab, StopSignal, StopWaited, StopClear
    <3>2. proc_of[t] = 0 /\ ~PidAlive(pid_of[t])
      BY <3>1 DEF StopNothing
    <3>3. (pid_of[t] # 0 => Up \subseteq {pid_of[t]}) /\ Up \subseteq orphans
      BY <1>1, <2>2, <3>2 DEF InvStop, StopPlace, Target
    <3>4. QED BY <3>2, <3>3 DEF PidAlive, Up
  <2>3. QED BY <2>1, <2>2
<1> HIDE DEF Stopped, NotRunning
<1>2. IInv /\ [Next]_vars => [OneOperator => \A t \in Threads : Stopped(t)]_vars
  BY <1>1
<1>3. IInv /\ [Next]_vars => [OneOperator => \A t \in Threads : NotRunning(t)]_vars
  BY <1>1
<1>4. IInv => IsShown
  BY IInvShows
<1>5. Spec => [][OneOperator => \A t \in Threads : Stopped(t)]_vars
  BY <1>2, IInvAlways, PTL DEF Spec
<1>6. Spec => [][OneOperator => \A t \in Threads : NotRunning(t)]_vars
  BY <1>3, IInvAlways, PTL DEF Spec
<1>7. Spec => []IsShown
  BY <1>4, IInvAlways, PTL
<1>8. QED BY <1>5, <1>6, <1>7
          DEF BackendTellsTrue, StopLeavesNone, NotRunningIsTrue, ShownIsRunning, IsShown, Stopped, NotRunning

-----------------------------------------------------------------------------
(* Sums.  Rows of different subruns hold as many events as there are pairs  *)
(* of a subrun and a number up to its nevents.                              *)

Counted(S) == UNION {{r.subrun} \X (1 .. r.nevents) : r \in S}
Apart(S)   == \A r, q \in S : r.subrun = q.subrun => r = q
Within(S, n, m) == \A r \in S : r.subrun \in 0 .. n /\ r.nevents \in 0 .. m

\* They are finitely many.
LEMMA CountedIsFinite ==
  ASSUME NEW S, NEW n \in Nat, NEW m \in Nat, Within(S, n, m)
  PROVE  IsFiniteSet(Counted(S))
<1>1. IsFiniteSet(0 .. n) /\ IsFiniteSet(1 .. m)
  BY FS_Interval
<1>2. IsFiniteSet((0 .. n) \X (1 .. m))
  BY <1>1, FS_Product
<1>3. ASSUME NEW r \in S PROVE {r.subrun} \X (1 .. r.nevents) \subseteq (0 .. n) \X (1 .. m)
  <2>1. r.subrun \in 0 .. n /\ r.nevents \in 0 .. m
    BY DEF Within
  <2>2. 1 .. r.nevents \subseteq 1 .. m
    BY <2>1
  <2>3. QED BY <2>1, <2>2
<1>4. Counted(S) \subseteq (0 .. n) \X (1 .. m)
  BY <1>3 DEF Counted
<1>5. QED BY <1>2, <1>4, FS_Subset

\* Another row adds its own.
LEMMA CountedAdds ==
  ASSUME NEW S, NEW r, IsFiniteSet(Counted(S)), r.nevents \in Nat, \A q \in S : q.subrun # r.subrun
  PROVE  /\ IsFiniteSet(Counted(S \union {r}))
         /\ Cardinality(Counted(S \union {r})) = Cardinality(Counted(S)) + r.nevents
         /\ Cardinality(Counted(S)) \in Nat
<1> DEFINE new == {r.subrun} \X (1 .. r.nevents)
<1>1. Counted(S \union {r}) = Counted(S) \union new
  BY DEF Counted
<1>2. IsFiniteSet({r.subrun}) /\ Cardinality({r.subrun}) = 1
  BY FS_Singleton
<1>3. IsFiniteSet(1 .. r.nevents) /\ Cardinality(1 .. r.nevents) = r.nevents
  <2>1. r.nevents \in Int /\ 1 \in Int
    OBVIOUS
  <2>2. /\ IsFiniteSet(1 .. r.nevents)
        /\ Cardinality(1 .. r.nevents) = IF 1 > r.nevents THEN 0 ELSE r.nevents - 1 + 1
    BY <2>1, FS_Interval, Zenon
  <2>3. QED BY <2>2
<1>4. IsFiniteSet(new) /\ Cardinality(new) = r.nevents
  <2>1. IsFiniteSet(new) /\ Cardinality(new) = Cardinality({r.subrun}) * Cardinality(1 .. r.nevents)
    BY <1>2, <1>3, FS_Product
  <2>2. QED BY <2>1, <1>2, <1>3
<1>5. Counted(S) \intersect new = {}
  <2>1. ASSUME NEW p \in Counted(S), p \in new PROVE FALSE
    <3>1. PICK q \in S : p \in {q.subrun} \X (1 .. q.nevents)
      BY <2>1 DEF Counted
    <3>2. p[1] = q.subrun /\ p[1] = r.subrun
      BY <3>1, <2>1
    <3>3. QED BY <3>2
  <2>2. QED BY <2>1
<1>6. Cardinality(Counted(S)) \in Nat
  BY FS_CardinalityType
<1> HIDE DEF new
<1>7. /\ IsFiniteSet(Counted(S) \union new)
      /\ Cardinality(Counted(S) \union new) = Cardinality(Counted(S)) + Cardinality(new) - Cardinality(Counted(S) \intersect new)
  BY <1>4, FS_Union
<1>8. Cardinality(Counted(S) \intersect new) = 0
  BY <1>5, FS_EmptySet
<1>9. Cardinality(Counted(S) \union new) = Cardinality(Counted(S)) + r.nevents
  BY <1>4, <1>6, <1>7, <1>8
<1>10. QED BY <1>1, <1>6, <1>7, <1>9

\* The sum as the library computes it, by taking one row after the other.
Step(S, f) ==
  [s \in SUBSET S |->
     IF s = {} THEN 0
     ELSE LET x == CHOOSE x \in s : TRUE IN x.nevents + f[s \ {x}]]

\* So the sum of nevents is their number: else there would be a smallest set of rows
\* of which it is not, and taking one row away would make it smaller.
LEMMA SumIsCount ==
  ASSUME NEW S, IsFiniteSet(S), Apart(S), NEW n \in Nat, NEW m \in Nat, Within(S, n, m)
  PROVE  MapThenSumSet(LAMBDA r : r.nevents, S) = Cardinality(Counted(S))
<1> DEFINE count == [s \in SUBSET S |-> Cardinality(Counted(s))]
           sum   == CHOOSE f : f = Step(S, f)
           Bad   == {s \in SUBSET S : sum[s] # count[s]}
<1>1. MapThenSumSet(LAMBDA r : r.nevents, S) = sum[S]
  BY DEF MapThenSumSet, MapThenFoldSet, Step
<1>2. ASSUME NEW s \in SUBSET S, s # {}, NEW x, x = CHOOSE y \in s : TRUE
      PROVE  x \in s /\ s \ {x} \in SUBSET S /\ count[s] = x.nevents + count[s \ {x}]
  <2>1. x \in s /\ s \ {x} \in SUBSET S /\ s = (s \ {x}) \union {x}
    BY <1>2
  <2>2. Within(s \ {x}, n, m) /\ x.nevents \in Nat /\ \A q \in s \ {x} : q.subrun # x.subrun
    BY <2>1 DEF Within, Apart
  <2>3. Cardinality(Counted(s)) = Cardinality(Counted(s \ {x})) + x.nevents /\ Cardinality(Counted(s \ {x})) \in Nat
    BY <2>1, <2>2, CountedIsFinite, CountedAdds
  <2>4. count[s] = Cardinality(Counted(s)) /\ count[s \ {x}] = Cardinality(Counted(s \ {x}))
    BY <2>1
  <2>5. QED BY <2>1, <2>2, <2>3, <2>4
<1>3. count[{}] = 0
  <2>1. Counted({}) = {} /\ {} \in SUBSET S
    BY DEF Counted
  <2>2. QED BY <2>1, FS_EmptySet
<1>4. DOMAIN count = SUBSET S /\ count = [s \in SUBSET S |-> count[s]]
  OBVIOUS
<1> HIDE DEF count
<1>5. count = Step(S, count)
  <2>1. ASSUME NEW s \in SUBSET S PROVE count[s] = Step(S, count)[s]
    <3>1. CASE s = {}
      BY <3>1, <1>3 DEF Step
    <3>2. CASE s # {}
      BY <3>2, <1>2 DEF Step
    <3>3. QED BY <3>1, <3>2
  <2>2. DOMAIN Step(S, count) = SUBSET S /\ Step(S, count) = [s \in SUBSET S |-> Step(S, count)[s]]
    BY DEF Step
  <2>3. QED BY <2>1, <2>2, <1>4
<1>6. sum = Step(S, sum)
  BY <1>5
<1> HIDE DEF sum
<1>7. Bad = {}
  <2> SUFFICES ASSUME Bad # {} PROVE FALSE
    OBVIOUS
  <2>1. Bad \subseteq FiniteSubsetsOf(S)
    BY FS_FiniteSubsetsOfFinite
  <2>2. IsWellFoundedOn(StrictSubsetOrdering(S), FiniteSubsetsOf(S))
    BY FS_StrictSubsetOrderingWellFounded
  <2>3. PICK s \in Bad : \A t \in Bad : ~ (<<t, s>> \in StrictSubsetOrdering(S))
    BY <2>1, <2>2, WFMin
  <2>4. s \in SUBSET S /\ sum[s] # count[s] /\ sum[s] = Step(S, sum)[s]
    BY <1>6
  <2>5. s # {}
    BY <2>4, <1>3 DEF Step
  <2>6. PICK x : x = CHOOSE y \in s : TRUE
    OBVIOUS
  <2>7. x \in s /\ s \ {x} \in SUBSET S /\ count[s] = x.nevents + count[s \ {x}]
    BY <2>4, <2>5, <2>6, <1>2
  <2>8. sum[s] = x.nevents + sum[s \ {x}]
    BY <2>4, <2>5, <2>6 DEF Step
  <2>9. s \ {x} \in Bad
    BY <2>4, <2>7, <2>8
  <2>10. <<s \ {x}, s>> \in StrictSubsetOrdering(S)
    BY <2>4, <2>7 DEF StrictSubsetOrdering
  <2>11. QED BY <2>3, <2>9, <2>10
<1>8. sum[S] = count[S]
  BY <1>7
<1>9. QED BY <1>1, <1>8 DEF count

-----------------------------------------------------------------------------
(* The invariant of the run log.                                           *)

Failing     == {"error", "exit"}
IsRow(r)    == r = [subrun |-> r.subrun, nevents |-> r.nevents, status |-> r.status, disconnected |-> r.disconnected]
PausedOf(S) == {r \in S : r.status.word = "paused"}

\* One row per subrun, and one of them the last.
Table(S, n) ==
  /\ IsFiniteSet(S) /\ Apart(S) /\ Within(S, n, EventsPerFile) /\ \A r \in S : IsRow(r)
  /\ S # {} => \E r \in S : \A q \in S : q.subrun <= r.subrun

InvWriter ==
  /\ phase \in {"running", "paused", "over"} /\ is_open \in BOOLEAN
  /\ subrun \in Nat /\ events \in 0 .. EventsPerFile
  /\ is_open => phase = "running" /\ events > 0
  /\ phase = "running" /\ ~is_open => events = 0

InvDevices == dead \union dropped \subseteq Devices /\ (phase # "over" => dead # Devices)

InvHistory == written \in 0 .. MaxRecords /\ marked \in 0 .. subrun /\ failed \in BOOLEAN /\ unlogged \in BOOLEAN

\* The subrun at hand has no row while the run goes on, and nothing follows a
\* row of a failure.
InvRows ==
  /\ Table(rows, subrun)
  /\ phase # "over" => \A r \in rows : r.subrun < subrun
  /\ \A r \in rows : r.status.word \in Failing => phase = "over" /\ failed /\ r.subrun = subrun

InFile   == IF is_open THEN events ELSE 0
InvSum    == ~unlogged => Cardinality(Counted(rows)) + InFile = written
InvPaused == Cardinality(PausedOf(rows)) = marked

InvTable == InvRows /\ InvSum /\ InvPaused
LogInv   == InvWriter /\ InvDevices /\ InvHistory /\ InvTable

\* There are no rows yet.
LEMMA LogInvInit == ASSUME LogInit PROVE LogInv
<1>1. rows = {} /\ phase = "running" /\ subrun = 0 /\ events = 0 /\ is_open = FALSE
      /\ dead = {} /\ dropped = {} /\ written = 0 /\ marked = 0 /\ failed = FALSE /\ unlogged = FALSE
  BY DEF LogInit
<1>2. Counted(rows) = {} /\ PausedOf(rows) = {} /\ IsFiniteSet({}) /\ Cardinality({}) = 0
  BY <1>1, FS_EmptySet DEF Counted, PausedOf
<1>3. InvWriter /\ InvDevices /\ InvHistory
  <2>1. EventsPerFile \in Nat /\ MaxRecords \in Nat /\ Devices # {}
    BY ViewAssumption
  <2>2. InvWriter
    <3>1. subrun \in Nat /\ events \in 0 .. EventsPerFile
      BY <2>1, <1>1
    <3>2. QED BY <3>1, <1>1 DEF InvWriter
  <2>3. InvDevices
    BY <2>1, <1>1 DEF InvDevices
  <2>4. InvHistory
    <3>1. written \in 0 .. MaxRecords /\ marked \in 0 .. subrun
      BY <2>1, <1>1
    <3>2. QED BY <3>1, <1>1 DEF InvHistory
  <2>5. QED BY <2>2, <2>3, <2>4
<1>4. InvRows
  BY <1>1, <1>2 DEF InvRows, Table, Apart, Within
<1>5. InvSum
  <2>1. Cardinality(Counted(rows)) = 0 /\ InFile = 0 /\ written = 0
    BY <1>1, <1>2 DEF InFile
  <2>2. QED BY <2>1 DEF InvSum
<1>6. InvPaused
  BY <1>1, <1>2 DEF InvPaused
<1>7. QED BY <1>3, <1>4, <1>5, <1>6 DEF LogInv, InvTable

\* The numbers of the invariant.
LEMMA TableTypes ==
  ASSUME LogInv
  PROVE  /\ subrun \in Nat /\ events \in Nat /\ EventsPerFile \in Nat /\ InFile \in Nat
         /\ written \in Nat /\ marked \in Nat
         /\ IsFiniteSet(Counted(rows)) /\ Cardinality(Counted(rows)) \in Nat
         /\ IsFiniteSet(PausedOf(rows)) /\ Cardinality(PausedOf(rows)) \in Nat
<1>1. subrun \in Nat /\ events \in Nat /\ EventsPerFile \in Nat /\ written \in Nat /\ marked \in Nat
  BY ViewAssumption DEF LogInv, InvWriter, InvHistory
<1>2. IsFiniteSet(rows) /\ Within(rows, subrun, EventsPerFile)
  BY DEF LogInv, InvTable, InvRows, Table
<1>3. IsFiniteSet(Counted(rows))
  BY <1>1, <1>2, CountedIsFinite
<1>4. PausedOf(rows) \in SUBSET rows
  BY DEF PausedOf
<1>5. IsFiniteSet(PausedOf(rows))
  BY <1>2, <1>4, FS_Subset
<1>6. InFile \in Nat
  BY <1>1 DEF InFile
<1>7. QED BY <1>1, <1>3, <1>5, <1>6, FS_CardinalityType

\* The row of the file at hand, when it has one.
LEMMA Inserted ==
  ASSUME LogInv, phase = "running", NEW status, NEW lost, NEW R, R = rows \union RowOf(status, lost)
  PROVE  /\ Table(R, subrun)
         /\ \A r \in R : r \in rows \/ (r.subrun = subrun /\ r.status = status)
         /\ Cardinality(Counted(R)) = Cardinality(Counted(rows)) + events
         /\ status.word # "paused" => PausedOf(R) = PausedOf(rows)
         /\ status.word = "paused" => Cardinality(PausedOf(R)) = Cardinality(PausedOf(rows)) + (IF events > 0 THEN 1 ELSE 0)
<1> DEFINE new == [subrun |-> subrun, nevents |-> events, status |-> status, disconnected |-> lost]
<1>1. Table(rows, subrun) /\ \A r \in rows : r.subrun < subrun /\ r.subrun \in Nat
  BY DEF LogInv, InvTable, InvRows, Table, Within
<1>2. subrun \in Nat /\ events \in 0 .. EventsPerFile /\ EventsPerFile \in Nat
  BY TableTypes DEF LogInv, InvWriter
<1>3. CASE events = 0
  <2>1. RowOf(status, lost) = {}
    BY <1>3 DEF RowOf
  <2>2. R = rows
    BY <2>1
  <2>3. Cardinality(Counted(R)) = Cardinality(Counted(rows)) + events
    BY <2>2, <1>3, TableTypes
  <2>4. Cardinality(PausedOf(R)) = Cardinality(PausedOf(rows)) + (IF events > 0 THEN 1 ELSE 0)
    BY <2>2, <1>3, TableTypes
  <2>5. QED BY <2>2, <2>3, <2>4, <1>1
<1>4. CASE events # 0
  <2>1. RowOf(status, lost) = {new} /\ R = rows \union {new}
    BY <1>4 DEF RowOf
  <2>2. new.subrun = subrun /\ new.nevents = events /\ new.status = status /\ IsRow(new)
    BY DEF IsRow
  <2> HIDE DEF new
  <2>3. \A r \in R : r \in rows \/ (r.subrun = subrun /\ r.status = status)
    BY <2>1, <2>2
  <2>4. Table(R, subrun)
    <3>1. IsFiniteSet(R) /\ Apart(R)
      BY <2>1, <2>2, <1>1, FS_AddElement DEF Table, Apart
    <3>2. Within(R, subrun, EventsPerFile) /\ \A r \in R : IsRow(r)
      BY <2>1, <2>2, <1>1, <1>2 DEF Table, Within
    <3>3. new \in R /\ \A q \in R : q.subrun <= new.subrun
      BY <2>1, <2>2, <1>1, <1>2
    <3>4. QED BY <3>1, <3>2, <3>3 DEF Table
  <2>5. Cardinality(Counted(R)) = Cardinality(Counted(rows)) + events
    <3>1. IsFiniteSet(Counted(rows)) /\ new.nevents \in Nat /\ \A q \in rows : q.subrun # new.subrun
      BY <2>2, <1>1, <1>2, TableTypes
    <3>2. Cardinality(Counted(rows \union {new})) = Cardinality(Counted(rows)) + new.nevents
      BY <3>1, CountedAdds
    <3>3. QED BY <3>2, <2>1, <2>2
  <2>6. status.word # "paused" => PausedOf(R) = PausedOf(rows)
    BY <2>1, <2>2 DEF PausedOf
  <2>7. ASSUME status.word = "paused"
        PROVE  Cardinality(PausedOf(R)) = Cardinality(PausedOf(rows)) + (IF events > 0 THEN 1 ELSE 0)
    <3>1. PausedOf(R) = PausedOf(rows) \union {new}
      BY <2>1, <2>2, <2>7 DEF PausedOf
    <3>2. new \notin PausedOf(rows)
      BY <2>2, <1>1, <1>2 DEF PausedOf
    <3>3. Cardinality(PausedOf(R)) = Cardinality(PausedOf(rows)) + 1
      BY <3>1, <3>2, TableTypes, FS_AddElement
    <3>4. events > 0
      BY <1>2, <1>4
    <3>5. QED BY <3>3, <3>4
  <2>8. QED BY <2>3, <2>4, <2>5, <2>6, <2>7
<1>5. QED BY <1>3, <1>4

\* A pause marks the row of its own file and no other.
LEMMA MarkedIsInserted ==
  ASSUME LogInv, phase = "running", NEW status, NEW lost
  PROVE  Mark(rows \union RowOf(status, lost)) = rows \union RowOf(Plain("paused"), lost)
<1> DEFINE new(s) == [subrun |-> subrun, nevents |-> events, status |-> s, disconnected |-> lost]
           set    == RowOf(status, lost)
<1>1. \A r \in rows : r.subrun # subrun
  <2>1. \A r \in rows : r.subrun < subrun /\ r.subrun \in Nat
    BY DEF LogInv, InvTable, InvRows, Table, Within
  <2>2. QED BY <2>1, TableTypes
<1>2. [new(status) EXCEPT !.status = Plain("paused")] = new(Plain("paused")) /\ new(status).subrun = subrun
  OBVIOUS
<1>3. CASE events = 0
  <2>1. RowOf(status, lost) = {} /\ RowOf(Plain("paused"), lost) = {}
    BY <1>3 DEF RowOf
  <2>2. QED BY <2>1, <1>1 DEF Mark
<1>4. CASE events # 0
  <2>1. RowOf(status, lost) = {new(status)} /\ RowOf(Plain("paused"), lost) = {new(Plain("paused"))}
    BY <1>4 DEF RowOf
  <2> HIDE DEF new
  <2>2. \A r \in rows : (IF r.subrun = subrun THEN [r EXCEPT !.status = Plain("paused")] ELSE r) = r
    BY <1>1
  <2>3. QED BY <2>1, <2>2, <1>2 DEF Mark
<1>5. QED BY <1>3, <1>4

-----------------------------------------------------------------------------
(* Steps.                                                                  *)

\* A step that leaves the rows as they are.
LEMMA SameTable ==
  ASSUME LogInv, rows' = rows, marked' = marked, subrun' \in Nat, subrun' >= subrun,
         phase' # "over" => phase # "over",
         phase = "over" => failed' = failed /\ subrun' = subrun,
         ~unlogged' => ~unlogged /\ written' - InFile' = written - InFile,
         InFile' \in Nat, written' \in Nat
  PROVE  InvTable'
<1>1. InvRows'
  <2>1. Table(rows, subrun')
    BY TableTypes DEF LogInv, InvTable, InvRows, Table, Within
  <2>2. phase' # "over" => \A r \in rows : r.subrun < subrun'
    <3>1. \A r \in rows : r.subrun \in Nat
      BY DEF LogInv, InvTable, InvRows, Table, Within
    <3>2. QED BY <3>1, TableTypes DEF LogInv, InvTable, InvRows
  <2>3. \A r \in rows : r.status.word \in Failing => phase' = "over" /\ failed' /\ r.subrun = subrun'
    BY DEF LogInv, InvTable, InvRows
  <2>4. QED BY <2>1, <2>2, <2>3 DEF InvRows
<1>2. InvSum'
  BY TableTypes DEF LogInv, InvTable, InvSum
<1>3. InvPaused'
  BY DEF LogInv, InvTable, InvPaused
<1>4. QED BY <1>1, <1>2, <1>3 DEF InvTable

\* The file at hand gets its row.
LEMMA RowAdded ==
  ASSUME LogInv, phase = "running", NEW status, NEW lost, rows' = rows \union RowOf(status, lost),
         subrun' \in Nat, subrun' >= subrun, phase' # "over" => subrun' > subrun,
         status.word # "paused" => marked' = marked,
         status.word = "paused" => marked' = marked + (IF events > 0 THEN 1 ELSE 0),
         status.word \in Failing => phase' = "over" /\ failed' /\ subrun' = subrun,
         ~unlogged' => ~unlogged /\ written' - InFile' = written,
         InFile' \in Nat, written' \in Nat
  PROVE  InvTable'
<1>1. /\ Table(rows', subrun)
      /\ \A r \in rows' : r \in rows \/ (r.subrun = subrun /\ r.status = status)
      /\ Cardinality(Counted(rows')) = Cardinality(Counted(rows)) + events
      /\ status.word # "paused" => PausedOf(rows') = PausedOf(rows)
      /\ status.word = "paused" => Cardinality(PausedOf(rows')) = Cardinality(PausedOf(rows)) + (IF events > 0 THEN 1 ELSE 0)
  <2>1. PICK R : R = rows'
    OBVIOUS
  <2>2. R = rows \union RowOf(status, lost)
    BY <2>1
  <2>3. /\ Table(R, subrun)
        /\ \A r \in R : r \in rows \/ (r.subrun = subrun /\ r.status = status)
        /\ Cardinality(Counted(R)) = Cardinality(Counted(rows)) + events
        /\ status.word # "paused" => PausedOf(R) = PausedOf(rows)
        /\ status.word = "paused" => Cardinality(PausedOf(R)) = Cardinality(PausedOf(rows)) + (IF events > 0 THEN 1 ELSE 0)
    <3>1. LogInv /\ phase = "running"
      OBVIOUS
    <3>2. Table(R, subrun)
      BY ONLY <2>2, <3>1, Inserted
    <3>3. QED BY ONLY <2>2, <3>1, Inserted, Zenon
  <2>4. QED BY <2>1, <2>3
<1>2. InvRows'
  <2>1. Table(rows', subrun')
    BY <1>1, TableTypes DEF Table, Within
  <2>2. \A r \in rows' : r.subrun \in 0 .. subrun
    BY <1>1 DEF Table, Within
  <2>3. phase' # "over" => \A r \in rows' : r.subrun < subrun'
    BY <2>2, TableTypes
  <2>4. ASSUME NEW r \in rows', r.status.word \in Failing PROVE phase' = "over" /\ failed' /\ r.subrun = subrun'
    <3>1. r \notin rows
      BY <2>4 DEF LogInv, InvTable, InvRows
    <3>2. r.subrun = subrun /\ r.status = status
      BY <3>1, <1>1
    <3>3. QED BY <3>2, <2>4
  <2>5. QED BY <2>1, <2>3, <2>4 DEF InvRows
<1>3. InvSum'
  <2>1. ~unlogged => Cardinality(Counted(rows)) + InFile = written
    BY DEF LogInv, InvTable, InvSum
  <2>2. InFile = events
    BY DEF InFile, LogInv, InvWriter
  <2>3. ~unlogged' => Cardinality(Counted(rows')) + InFile' = written'
    BY <1>1, <2>1, <2>2, TableTypes
  <2>4. QED BY <2>3 DEF InvSum
<1>4. InvPaused'
  <2>1. Cardinality(PausedOf(rows)) = marked
    BY DEF LogInv, InvTable, InvPaused
  <2>2. Cardinality(PausedOf(rows')) = marked'
    BY <2>1, <1>1
  <2>3. QED BY <2>2 DEF InvPaused
<1>5. QED BY <1>2, <1>3, <1>4 DEF InvTable

\* The writer takes a record, or cannot write it.
LEMMA WriterKeeps ==
  ASSUME LogInv, Writer
  PROVE  LogInv'
<1>1. /\ phase = "running" /\ written < MaxRecords /\ written \in Nat /\ MaxRecords \in Nat
      /\ subrun \in Nat /\ events \in 0 .. EventsPerFile /\ EventsPerFile \in Nat /\ EventsPerFile > 0
      /\ is_open \in BOOLEAN /\ (is_open => events > 0) /\ (~is_open => events = 0)
      /\ failed \in BOOLEAN /\ unlogged \in BOOLEAN
      /\ marked \in 0 .. subrun
  BY ViewAssumption DEF LogInv, InvWriter, InvHistory, Writer, WriteRecord, RotateFails, NewFileFails, WriteFails, Arriving
<1>2. /\ Completed.word = "completed" /\ Plain("error").word = "error"
      /\ "completed" \notin Failing /\ "completed" # "paused" /\ "error" # "paused"
  BY DEF Completed, Plain, Failing
<1>3. CASE WriteRecord
  <2>1. /\ RowOfFull /\ subrun' = (IF Full THEN subrun + 1 ELSE subrun)
        /\ events' = (IF NewFile THEN 1 ELSE events + 1)
        /\ dropped' = (IF NewFile THEN {} ELSE dropped) /\ is_open' = TRUE /\ written' = written + 1
        /\ phase' = phase /\ dead' = dead /\ marked' = marked /\ failed' = failed
    BY <1>3 DEF WriteRecord
  <2>2. unlogged' = unlogged
    BY <2>1 DEF RowOfFull, Insert
  <2>3. subrun' \in Nat /\ subrun' >= subrun /\ events' \in 1 .. EventsPerFile /\ written' \in 1 .. MaxRecords
    BY <2>1, <1>1 DEF NewFile, Full
  <2>4. InFile' = events'
    BY <2>1 DEF InFile
  <2>5. InvWriter'
    BY <2>1, <2>3, <1>1 DEF InvWriter
  <2>6. InvDevices'
    BY <2>1 DEF InvDevices, LogInv
  <2>7. InvHistory'
    <3>1. marked' \in 0 .. subrun'
      BY <2>1, <2>3, <1>1
    <3>2. QED BY <3>1, <2>1, <2>2, <2>3, <1>1 DEF InvHistory
  <2>8. CASE Full
    <3>1. rows' = rows \union RowOf(Completed, dead) /\ events' = 1 /\ subrun' = subrun + 1
      BY <2>1, <2>8 DEF RowOfFull, Insert, NewFile
    <3>2. written' - InFile' = written /\ InFile' \in Nat /\ written' \in Nat /\ subrun' > subrun
      BY <3>1, <2>1, <2>4, <1>1
    <3>3. InvTable'
      BY <3>1, <3>2, <2>1, <2>2, <2>3, <1>1, <1>2, RowAdded
    <3>4. QED BY <3>3, <2>5, <2>6, <2>7 DEF LogInv
  <2>9. CASE ~Full
    <3>1. rows' = rows /\ subrun' = subrun
      BY <2>1, <2>9 DEF RowOfFull
    <3>2. written' - InFile' = written - InFile /\ InFile' \in Nat /\ written' \in Nat
      BY <2>1, <2>3, <2>4, <2>9, <1>1 DEF InFile, NewFile, Full
    <3>3. InvTable'
      BY <3>1, <3>2, <2>1, <2>2, <2>3, <1>1, SameTable
    <3>4. QED BY <3>3, <2>5, <2>6, <2>7 DEF LogInv
  <2>10. QED BY <2>8, <2>9
<1>4. ASSUME WriterFails PROVE InvWriter' /\ InvDevices' /\ InFile' = 0
  BY <1>1, <1>4 DEF WriterFails, InvWriter, InvDevices, InFile, LogInv, devices
<1>5. ASSUME WriterFails, unlogged' \in BOOLEAN PROVE InvHistory'
  BY <1>1, <1>5 DEF WriterFails, InvHistory, LogInv, devices
<1>6. ASSUME WriterFails
      PROVE  /\ phase' = "over" /\ failed' /\ subrun' = subrun /\ marked' = marked /\ written' = written
             /\ InFile' = 0
  BY <1>6, <1>4 DEF WriterFails
  \* The row that is missed makes the sum unknown.
<1>7. ASSUME NEW status, InsertFails(status), WriterFails PROVE LogInv'
  <2>1. rows' = rows /\ unlogged' = TRUE
    BY <1>7 DEF InsertFails
  <2>2. InvTable'
    BY <2>1, <1>1, <1>6, <1>7, SameTable
  <2>3. QED BY <2>1, <2>2, <1>4, <1>5, <1>7 DEF LogInv
<1>8. ASSUME NEW status, status.word # "paused", Insert(status), WriterFails PROVE LogInv'
  <2>1. rows' = rows \union RowOf(status, dead) /\ unlogged' = unlogged
    BY <1>8 DEF Insert
  <2>2. InvTable'
    BY <2>1, <1>1, <1>2, <1>6, <1>8, RowAdded
  <2>3. QED BY <2>1, <2>2, <1>1, <1>4, <1>5, <1>8 DEF LogInv
<1>9. CASE RotateFails
  BY <1>9, <1>7 DEF RotateFails
<1>10. CASE NewFileFails
  <2>1. RowOfFull /\ WriterFails /\ NewFile
    BY <1>10 DEF NewFileFails
  <2>2. CASE Full
    BY <2>1, <2>2, <1>2, <1>8 DEF RowOfFull
  <2>3. CASE ~Full
    <3>1. rows' = rows /\ unlogged' = unlogged
      BY <2>1, <2>3 DEF RowOfFull
    <3>2. InFile = 0
      BY <2>1, <2>3, <1>1 DEF NewFile, InFile
    <3>3. InvTable'
      BY <3>1, <3>2, <2>1, <1>1, <1>6, SameTable
    <3>4. QED BY <3>1, <3>3, <2>1, <1>1, <1>4, <1>5 DEF LogInv
  <2>4. QED BY <2>2, <2>3
<1>11. CASE WriteFails
  BY <1>11, <1>2, <1>7, <1>8 DEF WriteFails
<1>12. QED BY <1>3, <1>9, <1>10, <1>11 DEF Writer

\* The types, one by one.
LEMMA RunningTypes ==
  ASSUME LogInv
  PROVE  /\ written \in 0 .. MaxRecords /\ MaxRecords \in Nat /\ subrun \in Nat /\ marked \in 0 .. subrun
         /\ events \in 0 .. EventsPerFile /\ EventsPerFile \in Nat /\ EventsPerFile > 0
         /\ is_open \in BOOLEAN /\ failed \in BOOLEAN /\ unlogged \in BOOLEAN
         /\ dead \subseteq Devices /\ dropped \subseteq Devices
BY ViewAssumption DEF LogInv, InvWriter, InvHistory, InvDevices

\* The acquisition ends, with the devices it has or with none.
LEMMA EndKeeps ==
  ASSUME LogInv, NEW status, NEW lost, NEW clean \in BOOLEAN, EndsWith(status, lost, clean),
         status.word # "paused", status.word \in Failing => ~clean, dead' \union dropped' \subseteq Devices
  PROVE  LogInv'
<1>1. /\ phase = "running" /\ phase' = "over" /\ is_open' = FALSE
      /\ subrun' = subrun /\ events' = events /\ written' = written /\ marked' = marked
  BY DEF EndsWith
<1>2. InvWriter' /\ InvDevices' /\ InFile' = 0
  BY <1>1, RunningTypes DEF InvWriter, InvDevices, InFile
<1>3. written \in Nat /\ subrun \in Nat
  BY RunningTypes
<1>4. CASE rows' = rows \union RowOf(status, lost) /\ failed' = ~clean /\ unlogged' = unlogged
  <2>1. InvTable'
    <3>1. written' - InFile' = written /\ InFile' \in Nat /\ written' \in Nat /\ subrun' \in Nat /\ subrun' >= subrun
      BY <1>1, <1>2, <1>3
    <3>2. status.word \in Failing => phase' = "over" /\ failed' /\ subrun' = subrun
      BY <1>1, <1>4
    <3>3. ~unlogged' => ~unlogged /\ written' - InFile' = written
      BY <3>1, <1>4
    <3>4. /\ phase' # "over" => subrun' > subrun
          /\ status.word # "paused" => marked' = marked
          /\ status.word = "paused" => marked' = marked + (IF events > 0 THEN 1 ELSE 0)
      BY <1>1
    <3>5. rows' = rows \union RowOf(status, lost)
      BY <1>4
    <3>6. LogInv /\ phase = "running"
      BY <1>1
    <3>7. QED BY ONLY <3>1, <3>2, <3>3, <3>4, <3>5, <3>6, RowAdded, Zenon
  <2>2. InvHistory'
    BY <1>1, <1>4, RunningTypes DEF InvHistory
  <2>3. QED BY <2>1, <2>2, <1>2 DEF LogInv
<1>5. CASE InsertFails(status) /\ failed' = TRUE
  <2>1. rows' = rows /\ unlogged' = TRUE
    BY <1>5 DEF InsertFails
  <2>2. InvTable'
    BY <2>1, <1>1, <1>2, <1>3, <1>5, SameTable
  <2>3. InvHistory'
    BY <2>1, <1>1, <1>5, RunningTypes DEF InvHistory
  <2>4. QED BY <2>2, <2>3, <1>2 DEF LogInv
<1>6. QED BY <1>4, <1>5 DEF EndsWith

\* An acquisition is stopped, fails, or has lost its last device.
LEMMA EndingsKeep ==
  ASSUME LogInv, ThreadFails \/ Stop \/ \E d \in Devices : Exhaust(d)
  PROVE  LogInv'
<1>1. /\ Plain("error").word = "error" /\ LastStatus.word \in {"completed", "stopped"}
      /\ TRUE \in BOOLEAN /\ FALSE \in BOOLEAN
  BY DEF Plain, LastStatus, Completed
<1>2. CASE ThreadFails
  <2>1. EndsWith(Plain("error"), dead, FALSE) /\ dead' = dead /\ dropped' = dropped
    BY <1>2 DEF ThreadFails, devices
  <2>2. QED BY <2>1, <1>1, EndKeeps, RunningTypes
<1>3. CASE Stop
  <2>1. EndsWith(LastStatus, dead, TRUE) /\ dead' = dead /\ dropped' = dropped
    BY <1>3 DEF Stop, devices
  <2>2. LastStatus.word # "paused" /\ LastStatus.word \notin Failing
    BY <1>1 DEF Failing
  <2>3. dead' \union dropped' \subseteq Devices
    BY <2>1, RunningTypes
  <2>4. QED BY <2>1, <2>2, <2>3, <1>1, EndKeeps
<1>4. CASE \E d \in Devices : Exhaust(d)
  <2>1. PICK d \in Devices : Exhaust(d)
    BY <1>4
  <2>2. PICK status : status = [word |-> "exit", disconnects |-> Cardinality(Devices)]
    OBVIOUS
  <2>3. EndsWith(status, Devices, FALSE) /\ dead' = Devices /\ dropped' = dropped \union {d}
    BY <2>1, <2>2 DEF Exhaust
  <2>4. status.word = "exit" /\ dead' \union dropped' \subseteq Devices
    BY <2>2, <2>3, RunningTypes
  <2>5. QED BY <2>3, <2>4, <1>1, EndKeeps
<1>5. QED BY <1>2, <1>3, <1>4

\* Devices come and go, a run is resumed or stopped.
LEMMA QuietKeeps ==
  ASSUME LogInv, (\E d \in Devices : Lose(d) \/ Recover(d)) \/ Resume \/ StopPaused \/ UNCHANGED logVars
  PROVE  LogInv'
<1>1. rows' = rows /\ marked' = marked /\ subrun' = subrun /\ failed' = failed /\ unlogged' = unlogged
      /\ written' = written /\ is_open' = is_open
  BY DEF Lose, Recover, Resume, StopPaused, logVars, history, data_file, devices
<1>2. InvWriter' /\ InvDevices' /\ (phase' # "over" => phase # "over") /\ InFile' = InFile
  <2>1. CASE \E d \in Devices : Lose(d) \/ Recover(d)
    <3>1. phase' = phase /\ events' = events
      BY <2>1 DEF Lose, Recover, data_file, history
    <3>2. InvDevices'
      BY <2>1 DEF LogInv, InvDevices, Lose, Recover
    <3>3. QED BY <3>1, <3>2, <1>1 DEF LogInv, InvWriter, InFile
  <2>2. CASE Resume
    <3>1. phase = "paused" /\ phase' = "running" /\ events' = 0 /\ dead' = {} /\ dropped' = {}
      BY <2>2 DEF Resume
    <3>2. InvDevices'
      BY <3>1, ViewAssumption DEF InvDevices
    <3>3. is_open = FALSE
      BY <3>1 DEF LogInv, InvWriter
    <3>4. QED BY <3>1, <3>2, <3>3, <1>1, RunningTypes DEF InvWriter, InFile
  <2>3. CASE StopPaused
    <3>1. phase = "paused" /\ phase' = "over" /\ events' = events /\ dead' = dead /\ dropped' = dropped
      BY <2>3 DEF StopPaused, data_file, devices
    <3>2. QED BY <3>1, <1>1 DEF LogInv, InvWriter, InvDevices, InFile
  <2>4. CASE UNCHANGED logVars
    <3>1. phase' = phase /\ events' = events /\ dead' = dead /\ dropped' = dropped
      BY <2>4 DEF logVars, data_file, devices
    <3>2. QED BY <3>1, <1>1 DEF LogInv, InvWriter, InvDevices, InFile
  <2>5. QED BY <2>1, <2>2, <2>3, <2>4
<1>3. InvHistory'
  BY <1>1 DEF LogInv, InvHistory
<1>4. InvTable'
  BY <1>1, <1>2, TableTypes, SameTable
<1>5. QED BY <1>2, <1>3, <1>4 DEF LogInv

\* A pause, with its mark or without.
LEMMA PauseKeeps ==
  ASSUME LogInv, Pause \/ PauseUnmarked
  PROVE  LogInv'
<1>1. CASE Pause
  <2>1. /\ phase = "running" /\ phase' = "paused" /\ is_open' = FALSE
        /\ rows' = Mark(rows \union RowOf(LastStatus, dead))
        /\ marked' = (IF events > 0 THEN marked + 1 ELSE marked) /\ subrun' = subrun + 1
        /\ events' = events /\ dead' = dead /\ dropped' = dropped
        /\ written' = written /\ failed' = failed /\ unlogged' = unlogged
    BY <1>1 DEF Pause, devices
  <2>2. rows' = rows \union RowOf(Plain("paused"), dead) /\ Plain("paused").word = "paused"
    BY <2>1, MarkedIsInserted DEF Plain
  <2>3. InvWriter' /\ InvDevices' /\ InvHistory' /\ InFile' = 0
    <3>1. subrun' \in Nat /\ marked' \in 0 .. subrun'
      BY <2>1, RunningTypes
    <3>2. InvDevices'
      BY <2>1 DEF LogInv, InvDevices
    <3>3. QED BY <3>1, <3>2, <2>1, RunningTypes DEF InvWriter, InvHistory, InFile
  <2>4. subrun' \in Nat /\ subrun' > subrun /\ subrun' >= subrun /\ written' \in Nat /\ written' - InFile' = written
        /\ marked' = marked + (IF events > 0 THEN 1 ELSE 0)
    BY <2>1, <2>3, RunningTypes
  <2>5. "paused" \notin Failing
    BY DEF Failing
  <2>6. InvTable'
    BY <2>1, <2>2, <2>3, <2>4, <2>5, RowAdded
  <2>7. QED BY <2>3, <2>6 DEF LogInv
<1>2. CASE PauseUnmarked
  <2>1. /\ phase = "running" /\ phase' = "over" /\ failed' = TRUE /\ is_open' = FALSE
        /\ rows' = rows \union RowOf(LastStatus, dead)
        /\ subrun' = subrun /\ events' = events /\ dead' = dead /\ dropped' = dropped
        /\ written' = written /\ marked' = marked /\ unlogged' = unlogged
    BY <1>2 DEF PauseUnmarked, devices
  <2>2. LastStatus.word \notin Failing /\ LastStatus.word # "paused"
    BY DEF LastStatus, Completed, Plain, Failing
  <2>3. InvWriter' /\ InvDevices' /\ InvHistory' /\ InFile' = 0
    BY <2>1, RunningTypes DEF InvWriter, InvDevices, InvHistory, InFile
  <2>4. written' \in Nat /\ written' - InFile' = written /\ subrun' \in Nat /\ subrun' >= subrun
    BY <2>1, <2>3, RunningTypes
  <2>5. InvTable'
    BY <2>1, <2>2, <2>3, <2>4, RowAdded
  <2>6. QED BY <2>3, <2>5 DEF LogInv
<1>3. QED BY <1>1, <1>2

\* Every step.
LEMMA LogInvNext == ASSUME LogInv, [LogNext]_logVars PROVE LogInv'
<1>1. CASE Writer
  BY <1>1, WriterKeeps
<1>2. CASE Operator
  BY <1>2, EndingsKeep, PauseKeeps, QuietKeeps DEF Operator
<1>3. CASE ThreadFails
  BY <1>3, EndingsKeep
<1>4. CASE \E d \in Devices : Lose(d) \/ Recover(d) \/ Exhaust(d)
  BY <1>4, EndingsKeep, QuietKeeps
<1>5. CASE UNCHANGED logVars
  BY <1>5, QuietKeeps
<1>6. QED BY <1>1, <1>2, <1>3, <1>4, <1>5 DEF LogNext

\* One row per subrun, which hold what was written and marked, and nothing after a
\* row of a failure (daq_runtime.cpp:360 to 485, daqd.cpp:339 to 401).
THEOREM LogInvAlways == LogSpec => []LogInv
BY LogInvInit, LogInvNext, PTL DEF LogSpec

-----------------------------------------------------------------------------
(* What the operator reads.                                                *)

\* A finite set of numbers has a least one.
LEMMA LeastThere == ASSUME NEW S, S # {}, S \subseteq Nat PROVE \E k \in S : \A j \in S : k <= j
<1> DEFINE R == {p \in Nat \X Nat : p[1] < p[2]}
<1>1. PICK k \in S : \A j \in S : ~ (<<j, k>> \in R)
  <2>1. R = OpToRel(<, Nat)
    BY Zenon DEF OpToRel
  <2>2. IsWellFoundedOn(R, Nat)
    BY <2>1, NatLessThanWellFounded, Zenon
  <2> HIDE DEF R
  <2>3. QED BY <2>2, WFMin
<1>2. ASSUME NEW j \in S PROVE k <= j
  <2>1. k \in Nat /\ j \in Nat /\ ~ (<<j, k>> \in R)
    BY <1>1
  <2>2. ~ (j < k)
    BY <2>1
  <2>3. QED BY <2>1, <2>2
<1>3. QED BY <1>2

\* The row of the first subrun.
LEMMA FirstIsFirst ==
  ASSUME LogInv, rows # {}
  PROVE  First \in rows /\ \A r \in rows : First.subrun <= r.subrun
<1> DEFINE numbers == {r.subrun : r \in rows}
<1>1. numbers # {} /\ numbers \subseteq Nat
  BY DEF LogInv, InvTable, InvRows, Table, Within, InvWriter
<1> HIDE DEF numbers
<1>2. PICK k \in numbers : \A j \in numbers : k <= j
  BY <1>1, LeastThere
<1> USE DEF numbers
<1>3. PICK r \in rows : r.subrun = k
  BY <1>2
<1>4. \A q \in rows : r.subrun <= q.subrun
  BY <1>2, <1>3
<1>5. QED BY <1>3, <1>4 DEF First

\* What the page loses of a run it shows is nothing, or the row of its first subrun.
LEMMA Lost ==
  ASSUME LogInv, NEW oldest \in BOOLEAN, Read(oldest, 0) # {}
  PROVE  /\ rows # {} /\ First \in rows
         /\ Read(oldest, 0) = IF Cut(oldest) THEN rows \ {First} ELSE rows
<1>1. rows # {} /\ First \in rows
  BY FirstIsFirst DEF Read
<1>2. \A r \in rows : Parts(r, oldest, 0) = 9 <=> ~(Cut(oldest) /\ r = First)
  BY DEF Parts
<1>3. Read(oldest, 0) = IF Cut(oldest) THEN rows \ {First} ELSE rows
  BY <1>2 DEF Read
<1>4. QED BY <1>1, <1>3

\* A tab in the comment leaves the page no row of it but, it may be, the first.
LEMMA TabLoses ==
  ASSUME NEW oldest \in BOOLEAN, NEW tabs \in 1 .. 2 PROVE Read(oldest, tabs) \subseteq {First}
BY DEF Read, Parts

\* The row that the summary takes for the last one is the last, lost or not.
LEMMA LastIsLast ==
  ASSUME LogInv, NEW oldest \in BOOLEAN, NEW read, read = Read(oldest, 0), read # {}
  PROVE  LastRow(read) \in rows /\ \A r \in rows : r.subrun <= LastRow(read).subrun
<1>1. PICK r \in rows : \A q \in rows : q.subrun <= r.subrun
  BY Lost DEF LogInv, InvTable, InvRows, Table
<1>2. /\ rows # {} /\ First \in rows /\ \A q \in rows : First.subrun <= q.subrun
      /\ read = IF Cut(oldest) THEN rows \ {First} ELSE rows
  BY Lost, FirstIsFirst
<1>3. \A q \in rows : q.subrun \in Nat
  BY DEF LogInv, InvTable, InvRows, Table, Within, InvWriter
<1>4. r \in read
  <2>1. CASE ~Cut(oldest)
    BY <2>1, <1>2
  <2>2. CASE Cut(oldest)
    <3>1. PICK q \in read : q # First
      BY <2>2, <1>2
    <3>2. q \in rows /\ q.subrun # First.subrun
      BY <3>1, <1>2, <2>2 DEF LogInv, InvTable, InvRows, Table, Apart
    <3>3. First.subrun < q.subrun /\ q.subrun <= r.subrun
      BY <3>2, <1>1, <1>2, <1>3
    <3>4. r # First
      BY <3>3, <1>2, <1>3, <3>2
    <3>5. QED BY <3>4, <2>2, <1>2
  <2>3. QED BY <2>1, <2>2
<1>5. read \subseteq rows
  BY <1>2
<1>6. LastRow(read) \in read /\ \A q \in read : q.subrun <= LastRow(read).subrun
  BY <1>1, <1>4, <1>5 DEF LastRow
<1>7. \A q \in rows : q.subrun <= LastRow(read).subrun
  <2>1. LastRow(read).subrun \in Nat /\ r.subrun \in Nat /\ r.subrun <= LastRow(read).subrun
    BY <1>3, <1>4, <1>5, <1>6
  <2>2. QED BY <2>1, <1>1, <1>3
<1>8. QED BY <1>5, <1>6, <1>7

\* A row of a failure is the last one; and the run has failed.
LEMMA LogShows == ASSUME LogInv PROVE FailureRowsAreShown
<1> SUFFICES ASSUME NEW oldest \in BOOLEAN, NEW tabs \in 0 .. 2, NEW read, read = Read(oldest, tabs)
             PROVE  /\ /\ \E r \in rows : r.status.word \in {"error", "exit"}
                       /\ tabs = 0 /\ (Cut(oldest) => rows # {First})
                       => read # {} /\ Summary(read).word \in {"error", "exit"}
                    /\ read # {} /\ Summary(read).word \in {"error", "exit"} => failed
  BY DEF FailureRowsAreShown
<1>1. read # {} /\ tabs = 0 => LastRow(read) \in rows /\ \A r \in rows : r.subrun <= LastRow(read).subrun
  BY LastIsLast
<1>2. Summary(read).word = IF Finished(read) THEN "completed" ELSE LastRow(read).status.word
  BY DEF Summary
<1>3. ASSUME NEW r \in rows, r.status.word \in {"error", "exit"}, tabs = 0, Cut(oldest) => rows # {First}
      PROVE  read # {} /\ Summary(read).word \in {"error", "exit"}
  <2>1. read # {}
    <3>1. First \in rows
      BY FirstIsFirst
    <3>2. PICK q \in rows : Cut(oldest) => q # First
      BY <1>3, <3>1
    <3>3. q \in read
      BY <1>3, <3>2 DEF Read, Parts
    <3>4. QED BY <3>3
  <2>2. r.subrun = subrun /\ LastRow(read).subrun <= subrun /\ LastRow(read).subrun \in Nat
    <3>1. r.subrun = subrun
      BY <1>3 DEF LogInv, InvTable, InvRows, Failing
    <3>2. LastRow(read) \in rows
      BY <1>1, <1>3, <2>1
    <3>3. LastRow(read).subrun \in 0 .. subrun
      BY <3>2 DEF LogInv, InvTable, InvRows, Table, Within
    <3>4. QED BY <3>1, <3>3, RunningTypes
  <2>3. r.subrun = LastRow(read).subrun
    BY <2>1, <2>2, <1>1, <1>3, RunningTypes
  <2>4. r = LastRow(read)
    BY <2>1, <2>3, <1>1, <1>3 DEF LogInv, InvTable, InvRows, Table, Apart
  <2>5. ~Finished(read)
    BY <2>4, <1>3 DEF Finished
  <2>6. QED BY <2>1, <2>4, <2>5, <1>2, <1>3
<1>4. ASSUME read # {}, Summary(read).word \in {"error", "exit"} PROVE failed
  <2>1. LastRow(read).status.word \in Failing
    BY <1>2, <1>4 DEF Failing
  <2>2. LastRow(read) \in rows
    <3>1. CASE tabs = 0
      BY <1>1, <1>4, <3>1
    <3>2. CASE tabs # 0
      <4>1. read = {First} /\ read \subseteq rows
        BY <1>4, <3>2, TabLoses DEF Read
      <4>2. First \in rows /\ First.subrun <= First.subrun
        BY <4>1 DEF LogInv, InvTable, InvRows, Table, Within
      <4>3. LastRow(read) = First
        BY <4>1, <4>2 DEF LastRow
      <4>4. QED BY <4>2, <4>3
    <3>3. QED BY <3>1, <3>2
  <2>3. QED BY <2>1, <2>2 DEF LogInv, InvTable, InvRows
<1>5. QED BY <1>3, <1>4

\* Without the row of its first subrun a run has the events and the pauses of the others.
LEMMA Without ==
  ASSUME LogInv, First \in rows
  PROVE  /\ Cardinality(Counted(rows)) = Cardinality(Counted(rows \ {First})) + First.nevents
         /\ Cardinality(Counted(rows \ {First})) \in Nat /\ First.nevents \in Nat
         /\ Cardinality(PausedOf(rows \ {First})) =
              Cardinality(PausedOf(rows)) - (IF First.status.word = "paused" THEN 1 ELSE 0)
<1> DEFINE others == rows \ {First}
<1>1. IsFiniteSet(rows) /\ Apart(rows) /\ Within(rows, subrun, EventsPerFile)
  BY DEF LogInv, InvTable, InvRows, Table
<1>2. /\ Within(others, subrun, EventsPerFile) /\ \A q \in others : q.subrun # First.subrun
      /\ First.nevents \in Nat /\ rows = others \union {First}
  BY <1>1, RunningTypes DEF Within, Apart
<1>3. IsFiniteSet(Counted(others))
  BY <1>2, RunningTypes, CountedIsFinite
<1>4. /\ Cardinality(Counted(rows)) = Cardinality(Counted(others)) + First.nevents
      /\ Cardinality(Counted(others)) \in Nat
  <2> HIDE DEF others
  <2>1. QED BY <1>2, <1>3, CountedAdds
<1>5. PausedOf(others) = PausedOf(rows) \ {First} /\ (First \in PausedOf(rows) <=> First.status.word = "paused")
  BY DEF PausedOf
<1>6. IsFiniteSet(PausedOf(rows)) /\ Cardinality(PausedOf(rows)) \in Nat
  BY TableTypes
<1>7. Cardinality(PausedOf(others)) = Cardinality(PausedOf(rows)) - (IF First.status.word = "paused" THEN 1 ELSE 0)
  <2>1. Cardinality(PausedOf(rows) \ {First}) =
          IF First \in PausedOf(rows) THEN Cardinality(PausedOf(rows)) - 1 ELSE Cardinality(PausedOf(rows))
    BY <1>6, FS_RemoveElement
  <2>2. Cardinality(PausedOf(others)) = Cardinality(PausedOf(rows) \ {First})
    BY <1>5
  <2> HIDE DEF others
  <2>3. CASE First.status.word = "paused"
    BY <2>1, <2>2, <2>3, <1>5
  <2>4. CASE First.status.word # "paused"
    BY <2>1, <2>2, <2>4, <1>5, <1>6
  <2>5. QED BY <2>3, <2>4
<1>8. QED BY <1>2, <1>4, <1>7

\* The totals and the pauses.
LEMMA LogAddsUp == ASSUME LogInv PROVE SummaryAddsUp
<1>1. LogTypes
  BY RunningTypes DEF LogInv, InvWriter, InvDevices, LogTypes
<1>2. ASSUME NEW oldest \in BOOLEAN, NEW read, read = Read(oldest, 0), read # {}
      PROVE  /\ First \in rows /\ read = IF Cut(oldest) THEN rows \ {First} ELSE rows
             /\ Cardinality(Counted(read)) = Cardinality(Counted(rows)) - (IF Cut(oldest) THEN First.nevents ELSE 0)
             /\ Cardinality(PausedOf(read)) =
                  Cardinality(PausedOf(rows)) - (IF Cut(oldest) /\ First.status.word = "paused" THEN 1 ELSE 0)
  <2>1. First \in rows /\ read = IF Cut(oldest) THEN rows \ {First} ELSE rows
    BY <1>2, Lost
  <2>2. Cardinality(Counted(rows)) \in Nat /\ Cardinality(PausedOf(rows)) \in Nat
    BY TableTypes
  <2>3. CASE Cut(oldest)
    BY <2>1, <2>2, <2>3, Without
  <2>4. CASE ~Cut(oldest)
    BY <2>1, <2>2, <2>4
  <2>5. QED BY <2>1, <2>3, <2>4
<1>3. TotalsAreTrue
  <2> SUFFICES ASSUME NEW oldest \in BOOLEAN, NEW read, read = Read(oldest, 0), read # {}, ~unlogged
               PROVE  Summary(read).nevents =
                        written - (IF is_open THEN events ELSE 0) - (IF Cut(oldest) THEN First.nevents ELSE 0)
    BY DEF TotalsAreTrue
  <2>1. Summary(read).nevents = MapThenSumSet(LAMBDA r : r.nevents, read)
    BY DEF Summary
  <2>2. IsFiniteSet(rows) /\ Apart(rows) /\ Within(rows, subrun, EventsPerFile) /\ read \subseteq rows
    BY <1>2 DEF LogInv, InvTable, InvRows, Table
  <2>3. IsFiniteSet(read) /\ Apart(read) /\ Within(read, subrun, EventsPerFile)
    BY <2>2, FS_Subset DEF Apart, Within
  <2>4. MapThenSumSet(LAMBDA r : r.nevents, read) = Cardinality(Counted(read))
    BY <2>3, RunningTypes, SumIsCount
  <2>5. Cardinality(Counted(rows)) + InFile = written
    BY DEF LogInv, InvTable, InvSum
  <2>6. Cardinality(Counted(rows)) = written - InFile
    BY <2>5, TableTypes
  <2>7. QED BY <2>1, <2>4, <2>6, <1>2 DEF InFile
<1>4. PausesAreCounted
  <2> SUFFICES ASSUME NEW oldest \in BOOLEAN, NEW read, read = Read(oldest, 0), read # {},
                      Summary(read).word = "completed"
               PROVE  Summary(read).paused = marked - (IF Cut(oldest) /\ First.status.word = "paused" THEN 1 ELSE 0)
    BY DEF PausesAreCounted
  <2>1. Summary(read).word = (IF Finished(read) THEN "completed" ELSE LastRow(read).status.word)
        /\ Summary(read).paused = IF Finished(read) THEN With(read, "paused") ELSE 0
    BY DEF Summary
  <2>2. Finished(read)
    BY <2>1 DEF Finished
  <2>3. With(read, "paused") = Cardinality(PausedOf(read)) /\ Cardinality(PausedOf(rows)) = marked
    BY DEF With, PausedOf, LogInv, InvTable, InvPaused
  <2>4. QED BY <2>1, <2>2, <2>3, <1>2
<1>5. QED BY <1>1, <1>3, <1>4 DEF SummaryAddsUp

\* The line the operator reads adds up: as long as every insert succeeds, the events
\* it shows are those on disk, and a run shown as completed has all its pauses that
\* followed a record; of the oldest run on the page those of the first file are
\* missing, unless its row names a lost device (app.py:330, 1386, 1411 and 1452).
THEOREM LogAddsUpAlways == LogSpec => []SummaryAddsUp
BY LogInvAlways, LogAddsUp, PTL

\* A run with a row of a failure is shown as failed, and none is that has not failed;
\* but of a run whose comment has a tab no row is read, or the first alone, and the
\* oldest on the page is not shown when its one row is the line that is lost
\* (app.py:330, 1386 and 1441, daqd.cpp:360).
THEOREM FailuresShown == LogSpec => []FailureRowsAreShown
BY LogInvAlways, LogShows, PTL

-----------------------------------------------------------------------------
(* Induction over numbers and sequences, without operators as parameters.    *)

\* Induction up to n: a set that has 0, and k + 1 with every k, has them all.
LEMMA Climb ==
  ASSUME NEW n \in Nat, NEW S, 0 \in S, \A k \in 0 .. n - 1 : k \in S => k + 1 \in S
  PROVE  0 .. n \subseteq S
<1> DEFINE Misses == (0 .. n) \ S
<1>1. SUFFICES ASSUME Misses # {} PROVE FALSE
  OBVIOUS
<1>2. Misses \subseteq Nat
  OBVIOUS
<1> DEFINE R == {p \in Nat \X Nat : p[1] < p[2]}
<1>3. PICK k \in Misses : \A j \in Misses : ~ (<<j, k>> \in R)
  <2>1. R = OpToRel(<, Nat)
    BY Zenon DEF OpToRel
  <2>2. IsWellFoundedOn(R, Nat)
    BY <2>1, NatLessThanWellFounded, Zenon
  <2> HIDE DEF R, Misses
  <2>3. QED BY <2>2, <1>1, <1>2, WFMin
<1>4. k \in 1 .. n /\ k \notin S
  BY <1>3
<1>5. k - 1 \in 0 .. n - 1 /\ (k - 1) + 1 = k
  BY <1>4
<1>6. k - 1 \in Misses
  BY <1>4, <1>5
<1>7. <<k - 1, k>> \in R
  BY <1>4
<1>8. QED BY <1>3, <1>6, <1>7

\* Induction over sequences: a set that has the empty one, and with each what it is
\* with an element more, has them all.
LEMMA Grow ==
  ASSUME NEW X, NEW T, <<>> \in T,
         \A seq \in Seq(X), e \in X : seq \in T => Append(seq, e) \in T
  PROVE  Seq(X) \subseteq T
<1> SUFFICES ASSUME NEW all \in Seq(X) PROVE all \in T
  OBVIOUS
<1> DEFINE n == Len(all)
           S == {k \in 0 .. n : SubSeq(all, 1, k) \in T}
<1>1. n \in Nat /\ \A k \in 1 .. n : all[k] \in X
  OBVIOUS
<1>2. 0 \in S
  <2>1. SubSeq(all, 1, 0) = <<>> /\ 0 \in 0 .. n
    BY <1>1
  <2>2. QED BY <2>1
<1>3. ASSUME NEW k \in 0 .. n - 1, k \in S PROVE k + 1 \in S
  <2>1. k + 1 \in 1 .. n /\ k + 1 \in 0 .. n /\ k \in 0 .. n
    BY <1>1
  <2>2. SubSeq(all, 1, k) \in Seq(X) /\ SubSeq(all, 1, k) \in T
    BY <1>3, <2>1
  <2>3. SubSeq(all, 1, k + 1) = Append(SubSeq(all, 1, k), all[k + 1])
    BY <2>1
  <2>4. QED BY <1>1, <2>1, <2>2, <2>3
<1> HIDE DEF S
<1>4. n \in S
  <2>1. 0 .. n \subseteq S
    BY ONLY <1>1, <1>2, <1>3, Climb
  <2>2. QED BY <1>1, <2>1
<1>5. SubSeq(all, 1, n) = all
  BY <1>1
<1>6. QED BY <1>4, <1>5 DEF S

Chain(m, n, base, F, f) == [k \in m .. n |-> IF k = m THEN base ELSE F[<<k, f[k - 1]>>]]
Keeps(m, n, F, A) == \A k \in m + 1 .. n, a \in A : F[<<k, a>>] \in A

\* A function over 0 .. n that is made from its first value, a turn at a time.
LEMMA Chained ==
  ASSUME NEW m \in Nat, NEW n \in Nat, m <= n, NEW A, NEW base \in A, NEW F, Keeps(m, n, F, A)
  PROVE  \E f \in [m .. n -> A] : f = Chain(m, n, base, F, f)
<1> DEFINE Right(f, d) == f[m] = base /\ \A k \in m + 1 .. m + d : f[k] = F[<<k, f[k - 1]>>]
           S == {d \in 0 .. n - m : \E f \in [m .. n -> A] : Right(f, d)}
<1>1. n - m \in Nat
  OBVIOUS
<1>2. 0 \in S
  <2>1. Right([k \in m .. n |-> base], 0)
    OBVIOUS
  <2>2. QED BY <1>1, <2>1
<1>3. ASSUME NEW d \in 0 .. (n - m) - 1, d \in S PROVE d + 1 \in S
  <2>1. PICK f \in [m .. n -> A] : Right(f, d)
    BY <1>3
  <2> DEFINE at == m + d + 1
             g == [f EXCEPT ![at] = F[<<at, f[at - 1]>>]]
  <2>2. at \in m + 1 .. n /\ at - 1 \in m .. n
    OBVIOUS
  <2>3. g \in [m .. n -> A]
    <3>1. f[at - 1] \in A
      BY <2>2
    <3>2. F[<<at, f[at - 1]>>] \in A
      BY <2>2, <3>1 DEF Keeps
    <3>3. QED BY <3>2
  <2>4. Right(g, d + 1)
    <3>1. g[m] = base
      BY <2>1, <2>2
    <3>2. ASSUME NEW k \in m + 1 .. m + (d + 1) PROVE g[k] = F[<<k, g[k - 1]>>]
      <4>1. g[k - 1] = f[k - 1]
        BY <2>2
      <4>2. CASE k = at
        <5>1. g[at] = F[<<at, f[at - 1]>>]
          BY <2>2
        <5> HIDE DEF g, at
        <5>2. QED BY <5>1, <4>1, <4>2
      <4>3. CASE k # at
        <5>1. g[k] = f[k] /\ k \in m + 1 .. m + d
          BY <2>2, <4>3
        <5>2. QED BY <5>1, <4>1, <2>1
      <4>4. QED BY <4>2, <4>3
    <3>3. QED BY <3>1, <3>2
  <2>5. d + 1 \in 0 .. n - m
    OBVIOUS
  <2>6. QED BY <2>3, <2>4, <2>5
<1> HIDE DEF S
<1>4. n - m \in S
  <2>1. 0 .. n - m \subseteq S
    BY ONLY <1>1, <1>2, <1>3, Climb
  <2>2. QED BY <1>1, <2>1
<1>5. PICK f \in [m .. n -> A] : Right(f, n - m)
  BY <1>4 DEF S
<1>6. \A k \in m .. n : f[k] = IF k = m THEN base ELSE F[<<k, f[k - 1]>>]
  <2>1. m + (n - m) = n
    OBVIOUS
  <2>2. QED BY <1>5, <2>1
<1>7. f = Chain(m, n, base, F, f)
  BY <1>6 DEF Chain
<1>8. QED BY <1>7

-----------------------------------------------------------------------------
(* Lists, and the readers that go over them.                                *)

\* Flattening, an element at a time.
LEMMA FlattenMore ==
  ASSUME NEW X
  PROVE  /\ FlattenSeq(<<>>) = <<>>
         /\ \A seqs \in Seq(Seq(X)) : FlattenSeq(seqs) \in Seq(X)
         /\ \A seqs \in Seq(Seq(X)), e \in Seq(X) :
              FlattenSeq(Append(seqs, e)) = FlattenSeq(seqs) \o e
<1> DEFINE Fold(seqs, f) == [i \in 1 .. Len(seqs) |-> IF i = 1 THEN seqs[i] ELSE f[i - 1] \o seqs[i]]
           flat(seqs) == CHOOSE f : f = Fold(seqs, f)
<1>1. FlattenSeq(<<>>) = <<>>
  BY DEF FlattenSeq
<1>2. ASSUME NEW seqs \in Seq(Seq(X)), seqs # <<>>
      PROVE  FlattenSeq(seqs) = flat(seqs)[Len(seqs)]
  BY <1>2 DEF FlattenSeq
<1>3. ASSUME NEW seqs \in Seq(Seq(X)), seqs # <<>>
      PROVE  flat(seqs) = Fold(seqs, flat(seqs)) /\ flat(seqs) \in [1 .. Len(seqs) -> Seq(X)]
  <2> DEFINE n == Len(seqs)
             F == [p \in (1 .. n) \X Seq(X) |-> p[2] \o seqs[p[1]]]
  <2>1. n \in Nat /\ 1 <= n /\ \A i \in 1 .. n : seqs[i] \in Seq(X)
    BY <1>3
  <2>2. \A k \in 1 .. n, a \in Seq(X) : F[<<k, a>>] = a \o seqs[k]
    OBVIOUS
  <2>3. ASSUME NEW k \in 2 .. n, NEW a \in Seq(X) PROVE F[<<k, a>>] \in Seq(X)
    <3>1. k \in 1 .. n
      BY <2>1
    <3>2. seqs[k] \in Seq(X)
      BY <2>1, <3>1
    <3>3. a \o seqs[k] \in Seq(X)
      BY <3>2
    <3> HIDE DEF F
    <3>4. QED BY <2>2, <3>1, <3>3
  <2> HIDE DEF F
  <2>4. PICK f \in [1 .. n -> Seq(X)] : f = Chain(1, n, seqs[1], F, f)
    <3>1. seqs[1] \in Seq(X) /\ 1 + 1 = 2 /\ 1 \in Nat
      BY <2>1
    <3>2. \A k \in 1 + 1 .. n, a \in Seq(X) : F[<<k, a>>] \in Seq(X)
      BY <2>3, <3>1
    <3> HIDE DEF n
    <3>3. PICK base : base = seqs[1]
      OBVIOUS
    <3>4. PICK A : A = Seq(X)
      OBVIOUS
    <3>5. base \in A /\ \A k \in 1 + 1 .. n, a \in A : F[<<k, a>>] \in A
      BY <3>1, <3>2, <3>3, <3>4
    <3>6. \E f \in [1 .. n -> A] : f = Chain(1, n, base, F, f)
      <4>1. PICK m : m = 1
        OBVIOUS
      <4>2. m \in Nat /\ m <= n /\ n \in Nat /\ Keeps(m, n, F, A)
        BY <2>1, <3>5, <4>1 DEF Keeps
      <4>3. \E f \in [m .. n -> A] : f = Chain(m, n, base, F, f)
        BY ONLY <3>5, <4>2, Chained
      <4>4. QED BY <4>1, <4>3
    <3>7. QED BY <3>3, <3>4, <3>6
  <2>5. f = Fold(seqs, f)
    <3>1. ASSUME NEW k \in 1 .. n, k # 1 PROVE f[k - 1] \in Seq(X)
      <4>1. k - 1 \in 1 .. n
        BY <2>1, <3>1
      <4> HIDE DEF n
      <4>2. QED BY <4>1
    <3>2. \A k \in 1 .. n : k # 1 => F[<<k, f[k - 1]>>] = f[k - 1] \o seqs[k]
      BY <2>2, <3>1
    <3>3. QED BY <2>4, <3>2 DEF Chain
  <2>6. flat(seqs) = Fold(seqs, flat(seqs))
    BY <2>5
  <2>7. PICK g : g = flat(seqs) /\ g = Fold(seqs, g)
    BY <2>6
  <2> DEFINE S == {k \in 0 .. n : k = 0 \/ g[k] \in Seq(X)}
  <2>8. 0 \in S
    BY <2>1
  <2>9. ASSUME NEW k \in 0 .. n - 1, k \in S PROVE k + 1 \in S
    <3>1. k + 1 \in 1 .. n /\ (k + 1) - 1 = k /\ k + 1 \in 0 .. n
      BY <2>1
    <3>2. g[k + 1] = IF k + 1 = 1 THEN seqs[k + 1] ELSE g[k] \o seqs[k + 1]
      <4>1. PICK j : j = k + 1
        OBVIOUS
      <4>2. j \in 1 .. n /\ j - 1 = k
        BY <3>1, <4>1
      <4>3. g[j] = IF j = 1 THEN seqs[j] ELSE g[j - 1] \o seqs[j]
        BY <4>2, <2>7
      <4>4. QED BY <4>1, <4>2, <4>3
    <3>3. k + 1 = 1 \/ g[k] \in Seq(X)
      BY <2>9
    <3>4. seqs[k + 1] \in Seq(X)
      BY <2>1, <3>1
    <3>5. g[k + 1] \in Seq(X)
      <4> HIDE DEF S, n
      <4>1. QED BY <3>2, <3>3, <3>4
    <3>6. QED BY <3>1, <3>5
  <2> HIDE DEF S, n
  <2>10. 0 .. n \subseteq S
    BY ONLY <2>1, <2>8, <2>9, Climb
  <2>11. \A k \in 1 .. n : g[k] \in Seq(X)
    BY <2>1, <2>10 DEF S
  <2>12. QED BY <2>6, <2>7, <2>11 DEF n
<1> HIDE DEF flat
<1>4. ASSUME NEW seqs \in Seq(Seq(X)) PROVE FlattenSeq(seqs) \in Seq(X)
  <2>1. CASE seqs = <<>>
    <3>1. <<>> \in Seq(X)
      OBVIOUS
    <3>2. QED BY <2>1, <1>1, <3>1
  <2>2. CASE seqs # <<>>
    <3>1. Len(seqs) \in 1 .. Len(seqs)
      BY <2>2
    <3>2. flat(seqs) \in [1 .. Len(seqs) -> Seq(X)] /\ FlattenSeq(seqs) = flat(seqs)[Len(seqs)]
      BY <1>2, <1>3, <2>2
    <3>3. flat(seqs)[Len(seqs)] \in Seq(X)
      BY <3>1, <3>2
    <3>4. QED BY <3>2, <3>3
  <2>3. QED BY <2>1, <2>2
<1>5. ASSUME NEW seqs \in Seq(Seq(X)), NEW e \in Seq(X)
      PROVE  FlattenSeq(Append(seqs, e)) = FlattenSeq(seqs) \o e
  <2> DEFINE n == Len(seqs)  more == Append(seqs, e)
  <2>1. /\ n \in Nat /\ more \in Seq(Seq(X)) /\ Len(more) = n + 1 /\ more[n + 1] = e
        /\ \A k \in 1 .. n : more[k] = seqs[k]
        /\ more # <<>>
    <3>1. PICK A : A = Seq(X)
      OBVIOUS
    <3>2. seqs \in Seq(A) /\ e \in A
      BY <3>1
    <3>3. /\ n \in Nat /\ more \in Seq(A) /\ Len(more) = n + 1 /\ more[n + 1] = e
          /\ \A k \in 1 .. n : more[k] = seqs[k]
      BY <3>2
    <3> HIDE DEF more
    <3>4. more # <<>>
      BY <3>3
    <3>5. QED BY <3>1, <3>3, <3>4
  <2> HIDE DEF more
  <2>2. flat(more) = Fold(more, flat(more)) /\ FlattenSeq(more) = flat(more)[n + 1]
    BY <1>2, <1>3, <2>1
  <2>3. CASE seqs = <<>>
    <3>1. FlattenSeq(more) = e
      BY <2>1, <2>2, <2>3
    <3>2. QED BY <3>1, <2>3, <1>1 DEF more
  <2>4. CASE seqs # <<>>
    <3>1. flat(seqs) = Fold(seqs, flat(seqs)) /\ FlattenSeq(seqs) = flat(seqs)[n]
      BY <1>2, <1>3, <2>4
    <3> DEFINE g == flat(more)  f == flat(seqs)
    <3>2. n >= 1
      BY <2>4
    <3> HIDE DEF g, f
    <3> DEFINE S == {k \in 0 .. n : k = 0 \/ g[k] = f[k]}
    <3>3. 0 \in S
      BY <2>1
    <3>4. ASSUME NEW k \in 0 .. n - 1, k \in S PROVE k + 1 \in S
      <4>1. k + 1 \in 1 .. n /\ (k + 1) - 1 = k /\ k + 1 \in 1 .. n + 1
        BY <2>1
      <4>2. f[k + 1] = IF k + 1 = 1 THEN seqs[k + 1] ELSE f[k] \o seqs[k + 1]
        BY <4>1, <3>1 DEF f
      <4>3. g[k + 1] = IF k + 1 = 1 THEN more[k + 1] ELSE g[k] \o more[k + 1]
        BY <2>1, <4>1, <2>2 DEF g
      <4>4. g[k + 1] = f[k + 1]
        BY <2>1, <4>1, <4>2, <4>3, <3>4
      <4>5. QED BY <4>1, <4>4
    <3> HIDE DEF S, n
    <3>5. 0 .. n \subseteq S
      BY ONLY <2>1, <3>3, <3>4, Climb
    <3>6. g[n] = f[n]
      BY <2>1, <3>2, <3>5 DEF S
    <3>7. g[n + 1] = g[n] \o e
      <4>1. n + 1 # 1 /\ (n + 1) - 1 = n /\ n + 1 \in 1 .. Len(more)
        BY <2>1, <3>2
      <4>2. QED BY <2>1, <2>2, <4>1 DEF g
    <3>8. QED BY <2>2, <3>1, <3>6, <3>7 DEF g, f, more
  <2>5. QED BY <2>3, <2>4
<1>6. QED BY <1>1, <1>4, <1>5

\* The library's least and greatest, where there is one.
LEMMA Extremes ==
  ASSUME NEW S \in SUBSET Int, NEW lo \in S, NEW hi \in S, \A i \in S : lo <= i /\ i <= hi
  PROVE  Min(S) = lo /\ Max(S) = hi
<1>1. ASSUME NEW m \in S, \A i \in S : m <= i PROVE m = lo
  BY <1>1
<1>2. ASSUME NEW m \in S, \A i \in S : m >= i PROVE m = hi
  BY <1>2
<1>3. Min(S) = lo
  BY <1>1 DEF Min
<1>4. Max(S) = hi
  BY <1>2 DEF Max
<1>5. QED BY <1>3, <1>4

\* What getopt_long has read of a list, and of one with an argument more.
LEMMA Readings ==
  ASSUME NEW T, NEW list \in Seq(T), NEW valued, NEW flags
  PROVE  \E f : /\ f[0] = Fresh /\ ReadArgs(list, valued, flags) = f[Len(list)]
                /\ \A k \in 1 .. Len(list) : f[k] = ReadArg(f[k - 1], list[k], valued, flags)
<1> DEFINE n == Len(list)
           Turn(k, a) == ReadArg(a, list[k], valued, flags)
           Fold(f) == [k \in 0 .. n |-> IF k = 0 THEN Fresh ELSE Turn(k, f[k - 1])]
           read == CHOOSE f : f = Fold(f)
           S == {k \in 0 .. n : \E f : /\ f = [i \in 0 .. n |-> f[i]] /\ f[0] = Fresh
                                        /\ \A i \in 1 .. k : f[i] = Turn(i, f[i - 1])}
<1>1. n \in Nat
  OBVIOUS
<1>2. ReadArgs(list, valued, flags) = read[n]
  BY DEF ReadArgs
<1> HIDE DEF n, Turn
<1>3. 0 \in S
  <2>1. PICK f : f = [i \in 0 .. n |-> Fresh]
    OBVIOUS
  <2>2. f = [i \in 0 .. n |-> f[i]] /\ f[0] = Fresh /\ 1 .. 0 = {}
    BY <1>1, <2>1
  <2>3. QED BY <1>1, <2>2
<1>4. ASSUME NEW k \in 0 .. n - 1, k \in S PROVE k + 1 \in S
  <2>1. PICK f : /\ f = [i \in 0 .. n |-> f[i]] /\ f[0] = Fresh
                 /\ \A i \in 1 .. k : f[i] = Turn(i, f[i - 1])
    BY <1>4
  <2>2. PICK g : g = [i \in 0 .. n |-> IF i = k + 1 THEN Turn(i, f[i - 1]) ELSE f[i]]
    OBVIOUS
  <2>3. g = [i \in 0 .. n |-> g[i]] /\ g[0] = Fresh
    BY <1>1, <2>1, <2>2
  <2>4. ASSUME NEW i \in 1 .. k + 1 PROVE g[i] = Turn(i, g[i - 1])
    <3>1. i \in 0 .. n /\ i - 1 \in 0 .. n /\ i - 1 # k + 1
      BY <1>1
    <3>2. g[i - 1] = f[i - 1]
      BY <2>2, <3>1
    <3>3. g[i] = Turn(i, f[i - 1])
      <4>1. CASE i = k + 1
        BY <2>2, <3>1, <4>1
      <4>2. CASE i # k + 1
        <5>1. i \in 1 .. k
          BY <1>1, <4>2
        <5>2. QED BY <2>1, <2>2, <3>1, <4>2, <5>1
      <4>3. QED BY <4>1, <4>2
    <3>4. QED BY <3>2, <3>3
  <2>5. k + 1 \in 0 .. n
    BY <1>1
  <2>6. QED BY <2>3, <2>4, <2>5
<1> HIDE DEF S
<1>5. n \in S
  <2>1. 0 .. n \subseteq S
    BY ONLY <1>1, <1>3, <1>4, Climb
  <2>2. QED BY <1>1, <2>1
<1>6. PICK f : /\ f = [i \in 0 .. n |-> f[i]] /\ f[0] = Fresh
               /\ \A i \in 1 .. n : f[i] = Turn(i, f[i - 1])
  BY <1>5 DEF S
<1>7. f = Fold(f)
  <2>1. ASSUME NEW i \in 0 .. n PROVE f[i] = IF i = 0 THEN Fresh ELSE Turn(i, f[i - 1])
    <3>1. CASE i = 0
      BY <1>6, <3>1
    <3>2. CASE i # 0
      <4>1. i \in 1 .. n
        BY <1>1, <3>2
      <4>2. QED BY <1>6, <3>2, <4>1
    <3>3. QED BY <3>1, <3>2
  <2>2. QED BY <1>6, <2>1
<1>8. PICK g : g = read /\ g = Fold(g)
  BY <1>7
<1>9. g[0] = Fresh /\ \A k \in 1 .. n : g[k] = Turn(k, g[k - 1])
  <2>1. \A i \in 0 .. n : g[i] = IF i = 0 THEN Fresh ELSE Turn(i, g[i - 1])
    BY <1>8
  <2>2. QED BY <1>1, <2>1
<1>10. QED BY <1>2, <1>8, <1>9 DEF n, Turn

\* Nothing has been read of no argument.
LEMMA ReadNone ==
  ASSUME NEW valued, NEW flags
  PROVE  ReadArgs(<<>>, valued, flags) = Fresh
<1> DEFINE T == Nat
<1>1. PICK list \in Seq(T) : list = <<>>
  <2>1. <<>> \in Seq(T)
    OBVIOUS
  <2>2. QED BY <2>1
<1>2. PICK f : f[0] = Fresh /\ ReadArgs(list, valued, flags) = f[Len(list)]
  BY Readings
<1>3. Len(list) = 0
  BY <1>1
<1>4. QED BY <1>1, <1>2, <1>3

\* One argument more is read from where the others left off.
LEMMA ReadOn ==
  ASSUME NEW T, NEW valued, NEW flags, NEW list \in Seq(T), NEW text \in T
  PROVE  ReadArgs(Append(list, text), valued, flags)
           = ReadArg(ReadArgs(list, valued, flags), text, valued, flags)
<1> DEFINE n == Len(list)
           Turn(k, a) == ReadArg(a, list[k], valued, flags)
<1>1. PICK more \in Seq(T) : more = Append(list, text)
  <2>1. Append(list, text) \in Seq(T)
    OBVIOUS
  <2>2. QED BY <2>1
<1>2. /\ n \in Nat /\ Len(more) = n + 1 /\ more[n + 1] = text
      /\ \A k \in 1 .. n : more[k] = list[k]
  BY <1>1
<1>3. PICK f : /\ f[0] = Fresh /\ ReadArgs(list, valued, flags) = f[n]
               /\ \A k \in 1 .. n : f[k] = Turn(k, f[k - 1])
  BY Readings
<1>4. PICK g : /\ g[0] = Fresh /\ ReadArgs(more, valued, flags) = g[Len(more)]
               /\ \A k \in 1 .. Len(more) : g[k] = ReadArg(g[k - 1], more[k], valued, flags)
  BY Readings
<1>5. /\ ReadArgs(more, valued, flags) = g[n + 1]
      /\ \A k \in 1 .. n + 1 : g[k] = ReadArg(g[k - 1], more[k], valued, flags)
  BY <1>2, <1>4
<1>6. \A k \in 1 .. n : g[k] = Turn(k, g[k - 1])
  <2>1. \A k \in 1 .. n : k \in 1 .. n + 1
    BY <1>2
  <2>2. QED BY <1>2, <1>5, <2>1
<1>7. g[n + 1] = ReadArg(g[n], text, valued, flags)
  <2>1. PICK k : k = n + 1
    OBVIOUS
  <2>2. k \in 1 .. n + 1 /\ k - 1 = n
    BY <1>2, <2>1
  <2>3. QED BY <1>2, <1>5, <2>1, <2>2
<1> DEFINE S == {k \in 0 .. n : f[k] = g[k]}
<1> HIDE DEF Turn, n
<1>8. 0 \in S
  BY <1>2, <1>3, <1>4
<1>9. ASSUME NEW k \in 0 .. n - 1, k \in S PROVE k + 1 \in S
  <2>1. PICK j : j = k + 1
    OBVIOUS
  <2>2. j \in 1 .. n /\ j - 1 = k /\ j \in 0 .. n
    BY <1>2, <2>1
  <2>3. f[j] = Turn(j, f[k]) /\ g[j] = Turn(j, g[k])
    BY <1>3, <1>6, <2>2
  <2>4. QED BY <1>9, <2>1, <2>2, <2>3
<1> HIDE DEF S
<1>10. 0 .. n \subseteq S
  BY ONLY <1>2, <1>8, <1>9, Climb
<1>11. f[n] = g[n]
  BY <1>2, <1>10 DEF S
<1>12. QED BY <1>1, <1>3, <1>5, <1>7, <1>11
Unset == [outcome |-> "ok", options |-> DefaultOptions]

\* What datamon was told by the options that were read, and by one option more.
LEMMA Takings ==
  ASSUME NEW T, NEW settings \in Seq(T)
  PROVE  \E f : /\ f[0] = Unset /\ Settled(settings) = f[Len(settings)]
                /\ \A k \in 1 .. Len(settings) : f[k] = TakeOption(f[k - 1], settings[k])
<1> DEFINE n == Len(settings)
           Turn(k, a) == TakeOption(a, settings[k])
           Fold(f) == [k \in 0 .. n |-> IF k = 0 THEN Unset ELSE Turn(k, f[k - 1])]
           read == CHOOSE f : f = Fold(f)
           S == {k \in 0 .. n : \E f : /\ f = [i \in 0 .. n |-> f[i]] /\ f[0] = Unset
                                        /\ \A i \in 1 .. k : f[i] = Turn(i, f[i - 1])}
<1>1. n \in Nat
  OBVIOUS
<1>2. Settled(settings) = read[n]
  BY DEF Settled, Unset
<1> HIDE DEF n, Turn
<1>3. 0 \in S
  <2>1. PICK f : f = [i \in 0 .. n |-> Unset]
    OBVIOUS
  <2>2. f = [i \in 0 .. n |-> f[i]] /\ f[0] = Unset /\ 1 .. 0 = {}
    BY <1>1, <2>1
  <2>3. QED BY <1>1, <2>2
<1>4. ASSUME NEW k \in 0 .. n - 1, k \in S PROVE k + 1 \in S
  <2>1. PICK f : /\ f = [i \in 0 .. n |-> f[i]] /\ f[0] = Unset
                 /\ \A i \in 1 .. k : f[i] = Turn(i, f[i - 1])
    BY <1>4
  <2>2. PICK g : g = [i \in 0 .. n |-> IF i = k + 1 THEN Turn(i, f[i - 1]) ELSE f[i]]
    OBVIOUS
  <2>3. g = [i \in 0 .. n |-> g[i]] /\ g[0] = Unset
    BY <1>1, <2>1, <2>2
  <2>4. ASSUME NEW i \in 1 .. k + 1 PROVE g[i] = Turn(i, g[i - 1])
    <3>1. i \in 0 .. n /\ i - 1 \in 0 .. n /\ i - 1 # k + 1
      BY <1>1
    <3>2. g[i - 1] = f[i - 1]
      BY <2>2, <3>1
    <3>3. g[i] = Turn(i, f[i - 1])
      <4>1. CASE i = k + 1
        BY <2>2, <3>1, <4>1
      <4>2. CASE i # k + 1
        <5>1. i \in 1 .. k
          BY <1>1, <4>2
        <5>2. QED BY <2>1, <2>2, <3>1, <4>2, <5>1
      <4>3. QED BY <4>1, <4>2
    <3>4. QED BY <3>2, <3>3
  <2>5. k + 1 \in 0 .. n
    BY <1>1
  <2>6. QED BY <2>3, <2>4, <2>5
<1> HIDE DEF S
<1>5. n \in S
  <2>1. 0 .. n \subseteq S
    BY ONLY <1>1, <1>3, <1>4, Climb
  <2>2. QED BY <1>1, <2>1
<1>6. PICK f : /\ f = [i \in 0 .. n |-> f[i]] /\ f[0] = Unset
               /\ \A i \in 1 .. n : f[i] = Turn(i, f[i - 1])
  BY <1>5 DEF S
<1>7. f = Fold(f)
  <2>1. ASSUME NEW i \in 0 .. n PROVE f[i] = IF i = 0 THEN Unset ELSE Turn(i, f[i - 1])
    <3>1. CASE i = 0
      BY <1>6, <3>1
    <3>2. CASE i # 0
      <4>1. i \in 1 .. n
        BY <1>1, <3>2
      <4>2. QED BY <1>6, <3>2, <4>1
    <3>3. QED BY <3>1, <3>2
  <2>2. QED BY <1>6, <2>1
<1>8. PICK g : g = read /\ g = Fold(g)
  BY <1>7
<1>9. g[0] = Unset /\ \A k \in 1 .. n : g[k] = Turn(k, g[k - 1])
  <2>1. \A i \in 0 .. n : g[i] = IF i = 0 THEN Unset ELSE Turn(i, g[i - 1])
    BY <1>8
  <2>2. QED BY <1>1, <2>1
<1>10. QED BY <1>2, <1>8, <1>9 DEF n, Turn

\* No option leaves what datamon was told as it begins.
LEMMA TakeNone == Settled(<<>>) = Unset
<1> DEFINE T == Nat
<1>1. PICK settings \in Seq(T) : settings = <<>>
  <2>1. <<>> \in Seq(T)
    OBVIOUS
  <2>2. QED BY <2>1
<1>2. PICK f : f[0] = Unset /\ Settled(settings) = f[Len(settings)]
  BY Takings
<1>3. Len(settings) = 0
  BY <1>1
<1>4. QED BY <1>1, <1>2, <1>3

\* One option more is taken from where the others left off.
LEMMA TakeOn ==
  ASSUME NEW T, NEW settings \in Seq(T), NEW setting \in T
  PROVE  Settled(Append(settings, setting)) = TakeOption(Settled(settings), setting)
<1> DEFINE n == Len(settings)
           Turn(k, a) == TakeOption(a, settings[k])
<1>1. PICK more \in Seq(T) : more = Append(settings, setting)
  <2>1. Append(settings, setting) \in Seq(T)
    OBVIOUS
  <2>2. QED BY <2>1
<1>2. /\ n \in Nat /\ Len(more) = n + 1 /\ more[n + 1] = setting
      /\ \A k \in 1 .. n : more[k] = settings[k]
  BY <1>1
<1>3. PICK f : /\ f[0] = Unset /\ Settled(settings) = f[n]
               /\ \A k \in 1 .. n : f[k] = Turn(k, f[k - 1])
  BY Takings
<1>4. PICK g : /\ g[0] = Unset /\ Settled(more) = g[Len(more)]
               /\ \A k \in 1 .. Len(more) : g[k] = TakeOption(g[k - 1], more[k])
  BY Takings
<1>5. /\ Settled(more) = g[n + 1]
      /\ \A k \in 1 .. n + 1 : g[k] = TakeOption(g[k - 1], more[k])
  BY <1>2, <1>4
<1>6. \A k \in 1 .. n : g[k] = Turn(k, g[k - 1])
  <2>1. \A k \in 1 .. n : k \in 1 .. n + 1
    BY <1>2
  <2>2. QED BY <1>2, <1>5, <2>1
<1>7. g[n + 1] = TakeOption(g[n], setting)
  <2>1. PICK k : k = n + 1
    OBVIOUS
  <2>2. k \in 1 .. n + 1 /\ k - 1 = n
    BY <1>2, <2>1
  <2>3. QED BY <1>2, <1>5, <2>1, <2>2
<1> DEFINE S == {k \in 0 .. n : f[k] = g[k]}
<1> HIDE DEF Turn, n
<1>8. 0 \in S
  BY <1>2, <1>3, <1>4
<1>9. ASSUME NEW k \in 0 .. n - 1, k \in S PROVE k + 1 \in S
  <2>1. PICK j : j = k + 1
    OBVIOUS
  <2>2. j \in 1 .. n /\ j - 1 = k /\ j \in 0 .. n
    BY <1>2, <2>1
  <2>3. f[j] = Turn(j, f[k]) /\ g[j] = Turn(j, g[k])
    BY <1>3, <1>6, <2>2
  <2>4. QED BY <1>9, <2>1, <2>2, <2>3
<1> HIDE DEF S
<1>10. 0 .. n \subseteq S
  BY ONLY <1>2, <1>8, <1>9, Climb
<1>11. f[n] = g[n]
  BY <1>2, <1>10 DEF S
<1>12. QED BY <1>1, <1>3, <1>5, <1>7, <1>11
\* A set of places has a first and a last one.
LEMMA Ends ==
  ASSUME NEW n \in Nat, NEW P \in SUBSET (1 .. n), P # {}
  PROVE  /\ Min(P) \in P /\ \A i \in P : Min(P) <= i
         /\ Max(P) \in P /\ \A i \in P : i <= Max(P)
<1> DEFINE S == {k \in 0 .. n : (\E i \in P : i <= k) => \E lo \in P : \A i \in P : lo <= i}
           U == {k \in 0 .. n : (\E i \in P : i >= n - k) => \E hi \in P : \A i \in P : i <= hi}
<1>1. 0 \in S
  OBVIOUS
<1>2. ASSUME NEW k \in 0 .. n - 1, k \in S PROVE k + 1 \in S
  <2>1. CASE \E i \in P : i <= k
    BY <1>2, <2>1
  <2>2. CASE ~\E i \in P : i <= k
    <3>1. \A i \in P : k + 1 <= i
      BY <2>2
    <3>2. ASSUME NEW j \in P, j <= k + 1 PROVE \E lo \in P : \A i \in P : lo <= i
      <4>1. \A i \in P : j <= i
        BY <3>1, <3>2
      <4>2. QED BY <4>1
    <3>3. QED BY <3>2
  <2>3. QED BY <2>1, <2>2
<1>3. 0 \in U
  <2>1. ASSUME NEW j \in P, j >= n - 0 PROVE \E hi \in P : \A i \in P : i <= hi
    <3>1. \A i \in P : i <= j
      BY <2>1
    <3>2. QED BY <3>1
  <2>2. QED BY <2>1
<1>4. ASSUME NEW k \in 0 .. n - 1, k \in U PROVE k + 1 \in U
  <2>1. CASE \E i \in P : i >= n - k
    BY <1>4, <2>1
  <2>2. CASE ~\E i \in P : i >= n - k
    <3>1. \A i \in P : i <= n - (k + 1)
      BY <2>2
    <3>2. ASSUME NEW j \in P, j >= n - (k + 1) PROVE \E hi \in P : \A i \in P : i <= hi
      <4>1. \A i \in P : i <= j
        BY <3>1, <3>2
      <4>2. QED BY <4>1
    <3>3. QED BY <3>2
  <2>3. QED BY <2>1, <2>2
<1> HIDE DEF S, U
<1>5. 0 .. n \subseteq S
  BY ONLY <1>1, <1>2, Climb
<1>6. 0 .. n \subseteq U
  BY ONLY <1>3, <1>4, Climb
<1>7. PICK lo \in P : \A i \in P : lo <= i
  <2>1. n \in S /\ \A i \in P : i <= n
    BY <1>5
  <2>2. QED BY <2>1 DEF S
<1>8. PICK hi \in P : \A i \in P : i <= hi
  <2>1. n \in U /\ \A i \in P : i >= n - n
    BY <1>6
  <2>2. QED BY <2>1 DEF U
<1>9. Min(P) = lo /\ Max(P) = hi
  <2>1. P \in SUBSET Int /\ \A i \in P : lo <= i /\ i <= hi
    BY <1>7, <1>8
  <2>2. QED BY <2>1, Extremes
<1>10. QED BY <1>7, <1>8, <1>9

\* What is before and behind an "=" is made of the same words.
LEMMA Halves ==
  ASSUME NEW W, NEW text \in Seq(W)
  PROVE  BeforeEqual(text) \in Seq(W) /\ AfterEqual(text) \in Seq(W)
<1> DEFINE P == Places(text, "=")
<1>1. Len(text) \in Nat /\ P \in SUBSET (1 .. Len(text)) /\ <<>> \in Seq(W)
  BY DEF Places
<1>2. CASE P = {}
  BY <1>1, <1>2 DEF BeforeEqual, AfterEqual
<1>3. CASE P # {}
  <2>1. Min(P) \in 1 .. Len(text)
    BY <1>1, <1>3, Ends
  <2>2. PICK m \in 1 .. Len(text) : m = Min(P)
    BY <2>1
  <2>3. SubSeq(text, 1, m - 1) \in Seq(W) /\ SubSeq(text, m + 1, Len(text)) \in Seq(W)
    BY <1>1
  <2>4. QED BY <1>3, <2>2, <2>3 DEF BeforeEqual, AfterEqual
<1>4. QED BY <1>2, <1>3

-----------------------------------------------------------------------------
(* What the parsers answer.                                                  *)

\* A parser of unsigned numbers answers one that fits, or none.
LEMMA NumbersRead ==
  ASSUME NEW text
  PROVE  /\ Unsigned(text) \in Nat \union {NaN}
         /\ UInt32(text) \in 0 .. MaxU32 \union {NaN}
<1>1. CASE text \notin DOMAIN Spelled \/ Spelled[text] \notin 1 - ULongs .. ULongs - 1
  <2>1. Unsigned(text) = NaN
    BY <1>1 DEF Unsigned
  <2>2. QED BY <2>1, GetoptAssumption DEF UInt32, NaN
<1>2. CASE text \in DOMAIN Spelled /\ Spelled[text] \in 1 - ULongs .. ULongs - 1
  <2>1. Unsigned(text) = Spelled[text] % ULongs
    BY <1>2 DEF Unsigned
  <2>2. ULongs \in Nat /\ ULongs > 0 /\ MaxU32 \in Nat
    BY GetoptAssumption
  <2>3. PICK n \in Int : n = Spelled[text]
    BY <1>2, <2>2
  <2>4. n % ULongs \in Nat
    BY <2>2
  <2>5. Unsigned(text) \in Nat
    BY <2>1, <2>3, <2>4
  <2>6. QED BY <2>2, <2>5 DEF UInt32, NaN
<1>3. QED BY <1>1, <1>2

-----------------------------------------------------------------------------
(* What getopt_long makes of an argument.                                    *)

Distinct(valued, flags) ==
  /\ valued \intersect flags = {}
  /\ NoOption \notin valued \union flags /\ "--" \notin valued \union flags

\* The cases of ReadArg, one by one.
LEMMA ReadStuck ==
  ASSUME NEW s, NEW text, NEW valued, NEW flags, ~s.whole
  PROVE  ReadArg(s, text, valued, flags) = s
BY DEF ReadArg

\* The value of an option.
LEMMA ReadValue ==
  ASSUME NEW s, NEW text, NEW valued, NEW flags, s.whole, s.option # NoOption
  PROVE  ReadArg(s, text, valued, flags)
           = [s EXCEPT !.settings = Append(@, <<s.option, text>>), !.option = NoOption]
BY DEF ReadArg

\* Another argument than an option.
LEMMA ReadRest ==
  ASSUME NEW s, NEW text, NEW valued, NEW flags, s.whole, s.option = NoOption,
         s.ended \/ ~Dashed(text, valued \union flags)
  PROVE  ReadArg(s, text, valued, flags) = [s EXCEPT !.rest = Append(@, text)]
BY DEF ReadArg

\* An option, or what looks like one.
LEMMA ReadDashed ==
  ASSUME NEW s, NEW text, NEW valued, NEW flags, s.whole, s.option = NoOption,
         ~s.ended, Dashed(text, valued \union flags), Distinct(valued, flags)
  PROVE  ReadArg(s, text, valued, flags) =
           IF text = <<"--">> THEN [s EXCEPT !.ended = TRUE]
           ELSE IF text[1] \in valued THEN [s EXCEPT !.option = text[1]]
           ELSE IF text[1] \in flags THEN [s EXCEPT !.settings = Append(@, <<text[1], <<>>>>)]
           ELSE [s EXCEPT !.whole = FALSE]
<1> DEFINE next == ReadArg(s, text, valued, flags)
<1>1. next = CASE text = <<"--">>     -> [s EXCEPT !.ended = TRUE]
               [] text[1] \in valued  -> [s EXCEPT !.option = text[1]]
               [] text[1] \in flags   -> [s EXCEPT !.settings = Append(@, <<text[1], <<>>>>)]
               [] OTHER -> [s EXCEPT !.whole = FALSE]
  BY DEF ReadArg
<1>2. text = <<"--">> => text[1] = "--"
  OBVIOUS
<1> HIDE DEF next
<1>3. \A x : x \in valued => x \notin flags /\ x # "--"
  BY DEF Distinct
<1>4. \A x : x \in flags => x # "--"
  BY DEF Distinct
<1>5. QED BY <1>1, <1>2, <1>3, <1>4 DEF next

Reading(T, valued, flags) ==
  [settings : Seq((valued \union flags) \X (T \union {<<>>})), whole : BOOLEAN,
   option : valued \union {NoOption}, ended : BOOLEAN, rest : Seq(T)]

\* What is read of texts are options that exist, with texts as values.
LEMMA ReadType ==
  ASSUME NEW T, NEW valued, NEW flags, Distinct(valued, flags), NEW list \in Seq(T)
  PROVE  ReadArgs(list, valued, flags) \in Reading(T, valued, flags)
<1> DEFINE R == Reading(T, valued, flags)
           P == {seq \in Seq(T) : ReadArgs(seq, valued, flags) \in R}
<1>0. Distinct(valued, flags)
  OBVIOUS
<1>1. Fresh \in R
  BY DEF Fresh, Reading
<1>2. ASSUME NEW s \in R, NEW text \in T PROVE ReadArg(s, text, valued, flags) \in R
  <2> DEFINE next == ReadArg(s, text, valued, flags)
  <2>1. /\ s.settings \in Seq((valued \union flags) \X (T \union {<<>>})) /\ s.whole \in BOOLEAN
        /\ s.option \in valued \union {NoOption} /\ s.ended \in BOOLEAN /\ s.rest \in Seq(T)
    BY DEF Reading
  <2>2. CASE s.whole /\ s.option # NoOption
    <3>1. <<s.option, text>> \in (valued \union flags) \X (T \union {<<>>})
      BY <2>1, <2>2
    <3>2. Append(s.settings, <<s.option, text>>) \in Seq((valued \union flags) \X (T \union {<<>>}))
      BY <2>1, <3>1
    <3>3. next = [s EXCEPT !.settings = Append(@, <<s.option, text>>), !.option = NoOption]
      BY <2>2 DEF ReadArg
    <3>4. QED BY <3>2, <3>3 DEF Reading
  <2>3. CASE s.whole /\ s.option = NoOption /\ (s.ended \/ ~Dashed(text, valued \union flags))
    <3>1. next = [s EXCEPT !.rest = Append(@, text)]
      BY <2>3, ReadRest
    <3>2. Append(s.rest, text) \in Seq(T)
      BY <2>1
    <3>3. QED BY <3>1, <3>2 DEF Reading
  <2>4. CASE s.whole /\ s.option = NoOption /\ ~(s.ended \/ ~Dashed(text, valued \union flags))
    <3>1. CASE text = <<"--">>
      <4>1. next = [s EXCEPT !.ended = TRUE]
        BY <2>4, <3>1, ReadDashed
      <4>2. QED BY <4>1 DEF Reading
    <3>2. CASE text # <<"--">> /\ text[1] \in valued
      <4>1. next = [s EXCEPT !.option = text[1]]
        BY <2>4, <3>2, ReadDashed
      <4>2. QED BY <3>2, <4>1 DEF Reading
    <3>3. CASE text # <<"--">> /\ text[1] \in flags
      <4>2. PICK o : o = text[1]
        OBVIOUS
      <4>1. next = [s EXCEPT !.settings = Append(@, <<o, <<>>>>)]
        <5>1. o \notin valued
          BY <3>3, <4>2 DEF Distinct
        <5>2. QED BY <2>4, <3>3, <4>2, <5>1, ReadDashed
      <4>3. <<o, <<>>>> \in (valued \union flags) \X (T \union {<<>>})
        BY <3>3, <4>2
      <4>4. Append(s.settings, <<o, <<>>>>) \in Seq((valued \union flags) \X (T \union {<<>>}))
        BY <2>1, <4>3
      <4>5. QED BY <4>1, <4>2, <4>4 DEF Reading
    <3>4. CASE text # <<"--">> /\ text[1] \notin valued \union flags
      <4>1. next = [s EXCEPT !.whole = FALSE]
        BY <2>4, <3>4, ReadDashed
      <4>2. QED BY <4>1 DEF Reading
    <3>5. QED BY <3>1, <3>2, <3>3, <3>4
  <2>5. CASE ~s.whole
    BY <2>5, ReadStuck
  <2>6. QED BY <2>2, <2>3, <2>4, <2>5
<1>3. <<>> \in P
  <2>1. ReadArgs(<<>>, valued, flags) = Fresh
    BY ReadNone
  <2>2. QED BY <1>1, <2>1
<1>4. ASSUME NEW seq \in Seq(T), NEW e \in T, seq \in P PROVE Append(seq, e) \in P
  <2>1. ReadArgs(Append(seq, e), valued, flags) = ReadArg(ReadArgs(seq, valued, flags), e, valued, flags)
    BY ReadOn
  <2>2. ReadArgs(Append(seq, e), valued, flags) \in R
    BY <1>2, <1>4, <2>1
  <2>3. QED BY <2>2
<1> HIDE DEF P
<1>5. Seq(T) \subseteq P
  BY ONLY <1>3, <1>4, Grow
<1>6. QED BY <1>5 DEF P

\* A number that is written is read as itself, or as none if datamon has none such.
LEMMA NumeralReads ==
  ASSUME NEW n \in Ints, n > MaxU32 - ULongs
  PROVE  UInt32(Numeral(n)) = IF n \in 0 .. MaxU32 THEN n ELSE NaN
<1>1. n \in Int /\ MaxU32 \in Nat /\ ULongs \in Nat /\ ULongs > MaxU32
  BY GetoptAssumption
<1>2. PICK text : text = Numeral(n)
  OBVIOUS
<1>3. text \in DOMAIN Spelled /\ Spelled[text] = n
  <2>1. text \in {Numeral(m) : m \in Ints}
    BY <1>2
  <2>2. \A m \in Ints : Numeral(m) = text => m = n
    BY <1>2, NumeralAssumption DEF Numeral
  <2>3. (CHOOSE m \in Ints : Numeral(m) = text) = n
    BY <1>2, <2>2
  <2>4. QED BY <2>1, <2>3 DEF Spelled
<1>4. PICK m : m = Unsigned(text)
  OBVIOUS
<1>5. UInt32(text) = IF m > MaxU32 THEN NaN ELSE m
  BY <1>4 DEF UInt32
<1>6. CASE n \notin 1 - ULongs .. ULongs - 1
  <2>1. m = NaN
    BY <1>3, <1>4, <1>6 DEF Unsigned
  <2>2. n \notin 0 .. MaxU32
    BY <1>1, <1>6
  <2>3. QED BY <1>1, <1>2, <1>5, <2>1, <2>2 DEF NaN
<1>7. CASE n \in 0 .. ULongs - 1
  <2>1. n \in 1 - ULongs .. ULongs - 1
    BY <1>1, <1>7
  <2>2. m = n % ULongs
    BY <1>3, <1>4, <2>1 DEF Unsigned
  <2>3. n % ULongs = n
    BY <1>1, <1>7
  <2>4. QED BY <1>1, <1>2, <1>5, <1>7, <2>2, <2>3 DEF NaN
<1>8. CASE n \in 1 - ULongs .. -1
  <2>1. n \in 1 - ULongs .. ULongs - 1
    BY <1>1, <1>8
  <2>2. m = n % ULongs
    BY <1>3, <1>4, <2>1 DEF Unsigned
  <2>3. n % ULongs = n + ULongs
    <3>1. n + ULongs \in 0 .. ULongs - 1 /\ ULongs > 0
      BY <1>1, <1>8
    <3>2. \A a \in 0 .. ULongs - 1 : (a - ULongs) % ULongs = a
      BY <1>1
    <3>3. (n + ULongs) - ULongs = n
      BY <1>1
    <3>4. QED BY <3>1, <3>2, <3>3
  <2>4. m > MaxU32 /\ n \notin 0 .. MaxU32
    BY <1>1, <1>8, <2>2, <2>3
  <2>5. QED BY <1>2, <1>5, <2>4
<1>9. QED BY <1>1, <1>6, <1>7, <1>8

\* Regrouping.
LEMMA Joins ==
  ASSUME NEW X, NEW a \in Seq(X), NEW b \in Seq(X), NEW c \in Seq(X)
  PROVE  a \o (b \o c) = (a \o b) \o c
OBVIOUS

-----------------------------------------------------------------------------
(* What datamon makes of an option.                                          *)

\* No option of datamon is another one, or no option at all.
LEMMA MonitorOptionsDistinct == Distinct(Valued, Flags)
BY DEF Distinct, Valued, Flags, Number64, Number32, Paths, Switches, NoOption

\* The cases of TakeOption, one by one.  Once refused, always refused.
LEMMA TakeDone ==
  ASSUME NEW s, NEW setting, s.outcome # "ok"
  PROVE  TakeOption(s, setting) = s
BY DEF TakeOption

\* A path, or a name.
LEMMA TakePath ==
  ASSUME NEW s, NEW text, NEW o \in Paths, s.outcome = "ok"
  PROVE  TakeOption(s, <<o, text>>) = [s EXCEPT !.options.path[o] = text]
BY DEF TakeOption, Paths, Switches

\* An analysis.
LEMMA TakeAnalysis ==
  ASSUME NEW s, NEW text, s.outcome = "ok"
  PROVE  TakeOption(s, <<"--analysis", text>>) = [s EXCEPT !.options.analyses = Append(@, text)]
BY DEF TakeOption, Paths, Switches

\* A switch.
LEMMA TakeSwitch ==
  ASSUME NEW s, NEW text, NEW o \in Switches, s.outcome = "ok"
  PROVE  TakeOption(s, <<o, text>>) = [s EXCEPT !.options.on = @ \union {o}]
BY DEF TakeOption, Paths, Switches

\* A call for help.
LEMMA TakeHelp ==
  ASSUME NEW s, NEW text, NEW o \in {"--help", "-h"}, s.outcome = "ok"
  PROVE  TakeOption(s, <<o, text>>) = [s EXCEPT !.outcome = "exit"]
BY DEF TakeOption, Paths, Switches

\* A number.
LEMMA TakeNumber ==
  ASSUME NEW s, NEW text, NEW o \in Number64 \union Number32, s.outcome = "ok",
         NEW n, n = IF o \in Number64 THEN Unsigned(text) ELSE UInt32(text)
  PROVE  TakeOption(s, <<o, text>>)
           = IF n = NaN \/ (o \in Positive /\ n = 0) THEN [s EXCEPT !.outcome = "refused"]
             ELSE [s EXCEPT !.options.number[o] = n]
<1>1. o \notin Paths \union Switches \union {"--analysis", "--help", "-h"}
  BY DEF Number64, Number32, Paths, Switches
<1>2. QED BY <1>1 DEF TakeOption

\* Numbers that datamon takes for its options.
GoodIntervals ==
  {number \in [Number64 \union Number32 -> Nat] : \A o \in Positive : number[o] >= 1}

Settling(T) ==
  [outcome : {"ok", "refused", "exit"},
   options : [number : GoodIntervals, on : SUBSET Switches, analyses : Seq(T), input_file : T \union {<<>>},
              path : [Paths -> T \union {<<>>, <<"kc705_tof">>}]]]

\* One option keeps what datamon was told one of texts and of numbers that fit.
LEMMA TakeType ==
  ASSUME NEW T, <<>> \in T, NEW s \in Settling(T), NEW o \in Valued \union Flags, NEW text \in T
  PROVE  TakeOption(s, <<o, text>>) \in Settling(T)
<1> DEFINE next == TakeOption(s, <<o, text>>)
<1>1. CASE s.outcome # "ok"
  BY <1>1, TakeDone
<1>2. /\ s.options.number \in GoodIntervals /\ s.options.on \in SUBSET Switches
      /\ s.options.analyses \in Seq(T) /\ s.options.input_file \in T \union {<<>>}
      /\ s.options.path \in [Paths -> T \union {<<>>, <<"kc705_tof">>}]
  BY DEF Settling
<1>3. CASE s.outcome = "ok" /\ o \in Paths
  <2>1. next = [s EXCEPT !.options.path[o] = text]
    BY <1>3, TakePath
  <2>2. [s.options.path EXCEPT ![o] = text] \in [Paths -> T \union {<<>>, <<"kc705_tof">>}]
    BY <1>2, <1>3
  <2>3. QED BY <2>1, <2>2 DEF Settling
<1>4. CASE s.outcome = "ok" /\ o = "--analysis"
  <2>1. next = [s EXCEPT !.options.analyses = Append(@, text)]
    BY <1>4, TakeAnalysis
  <2>2. Append(s.options.analyses, text) \in Seq(T)
    BY <1>2
  <2>3. QED BY <2>1, <2>2 DEF Settling
<1>5. CASE s.outcome = "ok" /\ o \in Switches
  <2>1. next = [s EXCEPT !.options.on = @ \union {o}]
    BY <1>5, TakeSwitch
  <2>2. s.options.on \union {o} \in SUBSET Switches
    BY <1>2, <1>5
  <2>3. QED BY <2>1, <2>2 DEF Settling
<1>6. CASE s.outcome = "ok" /\ o \in {"--help", "-h"}
  <2>1. next = [s EXCEPT !.outcome = "exit"]
    BY <1>6, TakeHelp
  <2>2. QED BY <2>1 DEF Settling
<1>7. CASE s.outcome = "ok" /\ o \in Number64 \union Number32
  <2>1. PICK n : n = IF o \in Number64 THEN Unsigned(text) ELSE UInt32(text)
    OBVIOUS
  <2>2. n \in Nat \union {NaN}
    BY <2>1, NumbersRead, GetoptAssumption
  <2>3. next = IF n = NaN \/ (o \in Positive /\ n = 0) THEN [s EXCEPT !.outcome = "refused"]
               ELSE [s EXCEPT !.options.number[o] = n]
    <3>1. o \in Number64 \union Number32 /\ s.outcome = "ok"
      BY <1>7
    <3>2. QED BY ONLY <2>1, <3>1, TakeNumber
  <2>4. [s EXCEPT !.outcome = "refused"] \in Settling(T)
    BY DEF Settling
  <2>5. CASE n # NaN /\ ~(o \in Positive /\ n = 0)
    <3>1. s.options.number \in [Number64 \union Number32 -> Nat] /\ \A p \in Positive : s.options.number[p] >= 1
      BY <1>2 DEF GoodIntervals
    <3>2. n \in Nat /\ (o \in Positive => n >= 1)
      BY <2>2, <2>5
    <3>3. Positive \subseteq Number64 \union Number32
      BY DEF Positive, Number64, Number32
    <3>4. [s.options.number EXCEPT ![o] = n] \in GoodIntervals
      BY <1>7, <3>1, <3>2, <3>3 DEF GoodIntervals
    <3>5. next = [s EXCEPT !.options.number[o] = n]
      BY <2>3, <2>5
    <3>6. QED BY <3>4, <3>5 DEF Settling
  <2>6. QED BY <2>3, <2>4, <2>5
<1>8. s.outcome \in {"ok", "refused", "exit"}
  BY DEF Settling
<1>9. o \in Paths \union {"--analysis"} \union Switches \union {"--help", "-h"} \union (Number64 \union Number32)
  BY DEF Valued, Flags
<1>10. QED BY <1>1, <1>3, <1>4, <1>5, <1>6, <1>7, <1>9

\* So do all of them.
LEMMA TakesType ==
  ASSUME NEW T, <<>> \in T, NEW settings \in Seq((Valued \union Flags) \X T)
  PROVE  Settled(settings) \in Settling(T)
<1> DEFINE X == (Valued \union Flags) \X T
           P == {seq \in Seq(X) : Settled(seq) \in Settling(T)}
<1>1. Unset \in Settling(T)
  <2>1. DefaultNumber \in GoodIntervals
    <3>1. ASSUME NEW o \in Number64 \union Number32
          PROVE  DefaultNumber[o] \in Nat /\ (o \in Positive => DefaultNumber[o] >= 1)
      BY DEF DefaultNumber, Number64, Number32, Positive
    <3>2. DefaultNumber = [o \in Number64 \union Number32 |-> DefaultNumber[o]]
      BY DEF DefaultNumber
    <3>3. Positive \subseteq Number64 \union Number32
      BY DEF Positive, Number64, Number32
    <3>4. QED BY <3>1, <3>2, <3>3 DEF GoodIntervals
  <2>2. [o \in Paths |-> IF o = "--decoder" THEN <<"kc705_tof">> ELSE <<>>]
          \in [Paths -> T \union {<<>>, <<"kc705_tof">>}]
    OBVIOUS
  <2>3. {} \in SUBSET Switches /\ <<>> \in Seq(T)
    OBVIOUS
  <2>4. QED BY <2>1, <2>2, <2>3 DEF Unset, DefaultOptions, Settling
<1>2. <<>> \in P
  <2>1. Settled(<<>>) \in Settling(T)
    BY <1>1, TakeNone
  <2>2. <<>> \in Seq(X)
    OBVIOUS
  <2>3. QED BY <2>1, <2>2
<1>3. ASSUME NEW seq \in Seq(X), NEW e \in X, seq \in P PROVE Append(seq, e) \in P
  <2>1. PICK o \in Valued \union Flags, text \in T : e = <<o, text>>
    OBVIOUS
  <2>2. Settled(Append(seq, e)) = TakeOption(Settled(seq), e)
    BY TakeOn
  <2>3. TakeOption(Settled(seq), e) \in Settling(T)
    BY <1>3, <2>1, TakeType
  <2>4. Append(seq, e) \in Seq(X)
    OBVIOUS
  <2>5. QED BY <2>2, <2>3, <2>4
<1> HIDE DEF P, X
<1>4. Seq(X) \subseteq P
  BY ONLY <1>2, <1>3, Grow
<1>5. QED BY <1>4 DEF P, X

-----------------------------------------------------------------------------
(* The pipeline.                                                             *)

\* What is in a part is in the whole.
LEMMA InWhole ==
  ASSUME NEW X, NEW u \in Seq(X), NEW v \in Seq(X), NEW x, x \in Range(u) \/ x \in Range(v)
  PROVE  u \o v \in Seq(X) /\ x \in Range(u \o v)
<1>1. CASE x \in Range(u)
  <2>1. PICK i \in DOMAIN u : u[i] = x
    BY <1>1 DEF Range
  <2>2. i \in DOMAIN (u \o v) /\ (u \o v)[i] = u[i]
    BY <2>1
  <2>3. QED BY <2>1, <2>2 DEF Range
<1>2. CASE x \in Range(v)
  <2>1. PICK i \in DOMAIN v : v[i] = x
    BY <1>2 DEF Range
  <2>2. PICK j : j = Len(u) + i
    OBVIOUS
  <2>3. j \in DOMAIN (u \o v) /\ (u \o v)[j] = v[i]
    BY <2>1, <2>2
  <2>4. QED BY <2>1, <2>3 DEF Range
<1>3. QED BY <1>1, <1>2

\* The sinks that two of the switches stand for.
LEMMA SinksAre ==
  ASSUME NEW o
  PROVE  /\ "--text-stream" \in o.on => "text" \in Range(Sinks(o))
         /\ "--no-console" \notin o.on => "console" \in Range(Sinks(o))
<1> DEFINE X == {"console", "text", "root", "analyses"}
<1>1. PICK a \in Seq(X) : a = IF "--no-console" \in o.on THEN <<>> ELSE <<"console">>
  <2>1. <<>> \in Seq(X) /\ <<"console">> \in Seq(X)
    OBVIOUS
  <2>2. QED BY <2>1
<1>2. PICK b \in Seq(X) : b = IF "--text-stream" \in o.on THEN <<"text">> ELSE <<>>
  <2>1. <<>> \in Seq(X) /\ <<"text">> \in Seq(X)
    OBVIOUS
  <2>2. QED BY <2>1
<1>3. PICK c \in Seq(X) : c = IF o.path["--root-out"] # <<>> THEN <<"root">> ELSE <<>>
  <2>1. <<>> \in Seq(X) /\ <<"root">> \in Seq(X)
    OBVIOUS
  <2>2. QED BY <2>1
<1>4. PICK d \in Seq(X) : d = IF o.analyses # <<>> THEN <<"analyses">> ELSE <<>>
  <2>1. <<>> \in Seq(X) /\ <<"analyses">> \in Seq(X)
    OBVIOUS
  <2>2. QED BY <2>1
<1>5. Sinks(o) = ((a \o b) \o c) \o d
  BY <1>1, <1>2, <1>3, <1>4 DEF Sinks
<1> HIDE DEF X
<1>6. ASSUME NEW x, x \in Range(a) \/ x \in Range(b) PROVE x \in Range(Sinks(o))
  <2>1. a \o b \in Seq(X) /\ x \in Range(a \o b)
    BY <1>6, InWhole
  <2>2. (a \o b) \o c \in Seq(X) /\ x \in Range((a \o b) \o c)
    BY <2>1, InWhole
  <2>3. x \in Range(((a \o b) \o c) \o d)
    BY <2>2, InWhole
  <2>4. QED BY <1>5, <2>3
<1>7. ASSUME NEW x PROVE x \in Range(<<x>>)
  <2>1. 1 \in DOMAIN <<x>> /\ <<x>>[1] = x
    OBVIOUS
  <2>2. QED BY <2>1 DEF Range
<1>8. QED BY <1>1, <1>2, <1>6, <1>7

\* The first analysis of a name is the one that is found.
LEMMA FirstFound ==
  ASSUME NEW name, NEW j \in DOMAIN Analyses, Analyses[j].name = name,
         \A k \in 1 .. j - 1 : Analyses[k].name # name
  PROVE  FindIn(Analyses, name) = Analyses[j]
<1>1. DOMAIN Analyses = 1 .. Len(Analyses) /\ Len(Analyses) \in Nat
  BY OptionsAssumption
<1>2. j \in Registered(Analyses)
  BY DEF Registered
<1>3. ASSUME NEW i \in Registered(Analyses), Analyses[i].name = name PROVE i = j
  <2>1. i \in DOMAIN Analyses /\ \A k \in 1 .. i - 1 : Analyses[k].name # name
    BY <1>3 DEF Registered
  <2>2. ~(i < j) /\ ~(j < i)
    BY <1>1, <1>3, <2>1
  <2>3. QED BY <1>1, <2>1, <2>2
<1>4. (CHOOSE i \in Registered(Analyses) : Analyses[i].name = name) = j
  BY <1>2, <1>3
<1>5. QED BY <1>4 DEF FindIn

\* An analysis that fits reads what the decoder hands it, and keeps a trend.
LEMMA FitsWell ==
  ASSUME NEW root \in BOOLEAN, NEW o, NEW text, AnalysisFits(root, o, text)
  PROVE  /\ \A j \in DOMAIN Analyses :
              Analyses[j].name = BeforeEqual(text)
              /\ (\A k \in 1 .. j - 1 : Analyses[k].name # Analyses[j].name)
                => Analyses[j].expects \in {<<>>, BeforeEqual(o.path["--decoder"])}
         /\ TrendPoints(AfterEqual(text)) >= 1
<1>1. /\ BeforeEqual(text) \in Names(Analysis(root))
      /\ FindIn(Analysis(root), BeforeEqual(text)).expects \in {<<>>, BeforeEqual(o.path["--decoder"])}
      /\ TrendPoints(AfterEqual(text)) # NaN
  BY DEF AnalysisFits
<1>2. Analysis(root) = Analyses
  <2>1. Names(<<>>) = {}
    BY DEF Names, Registered
  <2>2. QED BY <1>1, <2>1 DEF Analysis
<1>3. ASSUME NEW j \in DOMAIN Analyses, Analyses[j].name = BeforeEqual(text),
             \A k \in 1 .. j - 1 : Analyses[k].name # Analyses[j].name
      PROVE  Analyses[j].expects \in {<<>>, BeforeEqual(o.path["--decoder"])}
  <2>1. FindIn(Analyses, BeforeEqual(text)) = Analyses[j]
    BY <1>3, FirstFound
  <2>2. QED BY <1>1, <1>2, <2>1
<1>4. TrendPoints(AfterEqual(text)) >= 1
  BY <1>1 DEF TrendPoints
<1>5. QED BY <1>3, <1>4

\* The sources, one by one.
LEMMA Sources ==
  ASSUME NEW o, NEW input, NEW live, NEW data,
         input = o.input_file, live = o.path["--live-output-dir"], data = o.path["--data-endpoint"]
  PROVE  Given(o) = (IF input = <<>> THEN {} ELSE {<<"file", input>>})
                    \union (IF live = <<>> THEN {} ELSE {<<"live", live>>})
                    \union (IF data = <<>> THEN {} ELSE {<<"data", data>>})
<1>1. Given(o) = {x \in {<<"file", input>>, <<"live", live>>, <<"data", data>>} : x[2] # <<>>}
  BY DEF Given
<1>2. PICK x, y, z : x = <<"file", input>> /\ y = <<"live", live>> /\ z = <<"data", data>>
  OBVIOUS
<1>3. x[2] = input /\ y[2] = live /\ z[2] = data
  BY <1>2
<1>4. Given(o) = {e \in {x, y, z} : e[2] # <<>>}
  BY <1>1, <1>2
<1>5. \A e : e \in Given(o) <=> (e = x /\ input # <<>>) \/ (e = y /\ live # <<>>) \/ (e = z /\ data # <<>>)
  BY ONLY <1>3, <1>4
<1>6. QED BY ONLY <1>2, <1>5

\* A pipeline has one source: one at most was named, and the daemon's endpoint is
\* taken if none was.
LEMMA OneSource ==
  ASSUME NEW T, NEW s \in Settling(T), ~Senseless(s.options)
  PROVE  LET o == WithSource(s.options)
         IN /\ \E source \in Given(o) : Given(o) = {source}
            /\ o.path["--text-output"] = s.options.path["--text-output"]
            /\ o.on = s.options.on /\ o.number = s.options.number /\ o.analyses = s.options.analyses
<1>1. PICK o : o = s.options
  OBVIOUS
<1>2. PICK p : p = WithSource(o)
  OBVIOUS
<1>3. \A a, b \in Given(o) : a = b
  BY <1>1 DEF Senseless
<1>4. /\ o = [number |-> o.number, on |-> o.on, analyses |-> o.analyses, input_file |-> o.input_file,
              path |-> o.path]
      /\ o.path \in [Paths -> T \union {<<>>, <<"kc705_tof">>}]
  BY <1>1 DEF Settling
<1>5. CASE Given(o) # {}
  <2>1. p = o
    BY <1>2, <1>5 DEF WithSource
  <2>2. \E source \in Given(o) : Given(o) = {source}
    BY <1>3, <1>5
  <2>3. QED BY <1>1, <1>2, <2>1, <2>2
<1>6. CASE Given(o) = {}
  <2>1. p = [o EXCEPT !.path["--data-endpoint"] = <<"default">>]
    BY <1>2, <1>6 DEF WithSource
  <2>2. /\ p.path["--data-endpoint"] = <<"default">> /\ p.input_file = o.input_file
        /\ p.path["--live-output-dir"] = o.path["--live-output-dir"]
        /\ p.path["--text-output"] = o.path["--text-output"]
        /\ p.on = o.on /\ p.number = o.number /\ p.analyses = o.analyses
    BY <1>4, <2>1 DEF Paths
  <2>3. o.input_file = <<>> /\ o.path["--live-output-dir"] = <<>>
    <3>1. PICK input, live, data :
            input = o.input_file /\ live = o.path["--live-output-dir"] /\ data = o.path["--data-endpoint"]
      OBVIOUS
    <3>2. Given(o) = (IF input = <<>> THEN {} ELSE {<<"file", input>>})
                      \union (IF live = <<>> THEN {} ELSE {<<"live", live>>})
                      \union (IF data = <<>> THEN {} ELSE {<<"data", data>>})
      BY ONLY <3>1, Sources
    <3>3. input = <<>> /\ live = <<>>
      BY ONLY <1>6, <3>2
    <3>4. QED BY <3>1, <3>3
  <2>4. <<"default">> # <<>>
    OBVIOUS
  <2>5. Given(p) = {<<"data", <<"default">>>>}
    <3>1. PICK input, live, data :
            input = p.input_file /\ live = p.path["--live-output-dir"] /\ data = p.path["--data-endpoint"]
      OBVIOUS
    <3>2. Given(p) = (IF input = <<>> THEN {} ELSE {<<"file", input>>})
                      \union (IF live = <<>> THEN {} ELSE {<<"live", live>>})
                      \union (IF data = <<>> THEN {} ELSE {<<"data", data>>})
      BY ONLY <3>1, Sources
    <3>3. input = <<>> /\ live = <<>> /\ data = <<"default">>
      BY <2>2, <2>3, <3>1
    <3>4. QED BY <2>4, <3>2, <3>3
  <2>6. QED BY <1>1, <1>2, <2>2, <2>5
<1>7. QED BY <1>5, <1>6

\* What options are taken is a pipeline that works.
LEMMA BuiltWorks ==
  ASSUME NEW root \in BOOLEAN, NEW T, NEW s \in Settling(T), NEW scan
  PROVE  Works(Built(root, Judged(s, scan)))
<1>1. PICK j : j = Judged(s, scan)
  OBVIOUS
<1>2. PICK run : run = Built(root, j)
  OBVIOUS
<1>3. SUFFICES ASSUME run.outcome = "ok" PROVE Works(run)
  BY <1>1, <1>2 DEF Works
<1>4. j = [outcome |-> IF s.outcome = "ok" /\ (Misread(scan) \/ Senseless(s.options)) THEN "refused" ELSE s.outcome,
           options |-> WithSource(s.options)]
  BY <1>1 DEF Judged
<1>5. run = j /\ j.outcome = "ok" /\ "--list-modules" \notin j.options.on /\ Fits(root, j.options)
  <2>1. CASE j.outcome # "ok"
    BY <1>2, <1>3, <2>1 DEF Built
  <2>2. CASE j.outcome = "ok" /\ "--list-modules" \in j.options.on
    <3>1. run = [j EXCEPT !.outcome = "listed"]
      BY <1>2, <2>2 DEF Built
    <3>2. QED BY <1>3, <1>4, <3>1
  <2>3. CASE j.outcome = "ok" /\ "--list-modules" \notin j.options.on /\ ~Fits(root, j.options)
    <3>1. run = [j EXCEPT !.outcome = "refused"]
      BY <1>2, <2>3 DEF Built
    <3>2. QED BY <1>3, <1>4, <3>1
  <2>4. CASE j.outcome = "ok" /\ "--list-modules" \notin j.options.on /\ Fits(root, j.options)
    BY <1>2, <2>4 DEF Built
  <2>5. QED BY <2>1, <2>2, <2>3, <2>4
<1>6. s.outcome = "ok" /\ ~Senseless(s.options)
  BY <1>4, <1>5
<1>7. PICK o : o = j.options
  OBVIOUS
<1>8. o = WithSource(s.options)
  BY <1>4, <1>7
<1>9. /\ \E source \in Given(o) : Given(o) = {source}
      /\ o.path["--text-output"] = s.options.path["--text-output"]
      /\ o.on = s.options.on /\ o.number = s.options.number /\ o.analyses = s.options.analyses
  BY <1>6, <1>8, OneSource
<1>10. Sinks(o) # <<>> /\ \A i \in DOMAIN o.analyses : AnalysisFits(root, o, o.analyses[i])
  BY <1>5, <1>7 DEF Fits
<1>11. o.path["--text-output"] # <<>> => "text" \in Range(Sinks(o))
  <2>1. ~Useless(s.options)
    BY <1>5, <1>6, <1>7, <1>9 DEF Senseless
  <2>2. o.path["--text-output"] # <<>> => "--text-stream" \in o.on
    BY <1>9, <2>1 DEF Useless
  <2>3. QED BY <2>2, SinksAre
<1>12. \A option \in Positive : o.number[option] >= 1
  BY <1>9 DEF Settling, GoodIntervals
<1>13. ASSUME NEW i \in DOMAIN o.analyses
       PROVE  /\ \A k \in DOMAIN Analyses :
                   Analyses[k].name = BeforeEqual(o.analyses[i])
                   /\ (\A m \in 1 .. k - 1 : Analyses[m].name # Analyses[k].name)
                     => Analyses[k].expects \in {<<>>, BeforeEqual(o.path["--decoder"])}
              /\ TrendPoints(AfterEqual(o.analyses[i])) >= 1
  BY <1>10, FitsWell
<1>14. run.options = o
  BY <1>5, <1>7
<1>15. QED BY <1>9, <1>10, <1>11, <1>12, <1>13, <1>14 DEF Works

\* A pipeline that datamon builds has one source and a sink, text goes somewhere
\* only if there is text, no interval is 0, and every analysis can read what the
\* decoder hands it and keeps a trend, whatever texts it is called with, how many of
\* them, and whatever is registered (datamon.cpp:298 to 331 and 455 to 496).
THEOREM EveryPipelineWorks ==
  ASSUME NEW root \in BOOLEAN, NEW T, NEW list \in Seq(T)
  PROVE  Works(Datamon(root, list))
<1> DEFINE U == T \union {<<>>}
           scan == Scan(list, Valued, Flags)
<1>1. list \in Seq(U)
  OBVIOUS
<1>2. ReadArgs(list, Valued, Flags) \in Reading(U, Valued, Flags)
  BY <1>1, MonitorOptionsDistinct, ReadType
<1>3. scan.settings \in Seq((Valued \union Flags) \X U) /\ scan.rest \in Seq(U)
  <2>1. U \union {<<>>} = U
    OBVIOUS
  <2>2. QED BY <1>2, <2>1 DEF Reading, Scan
<1> HIDE DEF scan
<1>4. <<>> \in U
  OBVIOUS
<1> HIDE DEF U
<1>5. Settled(scan.settings) \in Settling(U)
  BY <1>3, <1>4, TakesType
<1>6. PICK input \in U : input = IF scan.rest = <<>> THEN <<>> ELSE Last(scan.rest)
  <2>1. scan.rest # <<>> => Last(scan.rest) \in U
    BY <1>3 DEF Last
  <2>2. QED BY <1>4, <2>1
<1>7. PICK s : s = [outcome |-> Settled(scan.settings).outcome,
                    options |-> WithFile(Settled(scan.settings).options, scan.rest)]
  OBVIOUS
<1>8. s \in Settling(U)
  <2>1. WithFile(Settled(scan.settings).options, scan.rest)
          = [Settled(scan.settings).options EXCEPT !.input_file = input]
    BY <1>6 DEF WithFile
  <2>2. QED BY <1>5, <1>6, <1>7, <2>1 DEF Settling
<1>9. Datamon(root, list) = Built(root, Judged(s, scan))
  BY <1>7 DEF Datamon, ParseArgs, Parsed, scan
<1>10. QED BY <1>8, <1>9, BuiltWorks

-----------------------------------------------------------------------------
(* The command lines that TLC tries.                                         *)

\* A command line that TLC tries is an option and its value, or an option alone.
LEMMA SettingParts ==
  \A x \in Settings : (\E a, b : x = <<a, b>>) \/ (\E a : x = <<a>>)
<1> DEFINE Numbers  == {<<<<o>>, Numeral(n)>> : o \in {"--print-every", "--poll-ms"}, n \in Intervals}
           Named    == {<<<<o>>, text>> :
                          o \in {"--live-output-dir", "--data-endpoint", "--text-output", "--root-out"},
                          text \in {<<>>, <<"text">>}}
           Decoding == {<<<<"--decoder">>, d>> : d \in AllNames \union {Decoders[1] \o <<"=", "1">>}}
           Analysed == {<<<<"--analysis">>, Analyses[1].name \o <<"=">> \o spec>> :
                          spec \in {<<>>, <<"trend_points">>, <<"trend_points", "=", "0">>,
                                    <<"trend_points", "=", "0", ",", "trend_points", "=", "1">>,
                                    <<"other", "=", "1">>, <<",">>}}
           Single   == {<<<<word>>>> :
                          word \in {"--text-stream", "--no-console", "--list-modules", "-h", "--", "text"}}
<1>1. Settings = Numbers \union Named \union Decoding \union Analysed \union Single
  BY DEF Settings
<1>2. \A x \in Numbers : \E a, b : x = <<a, b>>
  OBVIOUS
<1>3. \A x \in Named : \E a, b : x = <<a, b>>
  OBVIOUS
<1>4. \A x \in Decoding : \E a, b : x = <<a, b>>
  OBVIOUS
<1>5. \A x \in Analysed : \E a, b : x = <<a, b>>
  OBVIOUS
<1>6. \A x \in Single : \E a : x = <<a>>
  OBVIOUS
<1> HIDE DEF Numbers, Named, Decoding, Analysed, Single
<1>7. QED BY <1>2, <1>3, <1>4, <1>5, <1>6, <1>1

\* Whatever is registered, no command line of those TLC tries builds a pipeline
\* that cannot work.
LEMMA PipelinesSane == PipelineIsSane
<1> DEFINE T == {x[1] : x \in Settings} \union {x[2] : x \in Settings}
<1>1. ASSUME NEW x \in Settings PROVE x \in Seq(T)
  <2>1. x[1] \in T /\ x[2] \in T
    OBVIOUS
  <2> HIDE DEF T
  <2>2. CASE \E a, b : x = <<a, b>>
    BY <2>1, <2>2
  <2>3. CASE \E a : x = <<a>>
    BY <2>1, <2>3
  <2>4. QED BY <2>2, <2>3, SettingParts
<1> HIDE DEF T
<1>2. SUFFICES ASSUME NEW list \in MonitorLines PROVE list \in Seq(T)
  BY EveryPipelineWorks DEF PipelineIsSane
<1>3. PICK parts \in UNION {[1 .. k -> Settings] : k \in 0 .. MaxOptions} : list = FlattenSeq(parts)
  BY Zenon DEF MonitorLines
<1>4. PICK k \in 0 .. MaxOptions : parts \in [1 .. k -> Settings]
  BY Zenon
<1>5. k \in Nat /\ parts \in [1 .. k -> Seq(T)]
  BY <1>1, <1>4, OptionsAssumption
<1>6. parts \in Seq(Seq(T))
  BY <1>5
<1>7. FlattenSeq(parts) \in Seq(T)
  BY ONLY <1>6, FlattenMore
<1>8. QED BY <1>3, <1>7

-----------------------------------------------------------------------------
(* How far the command line of a monitor has been read.                      *)

\* All that a list holds has been read, and makes s of the options; there is no
\* other argument.
Reaches(T, list, s) ==
  LET end == ReadArgs(list, Valued, Flags)
  IN /\ list \in Seq(T)
     /\ end.whole /\ end.option = NoOption /\ ~end.ended /\ end.rest = <<>>
     /\ Settled(end.settings) = s

\* Before anything is read.
LEMMA ReachNone == ASSUME NEW T PROVE Reaches(T, <<>>, Unset)
<1>1. ReadArgs(<<>>, Valued, Flags) = Fresh
  BY ReadNone
<1>2. Settled(Fresh.settings) = Unset
  BY TakeNone DEF Fresh
<1>3. QED BY <1>1, <1>2 DEF Reaches, Fresh

\* An option with its value.
LEMMA ReachPair ==
  ASSUME NEW T, NEW list, NEW s, Reaches(T, list, s), NEW o \in Valued, <<o>> \in T, NEW text \in T
  PROVE  Reaches(T, list \o Valuing(o, text), TakeOption(s, <<o, text>>))
<1> DEFINE ReadOf(seq) == ReadArgs(seq, Valued, Flags)
<1>1. PICK opt \in T : opt = <<o>> /\ opt # <<>> /\ opt[1] = o
  OBVIOUS
<1>2. list \in Seq(T)
  BY DEF Reaches
<1>3. PICK first \in Seq(T) : first = Append(list, opt)
  <2>1. Append(list, opt) \in Seq(T)
    BY <1>2
  <2>2. QED BY <2>1
<1>4. PICK both \in Seq(T) : both = Append(first, text)
  <2>1. Append(first, text) \in Seq(T)
    OBVIOUS
  <2>2. QED BY <2>1
<1>5. both = list \o Valuing(o, text)
  <2>1. both = list \o <<opt, text>>
    BY <1>2, <1>3, <1>4
  <2>2. QED BY <1>1, <2>1 DEF Valuing
<1>6. PICK end : end = ReadOf(list)
  OBVIOUS
<1>7. /\ end \in Reading(T, Valued, Flags)
      /\ end.whole /\ end.option = NoOption /\ ~end.ended /\ end.rest = <<>>
      /\ Settled(end.settings) = s
  <2>1. end \in Reading(T, Valued, Flags)
    BY <1>2, <1>6, ReadType, MonitorOptionsDistinct
  <2>2. QED BY <1>6, <2>1 DEF Reaches
<1>8. ReadOf(first) = [end EXCEPT !.option = o]
  <2>1. ReadOf(first) = ReadArg(end, opt, Valued, Flags)
    BY <1>2, <1>3, <1>6, ReadOn
  <2>2. Dashed(opt, Valued \union Flags)
    BY <1>1 DEF Dashed
  <2>3. opt # <<"--">> /\ opt[1] \in Valued
    BY <1>1, MonitorOptionsDistinct DEF Distinct
  <2>4. QED BY <1>1, <1>7, <2>1, <2>2, <2>3, ReadDashed, MonitorOptionsDistinct
<1>9. PICK mid : mid = [end EXCEPT !.option = o]
  OBVIOUS
<1>10. /\ mid.whole /\ mid.option = o /\ mid.option # NoOption /\ mid.settings = end.settings
       /\ mid.rest = <<>> /\ ~mid.ended
       /\ mid = [settings |-> end.settings, whole |-> end.whole, option |-> o, ended |-> end.ended, rest |-> end.rest]
  BY <1>7, <1>9, MonitorOptionsDistinct DEF Reading, Distinct
<1>11. ReadOf(both) = ReadArg(mid, text, Valued, Flags)
  <2>1. ReadOf(both) = ReadArg(ReadOf(first), text, Valued, Flags)
    BY <1>4, ReadOn
  <2>2. QED BY <1>8, <1>9, <2>1
<1>12. ReadArg(mid, text, Valued, Flags)
         = [mid EXCEPT !.settings = Append(@, <<mid.option, text>>), !.option = NoOption]
  BY <1>10 DEF ReadArg
<1>13. PICK done : done = ReadOf(both)
  OBVIOUS
<1>14. /\ done.whole /\ done.option = NoOption /\ ~done.ended /\ done.rest = <<>>
       /\ done.settings = Append(end.settings, <<o, text>>)
  BY <1>10, <1>11, <1>12, <1>13
<1>15. Settled(done.settings) = TakeOption(s, <<o, text>>)
  <2>1. end.settings \in Seq((Valued \union Flags) \X (T \union {<<>>}))
    BY <1>7 DEF Reading
  <2>2. <<o, text>> \in (Valued \union Flags) \X (T \union {<<>>})
    OBVIOUS
  <2>3. QED BY <1>7, <1>14, <2>1, <2>2, TakeOn
<1>16. Reaches(T, both, TakeOption(s, <<o, text>>))
  BY <1>13, <1>14, <1>15 DEF Reaches
<1>17. QED BY <1>5, <1>16

\* A switch.
LEMMA ReachFlag ==
  ASSUME NEW T, NEW list, NEW s, Reaches(T, list, s), NEW o \in Flags, <<o>> \in T
  PROVE  Reaches(T, list \o <<<<o>>>>, TakeOption(s, <<o, <<>>>>))
<1> DEFINE ReadOf(seq) == ReadArgs(seq, Valued, Flags)
<1>1. PICK opt \in T : opt = <<o>> /\ opt # <<>> /\ opt[1] = o
  OBVIOUS
<1>2. list \in Seq(T)
  BY DEF Reaches
<1>3. PICK all \in Seq(T) : all = Append(list, opt)
  <2>1. Append(list, opt) \in Seq(T)
    BY <1>2
  <2>2. QED BY <2>1
<1>4. all = list \o <<<<o>>>>
  BY <1>1, <1>2, <1>3
<1>5. PICK end : end = ReadOf(list)
  OBVIOUS
<1>6. /\ end \in Reading(T, Valued, Flags)
      /\ end.whole /\ end.option = NoOption /\ ~end.ended /\ end.rest = <<>>
      /\ Settled(end.settings) = s
  <2>1. end \in Reading(T, Valued, Flags)
    BY <1>2, <1>5, ReadType, MonitorOptionsDistinct
  <2>2. QED BY <1>5, <2>1 DEF Reaches
<1>7. ReadOf(all) = [end EXCEPT !.settings = Append(@, <<o, <<>>>>)]
  <2>1. ReadOf(all) = ReadArg(end, opt, Valued, Flags)
    BY <1>2, <1>3, <1>5, ReadOn
  <2>2. Dashed(opt, Valued \union Flags)
    BY <1>1 DEF Dashed
  <2>3. opt # <<"--">> /\ opt[1] \in Flags /\ o \notin Valued
    BY <1>1, MonitorOptionsDistinct DEF Distinct
  <2>4. QED BY <1>1, <1>6, <2>1, <2>2, <2>3, ReadDashed, MonitorOptionsDistinct
<1>8. PICK done : done = ReadOf(all)
  OBVIOUS
<1>9. /\ done.whole /\ done.option = NoOption /\ ~done.ended /\ done.rest = <<>>
      /\ done.settings = Append(end.settings, <<o, <<>>>>)
  BY <1>6, <1>7, <1>8 DEF Reading
<1>10. Settled(done.settings) = TakeOption(s, <<o, <<>>>>)
  <2>1. end.settings \in Seq((Valued \union Flags) \X (T \union {<<>>}))
    BY <1>6 DEF Reading
  <2>2. <<o, <<>>>> \in (Valued \union Flags) \X (T \union {<<>>})
    OBVIOUS
  <2>3. QED BY <1>6, <1>9, <2>1, <2>2, TakeOn
<1>11. Reaches(T, all, TakeOption(s, <<o, <<>>>>))
  BY <1>8, <1>9, <1>10 DEF Reaches
<1>12. QED BY <1>4, <1>11

-----------------------------------------------------------------------------
(* The options that the backend is to give a monitor.                        *)

\* The options are these, and no number is refused if all are fine, which then
\* include the interval.
Shape(s, on, analyses, path, interval, fine) ==
  /\ s.outcome \in {"ok", "refused"} /\ (fine => s.outcome = "ok")
  /\ s = [outcome |-> s.outcome, options |-> s.options]
  /\ s.outcome = "ok" =>
       /\ s.options = [number |-> s.options.number, on |-> on, analyses |-> analyses, input_file |-> <<>>,
                       path |-> path]
       /\ s.options.number = [o \in Number64 \union Number32 |-> s.options.number[o]]
       /\ fine => s.options.number["--snapshot-interval-ms"] = interval

Gets(T, list, on, analyses, path, interval, fine) ==
  \E s : Reaches(T, list, s) /\ Shape(s, on, analyses, path, interval, fine)

\* Nothing is asked for at first.
LEMMA GetsNone ==
  ASSUME NEW T, NEW fine
  PROVE  Gets(T, <<>>, {}, <<>>, [o \in Paths |-> IF o = "--decoder" THEN <<"kc705_tof">> ELSE <<>>], 1000, fine)
<1>1. PICK number : /\ number = DefaultNumber /\ number["--snapshot-interval-ms"] = 1000
                    /\ number = [o \in Number64 \union Number32 |-> number[o]]
  <2>1. "--snapshot-interval-ms" \in Number64 \union Number32
    BY DEF Number32
  <2>2. DefaultNumber["--snapshot-interval-ms"] = 1000
    BY <2>1 DEF DefaultNumber
  <2>3. DefaultNumber = [o \in Number64 \union Number32 |-> DefaultNumber[o]]
    BY DEF DefaultNumber
  <2>4. QED BY <2>2, <2>3
<1>2. Shape(Unset, {}, <<>>, [o \in Paths |-> IF o = "--decoder" THEN <<"kc705_tof">> ELSE <<>>], 1000, fine)
  <2>1. Unset = [outcome |-> "ok", options |->
                  [number |-> number, on |-> {}, analyses |-> <<>>, input_file |-> <<>>,
                   path |-> [o \in Paths |-> IF o = "--decoder" THEN <<"kc705_tof">> ELSE <<>>]]]
    BY <1>1 DEF Unset, DefaultOptions
  <2>2. PICK path : path = [o \in Paths |-> IF o = "--decoder" THEN <<"kc705_tof">> ELSE <<>>]
    OBVIOUS
  <2>3. PICK s : s = Unset
    OBVIOUS
  <2>4. PICK ms : ms = 1000
    OBVIOUS
  <2>5. /\ s.outcome = "ok"
        /\ s.options = [number |-> number, on |-> {}, analyses |-> <<>>, input_file |-> <<>>, path |-> path]
        /\ s = [outcome |-> s.outcome, options |-> s.options] /\ s.options.number = number
    BY <2>1, <2>2, <2>3
  <2>6. number["--snapshot-interval-ms"] = ms /\ number = [o \in Number64 \union Number32 |-> number[o]]
    BY <1>1, <2>4
  <2>7. Shape(s, {}, <<>>, path, ms, fine)
    BY <2>5, <2>6 DEF Shape
  <2>8. QED BY <2>2, <2>3, <2>4, <2>7
<1>3. QED BY <1>2, ReachNone DEF Gets

\* A path, or a name.
LEMMA GetsPath ==
  ASSUME NEW T, NEW list, NEW on, NEW analyses, NEW path, NEW interval, NEW fine,
         Gets(T, list, on, analyses, path, interval, fine),
         NEW o \in Paths, <<o>> \in T, NEW text \in T
  PROVE  Gets(T, list \o Valuing(o, text), on, analyses, [path EXCEPT ![o] = text], interval, fine)
<1>1. PICK s : Reaches(T, list, s) /\ Shape(s, on, analyses, path, interval, fine)
  BY DEF Gets
<1>2. Reaches(T, list \o Valuing(o, text), TakeOption(s, <<o, text>>))
  BY <1>1, ReachPair DEF Valued
<1>3. Shape(TakeOption(s, <<o, text>>), on, analyses, [path EXCEPT ![o] = text], interval, fine)
  <2>1. CASE s.outcome = "ok"
    <3>1. PICK t : t = [s EXCEPT !.options.path[o] = text]
      OBVIOUS
    <3>2. TakeOption(s, <<o, text>>) = t
      BY <2>1, <3>1, TakePath
    <3>3. t.outcome = "ok" /\ t = [outcome |-> t.outcome, options |-> t.options]
      BY <1>1, <2>1, <3>1 DEF Shape
    <3>4. t.options = [s.options EXCEPT !.path[o] = text]
      BY <1>1, <3>1 DEF Shape
    <3>5. PICK more : more = [path EXCEPT ![o] = text]
      OBVIOUS
    <3>6. t.options = [number |-> s.options.number, on |-> on, analyses |-> analyses, input_file |-> <<>>,
                       path |-> more]
      BY <1>1, <2>1, <3>4, <3>5 DEF Shape
    <3>7. Shape(t, on, analyses, more, interval, fine)
      BY <1>1, <2>1, <3>3, <3>6 DEF Shape
    <3>8. QED BY <3>2, <3>5, <3>7
  <2>2. CASE s.outcome # "ok"
    BY <1>1, <2>2, TakeDone DEF Shape
  <2>3. QED BY <2>1, <2>2
<1>4. QED BY <1>2, <1>3 DEF Gets

\* A switch.
LEMMA GetsSwitch ==
  ASSUME NEW T, NEW list, NEW on, NEW analyses, NEW path, NEW interval, NEW fine,
         Gets(T, list, on, analyses, path, interval, fine),
         NEW o \in Switches, <<o>> \in T
  PROVE  Gets(T, list \o <<<<o>>>>, on \union {o}, analyses, path, interval, fine)
<1>1. PICK s : Reaches(T, list, s) /\ Shape(s, on, analyses, path, interval, fine)
  BY DEF Gets
<1>2. Reaches(T, list \o <<<<o>>>>, TakeOption(s, <<o, <<>>>>))
  BY <1>1, ReachFlag DEF Flags
<1>3. Shape(TakeOption(s, <<o, <<>>>>), on \union {o}, analyses, path, interval, fine)
  <2>1. CASE s.outcome = "ok"
    <3>1. PICK t : t = [s EXCEPT !.options.on = @ \union {o}]
      OBVIOUS
    <3>2. TakeOption(s, <<o, <<>>>>) = t
      BY <2>1, <3>1, TakeSwitch
    <3>3. t.outcome = "ok" /\ t = [outcome |-> t.outcome, options |-> t.options]
      BY <1>1, <2>1, <3>1 DEF Shape
    <3>4. s.options.on = on
      BY <1>1, <2>1 DEF Shape
    <3>5. PICK more : more = on \union {o}
      OBVIOUS
    <3>6. t.options = [s.options EXCEPT !.on = more]
      BY <1>1, <3>1, <3>5, <3>4 DEF Shape
    <3>7. t.options = [number |-> s.options.number, on |-> more, analyses |-> analyses, input_file |-> <<>>,
                       path |-> path]
      <4>1. PICK number : number = s.options.number
        OBVIOUS
      <4>2. s.options = [number |-> number, on |-> on, analyses |-> analyses, input_file |-> <<>>, path |-> path]
        BY <1>1, <2>1, <4>1 DEF Shape
      <4>3. t.options = [number |-> number, on |-> more, analyses |-> analyses, input_file |-> <<>>, path |-> path]
        BY ONLY <3>6, <4>2
      <4>4. QED BY <4>1, <4>3
    <3>8. Shape(t, more, analyses, path, interval, fine)
      BY <1>1, <2>1, <3>3, <3>7 DEF Shape
    <3>9. QED BY <3>2, <3>5, <3>8
  <2>2. CASE s.outcome # "ok"
    BY <1>1, <2>2, TakeDone DEF Shape
  <2>3. QED BY <2>1, <2>2
<1>4. QED BY <1>2, <1>3 DEF Gets

\* A number, which is fine if it is as the option wants it.
LEMMA GetsNumeral ==
  ASSUME NEW T, NEW list, NEW on, NEW analyses, NEW path, NEW interval, NEW fine,
         Gets(T, list, on, analyses, path, interval, fine),
         NEW o \in Number32, <<o>> \in T, NEW n \in Ints, Numeral(n) \in T,
         fine => n \in 0 .. MaxU32 /\ (o \in Positive => n >= 1)
  PROVE  Gets(T, list \o Valuing(o, Numeral(n)), on, analyses, path,
              IF o = "--snapshot-interval-ms" THEN n ELSE interval, fine)
<1>1. PICK s : Reaches(T, list, s) /\ Shape(s, on, analyses, path, interval, fine)
  BY DEF Gets
<1>2. PICK text \in T : text = Numeral(n)
  OBVIOUS
<1>3. PICK ms : ms = IF o = "--snapshot-interval-ms" THEN n ELSE interval
  OBVIOUS
<1>4. Reaches(T, list \o Valuing(o, text), TakeOption(s, <<o, text>>))
  BY <1>1, ReachPair DEF Valued
<1>5. Shape(TakeOption(s, <<o, text>>), on, analyses, path, ms, fine)
  <2>1. CASE s.outcome = "ok"
    <3>1. PICK m : m = UInt32(text)
      OBVIOUS
    <3>2. fine => m = n /\ m # NaN /\ ~(o \in Positive /\ m = 0)
      <4>1. ASSUME fine PROVE n > MaxU32 - ULongs /\ n \in 0 .. MaxU32 /\ (o \in Positive => n >= 1)
        BY <4>1, GetoptAssumption
      <4>2. ASSUME fine PROVE m = n
        BY <1>2, <3>1, <4>1, <4>2, NumeralReads
      <4>3. ASSUME fine PROVE m # NaN /\ ~(o \in Positive /\ m = 0)
        BY <4>1, <4>2, <4>3, GetoptAssumption DEF NaN
      <4>4. QED BY <4>2, <4>3
    <3>3. TakeOption(s, <<o, text>>)
            = IF m = NaN \/ (o \in Positive /\ m = 0) THEN [s EXCEPT !.outcome = "refused"]
              ELSE [s EXCEPT !.options.number[o] = m]
      <4>1. o \in Number64 \union Number32 /\ m = IF o \in Number64 THEN Unsigned(text) ELSE UInt32(text)
        BY <3>1 DEF Number64, Number32
      <4>2. QED BY ONLY <2>1, <4>1, TakeNumber
    <3>4. CASE m = NaN \/ (o \in Positive /\ m = 0)
      <4>1. ~fine
        BY <3>2, <3>4
      <4>2. Shape([s EXCEPT !.outcome = "refused"], on, analyses, path, ms, fine)
        BY <1>1, <4>1 DEF Shape
      <4>3. QED BY <3>3, <3>4, <4>2
    <3>5. CASE ~(m = NaN \/ (o \in Positive /\ m = 0))
      <4>1. PICK t : t = [s EXCEPT !.options.number[o] = m]
        OBVIOUS
      <4>2. TakeOption(s, <<o, text>>) = t
        BY <3>3, <3>5, <4>1
      <4>3. t.outcome = "ok" /\ t = [outcome |-> t.outcome, options |-> t.options]
        BY <1>1, <2>1, <4>1 DEF Shape
      <4>4. PICK numbers : numbers = [s.options.number EXCEPT ![o] = m]
        OBVIOUS
      <4>5. t.options = [number |-> numbers, on |-> on, analyses |-> analyses, input_file |-> <<>>, path |-> path]
        <5>1. t.options = [s.options EXCEPT !.number[o] = m]
          BY <1>1, <4>1 DEF Shape
        <5>2. QED BY <1>1, <2>1, <4>4, <5>1 DEF Shape
      <4>6. numbers = [p \in Number64 \union Number32 |-> numbers[p]]
        BY <1>1, <2>1, <4>4 DEF Shape
      <4>7. fine => numbers["--snapshot-interval-ms"] = ms
        <5>1. s.options.number = [p \in Number64 \union Number32 |-> s.options.number[p]]
          BY <1>1, <2>1 DEF Shape
        <5>2. "--snapshot-interval-ms" \in Number64 \union Number32
          BY DEF Number32
        <5>3. numbers["--snapshot-interval-ms"]
                = IF o = "--snapshot-interval-ms" THEN m ELSE s.options.number["--snapshot-interval-ms"]
          BY <4>4, <5>1, <5>2
        <5>4. fine => s.options.number["--snapshot-interval-ms"] = interval
          BY <1>1, <2>1 DEF Shape
        <5>5. QED BY <1>3, <3>2, <5>3, <5>4
      <4>8. Shape(t, on, analyses, path, ms, fine)
        BY <4>3, <4>5, <4>6, <4>7 DEF Shape
      <4>9. QED BY <4>2, <4>8
    <3>6. QED BY <3>4, <3>5
  <2>2. CASE s.outcome # "ok"
    BY <1>1, <2>2, TakeDone DEF Shape
  <2>3. QED BY <2>1, <2>2
<1>6. QED BY <1>2, <1>3, <1>4, <1>5 DEF Gets

\* One analysis more.
LEMMA GetsAnalysis ==
  ASSUME NEW T, NEW list, NEW on, NEW analyses, NEW path, NEW interval, NEW fine,
         Gets(T, list, on, analyses, path, interval, fine), <<"--analysis">> \in T, NEW text \in T
  PROVE  Gets(T, list \o Valuing("--analysis", text), on, Append(analyses, text), path, interval, fine)
<1>1. PICK s : Reaches(T, list, s) /\ Shape(s, on, analyses, path, interval, fine)
  BY DEF Gets
<1>2. Reaches(T, list \o Valuing("--analysis", text), TakeOption(s, <<"--analysis", text>>))
  BY <1>1, ReachPair DEF Valued
<1>3. Shape(TakeOption(s, <<"--analysis", text>>), on, Append(analyses, text), path, interval, fine)
  <2>1. CASE s.outcome = "ok"
    <3>1. PICK t : t = [s EXCEPT !.options.analyses = Append(@, text)]
      OBVIOUS
    <3>2. TakeOption(s, <<"--analysis", text>>) = t
      BY <2>1, <3>1, TakeAnalysis
    <3>3. t.outcome = "ok" /\ t = [outcome |-> t.outcome, options |-> t.options]
      BY <1>1, <2>1, <3>1 DEF Shape
    <3>4. s.options.analyses = analyses
      BY <1>1, <2>1 DEF Shape
    <3>5. PICK more : more = Append(analyses, text)
      OBVIOUS
    <3>6. t.options = [s.options EXCEPT !.analyses = more]
      BY <1>1, <3>1, <3>4, <3>5 DEF Shape
    <3>7. PICK number : number = s.options.number
      OBVIOUS
    <3>8. s.options = [number |-> number, on |-> on, analyses |-> analyses, input_file |-> <<>>, path |-> path]
      BY <1>1, <2>1, <3>7 DEF Shape
    <3>9. t.options = [number |-> number, on |-> on, analyses |-> more, input_file |-> <<>>, path |-> path]
      BY ONLY <3>6, <3>8
    <3>10. Shape(t, on, more, path, interval, fine)
      BY <1>1, <2>1, <3>3, <3>7, <3>9 DEF Shape
    <3>11. QED BY <3>2, <3>5, <3>10
  <2>2. CASE s.outcome # "ok"
    BY <1>1, <2>2, TakeDone DEF Shape
  <2>3. QED BY <2>1, <2>2
<1>4. QED BY <1>2, <1>3 DEF Gets

-----------------------------------------------------------------------------
(* The analyses of a monitor.                                                *)

AnalysisArgs(names) == FlattenSeq([i \in DOMAIN names |-> Valuing("--analysis", names[i])])

\* No analysis.
LEMMA AnalysesNone == AnalysisArgs(<<>>) = <<>>
<1>1. [i \in DOMAIN <<>> |-> Valuing("--analysis", <<>>[i])] = <<>>
  OBVIOUS
<1>2. QED BY <1>1, FlattenMore DEF AnalysisArgs

\* One analysis more.
LEMMA AnalysesOn ==
  ASSUME NEW T, <<"--analysis">> \in T, NEW names \in Seq(T), NEW name \in T
  PROVE  /\ AnalysisArgs(names) \in Seq(T)
         /\ AnalysisArgs(Append(names, name)) = AnalysisArgs(names) \o Valuing("--analysis", name)
<1> DEFINE Pair(e) == Valuing("--analysis", e)
           PiecesOf(seq) == [i \in DOMAIN seq |-> Pair(seq[i])]
           n == Len(names)
<1>1. n \in Nat /\ DOMAIN names = 1 .. n /\ \A i \in 1 .. n : names[i] \in T
  OBVIOUS
<1>2. \A e \in T : Pair(e) \in Seq(T)
  BY DEF Valuing
<1>3. PICK more \in Seq(T) : more = Append(names, name)
  <2>1. Append(names, name) \in Seq(T)
    OBVIOUS
  <2>2. QED BY <2>1
<1>4. DOMAIN more = 1 .. n + 1 /\ more[n + 1] = name /\ \A i \in 1 .. n : more[i] = names[i]
  BY <1>3
<1>5. \A m \in Nat : \A j \in 1 .. m + 1 : j = m + 1 \/ j \in 1 .. m
  OBVIOUS
<1> HIDE DEF Pair, n
<1>6. PiecesOf(names) \in Seq(Seq(T)) /\ Len(PiecesOf(names)) = n
  <2>1. PiecesOf(names) = [i \in 1 .. n |-> Pair(names[i])]
    BY <1>1
  <2>2. QED BY <1>1, <1>2, <2>1
<1>7. PICK seq \in Seq(Seq(T)), last \in Seq(T) :
        /\ seq = PiecesOf(names) /\ last = Pair(name) /\ Len(seq) = n /\ \A i \in 1 .. n : seq[i] = Pair(names[i])
  <2>1. \A i \in 1 .. n : PiecesOf(names)[i] = Pair(names[i])
    BY <1>1
  <2> HIDE DEF PiecesOf
  <2>2. QED BY <1>2, <1>6, <2>1
<1>8. PiecesOf(more) = Append(seq, last)
  <2>1. PiecesOf(more) = [i \in 1 .. n + 1 |-> Pair(more[i])]
    BY <1>4
  <2>2. /\ Append(seq, last) = [i \in 1 .. n + 1 |-> Append(seq, last)[i]]
        /\ \A i \in 1 .. n : Append(seq, last)[i] = seq[i]
        /\ Append(seq, last)[n + 1] = last
    BY <1>1, <1>7
  <2>3. ASSUME NEW i \in 1 .. n + 1 PROVE Append(seq, last)[i] = Pair(more[i])
    <3>1. CASE i = n + 1
      BY <1>4, <1>7, <2>2, <3>1
    <3>2. CASE i \in 1 .. n
      BY <1>4, <1>7, <2>2, <3>2
    <3>3. QED BY <1>1, <1>5, <3>1, <3>2
  <2> HIDE DEF PiecesOf
  <2>4. QED BY <2>1, <2>2, <2>3
<1>9. FlattenSeq(Append(seq, last)) = FlattenSeq(seq) \o last /\ FlattenSeq(seq) \in Seq(T)
  BY ONLY <1>7, FlattenMore
<1>10. AnalysisArgs(names) \in Seq(T) /\ AnalysisArgs(more) = AnalysisArgs(names) \o Pair(name)
  <2>1. AnalysisArgs(names) = FlattenSeq(PiecesOf(names)) /\ AnalysisArgs(more) = FlattenSeq(PiecesOf(more))
    BY DEF AnalysisArgs, Pair
  <2> HIDE DEF PiecesOf
  <2>2. QED BY <1>7, <1>8, <1>9, <2>1
<1>11. QED BY <1>3, <1>10 DEF Pair

\* All of them.
LEMMA GetsAnalyses ==
  ASSUME NEW T, <<"--analysis">> \in T, NEW all \in Seq(T),
         NEW list, NEW on, NEW path, NEW interval, NEW fine,
         Gets(T, list, on, <<>>, path, interval, fine)
  PROVE  Gets(T, list \o AnalysisArgs(all), on, all, path, interval, fine)
<1> DEFINE Right(names) == Gets(T, list \o AnalysisArgs(names), on, names, path, interval, fine)
           P == {names \in Seq(T) : Right(names)}
<1>1. list \in Seq(T)
  BY DEF Gets, Reaches
<1>2. <<>> \in P
  <2>1. list \o <<>> = list
    BY <1>1
  <2>2. Right(<<>>)
    BY <2>1, AnalysesNone
  <2>3. <<>> \in Seq(T)
    OBVIOUS
  <2>4. QED BY <2>2, <2>3
<1>3. ASSUME NEW names \in Seq(T), NEW name \in T, names \in P PROVE Append(names, name) \in P
  <2>1. PICK pairs \in Seq(T), last \in Seq(T) : pairs = AnalysisArgs(names) /\ last = Valuing("--analysis", name)
    <3>1. Valuing("--analysis", name) \in Seq(T)
      <4>1. PICK opt \in T, text \in T : opt = <<"--analysis">> /\ text = name
        OBVIOUS
      <4>2. <<opt, text>> \in Seq(T)
        OBVIOUS
      <4>3. QED BY <4>1, <4>2 DEF Valuing
    <3>2. QED BY <3>1, AnalysesOn
  <2>2. Gets(T, (list \o pairs) \o last, on, Append(names, name), path, interval, fine)
    <3>1. Gets(T, list \o pairs, on, names, path, interval, fine)
      BY <1>3, <2>1
    <3>2. <<"--analysis">> \in T /\ name \in T
      OBVIOUS
    <3>3. QED BY ONLY <2>1, <3>1, <3>2, GetsAnalysis
  <2>3. (list \o pairs) \o last = list \o (pairs \o last)
    BY <1>1, Joins
  <2>4. AnalysisArgs(Append(names, name)) = pairs \o last
    <3>1. /\ AnalysisArgs(names) \in Seq(T)
          /\ AnalysisArgs(Append(names, name)) = AnalysisArgs(names) \o Valuing("--analysis", name)
      BY ONLY <<"--analysis">> \in T, names \in Seq(T), name \in T, AnalysesOn
    <3>2. QED BY <2>1, <3>1
  <2>5. Right(Append(names, name))
    BY <2>2, <2>3, <2>4
  <2>6. Append(names, name) \in Seq(T)
    OBVIOUS
  <2>7. QED BY <2>5, <2>6
<1> HIDE DEF P
<1>4. Seq(T) \subseteq P
  BY ONLY <1>2, <1>3, Grow
<1>5. QED BY <1>4 DEF P

\* An option that is there or not.
LEMMA GetsOptional ==
  ASSUME NEW T, NEW list, NEW on, NEW analyses, NEW path, NEW interval, NEW fine,
         Gets(T, list, on, analyses, path, interval, fine),
         NEW o \in Number32, o # "--snapshot-interval-ms", <<o>> \in T, \A n \in Ints : Numeral(n) \in T,
         NEW number \in Maybe(Ints),
         fine => Range(number) \subseteq 0 .. MaxU32 /\ (o \in Positive => 0 \notin Range(number))
  PROVE  Gets(T, list \o Optional(o, number), on, analyses, path, interval, fine)
<1>1. CASE number = <<>>
  <2>1. list \o <<>> = list
    BY DEF Gets, Reaches
  <2>2. Optional(o, number) = <<>>
    BY <1>1 DEF Optional
  <2>3. QED BY <2>1, <2>2
<1>2. CASE number # <<>>
  <2>1. PICK n \in Ints : number = <<n>>
    BY <1>2 DEF Maybe
  <2>2. Range(number) = {n}
    BY <2>1 DEF Range
  <2>3. n \in Int
    BY GetoptAssumption
  <2>4. ASSUME fine PROVE n \in 0 .. MaxU32 /\ (o \in Positive => n >= 1)
    BY <2>2, <2>3, <2>4, GetoptAssumption
  <2>5. PICK text \in T : text = Numeral(n)
    OBVIOUS
  <2>6. Gets(T, list \o Valuing(o, Numeral(n)), on, analyses, path, interval, fine)
    BY <2>4, GetsNumeral
  <2>7. Optional(o, number) = Valuing(o, Numeral(n))
    <3>1. number[1] = n
      BY <2>1
    <3>2. QED BY <1>2, <3>1 DEF Optional
  <2>8. QED BY <2>6, <2>7
<1>3. QED BY <1>1, <1>2

-----------------------------------------------------------------------------
(* What datamon makes of the command line of a monitor.                      *)

\* A text without "=" is a name without options.
LEMMA NameAlone ==
  ASSUME NEW name, "=" \notin Range(name)
  PROVE  BeforeEqual(name) = name /\ AfterEqual(name) = <<>>
<1>1. Places(name, "=") = {}
  BY DEF Places, Range
<1>2. QED BY <1>1 DEF BeforeEqual, AfterEqual

\* Registered names have none.
LEMMA NamesAlone ==
  ASSUME NEW root \in BOOLEAN, NEW name, name \in Names(Decoder) \union Names(Analysis(root))
  PROVE  BeforeEqual(name) = name /\ AfterEqual(name) = <<>>
<1>1. name \in Range(Decoders) \union {Analyses[i].name : i \in DOMAIN Analyses}
  <2>1. CASE name \in Names(Decoder)
    <3>1. PICK i \in DOMAIN Decoder : name = Decoder[i].name
      BY <2>1 DEF Names, Registered
    <3>2. i \in DOMAIN Decoders /\ Decoder[i].name = Decoders[i]
      BY <3>1 DEF Decoder
    <3>3. QED BY <3>1, <3>2 DEF Range
  <2>2. CASE name \in Names(Analysis(root))
    <3>1. PICK i \in DOMAIN Analysis(root) : name = Analysis(root)[i].name
      BY <2>2 DEF Names, Registered
    <3>2. Analysis(root) = Analyses
      BY <3>1 DEF Analysis
    <3>3. QED BY <3>1, <3>2
  <2>3. QED BY <2>1, <2>2
<1>2. "=" \notin Range(name)
  BY <1>1, OptionsAssumption
<1>3. QED BY <1>2, NameAlone

\* An analysis without options keeps a trend.
LEMMA NoSpec == IsKeyValueSpec(<<>>) /\ TrendPoints(<<>>) # NaN
<1>1. Cuts(<<>>) = {0, 1}
  BY DEF Cuts, Places
<1>2. Token(<<>>, 0) = <<>>
  <2>1. {c \in Cuts(<<>>) : c > 0} = {1}
    BY <1>1
  <2>2. Min({1}) = 1
    <3>1. 1 \in {1} /\ {1} \in SUBSET Int /\ \A i \in {1} : 1 <= i /\ i <= 1
      OBVIOUS
    <3>2. QED BY <3>1, Extremes
  <2>3. Token(<<>>, 0) = SubSeq(<<>>, 0 + 1, 1 - 1)
    BY <2>1, <2>2 DEF Token
  <2>4. SubSeq(<<>>, 1, 0) = <<>>
    OBVIOUS
  <2>5. QED BY <2>3, <2>4
<1>3. DOMAIN KeyValues(<<>>) = {}
  <2>1. {c \in Cuts(<<>>) : c <= Len(<<>>) /\ Token(<<>>, c) # <<>>} = {}
    BY <1>1, <1>2
  <2>2. QED BY <2>1 DEF KeyValues
<1>4. ReadSize(<<>>, "trend_points", 1000) = 1000
  BY <1>3 DEF ReadSize
<1>5. QED BY <1>3, <1>4 DEF IsKeyValueSpec, TrendPoints, NaN

\* The decoder that the backend has chosen, and accepted, fits all analyses.
LEMMA ChosenFits ==
  ASSUME NEW root \in BOOLEAN, NEW req, NEW config, Accepted(root, req, config), NEW o,
         o.path["--decoder"] = ChosenDecoder(root, req, config), o.path["--root-out"] = <<>>,
         o.analyses = Asked(req, config), "--no-console" \notin o.on
  PROVE  Fits(root, o)
<1>1. PICK dec, asked : dec = ChosenDecoder(root, req, config) /\ asked = Asked(req, config)
  OBVIOUS
<1>2. /\ Range(asked) \subseteq Names(Analysis(root)) /\ dec \in Names(Decoder)
      /\ \A a, b \in Required(root, asked) : a = b
  BY <1>1 DEF Accepted
<1>3. BeforeEqual(dec) = dec /\ AfterEqual(dec) = <<>>
  BY <1>2, NamesAlone
<1>4. DecoderFits(o)
  BY <1>1, <1>2, <1>3 DEF DecoderFits
<1>5. Sinks(o) # <<>>
  <2>1. "console" \in Range(Sinks(o))
    BY SinksAre
  <2>2. Range(<<>>) = {}
    BY DEF Range
  <2>3. QED BY <2>1, <2>2
<1>6. ASSUME NEW i \in DOMAIN asked PROVE AnalysisFits(root, o, asked[i])
  <2>1. PICK name : name = asked[i] /\ name \in Names(Analysis(root))
    BY <1>2 DEF Range
  <2>2. BeforeEqual(name) = name /\ AfterEqual(name) = <<>>
    BY <2>1, NamesAlone
  <2>3. PICK want : want = FindIn(Analysis(root), name).expects
    OBVIOUS
  <2>4. want = <<>> \/ want = dec
    <3>1. CASE want # <<>>
      <4>1. want \in Required(root, asked)
        BY <2>1, <2>3, <3>1 DEF Required
      <4>2. dec \in Required(root, asked)
        <5>1. dec = CHOOSE d \in Required(root, asked) : TRUE
          BY <1>1, <4>1 DEF ChosenDecoder
        <5>2. QED BY <4>1, <5>1
      <4>3. QED BY <1>2, <4>1, <4>2
    <3>2. QED BY <3>1
  <2>5. QED BY <1>1, <1>3, <2>1, <2>2, <2>3, <2>4, NoSpec DEF AnalysisFits
<1>7. QED BY <1>1, <1>4, <1>5, <1>6 DEF Fits

\* What IsAsShown asks of a run.
Serves(run, root, req, config) ==
  /\ Sane(req, config) => run.outcome = "ok"
  /\ run.outcome \in {"ok", "refused"}
  /\ run.outcome = "ok" =>
       /\ run.options.path["--decoder"] = ChosenDecoder(root, req, config)
       /\ run.options.analyses = Asked(req, config)
       /\ Given(run.options) = {<<"data", <<"endpoint">>>>} /\ "--no-gui" \in run.options.on
       /\ Sane(req, config) => run.options.number["--snapshot-interval-ms"] = Interval(req, config)

\* Options as the backend gives them are a pipeline with its decoder, its analyses
\* and the daemon's endpoint.
LEMMA ShapeRuns ==
  ASSUME NEW root \in BOOLEAN, NEW req, NEW config, Accepted(root, req, config),
         NEW path, NEW interval, interval = Interval(req, config), NEW scan, NEW s,
         scan.whole, scan.rest = <<>>, Settled(scan.settings) = s,
         Shape(s, {"--text-stream", "--no-gui"}, Asked(req, config), path, interval, Sane(req, config)),
         path["--data-endpoint"] = <<"endpoint">>, path["--decoder"] = ChosenDecoder(root, req, config),
         path["--live-output-dir"] = <<>>, path["--text-output"] = <<>>, path["--root-out"] = <<>>
  PROVE  Serves(Built(root, Parsed(scan)), root, req, config)
<1>1. PICK j : j = Parsed(scan)
  OBVIOUS
<1>2. PICK run : run = Built(root, j)
  OBVIOUS
<1>3. PICK asked, dec : asked = Asked(req, config) /\ dec = ChosenDecoder(root, req, config)
  OBVIOUS
<1>4. PICK on : on = {"--text-stream", "--no-gui"}
  OBVIOUS
<1>5. /\ s.outcome \in {"ok", "refused"} /\ (Sane(req, config) => s.outcome = "ok")
      /\ s.outcome = "ok" =>
           /\ s.options = [number |-> s.options.number, on |-> on, analyses |-> asked, input_file |-> <<>>,
                           path |-> path]
           /\ Sane(req, config) => s.options.number["--snapshot-interval-ms"] = interval
  BY <1>3, <1>4 DEF Shape
<1>6. PICK t : t = [outcome |-> s.outcome, options |-> WithFile(s.options, <<>>)]
  OBVIOUS
<1>7. j = Judged(t, scan)
  BY <1>1, <1>6 DEF Parsed
<1>8. CASE s.outcome = "refused"
  <2>1. j.outcome = "refused"
    BY <1>6, <1>7, <1>8 DEF Judged
  <2>2. run.outcome = "refused"
    BY <1>2, <2>1 DEF Built
  <2>3. QED BY <1>1, <1>2, <1>5, <1>8, <2>2 DEF Serves
<1>9. CASE s.outcome = "ok"
  <2>1. PICK o, number : o = s.options /\ number = s.options.number
    OBVIOUS
  <2>2. o = [number |-> number, on |-> on, analyses |-> asked, input_file |-> <<>>, path |-> path]
    BY <1>5, <1>9, <2>1
  <2>3. t.outcome = "ok" /\ t.options = o
    <3>1. WithFile(o, <<>>) = [o EXCEPT !.input_file = <<>>]
      BY DEF WithFile
    <3>2. [o EXCEPT !.input_file = <<>>] = o
      BY <2>2
    <3>3. QED BY <1>6, <1>9, <2>1, <3>1, <3>2
  <2>4. Given(o) = {<<"data", <<"endpoint">>>>}
    <3>1. PICK input, live, data :
            input = o.input_file /\ live = o.path["--live-output-dir"] /\ data = o.path["--data-endpoint"]
      OBVIOUS
    <3>4. o.input_file = <<>> /\ o.path = path
      BY <2>2
    <3>5. <<"endpoint">> # <<>>
      OBVIOUS
    <3>6. input = <<>> /\ live = <<>> /\ data = <<"endpoint">> /\ data # <<>>
      BY <3>1, <3>4, <3>5
    <3>2. Given(o) = (IF input = <<>> THEN {} ELSE {<<"file", input>>})
                      \union (IF live = <<>> THEN {} ELSE {<<"live", live>>})
                      \union (IF data = <<>> THEN {} ELSE {<<"data", data>>})
      BY ONLY <3>1, Sources
    <3>3. QED BY <3>2, <3>6
  <2>5. ~Misread(scan)
    <3>1. Len(<<>>) = 0 /\ DOMAIN <<>> = {}
      OBVIOUS
    <3>2. QED BY <3>1 DEF Misread
  <2>6. ~Senseless(o)
    <3>1. \A a, b \in Given(o) : a = b
      BY <2>4
    <3>2. ~Useless(o)
      BY <2>2 DEF Useless
    <3>3. QED BY <3>1, <3>2 DEF Senseless
  <2>7. j.outcome = "ok" /\ j.options = o
    <3>1. WithSource(o) = o
      BY <2>4 DEF WithSource
    <3>2. QED BY <1>7, <2>3, <2>5, <2>6, <3>1 DEF Judged
  <2>8. Fits(root, o)
    <3>1. /\ o.path["--decoder"] = ChosenDecoder(root, req, config) /\ o.path["--root-out"] = <<>>
          /\ o.analyses = Asked(req, config) /\ "--no-console" \notin o.on
      BY <1>3, <1>4, <2>2
    <3>2. QED BY <3>1, ChosenFits
  <2>9. run = j
    <3>1. "--list-modules" \notin o.on
      BY <1>4, <2>2
    <3>2. QED BY <1>2, <2>7, <2>8, <3>1 DEF Built
  <2>10. /\ o.path["--decoder"] = dec /\ o.analyses = asked /\ "--no-gui" \in o.on
         /\ Sane(req, config) => o.number["--snapshot-interval-ms"] = interval
    BY <1>3, <1>4, <1>5, <1>9, <2>1, <2>2
  <2>11. QED BY <1>1, <1>2, <1>3, <2>4, <2>7, <2>9, <2>10 DEF Serves
<1>10. QED BY <1>5, <1>8, <1>9

\* Requests and configurations with names of a set.
AnyRequest(S) == [decoder : Maybe(S), analyses : Maybe(Seq(S)), interval : Maybe(Ints)]
AnyConfig(S)  == [decoder : S, analyses : Seq(S), sec : Maybe(Ints), ms : Maybe(Ints), poll : Maybe(Ints),
                  idle : Maybe(Ints)]

\* The interval and the names of a monitor, of a request and a configuration of those kinds.
LEMMA IntervalType ==
  ASSUME NEW S, NEW req \in AnyRequest(S), NEW config \in AnyConfig(S)
  PROVE  Interval(req, config) \in Ints /\ Asked(req, config) \in Seq(S)
<1>1. 1 \in Ints /\ 1000 \in Ints /\ Ints \subseteq Int
  BY OptionsAssumption, GetoptAssumption
<1>2. ASSUME NEW v \in Ints PROVE Max({1, v}) \in Ints
  <2>1. v \in Int /\ {1, v} \in SUBSET Int
    BY <1>1
  <2>2. CASE v >= 1
    <3>1. 1 \in {1, v} /\ v \in {1, v} /\ \A i \in {1, v} : 1 <= i /\ i <= v
      BY <2>1, <2>2
    <3>2. Max({1, v}) = v
      BY <2>1, <3>1, Extremes
    <3>3. QED BY <3>2
  <2>3. CASE v < 1
    <3>1. 1 \in {1, v} /\ v \in {1, v} /\ \A i \in {1, v} : v <= i /\ i <= 1
      BY <2>1, <2>3
    <3>2. Max({1, v}) = 1
      BY <2>1, <3>1, Extremes
    <3>3. QED BY <1>1, <3>2
  <2>4. QED BY <2>1, <2>2, <2>3
<1>3. \A m \in Maybe(Ints) : m # <<>> => m[1] \in Ints
  BY DEF Maybe
<1>4. /\ req.interval \in Maybe(Ints) /\ config.sec \in Maybe(Ints) /\ config.ms \in Maybe(Ints)
      /\ req.analyses \in Maybe(Seq(S)) /\ config.analyses \in Seq(S)
  BY DEF AnyRequest, AnyConfig
<1>5. Interval(req, config) \in Ints
  <2>1. CASE req.interval # <<>>
    BY <1>2, <1>3, <1>4, <2>1 DEF Interval
  <2>2. CASE req.interval = <<>> /\ config.sec # <<>>
    BY <1>2, <1>3, <1>4, <2>2 DEF Interval
  <2>3. CASE req.interval = <<>> /\ config.sec = <<>> /\ config.ms # <<>>
    BY <1>3, <1>4, <2>3 DEF Interval
  <2>4. CASE req.interval = <<>> /\ config.sec = <<>> /\ config.ms = <<>>
    BY <1>1, <2>4 DEF Interval
  <2>5. QED BY <2>1, <2>2, <2>3, <2>4
<1>6. Asked(req, config) \in Seq(S)
  BY <1>4 DEF Asked, Maybe
<1>7. QED BY <1>5, <1>6

\* A monitor that the backend starts decodes and analyses what the backend shows
\* from then on, from the daemon's endpoint and without a window, and it starts,
\* unless a number in the web configuration is none it takes: whatever is
\* registered, whoever asks for however many analyses, and whatever the numbers
\* are (app.py:742 to 824, datamon.cpp:366 to 498).
THEOREM EveryMonitorIsAsShown ==
  ASSUME NEW root \in BOOLEAN, NEW S, NEW req \in AnyRequest(S), NEW config \in AnyConfig(S),
         Accepted(root, req, config)
  PROVE  IsAsShown(root, req, config)
<1>1. PICK dec, asked, ms : /\ dec = ChosenDecoder(root, req, config) /\ asked = Asked(req, config)
                            /\ ms = Interval(req, config)
  OBVIOUS
<1>2. ms \in Ints /\ asked \in Seq(S)
  BY <1>1, IntervalType
<1>3. PICK T : /\ S \subseteq T /\ dec \in T /\ (\A o \in Valued \union Flags : <<o>> \in T)
               /\ (\A n \in Ints : Numeral(n) \in T)
               /\ <<"endpoint">> \in T /\ <<"dir">> \in T /\ <<"select">> \in T
  <2>1. PICK T : T = S \union {dec} \union {<<o>> : o \in Valued \union Flags}
                     \union {Numeral(n) : n \in Ints} \union {<<"endpoint">>, <<"dir">>, <<"select">>}
    OBVIOUS
  <2>2. QED BY <2>1
<1>4. asked \in Seq(T)
  BY <1>2, <1>3
<1>5. ASSUME Sane(req, config)
      PROVE  /\ ms \in 0 .. MaxU32 /\ ms >= 1
             /\ Range(config.poll) \subseteq 0 .. MaxU32 /\ 0 \notin Range(config.poll)
             /\ Range(config.idle) \subseteq 0 .. MaxU32
  BY <1>1, <1>5, GetoptAssumption DEF Sane
<1>6. config.poll \in Maybe(Ints) /\ config.idle \in Maybe(Ints)
  BY DEF AnyConfig
<1>7. PICK p0, usual : usual = 1000 /\ p0 = [o \in Paths |-> IF o = "--decoder" THEN <<"kc705_tof">> ELSE <<>>]
  OBVIOUS
<1>8. PICK p1, p2, p3, p4 :
        /\ p1 = [p0 EXCEPT !["--data-endpoint"] = <<"endpoint">>] /\ p2 = [p1 EXCEPT !["--decoder"] = dec]
        /\ p3 = [p2 EXCEPT !["--snapshot-dir"] = <<"dir">>]
        /\ p4 = [p3 EXCEPT !["--snapshot-select-endpoint"] = <<"select">>]
  OBVIOUS
<1>9. PICK l1 : l1 = Valuing("--data-endpoint", <<"endpoint">>)
                /\ Gets(T, l1, {}, <<>>, p1, usual, Sane(req, config))
  <2>1. Gets(T, <<>>, {}, <<>>, p0, usual, Sane(req, config))
    BY <1>7, GetsNone
  <2>2. "--data-endpoint" \in Paths /\ <<"--data-endpoint">> \in T
    BY <1>3 DEF Paths, Valued
  <2>3. Gets(T, <<>> \o Valuing("--data-endpoint", <<"endpoint">>), {}, <<>>, p1, usual, Sane(req, config))
    BY <1>3, <1>8, <2>1, <2>2, GetsPath
  <2>4. <<>> \o Valuing("--data-endpoint", <<"endpoint">>) = Valuing("--data-endpoint", <<"endpoint">>)
    BY DEF Valuing
  <2>5. QED BY <2>3, <2>4
<1>10. PICK l2 : l2 = l1 \o Optional("--poll-ms", config.poll)
                 /\ Gets(T, l2, {}, <<>>, p1, usual, Sane(req, config))
  <2>1. "--poll-ms" \in Number32 /\ <<"--poll-ms">> \in T
    BY <1>3 DEF Number32, Valued
  <2>2. QED BY <1>3, <1>5, <1>6, <1>9, <2>1, GetsOptional
<1>11. PICK l3 : l3 = l2 \o Optional("--idle-timeout-sec", config.idle)
                 /\ Gets(T, l3, {}, <<>>, p1, usual, Sane(req, config))
  <2>1. "--idle-timeout-sec" \in Number32 /\ "--idle-timeout-sec" \notin Positive /\ <<"--idle-timeout-sec">> \in T
    BY <1>3 DEF Number32, Valued, Positive
  <2>2. QED BY <1>3, <1>5, <1>6, <1>10, <2>1, GetsOptional
<1>12. PICK l4 : l4 = l3 \o Valuing("--decoder", dec) /\ Gets(T, l4, {}, <<>>, p2, usual, Sane(req, config))
  <2>1. "--decoder" \in Paths /\ <<"--decoder">> \in T
    BY <1>3 DEF Paths, Valued
  <2>2. QED BY <1>3, <1>8, <1>11, <2>1, GetsPath
<1>13. PICK l5 : l5 = l4 \o <<<<"--text-stream">>>>
                 /\ Gets(T, l5, {"--text-stream"}, <<>>, p2, usual, Sane(req, config))
  <2>1. "--text-stream" \in Switches /\ <<"--text-stream">> \in T
    BY <1>3 DEF Switches, Flags
  <2>2. Gets(T, l4 \o <<<<"--text-stream">>>>, {} \union {"--text-stream"}, <<>>, p2, usual, Sane(req, config))
    BY <1>12, <2>1, GetsSwitch
  <2>3. {} \union {"--text-stream"} = {"--text-stream"}
    OBVIOUS
  <2>4. QED BY <2>2, <2>3
<1>14. PICK on, l6 : on = {"--text-stream", "--no-gui"} /\ l6 = l5 \o <<<<"--no-gui">>>>
                     /\ Gets(T, l6, on, <<>>, p2, usual, Sane(req, config))
  <2>1. "--no-gui" \in Switches /\ <<"--no-gui">> \in T
    BY <1>3 DEF Switches, Flags
  <2>2. Gets(T, l5 \o <<<<"--no-gui">>>>, {"--text-stream"} \union {"--no-gui"}, <<>>, p2, usual, Sane(req, config))
    BY <1>13, <2>1, GetsSwitch
  <2>3. {"--text-stream"} \union {"--no-gui"} = {"--text-stream", "--no-gui"}
    OBVIOUS
  <2>4. QED BY <2>2, <2>3
<1>15. PICK l7 : l7 = l6 \o Valuing("--snapshot-dir", <<"dir">>)
                 /\ Gets(T, l7, on, <<>>, p3, usual, Sane(req, config))
  <2>1. "--snapshot-dir" \in Paths /\ <<"--snapshot-dir">> \in T
    BY <1>3 DEF Paths, Valued
  <2>2. QED BY <1>3, <1>8, <1>14, <2>1, GetsPath
<1>16. PICK l8 : l8 = l7 \o Valuing("--snapshot-interval-ms", Numeral(ms))
                 /\ Gets(T, l8, on, <<>>, p3, ms, Sane(req, config))
  <2>1. PICK o \in Number32 : o = "--snapshot-interval-ms" /\ <<o>> \in T
    BY <1>3 DEF Number32, Valued
  <2>2. Gets(T, l7 \o Valuing(o, Numeral(ms)), on, <<>>, p3,
             IF o = "--snapshot-interval-ms" THEN ms ELSE usual, Sane(req, config))
    BY <1>2, <1>3, <1>5, <1>15, <2>1, GetsNumeral
  <2>3. QED BY <2>1, <2>2
<1>17. PICK l9 : l9 = l8 \o Valuing("--snapshot-select-endpoint", <<"select">>)
                 /\ Gets(T, l9, on, <<>>, p4, ms, Sane(req, config))
  <2>1. "--snapshot-select-endpoint" \in Paths /\ <<"--snapshot-select-endpoint">> \in T
    BY <1>3 DEF Paths, Valued
  <2>2. QED BY <1>3, <1>8, <1>16, <2>1, GetsPath
<1>18. PICK args : args = l9 \o AnalysisArgs(asked) /\ Gets(T, args, on, asked, p4, ms, Sane(req, config))
  <2>1. <<"--analysis">> \in T
    BY <1>3 DEF Valued
  <2>2. QED BY <1>4, <1>17, <2>1, GetsAnalyses
<1>19. args = MonitorArgs(root, req, config)
  BY <1>1, <1>9, <1>10, <1>11, <1>12, <1>13, <1>14, <1>15, <1>16, <1>17, <1>18 DEF MonitorArgs, AnalysisArgs
<1>20. /\ p4["--data-endpoint"] = <<"endpoint">> /\ p4["--decoder"] = dec
       /\ p4["--live-output-dir"] = <<>> /\ p4["--text-output"] = <<>> /\ p4["--root-out"] = <<>>
  BY <1>7, <1>8 DEF Paths
<1>21. PICK s, scan : /\ Shape(s, {"--text-stream", "--no-gui"}, Asked(req, config), p4, ms, Sane(req, config))
                      /\ scan = Scan(args, Valued, Flags) /\ scan.whole /\ scan.rest = <<>>
                      /\ Settled(scan.settings) = s
  <2>1. PICK s : Reaches(T, args, s) /\ Shape(s, on, asked, p4, ms, Sane(req, config))
    BY <1>18 DEF Gets
  <2>2. PICK scan : scan = Scan(args, Valued, Flags)
    OBVIOUS
  <2>3. scan.whole /\ scan.rest = <<>> /\ Settled(scan.settings) = s
    BY <2>1, <2>2 DEF Reaches, Scan
  <2>4. QED BY <1>1, <1>14, <2>1, <2>2, <2>3
<1>22. Serves(Built(root, Parsed(scan)), root, req, config)
  <2>1. /\ p4["--data-endpoint"] = <<"endpoint">> /\ p4["--decoder"] = ChosenDecoder(root, req, config)
        /\ p4["--live-output-dir"] = <<>> /\ p4["--text-output"] = <<>> /\ p4["--root-out"] = <<>>
        /\ ms = Interval(req, config)
    BY <1>1, <1>20
  <2>2. QED BY ONLY root \in BOOLEAN, Accepted(root, req, config), <1>21, <2>1, ShapeRuns
<1>23. Datamon(root, MonitorArgs(root, req, config)) = Built(root, Parsed(scan))
  BY <1>19, <1>21 DEF Datamon, ParseArgs
<1>24. QED BY <1>22, <1>23 DEF IsAsShown, Serves

\* Those that TLC tries are of these kinds.
LEMMA PairsAny == \E S : \A pair \in Pairs : pair[1] \in AnyRequest(S) /\ pair[2] \in AnyConfig(S)
<1>1. PICK first, one, S : first = Analyses[1].name /\ one = Decoders[1] /\ S = AllNames \union {first, one}
  OBVIOUS
<1>2. Lists \subseteq Seq(S)
  <2>1. ASSUME NEW names \in Lists PROVE names \in Seq(S)
    <3>1. PICK k \in 0 .. MaxAnalyses : names \in [1 .. k -> AllNames]
      BY Zenon DEF Lists
    <3>2. k \in Nat /\ names \in [1 .. k -> S]
      BY <1>1, <3>1, OptionsAssumption
    <3>3. QED BY <3>2
  <2>2. QED BY <2>1
<1>3. \A A, B : A \subseteq B => Maybe(A) \subseteq Maybe(B)
  BY DEF Maybe
<1>4. \A A : <<>> \in Maybe(A)
  BY DEF Maybe
<1>5. Intervals \subseteq Ints /\ Intervals \intersect Nat \subseteq Ints
  BY OptionsAssumption
<1>6. ASSUME NEW d \in Maybe(AllNames), NEW a \in Maybe(Lists), NEW d2 \in AllNames, NEW a2 \in {<<>>, <<first>>}
      PROVE  Request(d, a, <<>>) \in AnyRequest(S) /\ Config(d2, a2, <<>>, <<>>, <<>>, <<>>) \in AnyConfig(S)
  <2>1. d \in Maybe(S) /\ a \in Maybe(Seq(S))
    BY <1>1, <1>2, <1>3
  <2>2. d2 \in S /\ a2 \in Seq(S)
    <3>1. first \in S /\ d2 \in S
      BY <1>1
    <3>2. <<>> \in Seq(S) /\ <<first>> \in Seq(S)
      BY <3>1
    <3>3. QED BY <3>1, <3>2
  <2>3. QED BY <1>4, <2>1, <2>2 DEF Request, Config, AnyRequest, AnyConfig
<1>7. ASSUME NEW i \in Maybe(Intervals \intersect Nat), NEW s \in Maybe(Intervals), NEW m \in Maybe(Intervals),
             NEW p \in Maybe(Intervals), NEW t \in Maybe(Intervals)
      PROVE  Request(<<>>, <<>>, i) \in AnyRequest(S) /\ Config(one, <<>>, s, m, p, t) \in AnyConfig(S)
  <2>1. /\ i \in Maybe(Ints) /\ s \in Maybe(Ints) /\ m \in Maybe(Ints) /\ p \in Maybe(Ints) /\ t \in Maybe(Ints)
    BY <1>3, <1>5
  <2>2. one \in S /\ <<>> \in Seq(S)
    BY <1>1
  <2>3. QED BY <1>4, <2>1, <2>2 DEF Request, Config, AnyRequest, AnyConfig
<1>8. \A x, y : <<x, y>>[1] = x /\ <<x, y>>[2] = y
  OBVIOUS
<1> DEFINE Varied == {<<Request(d, a, <<>>), Config(d2, a2, <<>>, <<>>, <<>>, <<>>)>> :
                       d \in Maybe(AllNames), a \in Maybe(Lists), d2 \in AllNames, a2 \in {<<>>, <<Analyses[1].name>>}}
           Timed  == {<<Request(<<>>, <<>>, i), Config(Decoders[1], <<>>, s, m, p, t)>> :
                       i \in Maybe(Intervals \intersect Nat), s \in Maybe(Intervals), m \in Maybe(Intervals),
                       p \in Maybe(Intervals), t \in Maybe(Intervals)}
<1>9. Pairs = Varied \union Timed
  BY DEF Pairs
<1>10. PICK A, B : A = Maybe(Intervals \intersect Nat) /\ B = Maybe(Intervals)
  OBVIOUS
<1>11. Timed = {<<Request(<<>>, <<>>, i), Config(one, <<>>, s, m, p, t)>> :
                  i \in A, s \in B, m \in B, p \in B, t \in B}
  BY <1>1, <1>10
<1> HIDE DEF Timed
<1>12. ASSUME NEW pair \in Varied PROVE pair[1] \in AnyRequest(S) /\ pair[2] \in AnyConfig(S)
  <2>1. PICK d \in Maybe(AllNames), a \in Maybe(Lists), d2 \in AllNames, a2 \in {<<>>, <<Analyses[1].name>>} :
          pair = <<Request(d, a, <<>>), Config(d2, a2, <<>>, <<>>, <<>>, <<>>)>>
    OBVIOUS
  <2>2. QED BY <1>1, <1>6, <1>8, <2>1
<1>13. ASSUME NEW pair \in Timed PROVE pair[1] \in AnyRequest(S) /\ pair[2] \in AnyConfig(S)
  <2>1. PICK i \in A, s \in B, m \in B, p \in B, t \in B :
          pair = <<Request(<<>>, <<>>, i), Config(one, <<>>, s, m, p, t)>>
    BY <1>11
  <2>2. QED BY <1>7, <1>8, <1>10, <2>1
<1> HIDE DEF Varied
<1>14. QED BY <1>9, <1>12, <1>13

\* So every monitor that TLC tries is as shown.
LEMMA MonitorsShown == MonitorIsAsShown
<1>1. PICK S : \A pair \in Pairs : pair[1] \in AnyRequest(S) /\ pair[2] \in AnyConfig(S)
  BY PairsAny
<1>2. ASSUME NEW root \in BOOLEAN, NEW pair \in Pairs, Accepted(root, pair[1], pair[2])
      PROVE  IsAsShown(root, pair[1], pair[2])
  BY <1>1, <1>2, EveryMonitorIsAsShown
<1>3. QED BY <1>2 DEF MonitorIsAsShown

\* What is started is what the backend shows, and no command line gives datamon
\* a pipeline that cannot work, in every state and so in each in which a monitor
\* is about to be spawned (app.py:742 to 824, datamon.cpp:171 to 498).
THEOREM ShowsWhatStarts == Spec => []StartsWhatItShows
<1>1. StartsWhatItShows
  BY MonitorsShown, PipelinesSane DEF StartsWhatItShows
<1>2. QED BY <1>1, PTL
===============================================================================
