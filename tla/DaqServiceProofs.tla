--------------------------- MODULE DaqServiceProofs ---------------------------
(***************************************************************************)
(* Proofs about DaqService, for every number of events per file and any    *)
(* bounds.                                                                 *)
(***************************************************************************)
EXTENDS DaqService, TLAPS

-----------------------------------------------------------------------------
(* Division.                                                               *)

\* Quotient and remainder.
LEMMA DivMod ==
  ASSUME NEW m \in Nat, NEW E \in Nat \ {0}
  PROVE  m \div E \in Nat /\ m % E \in 0 .. E - 1 /\ m = E * (m \div E) + (m % E)
OBVIOUS

\* Different quotients are a divisor apart.
LEMMA Apart ==
  ASSUME NEW E \in Nat \ {0}, NEW a \in Int, NEW b \in Int, a < b
  PROVE  E * a + E <= E * b
<1>1. E * (b - a) >= E
  <2> DEFINE d == b - a
  <2>1. d \in Nat /\ d >= 1 OBVIOUS
  <2> HIDE DEF d
  <2>2. E * d >= E BY <2>1
  <2> QED BY <2>2 DEF d
<1>2. E * (b - a) = E * b - E * a OBVIOUS
<1>3. QED BY <1>1, <1>2

\* Quotient and remainder are unique.
LEMMA OneQuotient ==
  ASSUME NEW E \in Nat \ {0}, NEW a \in Int, NEW b \in Int,
         NEW q \in 0 .. E - 1, NEW r \in 0 .. E - 1, E * a + q = E * b + r
  PROVE  a = b /\ q = r
<1>0. E * a \in Int /\ E * b \in Int OBVIOUS
<1>1. ~(a < b)
  <2>1. SUFFICES ASSUME a < b PROVE FALSE OBVIOUS
  <2>2. E * a + E <= E * b BY <2>1, Apart
  <2>3. QED BY <1>0, <2>2
<1>2. ~(b < a)
  <2>1. SUFFICES ASSUME b < a PROVE FALSE OBVIOUS
  <2>2. E * b + E <= E * a BY <2>1, Apart
  <2>3. QED BY <1>0, <2>2
<1>3. QED BY <1>1, <1>2

\* One record more: the same file until it is full, then the first of the next.
LEMMA NextPlace ==
  ASSUME NEW m \in Nat, NEW E \in Nat \ {0}
  PROVE  /\ m % E < E - 1 => (m + 1) \div E = m \div E /\ (m + 1) % E = (m % E) + 1
         /\ m % E = E - 1 => (m + 1) \div E = m \div E + 1 /\ (m + 1) % E = 0
<1> DEFINE a == m \div E  q == m % E  b == (m + 1) \div E  r == (m + 1) % E
<1>1. a \in Nat /\ q \in 0 .. E - 1 /\ m = E * a + q BY DivMod
<1>2. m + 1 \in Nat OBVIOUS
<1>3. b \in Nat /\ r \in 0 .. E - 1 /\ m + 1 = E * b + r BY <1>2, DivMod
<1>4. ASSUME q < E - 1 PROVE b = a /\ r = q + 1
  <2>1. E * a + (q + 1) = E * b + r /\ q + 1 \in 0 .. E - 1 BY <1>1, <1>3, <1>4
  <2> HIDE DEF a, b, q, r
  <2>2. QED BY <1>1, <1>3, <2>1, OneQuotient
<1>5. ASSUME q = E - 1 PROVE b = a + 1 /\ r = 0
  <2>1. E * (a + 1) = E * a + E BY <1>1
  <2> HIDE DEF a, b, q, r
  <2>2. E * (a + 1) + 0 = E * b + r BY <1>1, <1>3, <1>5, <2>1
  <2>3. QED BY <1>1, <1>3, <2>2, OneQuotient
<1>6. QED BY <1>4, <1>5

-----------------------------------------------------------------------------
(* Types, and run numbers within their bound.  The run log always has a     *)
(* highest run, so MAX(run) + 1 is a number that is not in it.              *)

RunBounds ==
  /\ cfg.run <= MaxRequest + starts
  /\ \A n \in RunsLogged : n <= MaxRequest + starts
  /\ RunsLogged # {} => \E n \in RunsLogged : \A m \in RunsLogged : m <= n

\* The control thread, place by place.
ControlPlace ==
  /\ ctl \in {"reap", "reap_join", "resolve", "begin"} =>
       cmd \in {"start", "resume"} /\ starts < MaxStarts
  /\ ctl \in {"reap", "reap_join", "resolve"} => request \in {AutoRun} \cup 0 .. MaxRequest
  /\ ctl = "resolve" => cmd = "start"
  /\ ctl = "begin" /\ cmd = "start" => request \in 0 .. MaxRequest + starts + 1
  /\ ctl \in {"halt", "join"} => cmd \in {"stop", "pause", "shutdown", "exit"}
  /\ ctl \in {"ask_running", "shut"} => cmd \in {"shutdown", "exit"}

Booleans ==
  /\ running \in BOOLEAN /\ shutting_down \in BOOLEAN /\ ready \in BOOLEAN
  /\ ready_ok \in BOOLEAN /\ handle \in BOOLEAN /\ failed \in BOOLEAN

OtherTypes ==
  /\ stop_requested \in 0..2 /\ last_exit \in {0, 1} /\ published \in Nat
  /\ state \in {"idle", "running", "stopping", "pausing", "paused", "error"}
  /\ cfg \in Config /\ subrun \in Subruns /\ events \in Nat
  /\ thread \in {"none", "resolve", "acquire", "emit", "write", "seal", "leave", "exited"}
  /\ ctl \in {"recv", "reap", "reap_join", "resolve", "begin", "poll", "halt", "join",
              "ask_running", "shut", "destroy", "gone", "terminated"}
  /\ cmd \in {"none", "start", "stop", "pause", "resume", "shutdown", "exit"}
  /\ request \in {AutoRun} \cup Runs /\ reply \in {"none", "ok", "error", "timeout"}
  /\ files \in SUBSET File /\ torn \in SUBSET files /\ run_log \in SUBSET Row
  /\ starts \in 0 .. MaxStarts
  /\ faults \in FaultSets

TypeInv == Booleans /\ OtherTypes /\ RunBounds /\ ControlPlace

LEMMA TypeInvImpliesTypeOK == ASSUME TypeInv PROVE TypeOK
BY DEF TypeInv, Booleans, OtherTypes, TypeOK

\* The numbers derived from the count are numbers.
LEMMA PlaceTypes ==
  ASSUME TypeInv PROVE CurrentSubrun \in Nat /\ EventsInFile \in 0 .. EventsPerFile
<1>1. published \in Nat /\ cfg.subrun_start \in Nat
  BY DEF TypeInv, OtherTypes, Config, Subruns
<1>2. ASSUME published # 0
      PROVE  (published - 1) \div EventsPerFile \in Nat /\ (published - 1) % EventsPerFile \in 0 .. EventsPerFile - 1
  <2>1. published - 1 \in Nat BY <1>1, <1>2
  <2>2. QED BY <2>1, ServiceAssumption, DivMod
<1>3. QED BY <1>1, <1>2, ServiceAssumption DEF CurrentSubrun, EventsInFile

\* Rows that are added or marked are rows, and keep what is known of the run log.
LEMMA LogTyped ==
  ASSUME TypeInv
  PROVE  /\ CurrentFile \in File
         /\ \A text \in {"completed", "stopped", "error"} :
              InsertRow(text) => /\ run_log' \in SUBSET Row
                                 /\ Logged' = Logged \cup {CurrentFile}
                                 /\ RunsLogged' = RunsLogged \cup {cfg.run}
         /\ \A next \in Nat : PauseTo(next) => /\ run_log' \in SUBSET Row
                                              /\ Logged' = Logged
                                              /\ RunsLogged' = RunsLogged
<1>1. CurrentFile \in File
  BY DEF TypeInv, OtherTypes, Config, CurrentFile, File
<1>2. ASSUME NEW text \in {"completed", "stopped", "error"}, InsertRow(text)
      PROVE  /\ run_log' \in SUBSET Row
             /\ Logged' = Logged \cup {CurrentFile}
             /\ RunsLogged' = RunsLogged \cup {cfg.run}
  <2>1. run_log' = run_log \cup {[file |-> CurrentFile, status |-> text]} /\ run_log \subseteq Row
    BY <1>2 DEF InsertRow, TypeInv, OtherTypes
  <2>2. Logged' = Logged \cup {CurrentFile}
    <3> DEFINE row == [file |-> CurrentFile, status |-> text]
    <3>1. row.file = CurrentFile OBVIOUS
    <3>2. run_log' = run_log \cup {row} BY <2>1
    <3> HIDE DEF row
    <3>3. QED BY <3>1, <3>2 DEF Logged
  <2>3. RunsLogged' = RunsLogged \cup {cfg.run}
    <3>1. CurrentFile[1] = cfg.run BY DEF CurrentFile
    <3>2. QED BY <2>2, <3>1 DEF RunsLogged
  <2>4. QED BY <1>1, <2>1, <2>2, <2>3 DEF Row
<1>3. ASSUME NEW next \in Nat, PauseTo(next)
      PROVE  run_log' \in SUBSET Row /\ Logged' = Logged /\ RunsLogged' = RunsLogged
  <2>1. PICK file : run_log' = run_log \/ run_log' = {Mark(row, file, "paused") : row \in run_log}
    BY <1>3 DEF PauseTo
  <2>2. run_log \subseteq Row
    BY DEF TypeInv, OtherTypes
  <2>3. \A row \in run_log : Mark(row, file, "paused") \in Row /\ Mark(row, file, "paused").file = row.file
    BY <2>2 DEF Mark, Row
  <2>4. Logged' = Logged
    BY <2>1, <2>3 DEF Logged
  <2>5. QED BY <2>1, <2>2, <2>3, <2>4 DEF RunsLogged
<1>4. QED BY <1>1, <1>2, <1>3

\* MAX(run) + 1 is not in the run log, and within the bound.
LEMMA NextRunIsNew ==
  ASSUME TypeInv
  PROVE  NextRun \in 0 .. MaxRequest + starts + 1 /\ NextRun \notin RunsLogged
<1>1. RunsLogged \subseteq Nat
  BY DEF TypeInv, OtherTypes, RunsLogged, Logged, Row, File, Runs
<1>2. starts \in Nat /\ MaxRequest \in Nat
  BY ServiceAssumption DEF TypeInv, OtherTypes
<1>3. CASE RunsLogged = {}
  BY <1>2, <1>3 DEF NextRun
<1>4. CASE RunsLogged # {}
  <2> DEFINE top == CHOOSE n \in RunsLogged : \A m \in RunsLogged : m <= n
  <2>1. top \in RunsLogged /\ \A m \in RunsLogged : m <= top
    BY <1>4 DEF TypeInv, RunBounds
  <2>2. top <= MaxRequest + starts
    BY <2>1 DEF TypeInv, RunBounds
  <2>3. NextRun = 1 + top
    BY <1>4 DEF NextRun
  <2> HIDE DEF top
  <2>4. QED BY <1>1, <1>2, <2>1, <2>2, <2>3
<1>5. QED BY <1>3, <1>4

LEMMA TypeInvInit == ASSUME Init PROVE TypeInv
<1>1. Logged = {} /\ RunsLogged = {}
  BY DEF Init, Logged, RunsLogged
<1>2. OtherTypes
  <2>1. cfg \in Config /\ subrun \in Subruns
    BY ServiceAssumption DEF Init, NoConfig, Config, Runs, Subruns
  <2>2. starts \in 0 .. MaxStarts
    BY ServiceAssumption DEF Init
  <2>3. QED BY <2>1, <2>2 DEF Init, OtherTypes
<1>3. Booleans
  BY DEF Init, Booleans
<1>4. RunBounds /\ ControlPlace
  BY <1>1, ServiceAssumption DEF Init, RunBounds, ControlPlace, NoConfig
<1>5. QED BY <1>2, <1>3, <1>4 DEF TypeInv

\* No step gives a flag another value than true or false.
LEMMA BooleansControl ==
  ASSUME TypeInv, Control \/ Operator \/ Crash PROVE Booleans'
<1> USE DEF TypeInv, Booleans, serviceVars, runVars, ctlVars
<1>1. CASE ReapFinished \/ ReapJoin \/ ResolveRun \/ PollStartup
  BY <1>1 DEF ReapFinished, ReapJoin, ResolveRun, PollStartup
<1>2. CASE BeginRun \/ ResumeRun
  BY <1>2 DEF BeginRun, ResumeRun, Refuse, StartLocked
<1>3. CASE NothingToHalt \/ HaltRun \/ StopJoined \/ PauseJoined
  BY <1>3 DEF NothingToHalt, HaltRun, Halt, StopJoined, StopEnds, PauseJoined, PauseEnds
<1>4. CASE AskRunning \/ ShutDown \/ Destroy
  BY <1>4 DEF AskRunning, ThenGo, ShutDown, Destroy
<1>5. CASE Operator
  BY <1>5 DEF Operator, Receive, LeaveLoop
<1>6. CASE Crash
  BY <1>6 DEF Crash
<1>7. QED BY <1>1, <1>2, <1>3, <1>4, <1>5, <1>6 DEF Control

\* (Of the acquisition thread.)
LEMMA BooleansRun == ASSUME TypeInv, Acquisition PROVE Booleans'
<1> USE DEF TypeInv, Booleans, apart, ctlVars, limits
<1>1. CASE CoreResolve \/ StartupStatus
  BY <1>1 DEF CoreResolve, StartupStatus
<1>2. CASE FirstFile \/ NextFile \/ SameFile
  BY <1>2 DEF FirstFile, NextFile, SameFile
<1>3. CASE PublishFrame \/ WriteFrame \/ WriteFails
  BY <1>3 DEF PublishFrame, WriteFrame, WriteFails
<1>4. CASE EndRun \/ SealFile \/ RunReturns
  BY <1>4 DEF EndRun, SealFile, RunReturns
<1>5. QED BY <1>1, <1>2, <1>3, <1>4 DEF Acquisition

\* The steps that leave run log, files and configuration alone keep the types.
LEMMA TypesControl ==
  ASSUME TypeInv,
         \/ ReapFinished \/ ReapJoin \/ ResolveRun \/ PollStartup \/ NothingToHalt \/ HaltRun
         \/ StopJoined \/ AskRunning \/ ShutDown \/ Destroy \/ Operator
  PROVE  OtherTypes' /\ RunBounds' /\ ControlPlace'
<1> USE DEF TypeInv, OtherTypes, RunBounds, ControlPlace, serviceVars, runVars, kept, limits
<1>1. UNCHANGED <<run_log, files, cfg, starts, faults>>
  BY DEF ReapFinished, ReapJoin, ResolveRun, PollStartup, NothingToHalt, HaltRun, Halt, StopJoined,
         StopEnds, AskRunning, ThenGo, ShutDown, Destroy, Operator, Receive, LeaveLoop
<1>2. RunsLogged' = RunsLogged
  BY <1>1 DEF RunsLogged, Logged
<1>3. MaxRequest \in Nat /\ MaxStarts \in Nat /\ starts \in Nat
  BY ServiceAssumption
<1>4. CASE ReapFinished \/ ReapJoin
  <2>1. ctl' \in {"reap_join", "resolve", "begin"} /\ (ctl' = "resolve" => cmd = "start")
        /\ (ctl' = "begin" => cmd # "start")
    BY <1>4 DEF ReapFinished, ReapJoin, Goes
  <2>2. UNCHANGED <<cmd, request, reply>> /\ ctl \in {"reap", "reap_join"}
    BY <1>4 DEF ReapFinished, ReapJoin, Goes
  <2>3. ControlPlace'
    BY <1>1, <2>1, <2>2
  <2>4. OtherTypes'
    BY <1>1, <1>4, <2>1, <2>2 DEF ReapFinished, ReapJoin
  <2>5. QED BY <1>1, <1>2, <2>3, <2>4
<1>5. CASE ResolveRun
  <2>1. request' \in {AutoRun} \cup Runs
    BY <1>3, <1>5, NextRunIsNew DEF ResolveRun, Runs, Goes
  <2>2. ctl' = "begin" => request' \in 0 .. MaxRequest + starts + 1
    BY <1>3, <1>5, NextRunIsNew DEF ResolveRun, Goes
  <2>3. QED BY <1>1, <1>2, <1>3, <1>5, <2>1, <2>2 DEF ResolveRun, Goes, Answer
<1>6. CASE PollStartup \/ NothingToHalt
  BY <1>1, <1>2, <1>6 DEF PollStartup, NothingToHalt, Goes, Answer, AfterStop
<1>7. CASE HaltRun
  <2>1. OtherTypes'
    BY <1>1, <1>7 DEF HaltRun, Halt, Goes
  <2>2. ControlPlace'
    BY <1>1, <1>7 DEF HaltRun, Halt, Goes
  <2>3. QED BY <1>1, <1>2, <2>1, <2>2
<1>8. CASE StopJoined
  BY <1>1, <1>2, <1>8 DEF StopJoined, StopEnds, StopVerdict, AfterStop, Goes, Answer
<1>9. CASE AskRunning \/ ShutDown \/ Destroy
  <2>1. OtherTypes'
    BY <1>1, <1>9 DEF AskRunning, ThenGo, ShutDown, Destroy, Goes, Answer
  <2>2. ControlPlace'
    BY <1>1, <1>9 DEF AskRunning, ThenGo, ShutDown, Destroy, Goes, Answer
  <2>3. QED BY <1>1, <1>2, <2>1, <2>2
<1>10. CASE Operator
  <2>1. CASE LeaveLoop
    BY <1>1, <1>2, <2>1 DEF LeaveLoop, Goes
  <2>2. ASSUME NEW n \in {AutoRun} \cup 0 .. MaxRequest, Receive("start", n) PROVE OtherTypes' /\ RunBounds' /\ ControlPlace'
    BY <1>1, <1>2, <1>3, <2>2 DEF Receive, Goes, AutoRun, Runs
  <2>3. ASSUME NEW c \in {"stop", "pause", "resume", "shutdown"}, Receive(c, AutoRun) PROVE OtherTypes' /\ RunBounds' /\ ControlPlace'
    BY <1>1, <1>2, <1>3, <2>3 DEF Receive, Goes, AutoRun
  <2>4. QED BY <1>10, <2>1, <2>2, <2>3 DEF Operator
<1>11. QED BY <1>4, <1>5, <1>6, <1>7, <1>8, <1>9, <1>10

\* So do the steps that start an acquisition, mark its last row, or end the process.
LEMMA TypesRun ==
  ASSUME TypeInv, BeginRun \/ ResumeRun \/ PauseJoined \/ Crash
  PROVE  OtherTypes' /\ RunBounds' /\ ControlPlace'
<1> USE DEF TypeInv, OtherTypes, RunBounds, ControlPlace
<1>1. MaxRequest \in Nat /\ MaxStarts \in Nat /\ starts \in Nat
  BY ServiceAssumption
<1>2. ASSUME NEW config \in Config, ctl = "begin", config.run <= MaxRequest + starts + 1,
             StartLocked(config)
      PROVE  OtherTypes' /\ RunBounds' /\ ControlPlace'
  <2>1. RunsLogged' = RunsLogged /\ starts' = starts + 1 /\ starts < MaxStarts
    BY <1>2 DEF StartLocked, kept, RunsLogged, Logged
  <2>2. RunBounds'
    <3>1. RunsLogged \subseteq Nat /\ cfg' = config
      BY <1>2 DEF StartLocked, RunsLogged, Logged, Row, File, Runs
    <3>2. \A n \in RunsLogged : n <= MaxRequest + (starts + 1)
      BY <1>1, <3>1
    <3>3. QED BY <1>1, <1>2, <2>1, <3>1, <3>2
  <2>3. OtherTypes'
    <3>1. cfg' \in Config /\ subrun' \in Subruns /\ starts' \in 0 .. MaxStarts
      BY <1>1, <1>2, <2>1 DEF StartLocked, Config
    <3>2. QED BY <1>2, <3>1 DEF StartLocked, kept
  <2>4. ControlPlace'
    BY <1>2 DEF StartLocked
  <2>5. QED BY <2>2, <2>3, <2>4
<1>3. ASSUME Refuse PROVE OtherTypes' /\ RunBounds' /\ ControlPlace'
  <2>1. RunsLogged' = RunsLogged
    BY <1>3 DEF Refuse, kept, RunsLogged, Logged
  <2>2. QED BY <1>3, <2>1 DEF Refuse, serviceVars, runVars, kept, limits, Goes, Answer
<1>4. CASE BeginRun
  <2>1. CASE Refuse BY <1>3, <2>1
  <2>2. CASE ~Refuse
    <3> DEFINE config == [run |-> request, subrun_start |-> 0, allow_existing |-> FALSE]
    <3>1. ctl = "begin" /\ cmd = "start" /\ StartLocked(config)
      BY <1>4, <2>2 DEF BeginRun
    <3>2. config \in Config /\ config.run <= MaxRequest + starts + 1
      BY <1>1, <3>1 DEF Config, Runs, Subruns
    <3>3. QED BY <1>2, <3>1, <3>2
  <2>3. QED BY <2>1, <2>2
<1>5. CASE ResumeRun
  <2>1. CASE Refuse BY <1>3, <2>1
  <2>2. CASE ~Refuse
    <3> DEFINE config == [cfg EXCEPT !.allow_existing = TRUE]
    <3>1. ctl = "begin" /\ StartLocked(config)
      BY <1>5, <2>2 DEF ResumeRun
    <3>2. config \in Config /\ config.run = cfg.run /\ cfg.run \in Nat
      <4>1. cfg \in [run : Runs, subrun_start : Subruns, allow_existing : BOOLEAN] BY DEF Config
      <4>2. config \in [run : Runs, subrun_start : Subruns, allow_existing : BOOLEAN] /\ config.run = cfg.run
        BY <4>1
      <4>3. cfg.run \in Nat BY <1>1, <4>1 DEF Runs
      <4>4. QED BY <4>2, <4>3 DEF Config
    <3>3. cfg.run <= MaxRequest + starts + 1
      BY <1>1, <3>2
    <3>4. QED BY <1>2, <3>1, <3>2, <3>3
  <2>3. QED BY <2>1, <2>2
<1>6. CASE PauseJoined
  <2>1. CurrentSubrun + 1 \in Nat
    BY PlaceTypes
  <2>2. ctl = "join" /\ ctl' = "recv"
    BY <1>6 DEF PauseJoined, PauseEnds, Goes
  <2>3. CASE PauseTo(CurrentSubrun + 1)
    <3>1. cfg' \in Config /\ cfg'.run = cfg.run
      BY <2>1, <2>3 DEF PauseTo, Config, Subruns
    <3>2. RunsLogged' = RunsLogged /\ run_log' \in SUBSET Row
      BY <2>1, <2>3, LogTyped
    <3>3. QED BY <1>6, <2>2, <2>3, <3>1, <3>2 DEF PauseJoined, PauseEnds, PauseTo, Answer, runVars, limits
  <2>4. CASE ~PauseTo(CurrentSubrun + 1)
    <3>1. UNCHANGED <<cfg, run_log>> /\ state' = "error" /\ reply' = "error"
      BY <1>6, <2>4 DEF PauseJoined, PauseEnds, PauseFailed, PauseUnmarked, Answer
    <3>2. RunsLogged' = RunsLogged
      BY <3>1 DEF RunsLogged, Logged
    <3>3. QED BY <1>6, <2>2, <3>1, <3>2 DEF PauseJoined, PauseEnds, runVars, limits
  <2>5. QED BY <2>3, <2>4
<1>7. CASE Crash
  <2>1. RunsLogged' = RunsLogged
    BY <1>7 DEF Crash, kept, RunsLogged, Logged
  <2>2. cfg' \in Config /\ cfg'.run = 0 /\ subrun' \in Subruns
    BY <1>1, <1>7 DEF Crash, NoConfig, Config, Runs, Subruns
  <2>3. OtherTypes'
    BY <1>7, <2>2 DEF Crash, kept, limits
  <2>4. QED BY <1>1, <1>7, <2>1, <2>2, <2>3 DEF Crash, kept, limits
<1>8. QED BY <1>4, <1>5, <1>6, <1>7

\* The acquisition thread leaves the control thread, the configuration and the
\* bounds alone; of the run log it may add a row of its own run.
LEMMA TypesAcquisition ==
  ASSUME TypeInv, Acquisition
  PROVE  OtherTypes' /\ RunBounds' /\ ControlPlace'
<1> USE DEF TypeInv, OtherTypes
<1> DEFINE Rows == \/ UNCHANGED run_log
                   \/ \E text \in {"completed", "stopped", "error"} : InsertRow(text)
           Rest == UNCHANGED <<ctl, cmd, request, reply, cfg, starts, faults, stop_requested>>
           Own  == /\ thread' \in {"acquire", "emit", "write", "seal", "leave", "exited"}
                   /\ subrun' \in Subruns /\ events' \in Nat /\ files' \in SUBSET File /\ torn' \in SUBSET files'
                   /\ state' \in {"idle", "error", state} /\ last_exit' \in {0, 1, last_exit}
                   /\ published' \in Nat
<1>1. CurrentFile \in File
  BY LogTyped
<1>2. ASSUME Rows, Rest, Own PROVE OtherTypes' /\ RunBounds' /\ ControlPlace'
  <2>1. run_log' \in SUBSET Row /\ (RunsLogged' = RunsLogged \/ RunsLogged' = RunsLogged \cup {cfg.run})
    <3>1. CASE UNCHANGED run_log BY <3>1 DEF RunsLogged, Logged
    <3>2. CASE ~UNCHANGED run_log BY <1>2, <3>2, LogTyped
    <3>3. QED BY <3>1, <3>2
  <2>2. OtherTypes'
    BY <1>2, <2>1
  <2>3. ControlPlace'
    BY <1>2 DEF ControlPlace
  <2>4. RunBounds'
    <3>1. RunsLogged \subseteq Nat /\ cfg.run \in Nat
      BY DEF RunsLogged, Logged, Row, File, Runs, Config
    <3>2. CASE RunsLogged' = RunsLogged
      BY <1>2, <3>2 DEF RunBounds
    <3>3. CASE RunsLogged' = RunsLogged \cup {cfg.run}
      BY <1>2, <3>1, <3>3 DEF RunBounds
    <3>4. QED BY <2>1, <3>2, <3>3
  <2>5. QED BY <2>2, <2>3, <2>4
<1> USE DEF apart, ctlVars, limits, ThreadGoes
<1>3. CASE CoreResolve
  <2>1. Rows /\ Rest /\ Own
    BY <1>3 DEF CoreResolve, kept
  <2>2. QED BY <1>2, <2>1
<1>4. CASE StartupStatus
  <2>1. Rows /\ Rest /\ Own
    BY <1>4 DEF StartupStatus, kept
  <2>2. QED BY <1>2, <2>1
<1>5. CASE FirstFile \/ SameFile
  <2>1. Rows /\ Rest /\ Own
    BY <1>5 DEF FirstFile, SameFile, Truncate, kept
  <2>2. QED BY <1>2, <2>1
<1>6. CASE NextFile
  <2>1. Rows
    BY <1>6 DEF NextFile, InsertFails
  <2>2. Rest
    BY <1>6 DEF NextFile
  <2>3. Own
    BY <1>6 DEF NextFile, Truncate, Subruns
  <2>4. QED BY <1>2, <2>1, <2>2, <2>3
<1>7. CASE PublishFrame \/ WriteFrame
  <2>1. Rows /\ Rest /\ Own
    BY <1>1, <1>7 DEF PublishFrame, WriteFrame, kept
  <2>2. QED BY <1>2, <2>1
<1>8. CASE WriteFails
  <2>1. Rows /\ Rest /\ Own
    BY <1>1, <1>8 DEF WriteFails, InsertFails
  <2>2. QED BY <1>2, <2>1
<1>9. CASE EndRun
  <2>1. Rows /\ Rest /\ Own
    BY <1>9 DEF EndRun, kept
  <2>2. QED BY <1>2, <2>1
<1>10. CASE SealFile
  <2>1. Rows
    BY <1>10 DEF SealFile, InsertFails, FinalStatus
  <2>2. Rest /\ Own
    BY <1>10 DEF SealFile
  <2>3. QED BY <1>2, <2>1, <2>2
<1>11. CASE RunReturns
  <2>1. Rows
    BY <1>11 DEF RunReturns, kept
  <2>2. Rest /\ Own
    BY <1>11 DEF RunReturns, kept
  <2>3. QED BY <1>2, <2>1, <2>2
<1>12. QED BY <1>3, <1>4, <1>5, <1>6, <1>7, <1>8, <1>9, <1>10, <1>11 DEF Acquisition

LEMMA TypeInvStep == ASSUME TypeInv, [Next]_vars PROVE TypeInv'
<1>1. CASE UNCHANGED vars
  <2>1. UNCHANGED RunsLogged
    BY <1>1 DEF vars, kept, RunsLogged, Logged
  <2>2. Booleans'
    BY <1>1 DEF vars, TypeInv, Booleans, serviceVars, runVars
  <2>3. OtherTypes' /\ RunBounds' /\ ControlPlace'
    BY <1>1, <2>1
    DEF vars, TypeInv, OtherTypes, RunBounds, ControlPlace, serviceVars, runVars, ctlVars, kept, limits
  <2>4. QED BY <2>2, <2>3 DEF TypeInv
<1>2. CASE Control \/ Operator \/ Crash
  <2>1. OtherTypes' /\ RunBounds' /\ ControlPlace'
    BY <1>2, TypesControl, TypesRun DEF Control
  <2>2. QED BY <1>2, <2>1, BooleansControl DEF TypeInv
<1>3. CASE Acquisition
  BY <1>3, BooleansRun, TypesAcquisition DEF TypeInv
<1>4. QED BY <1>1, <1>2, <1>3 DEF Next, Ended

-----------------------------------------------------------------------------
(* Who owns the thread.                                                     *)

Ownership ==
  /\ RunIsOwned
  /\ ctl = "join" => ~handle
  /\ ctl \in {"shut", "destroy", "gone"} => ~running
  /\ state = "paused" => ~running /\ last_exit = 0
  /\ thread = "exited" => last_exit = (IF failed THEN 1 ELSE 0)

LEMMA OwnershipInit == ASSUME Init PROVE Ownership
BY DEF Init, Ownership, RunIsOwned

\* Only RunReturns ends a run, only StartLocked begins one, and who takes the
\* thread out of worker_ waits for it.
LEMMA OwnershipStep ==
  ASSUME TypeInv, Ownership, [Next]_vars
  PROVE  Ownership'
<1> USE DEF Ownership, RunIsOwned, serviceVars, runVars, limits, kept, Goes, Answer
<1>0. /\ running \in BOOLEAN /\ handle \in BOOLEAN /\ failed \in BOOLEAN
      /\ ControlPlace
  BY DEF TypeInv, Booleans
<1>1. CASE UNCHANGED vars
  BY <1>1 DEF vars, ctlVars
<1>2. CASE ReapFinished \/ ReapJoin
  BY <1>0, <1>2 DEF ReapFinished, ReapJoin
<1>3. CASE ResolveRun \/ PollStartup
  BY <1>3 DEF ResolveRun, PollStartup
<1>4. CASE BeginRun \/ ResumeRun
  <2>1. CASE Refuse
    BY <2>1 DEF Refuse
  <2>2. ASSUME NEW config, ~running, StartLocked(config) PROVE Ownership'
    BY <1>0, <2>2 DEF StartLocked
  <2>3. QED BY <1>4, <2>1, <2>2 DEF BeginRun, ResumeRun
<1>5. CASE NothingToHalt
  BY <1>5 DEF NothingToHalt, AfterStop
<1>6. CASE HaltRun
  BY <1>6 DEF HaltRun, Halt
<1>7. CASE StopJoined
  BY <1>0, <1>7 DEF StopJoined, StopEnds, StopVerdict, AfterStop, ControlPlace
<1>8. CASE PauseJoined
  BY <1>8 DEF PauseJoined, PauseEnds, PauseFailed, PauseTo, PauseUnmarked
<1>9. CASE AskRunning \/ ShutDown \/ Destroy
  BY <1>0, <1>9 DEF AskRunning, ThenGo, ShutDown, Destroy
<1>10. CASE Operator
  BY <1>10 DEF Operator, Receive, LeaveLoop
<1>11. CASE Crash
  BY <1>11 DEF Crash
<1>12. CASE Acquisition
  <2> USE DEF apart, ctlVars, ThreadGoes
  <2>1. CASE CoreResolve \/ StartupStatus
    BY <1>0, <2>1 DEF CoreResolve, StartupStatus
  <2>2. CASE FirstFile \/ NextFile \/ SameFile
    BY <1>0, <2>2 DEF FirstFile, NextFile, SameFile
  <2>3. CASE PublishFrame \/ WriteFrame \/ WriteFails
    BY <1>0, <2>3 DEF PublishFrame, WriteFrame, WriteFails
  <2>4. CASE EndRun \/ SealFile
    BY <1>0, <2>4 DEF EndRun, SealFile
  <2>5. CASE RunReturns
    BY <1>0, <2>5 DEF RunReturns
  <2>6. QED BY <1>12, <2>1, <2>2, <2>3, <2>4, <2>5 DEF Acquisition
<1>13. QED
  BY <1>1, <1>2, <1>3, <1>4, <1>5, <1>6, <1>7, <1>8, <1>9, <1>10, <1>11, <1>12
  DEF Next, Control, Ended

-----------------------------------------------------------------------------
(* What was answered, and what the daemon's state says.                     *)

Answers ==
  /\ HaltedMeansOver /\ StartedMeansConnected
  /\ ~running /\ last_exit = 1 => state = "error"
  /\ ready_ok => ready
  /\ ctl = "poll" => cmd \in {"start", "resume"}

LEMMA AnswersInit == ASSUME Init PROVE Answers
BY DEF Init, Answers, HaltedMeansOver, StartedMeansConnected

LEMMA AnswersStep ==
  ASSUME TypeInv, Ownership, Answers, [Next]_vars
  PROVE  Answers'
<1> USE DEF Answers, HaltedMeansOver, StartedMeansConnected, serviceVars, runVars, limits, kept,
            Goes, Answer
<1>0. /\ running \in BOOLEAN /\ ready \in BOOLEAN /\ ready_ok \in BOOLEAN /\ failed \in BOOLEAN
      /\ last_exit \in {0, 1}
      /\ ControlPlace
  BY DEF TypeInv, Booleans, OtherTypes
<1>1. CASE UNCHANGED vars
  BY <1>1 DEF vars, ctlVars
<1>2. CASE ReapFinished \/ ReapJoin
  BY <1>0, <1>2 DEF ReapFinished, ReapJoin
<1>3. CASE ResolveRun
  BY <1>0, <1>3 DEF ResolveRun, ControlPlace
<1>4. CASE PollStartup
  BY <1>0, <1>4 DEF PollStartup
<1>5. CASE BeginRun \/ ResumeRun
  <2>1. CASE Refuse
    BY <1>0, <2>1 DEF Refuse, ControlPlace
  <2>2. ASSUME NEW config, ctl = "begin", StartLocked(config) PROVE Answers'
    BY <1>0, <2>2 DEF StartLocked, ControlPlace
  <2>3. QED BY <1>5, <2>1, <2>2 DEF BeginRun, ResumeRun
<1>6. CASE NothingToHalt
  BY <1>0, <1>6 DEF NothingToHalt, AfterStop, Ownership, ControlPlace
<1>7. CASE HaltRun
  BY <1>7 DEF HaltRun, Halt
<1>8. CASE StopJoined
  BY <1>0, <1>8 DEF StopJoined, StopEnds, StopVerdict, AfterStop, Ownership, RunIsOwned, ControlPlace
<1>9. CASE PauseJoined
  BY <1>0, <1>9 DEF PauseJoined, PauseEnds, PauseFailed, PauseTo, PauseUnmarked, Ownership, RunIsOwned
<1>10. CASE AskRunning \/ ShutDown \/ Destroy
  BY <1>0, <1>10 DEF AskRunning, ThenGo, ShutDown, Destroy
<1>11. CASE Operator
  BY <1>0, <1>11 DEF Operator, Receive, LeaveLoop
<1>12. CASE Crash
  BY <1>12 DEF Crash
<1>13. CASE Acquisition
  <2> USE DEF apart, ctlVars, ThreadGoes
  <2>1. CASE CoreResolve
    BY <1>0, <2>1 DEF CoreResolve
  <2>2. CASE StartupStatus
    BY <1>0, <2>2 DEF StartupStatus
  <2>3. CASE FirstFile \/ NextFile \/ SameFile
    BY <1>0, <2>3 DEF FirstFile, NextFile, SameFile
  <2>4. CASE PublishFrame \/ WriteFrame \/ WriteFails
    BY <1>0, <2>4 DEF PublishFrame, WriteFrame, WriteFails
  <2>5. CASE EndRun \/ SealFile
    BY <1>0, <2>5 DEF EndRun, SealFile
  <2>6. CASE RunReturns
    BY <1>0, <2>6 DEF RunReturns
  <2>7. QED BY <1>13, <2>1, <2>2, <2>3, <2>4, <2>5, <2>6 DEF Acquisition
<1>14. QED
  BY <1>1, <1>2, <1>3, <1>4, <1>5, <1>6, <1>7, <1>8, <1>9, <1>10, <1>11, <1>12, <1>13
  DEF Next, Control, Ended

-----------------------------------------------------------------------------
(* The place of a record: the daemon's from its count, the writer's from    *)
(* its own counters.                                                        *)

InStep == CurrentSubrun = subrun /\ EventsInFile = events

Place ==
  /\ events \in 0 .. EventsPerFile
  /\ thread = "resolve" => published = 0 /\ InStep
  /\ thread \in {"acquire", "seal"} => InStep
  /\ thread = "emit" =>
       /\ events < EventsPerFile
       /\ \/ InStep
          \/ events = 0 /\ CurrentSubrun + 1 = subrun /\ EventsInFile = EventsPerFile
  /\ thread = "write" => CurrentSubrun = subrun /\ EventsInFile = events + 1
  /\ thread = "leave" /\ ~failed => InStep
  /\ thread = "exited" /\ ctl = "join" /\ ~failed => InStep

\* One record more in the count: one event more in the same file, or the first of
\* the next one.
LEMMA Counted ==
  ASSUME TypeInv, published' = published + 1, cfg' = cfg
  PROVE  /\ EventsInFile < EventsPerFile =>
              CurrentSubrun' = CurrentSubrun /\ EventsInFile' = EventsInFile + 1
         /\ EventsInFile = EventsPerFile =>
              CurrentSubrun' = CurrentSubrun + 1 /\ EventsInFile' = 1
<1> DEFINE E == EventsPerFile  m == published - 1
<1>0. published \in Nat /\ cfg.subrun_start \in Nat /\ E \in Nat \ {0}
  BY ServiceAssumption DEF TypeInv, OtherTypes, Config, Subruns
<1>1. published' # 0 /\ published' - 1 = published
  BY <1>0
<1>2. /\ CurrentSubrun' = cfg.subrun_start + (published \div E)
      /\ EventsInFile' = (published % E) + 1
  BY <1>1 DEF CurrentSubrun, EventsInFile
<1>3. CASE published = 0
  <2>1. 0 \div E = 0 /\ 0 % E = 0
    <3>1. E * 0 + 0 = E * (0 \div E) + (0 % E) /\ 0 \div E \in Nat /\ 0 % E \in 0 .. E - 1 /\ 0 \in 0 .. E - 1
      BY <1>0, DivMod
    <3>2. QED BY <1>0, <3>1, OneQuotient
  <2>2. CurrentSubrun = cfg.subrun_start /\ EventsInFile = 0
    BY <1>0, <1>3 DEF CurrentSubrun, EventsInFile
  <2>3. QED BY <1>0, <1>2, <1>3, <2>1, <2>2
<1>4. CASE published # 0
  <2>1. m \in Nat /\ m + 1 = published
    BY <1>0, <1>4
  <2>2. CurrentSubrun = cfg.subrun_start + (m \div E) /\ EventsInFile = (m % E) + 1
    BY <1>4 DEF CurrentSubrun, EventsInFile
  <2>3. m \div E \in Nat /\ m % E \in 0 .. E - 1
    BY <1>0, <2>1, DivMod
  <2>4. /\ m % E < E - 1 => published \div E = m \div E /\ published % E = (m % E) + 1
        /\ m % E = E - 1 => published \div E = (m \div E) + 1 /\ published % E = 0
    BY <1>0, <2>1, NextPlace
  <2> HIDE DEF m, E
  <2>5. EventsInFile < E => m % E < E - 1
    BY <1>0, <2>2, <2>3
  <2>6. EventsInFile = E => m % E = E - 1
    BY <1>0, <2>2, <2>3
  <2>7. QED BY <1>0, <1>2, <2>2, <2>3, <2>4, <2>5, <2>6 DEF E
<1>5. QED BY <1>3, <1>4

LEMMA PlaceInit == ASSUME Init PROVE Place
BY ServiceAssumption DEF Init, Place

LEMMA PlaceStep ==
  ASSUME TypeInv, Ownership, Place, [Next]_vars
  PROVE  Place'
<1>0. /\ running \in BOOLEAN /\ failed \in BOOLEAN
      /\ published \in Nat /\ subrun \in Nat /\ events \in Nat /\ EventsPerFile \in Nat \ {0}
      /\ CurrentSubrun \in Nat /\ EventsInFile \in 0 .. EventsPerFile
  BY PlaceTypes, ServiceAssumption DEF TypeInv, Booleans, OtherTypes, Subruns
<1>a. ASSUME UNCHANGED <<published, cfg>>
      PROVE  UNCHANGED <<CurrentSubrun, EventsInFile>>
  BY <1>a DEF CurrentSubrun, EventsInFile
<1>b. ASSUME UNCHANGED <<published, cfg, runVars>>, ctl' = "join" => ctl = "join" \/ thread # "exited"
      PROVE  Place'
  BY <1>0, <1>a, <1>b DEF Place, InStep, runVars
<1>c. ASSUME cfg'.subrun_start = subrun', published' = 0, events' = 0
      PROVE  InStep'
  <2>1. cfg'.subrun_start \in Nat
    BY TypeInvStep DEF TypeInv, OtherTypes, Config, Subruns
  <2>2. CurrentSubrun' = cfg'.subrun_start + 0 /\ EventsInFile' = 0
    BY <1>c DEF CurrentSubrun, EventsInFile
  <2>3. CurrentSubrun' = subrun'
    BY <1>c, <2>1, <2>2
  <2>4. QED BY <1>c, <2>2, <2>3 DEF InStep
<1>1. CASE UNCHANGED vars
  BY <1>1, <1>b DEF vars, ctlVars, serviceVars
<1>2. CASE ReapFinished \/ ReapJoin \/ ResolveRun \/ PollStartup \/ NothingToHalt \/ AskRunning
           \/ ShutDown \/ Destroy \/ Operator
  <2>1. UNCHANGED <<published, cfg, runVars>>
    BY <1>2 DEF ReapFinished, ReapJoin, ResolveRun, PollStartup, NothingToHalt, AskRunning,
                ThenGo, ShutDown, Destroy, Operator, Receive, LeaveLoop, serviceVars
  <2>2. ctl' # "join"
    BY <1>2 DEF ReapFinished, ReapJoin, ResolveRun, PollStartup, NothingToHalt, AskRunning,
                ThenGo, ShutDown, Destroy, Operator, Receive, LeaveLoop, Goes, AfterStop
  <2>3. QED BY <1>b, <2>1, <2>2
<1>3. CASE HaltRun
  <2>1. thread # "exited" /\ UNCHANGED <<published, cfg, runVars>>
    BY <1>3 DEF HaltRun, Halt, Ownership, RunIsOwned
  <2>2. QED BY <1>b, <2>1
<1>4. CASE StopJoined
  BY <1>4, <1>b DEF StopJoined, StopEnds, Goes
<1>5. CASE PauseJoined
  <2>1. thread' = "exited" /\ ctl' = "recv" /\ events' = events
    BY <1>5 DEF PauseJoined, PauseEnds, Goes, runVars
  <2>2. QED BY <2>1 DEF Place
<1>6. CASE BeginRun \/ ResumeRun
  <2>1. CASE Refuse
    BY <1>b, <2>1 DEF Refuse, Goes, serviceVars
  <2>2. ASSUME NEW config, StartLocked(config) PROVE Place'
    <3>1. InStep' /\ thread' = "resolve" /\ published' = 0 /\ events' = 0
      BY <1>c, <2>2 DEF StartLocked
    <3>2. QED BY <1>0, <3>1 DEF Place
  <2>3. QED BY <1>6, <2>1, <2>2 DEF BeginRun, ResumeRun
<1>7. CASE Crash
  BY <1>0, <1>7 DEF Crash, Place
<1>8. CASE Acquisition
  <2> USE DEF apart, ctlVars, ThreadGoes
  <2>1. cfg' = cfg
    BY <1>8 DEF Acquisition, CoreResolve, StartupStatus, FirstFile, NextFile, SameFile,
                PublishFrame, WriteFrame, WriteFails, EndRun, SealFile, RunReturns
  <2>2. CASE CoreResolve \/ StartupStatus
    <3>1. UNCHANGED <<CurrentSubrun, EventsInFile>>
      BY <1>a, <2>1, <2>2 DEF CoreResolve, StartupStatus
    <3>2. QED BY <1>0, <2>2, <3>1 DEF CoreResolve, StartupStatus, Place, InStep
  <2>3. CASE FirstFile \/ NextFile \/ SameFile
    <3>1. UNCHANGED <<CurrentSubrun, EventsInFile>>
      BY <1>a, <2>1, <2>3 DEF FirstFile, NextFile, SameFile
    <3>2. CASE FirstFile
      <4>1. CurrentSubrun = subrun /\ EventsInFile = 0
        BY <3>2 DEF FirstFile, Place, InStep, EventsInFile
      <4>2. QED BY <1>0, <3>1, <3>2, <4>1 DEF FirstFile, Truncate, Place, InStep
    <3>3. CASE NextFile
      <4>1. CurrentSubrun = subrun /\ EventsInFile = EventsPerFile
        BY <1>0, <3>3 DEF NextFile, Place, InStep
      <4>2. QED BY <1>0, <3>1, <3>3, <4>1 DEF NextFile, Truncate, Place
    <3>4. CASE SameFile
      BY <1>0, <3>1, <3>4 DEF SameFile, Place, InStep
    <3>5. QED BY <2>3, <3>2, <3>3, <3>4
  <2>4. CASE PublishFrame
    <3>1. /\ published' = published + 1 /\ UNCHANGED <<subrun, events>> /\ thread' = "write"
          /\ events < EventsPerFile
          /\ InStep \/ (events = 0 /\ CurrentSubrun + 1 = subrun /\ EventsInFile = EventsPerFile)
      BY <2>4 DEF PublishFrame, Place
    <3>2. CurrentSubrun' = subrun' /\ EventsInFile' = events' + 1
      BY <1>0, <2>1, <3>1, Counted DEF InStep
    <3>3. QED BY <1>0, <3>1, <3>2 DEF Place
  <2>5. CASE WriteFrame
    <3>1. UNCHANGED <<CurrentSubrun, EventsInFile>>
      BY <1>a, <2>1, <2>5 DEF WriteFrame
    <3>2. QED BY <1>0, <2>5, <3>1 DEF WriteFrame, Place, InStep
  <2>6. CASE WriteFails
    BY <2>6 DEF WriteFails, Place
  <2>7. CASE EndRun \/ SealFile \/ RunReturns
    <3>1. UNCHANGED <<CurrentSubrun, EventsInFile>>
      BY <1>a, <2>1, <2>7 DEF EndRun, SealFile, RunReturns
    <3>2. QED BY <1>0, <2>7, <3>1 DEF EndRun, SealFile, RunReturns, Place, InStep
  <2>8. QED BY <1>8, <2>2, <2>3, <2>4, <2>5, <2>6, <2>7 DEF Acquisition
<1>9. QED BY <1>1, <1>2, <1>3, <1>4, <1>5, <1>6, <1>7, <1>8 DEF Next, Control, Ended

\* What the status line shows is a consequence.
LEMMA PlaceIsKnown == ASSUME TypeInv, Ownership, Place PROVE DaemonKnowsPlace
<1>1. SUFFICES ASSUME running, ~failed, thread # "emit"
              PROVE  CurrentSubrun = subrun
                     /\ EventsInFile = events + (IF thread = "write" THEN 1 ELSE 0)
  BY DEF DaemonKnowsPlace
<1>2. thread \in {"resolve", "acquire", "write", "seal", "leave"} /\ events \in Nat
  BY <1>1 DEF TypeInv, OtherTypes, Ownership, RunIsOwned
<1>3. QED BY <1>1, <1>2 DEF Place, InStep

-----------------------------------------------------------------------------
(* Files and rows, while the run log is reliable and the daemon lives.      *)

Reliable == faults \intersect {"database", "crash"} = {}
Writing  == {"acquire", "emit", "write", "seal"}

\* Those of the acquisition's run have subruns below n.
Before(S, n) == \A file \in S : file[1] = cfg.run => file[2] < n

\* Every file with records has its row, but the one that is being written.
FilesHaveRows ==
  Records \subseteq Logged \cup (IF thread \in Writing /\ events > 0 THEN {CurrentFile} ELSE {})

\* The current subrun is new: it has no row, and no file before its first record.
CurrentIsNew ==
  /\ thread = "resolve" /\ cfg.allow_existing => Before(Logged, subrun)
  /\ thread \in Writing => Before(Logged, subrun)
  /\ thread = "leave" \/ (thread = "exited" /\ ctl = "join") =>
       /\ ~failed => Before(Logged, subrun + 1)
       /\ ~failed /\ events > 0 => CurrentFile \in Logged

Numbers == Reliable => FilesHaveRows /\ CurrentIsNew /\ PauseIsResumable

LEMMA NumbersInit == ASSUME Init PROVE Numbers
<1>1. FilesHaveRows /\ PauseIsResumable
  BY DEF Init, FilesHaveRows, PauseIsResumable, Records
<1>2. CurrentIsNew
  BY DEF Init, CurrentIsNew, Writing
<1>3. QED BY <1>1, <1>2 DEF Numbers

\* The writer's file is not in the run log, so its row can be inserted.
LEMMA CurrentNotLogged ==
  ASSUME TypeInv, Reliable, CurrentIsNew, thread \in Writing
  PROVE  CurrentFile \notin Logged /\ ~InsertFails
<1>1. Before(Logged, subrun) /\ subrun \in Nat
  BY DEF CurrentIsNew, TypeInv, OtherTypes, Subruns
<1>2. CurrentFile \notin Logged
  BY <1>1 DEF Before, CurrentFile
<1>3. QED BY <1>2 DEF InsertFails, Reliable

\* A row for the writer's file completes the run log.
LEMMA RowCompletesLog ==
  ASSUME TypeInv, FilesHaveRows, CurrentIsNew, thread \in Writing, UNCHANGED cfg,
         NEW text \in {"completed", "stopped", "error"}, InsertRow(text)
  PROVE  /\ Records \subseteq Logged' /\ CurrentFile \in Logged'
         /\ \A file \in Logged' : file[1] = cfg'.run => file[2] < subrun + 1
<1>1. Logged' = Logged \cup {CurrentFile} /\ CurrentFile \in File
  BY LogTyped
<1>2. Before(Logged, subrun) /\ subrun \in Nat /\ Logged \subseteq File
  BY DEF CurrentIsNew, TypeInv, OtherTypes, Subruns, Logged, Row
<1>3. \A file \in Logged' : file[1] = cfg'.run => file[2] < subrun + 1
  <2>1. TAKE file \in Logged'
  <2>2. CASE file \in Logged
    <3>1. file[1] = cfg'.run => file[2] < subrun
      BY <1>2, <2>2 DEF Before
    <3>2. file[2] \in Nat
      BY <1>2, <2>2 DEF File, Subruns
    <3>3. QED BY <1>2, <3>1, <3>2
  <2>3. CASE file = CurrentFile
    BY <1>2, <2>3 DEF CurrentFile
  <2>4. QED BY <1>1, <2>2, <2>3
<1>4. QED BY <1>1, <1>3 DEF FilesHaveRows, Before

\* Commands that leave run log, files and configuration alone.
LEMMA NumbersControl ==
  ASSUME TypeInv, Ownership, Numbers, Reliable,
         \/ ReapFinished \/ ReapJoin \/ ResolveRun \/ PollStartup \/ NothingToHalt \/ HaltRun
         \/ StopJoined \/ AskRunning \/ ShutDown \/ Destroy \/ Operator \/ Refuse
  PROVE  FilesHaveRows' /\ CurrentIsNew' /\ PauseIsResumable'
<1> USE DEF serviceVars, runVars, kept, limits
<1>1. UNCHANGED <<runVars, kept, limits, cfg, published>>
  BY DEF ReapFinished, ReapJoin, ResolveRun, PollStartup, NothingToHalt, HaltRun, Halt, StopJoined,
         StopEnds, AskRunning, ThenGo, ShutDown, Destroy, Operator, Receive, LeaveLoop, Refuse
<1>2. Logged' = Logged /\ CurrentFile' = CurrentFile /\ Records' = Records
  BY <1>1 DEF Logged, CurrentFile, Records
<1>3. ctl' = "join" => thread # "exited"
  BY DEF ReapFinished, ReapJoin, ResolveRun, PollStartup, NothingToHalt, HaltRun, Halt, StopJoined,
         StopEnds, AskRunning, ThenGo, ShutDown, Destroy, Operator, Receive, LeaveLoop, Refuse,
         Goes, AfterStop, Ownership, RunIsOwned
<1>4. state' = "paused" => state = "paused"
  <2>1. CASE NothingToHalt \/ HaltRun \/ StopJoined
    BY <2>1 DEF NothingToHalt, HaltRun, Halt, StopJoined, StopEnds, StopVerdict
  <2>2. CASE ~(NothingToHalt \/ HaltRun \/ StopJoined)
    BY <2>2 DEF ReapFinished, ReapJoin, ResolveRun, PollStartup, AskRunning, ThenGo, ShutDown,
                Destroy, Operator, Receive, LeaveLoop, Refuse
  <2>3. QED BY <2>1, <2>2
<1>5. FilesHaveRows'
  BY <1>1, <1>2 DEF Numbers, FilesHaveRows
<1>6. CurrentIsNew'
  BY <1>1, <1>2, <1>3 DEF Numbers, CurrentIsNew, Before
<1>7. PauseIsResumable'
  BY <1>1, <1>2, <1>4 DEF Numbers, Reliable, PauseIsResumable
<1>8. QED BY <1>5, <1>6, <1>7

\* A pause marks the last row, and continues with the subrun after it.
LEMMA NumbersPause ==
  ASSUME TypeInv, Ownership, Place, Numbers, Reliable, PauseJoined
  PROVE  FilesHaveRows' /\ CurrentIsNew' /\ PauseIsResumable'
<1>1. /\ thread = "exited" /\ ctl = "join" /\ ctl' = "recv"
      /\ UNCHANGED <<thread, subrun, events, failed, Records, published>>
  BY DEF PauseJoined, PauseEnds, Goes, runVars, Records
<1>2. Records \subseteq Logged
  BY <1>1 DEF Numbers, FilesHaveRows, Writing
<1>3. Logged' = Logged
  <2>1. CASE PauseTo(CurrentSubrun + 1)
    BY <2>1, PlaceTypes, LogTyped
  <2>2. CASE ~PauseTo(CurrentSubrun + 1)
    BY <2>2 DEF PauseJoined, PauseEnds, PauseFailed, PauseUnmarked, Logged
  <2>3. QED BY <2>1, <2>2
<1>4. FilesHaveRows'
  BY <1>1, <1>2, <1>3 DEF FilesHaveRows
<1>5. CurrentIsNew'
  BY <1>1 DEF CurrentIsNew, Writing
<1>6. PauseIsResumable'
  <2>1. CASE ~PauseTo(CurrentSubrun + 1)
    BY <2>1 DEF PauseJoined, PauseEnds, PauseFailed, PauseUnmarked, PauseIsResumable
  <2>2. CASE PauseTo(CurrentSubrun + 1)
    <3>1. ~failed /\ InStep
      BY <1>1, <2>2 DEF PauseTo, Ownership, Place, TypeInv, Booleans
    <3>2. subrun \in Nat /\ published \in Nat /\ cfg \in Config /\ run_log \subseteq Row /\ events \in Nat
      BY DEF TypeInv, OtherTypes, Subruns
    <3>3. cfg'.run = cfg.run /\ cfg'.subrun_start = subrun + 1
      BY <2>2, <3>1, <3>2 DEF PauseTo, InStep, Config
    <3>4. \A file \in Records' \cup Logged' : file[1] = cfg'.run => file[2] < cfg'.subrun_start
      BY <1>1, <1>2, <1>3, <3>1, <3>3 DEF Numbers, CurrentIsNew, Before
    <3>5. ASSUME published > 0
          PROVE  [file |-> <<cfg'.run, cfg'.subrun_start - 1>>, status |-> "paused"] \in run_log'
      <4>1. EventsInFile > 0
        <5>1. EventsInFile = ((published - 1) % EventsPerFile) + 1
          BY <3>2, <3>5 DEF EventsInFile
        <5>2. published - 1 \in Nat
          BY <3>2, <3>5
        <5>3. (published - 1) % EventsPerFile \in Nat
          BY <5>2, ServiceAssumption, DivMod
        <5>4. QED BY <5>1, <5>3
      <4>2. CurrentFile \in Logged
        BY <1>1, <3>1, <3>2, <4>1 DEF InStep, Numbers, CurrentIsNew
      <4>3. PICK row \in run_log : row.file = CurrentFile
        BY <4>2 DEF Logged
      <4>4. run_log' = {Mark(r, CurrentFile, "paused") : r \in run_log}
        BY <2>2, <3>1, <3>2, <3>5 DEF PauseTo, InStep, CurrentFile
      <4>5. Mark(row, CurrentFile, "paused") = [file |-> CurrentFile, status |-> "paused"]
        BY <3>2, <4>3 DEF Mark, Row
      <4>6. CurrentFile = <<cfg'.run, cfg'.subrun_start - 1>>
        BY <3>2, <3>3 DEF CurrentFile
      <4>7. QED BY <4>3, <4>4, <4>5, <4>6
    <3>6. QED BY <1>1, <3>4, <3>5 DEF PauseIsResumable
  <2>3. QED BY <2>1, <2>2
<1>7. QED BY <1>4, <1>5, <1>6

\* A new run has a new number; a resumed one goes on where the pause ended.
LEMMA NumbersStart ==
  ASSUME TypeInv, Ownership, Numbers, Reliable, BeginRun \/ ResumeRun, ~Refuse
  PROVE  FilesHaveRows' /\ CurrentIsNew' /\ PauseIsResumable'
<1>1. /\ ~running /\ thread' = "resolve" /\ state' = "running"
      /\ UNCHANGED <<Records, run_log>>
  BY DEF BeginRun, ResumeRun, StartLocked, kept, Records
<1>2. Logged' = Logged
  BY <1>1 DEF Logged
<1>3. FilesHaveRows'
  BY <1>1, <1>2 DEF Ownership, RunIsOwned, Numbers, FilesHaveRows, Writing
<1>4. CurrentIsNew'
  <2>1. CASE BeginRun
    BY <1>1, <2>1 DEF BeginRun, StartLocked, CurrentIsNew, Writing
  <2>2. CASE ResumeRun
    <3>1. state = "paused" /\ cfg' = [cfg EXCEPT !.allow_existing = TRUE] /\ subrun' = cfg'.subrun_start
      BY <2>2 DEF ResumeRun, StartLocked
    <3>2. cfg \in Config
      BY DEF TypeInv, OtherTypes
    <3>3. cfg'.run = cfg.run /\ subrun' = cfg.subrun_start
      BY <3>1, <3>2 DEF Config
    <3>4. Before(Logged, cfg.subrun_start)
      BY <3>1 DEF Numbers, Reliable, PauseIsResumable, Before
    <3>5. QED BY <1>1, <1>2, <3>3, <3>4 DEF CurrentIsNew, Before, Writing
  <2>3. QED BY <2>1, <2>2
<1>5. QED BY <1>1, <1>3, <1>4 DEF PauseIsResumable

\* What the acquisition thread does to files and rows.
LEMMA NumbersRun ==
  ASSUME TypeInv, Ownership, Place, Numbers, Reliable, Acquisition
  PROVE  FilesHaveRows' /\ CurrentIsNew' /\ PauseIsResumable' /\ Records \subseteq Records'
<1> USE DEF apart, ctlVars, limits, ThreadGoes, kept
<1>0. /\ FilesHaveRows /\ CurrentIsNew
      /\ subrun \in Nat /\ events \in Nat /\ failed \in BOOLEAN
  BY DEF Numbers, TypeInv, OtherTypes, Booleans, Subruns
<1>1. cfg' = cfg
  BY DEF Acquisition, CoreResolve, StartupStatus, FirstFile, NextFile, SameFile,
         PublishFrame, WriteFrame, WriteFails, EndRun, SealFile, RunReturns
<1>2. PauseIsResumable'
  <2>1. thread \notin {"none", "exited"} /\ state' \in {state, "error", "idle"}
    BY DEF Acquisition, CoreResolve, StartupStatus, FirstFile, NextFile, SameFile,
           PublishFrame, WriteFrame, WriteFails, EndRun, SealFile, RunReturns
  <2>2. state' # "paused"
    BY <2>1 DEF Ownership, RunIsOwned
  <2>3. QED BY <2>2 DEF PauseIsResumable
<1>a. ASSUME UNCHANGED run_log PROVE UNCHANGED Logged
  BY <1>a DEF Logged
<1>b. CurrentFile = <<cfg.run, subrun>>
  BY DEF CurrentFile
<1>3. CASE CoreResolve
  <2>1. UNCHANGED <<Logged, subrun, events, Records>> /\ Records \subseteq Logged
    BY <1>0, <1>3, <1>a DEF CoreResolve, FilesHaveRows, Writing, Records
  <2>2. FilesHaveRows'
    BY <2>1 DEF FilesHaveRows
  <2>3. CASE thread' = "leave"
    BY <1>2, <1>3, <2>1, <2>2, <2>3 DEF CoreResolve, CurrentIsNew, Writing
  <2>4. CASE thread' # "leave"
    <3>1. thread = "resolve" /\ thread' = "acquire" /\ (cfg.allow_existing \/ cfg.run \notin RunsLogged)
      BY <1>3, <2>4 DEF CoreResolve
    <3>2. Before(Logged, subrun)
      BY <1>0, <3>1 DEF CurrentIsNew, Before, RunsLogged
    <3>3. CurrentIsNew'
      BY <1>1, <2>1, <3>1, <3>2 DEF CurrentIsNew, Before
    <3>4. QED BY <1>2, <2>1, <2>2, <3>3
  <2>5. QED BY <2>3, <2>4
<1>4. CASE StartupStatus \/ SameFile \/ PublishFrame \/ EndRun
  <2>1. UNCHANGED <<Logged, subrun, events, Records, cfg>> /\ thread \in Writing /\ thread' \in Writing
    BY <1>1, <1>4, <1>a DEF StartupStatus, SameFile, PublishFrame, EndRun, Writing, Records
  <2>2. UNCHANGED CurrentFile
    BY <2>1 DEF CurrentFile
  <2>3. FilesHaveRows'
    BY <1>0, <2>1, <2>2 DEF FilesHaveRows
  <2>4. CurrentIsNew'
    BY <1>0, <2>1 DEF CurrentIsNew, Before, Writing
  <2>5. QED BY <1>2, <2>1, <2>3, <2>4
<1>5. CASE FirstFile
  <2>1. /\ UNCHANGED <<Logged, subrun, cfg>> /\ thread = "acquire" /\ thread' = "emit" /\ published = 0
        /\ Records' = Records \ {CurrentFile} /\ events' = 0
    BY <1>1, <1>5, <1>a DEF FirstFile, Truncate, CurrentFile, Records
  <2>2. events = 0
    BY <2>1 DEF Place, InStep, EventsInFile
  <2>3. Records \subseteq Logged /\ CurrentFile \notin Logged
    BY <1>0, <2>1, <2>2, CurrentNotLogged DEF FilesHaveRows, Writing
  <2>4. FilesHaveRows' /\ Records \subseteq Records'
    BY <2>1, <2>3 DEF FilesHaveRows
  <2>5. CurrentIsNew'
    BY <1>0, <2>1 DEF CurrentIsNew, Before, Writing
  <2>6. QED BY <1>2, <2>4, <2>5
<1>6. CASE NextFile
  <2>1. thread = "acquire" /\ thread' \in {"emit", "leave"} /\ ~InsertFails
    BY <1>0, <1>6, CurrentNotLogged DEF NextFile, Writing
  <2>2. /\ InsertRow("completed") /\ subrun' = subrun + 1
        /\ thread' = "leave" => failed'
        /\ Records' = Records \/ Records' = Records \ {<<cfg.run, subrun + 1>>}
        /\ thread' = "emit" => events' = 0
    BY <1>6, <2>1 DEF NextFile, Truncate, Records
  <2>3. Records \subseteq Logged' /\ \A file \in Logged' : file[1] = cfg'.run => file[2] < subrun + 1
    BY <1>0, <1>1, <2>1, <2>2, RowCompletesLog DEF Writing
  <2>4. FilesHaveRows'
    BY <2>1, <2>2, <2>3 DEF FilesHaveRows, Writing
  <2>5. Records \subseteq Records'
    <3>1. <<cfg.run, subrun + 1>> \notin Records
      BY <1>0, <1>1, <2>3
    <3>2. QED BY <2>2, <3>1
  <2>6. CurrentIsNew'
    BY <2>1, <2>2, <2>3 DEF CurrentIsNew, Before, Writing
  <2>7. QED BY <1>2, <2>4, <2>5, <2>6
<1>7. CASE WriteFrame
  <2>1. /\ UNCHANGED <<Logged, subrun, cfg>> /\ thread = "write" /\ thread' = "acquire"
        /\ Records' \subseteq Records \cup {CurrentFile} /\ Records \subseteq Records'
        /\ events' = events + 1
    BY <1>1, <1>7, <1>a DEF WriteFrame, Records
  <2>2. FilesHaveRows'
    <3>1. UNCHANGED CurrentFile /\ events' > 0
      BY <1>0, <2>1 DEF CurrentFile
    <3>2. Records \subseteq Logged \cup {CurrentFile}
      BY <1>0 DEF FilesHaveRows
    <3>3. QED BY <2>1, <3>1, <3>2 DEF FilesHaveRows, Writing
  <2>3. CurrentIsNew'
    BY <1>0, <2>1 DEF CurrentIsNew, Before, Writing
  <2>4. QED BY <1>2, <2>1, <2>2, <2>3
<1>8. CASE WriteFails \/ SealFile
  <2>1. /\ thread \in Writing /\ thread' = "leave" /\ UNCHANGED <<subrun, events, cfg>>
        /\ ~InsertFails /\ (SealFile => failed' = failed) /\ (WriteFails => failed' = TRUE)
    BY <1>0, <1>1, <1>8, CurrentNotLogged DEF WriteFails, SealFile, Writing
  <2>a. UNCHANGED Records
    <3>1. CASE UNCHANGED <<files, torn>>
      BY <3>1 DEF Records
    <3>2. CASE ~UNCHANGED <<files, torn>>
      <4>1. /\ events = 0
            /\ files' = files \cup {CurrentFile} /\ torn' = torn \cup {CurrentFile}
        BY <1>8, <3>2 DEF WriteFails, SealFile
      <4>2. CurrentFile \notin Records
        BY <1>0, <2>1, <4>1, CurrentNotLogged DEF FilesHaveRows
      <4>3. QED BY <4>1, <4>2 DEF Records
    <3>3. QED BY <3>1, <3>2
  <2>2. UNCHANGED CurrentFile
    BY <2>1 DEF CurrentFile
  <2>3. CASE events = 0
    <3>1. UNCHANGED Logged /\ Records \subseteq Logged
      BY <1>0, <1>8, <1>a, <2>1, <2>a, <2>3 DEF WriteFails, SealFile, FilesHaveRows
    <3>2. FilesHaveRows'
      BY <2>1, <2>a, <3>1 DEF FilesHaveRows
    <3>3. Before(Logged, subrun) /\ Logged \subseteq File
      BY <1>0, <2>1 DEF CurrentIsNew, TypeInv, OtherTypes, Logged, Row
    <3>4. Before(Logged, subrun + 1)'
      <4>1. ASSUME NEW file \in Logged, file[1] = cfg.run PROVE file[2] < subrun + 1
        <5>1. file[2] < subrun /\ file[2] \in Nat
          BY <3>3, <4>1 DEF Before, File, Subruns
        <5>2. QED BY <1>0, <5>1
      <4>2. QED BY <2>1, <3>1, <4>1 DEF Before
    <3>5. CurrentIsNew'
      BY <2>1, <2>3, <3>4 DEF CurrentIsNew, Writing
    <3>6. QED BY <1>2, <2>a, <3>2, <3>5
  <2>4. CASE events # 0
    <3>1. PICK text \in {"completed", "stopped", "error"} : InsertRow(text)
      BY <1>8, <2>1, <2>4 DEF WriteFails, SealFile, FinalStatus
    <3>2. /\ Records \subseteq Logged' /\ CurrentFile \in Logged'
          /\ \A file \in Logged' : file[1] = cfg'.run => file[2] < subrun + 1
      BY <1>0, <2>1, <3>1, RowCompletesLog
    <3>3. FilesHaveRows'
      BY <2>1, <2>a, <3>2 DEF FilesHaveRows
    <3>4. CurrentIsNew'
      BY <2>1, <2>2, <3>2 DEF CurrentIsNew, Before, Writing
    <3>5. QED BY <1>2, <2>a, <3>3, <3>4
  <2>5. QED BY <2>3, <2>4
<1>9. CASE RunReturns
  <2>1. /\ UNCHANGED <<Logged, subrun, events, failed, Records, cfg>>
        /\ thread = "leave" /\ thread' = "exited"
    BY <1>1, <1>9, <1>a DEF RunReturns, Records
  <2>2. UNCHANGED CurrentFile
    BY <2>1 DEF CurrentFile
  <2>3. FilesHaveRows' /\ CurrentIsNew'
    BY <1>0, <2>1, <2>2 DEF FilesHaveRows, CurrentIsNew, Before, Writing
  <2>4. QED BY <1>2, <2>1, <2>3
<1>10. QED BY <1>3, <1>4, <1>5, <1>6, <1>7, <1>8, <1>9 DEF Acquisition

\* What may go wrong is settled at the beginning.
LEMMA FaultsAreKept == ASSUME [Next]_vars PROVE faults' = faults
BY DEF Next, vars, Control, Acquisition, Operator, Ended, limits, apart, serviceVars, runVars,
       ReapFinished, ReapJoin, ResolveRun, BeginRun, ResumeRun, Refuse, StartLocked, PollStartup,
       NothingToHalt, HaltRun, Halt, StopJoined, StopEnds, PauseJoined, PauseEnds, AskRunning,
       ThenGo, ShutDown, Destroy, Receive, LeaveLoop, Crash, CoreResolve, StartupStatus,
       FirstFile, NextFile, SameFile, PublishFrame, WriteFrame, WriteFails, EndRun, SealFile,
       RunReturns

LEMMA NumbersStep ==
  ASSUME TypeInv, Ownership, Place, Numbers, [Next]_vars
  PROVE  Numbers'
<1>1. faults' = faults
  BY FaultsAreKept
<1>2. SUFFICES ASSUME Reliable PROVE FilesHaveRows' /\ CurrentIsNew' /\ PauseIsResumable'
  BY <1>1 DEF Numbers, Reliable
<1>3. CASE UNCHANGED vars
  <2>1. UNCHANGED <<Logged, CurrentFile, cfg, Records, run_log, thread, subrun, events, failed, ctl, state, published, faults>>
    BY <1>3 DEF vars, serviceVars, runVars, ctlVars, kept, limits, Logged, CurrentFile, Records
  <2>2. FilesHaveRows' /\ CurrentIsNew'
    BY <1>2, <2>1 DEF Numbers, FilesHaveRows, CurrentIsNew, Before
  <2>3. PauseIsResumable'
    BY <1>2, <2>1 DEF Numbers, Reliable, PauseIsResumable
  <2>4. QED BY <2>2, <2>3
<1>4. CASE Control \/ Operator
  <2>1. CASE PauseJoined
    BY <1>2, <2>1, NumbersPause
  <2>2. CASE (BeginRun \/ ResumeRun) /\ ~Refuse
    BY <1>2, <2>2, NumbersStart
  <2>3. QED BY <1>2, <1>4, <2>1, <2>2, NumbersControl DEF Control
<1>5. CASE Acquisition
  BY <1>2, <1>5, NumbersRun
<1>6. CASE Crash
  BY <1>2, <1>6 DEF Crash, Reliable
<1>7. QED BY <1>3, <1>4, <1>5, <1>6 DEF Next, Ended

-----------------------------------------------------------------------------
(* Runs that end on command only.                                           *)

\* worker_ holds a thread only while the run is under way, and no run comes to
\* its end unless a command waits for it.
OnCommand ==
  faults = {} =>
    /\ ctl # "terminated"
    /\ handle => running
    /\ running /\ ctl # "join" =>
         stop_requested = 0 /\ ~failed /\ thread \in {"resolve", "acquire", "emit", "write"}
    /\ thread = "resolve" => cfg.allow_existing \/ cfg.run \notin RunsLogged
    /\ ctl = "begin" /\ cmd = "start" /\ ~running => request \notin RunsLogged

LEMMA OnCommandInit == ASSUME Init PROVE OnCommand
BY DEF Init, OnCommand

\* Of the control thread's steps.
LEMMA OnCommandControl ==
  ASSUME TypeInv, Ownership, OnCommand, faults = {}, Control \/ Operator
  PROVE  OnCommand'
<1> USE DEF OnCommand, serviceVars, runVars, limits, kept, Goes
<1>0. /\ running \in BOOLEAN /\ handle \in BOOLEAN /\ failed \in BOOLEAN
      /\ ControlPlace /\ Ownership
  BY DEF TypeInv, Booleans
<1>a. ASSUME UNCHANGED run_log PROVE RunsLogged' = RunsLogged
  BY <1>a DEF RunsLogged, Logged
<1>1. CASE ReapFinished \/ ReapJoin
  <2>1. ctl' = "begin" => cmd' # "start"
    BY <1>1 DEF ReapFinished, ReapJoin
  <2>2. QED BY <1>0, <1>1, <1>a, <2>1 DEF ReapFinished, ReapJoin
<1>2. CASE ResolveRun
  <2>1. ctl' = "begin" => request' \notin RunsLogged
    BY <1>2, NextRunIsNew DEF ResolveRun
  <2>2. QED BY <1>0, <1>2, <1>a, <2>1 DEF ResolveRun
<1>3. CASE PollStartup \/ Refuse
  BY <1>0, <1>3, <1>a DEF PollStartup, Refuse
<1>4. CASE BeginRun /\ ~Refuse
  <2> DEFINE config == [run |-> request, subrun_start |-> 0, allow_existing |-> FALSE]
  <2>1. ctl = "begin" /\ cmd = "start" /\ ~running /\ StartLocked(config)
    BY <1>4 DEF BeginRun
  <2>2. cfg'.run = request /\ RunsLogged' = RunsLogged
    BY <1>a, <2>1 DEF StartLocked
  <2>3. QED BY <1>0, <2>1, <2>2 DEF StartLocked
<1>5. CASE ResumeRun /\ ~Refuse
  <2>1. ~running /\ StartLocked([cfg EXCEPT !.allow_existing = TRUE]) /\ cfg \in Config
    BY <1>5 DEF ResumeRun, TypeInv, OtherTypes
  <2>2. cfg'.allow_existing = TRUE
    BY <2>1 DEF StartLocked, Config
  <2>3. QED BY <1>0, <2>1, <2>2 DEF StartLocked
<1>6. CASE NothingToHalt \/ HaltRun
  BY <1>0, <1>6, <1>a DEF NothingToHalt, HaltRun, Halt, AfterStop
<1>7. CASE StopJoined
  BY <1>0, <1>7, <1>a DEF StopJoined, StopEnds, AfterStop, Ownership, RunIsOwned
<1>8. CASE PauseJoined
  BY <1>0, <1>8 DEF PauseJoined, PauseEnds, Ownership, RunIsOwned
<1>9. CASE AskRunning \/ ShutDown \/ Destroy
  BY <1>0, <1>9, <1>a DEF AskRunning, ThenGo, ShutDown, Destroy, Ownership
<1>10. CASE Operator
  BY <1>0, <1>10, <1>a DEF Operator, Receive, LeaveLoop
<1>11. QED BY <1>1, <1>2, <1>3, <1>4, <1>5, <1>6, <1>7, <1>8, <1>9, <1>10 DEF Control

\* Of the acquisition's: it fails nowhere, and leaves its loop for a stop word only.
LEMMA OnCommandRun ==
  ASSUME TypeInv, Ownership, Numbers, OnCommand, faults = {}, Acquisition
  PROVE  OnCommand'
<1> USE DEF apart, ctlVars, limits, ThreadGoes
<1>0. running \in BOOLEAN /\ failed \in BOOLEAN
  BY DEF TypeInv, Booleans
<1>1. running /\ UNCHANGED <<ctl, handle, cfg, faults, stop_requested>>
  BY DEF Acquisition, CoreResolve, StartupStatus, FirstFile, NextFile, SameFile, PublishFrame,
         WriteFrame, WriteFails, EndRun, SealFile, RunReturns, Ownership, RunIsOwned
<1>2. CASE ctl = "join"
  <2>1. ~handle /\ thread' # "resolve"
    BY <1>2 DEF Ownership, Acquisition, CoreResolve, StartupStatus, FirstFile, NextFile, SameFile,
                PublishFrame, WriteFrame, WriteFails, EndRun, SealFile, RunReturns
  <2>2. QED BY <1>1, <1>2, <2>1 DEF OnCommand
<1>3. CASE ctl # "join"
  <2>1. /\ stop_requested = 0 /\ ~failed /\ thread \in {"resolve", "acquire", "emit", "write"}
        /\ thread = "resolve" => cfg.allow_existing \/ cfg.run \notin RunsLogged
    BY <1>1, <1>3 DEF OnCommand
  <2>2. ~QueryFails /\ (thread \in Writing => ~InsertFails)
    BY CurrentNotLogged DEF Numbers, Reliable, QueryFails
  <2>3. running' /\ ~failed' /\ thread' \in {"acquire", "emit", "write"}
    <3>1. CASE CoreResolve
      BY <1>0, <1>1, <2>1, <2>2, <3>1 DEF CoreResolve
    <3>2. CASE StartupStatus \/ EndRun
      BY <1>0, <1>1, <2>1, <3>2 DEF StartupStatus, EndRun
    <3>3. CASE FirstFile \/ SameFile \/ PublishFrame \/ WriteFrame
      <4>1. running' = running /\ failed' = failed /\ thread' \in {"emit", "write", "acquire"}
        BY <3>3 DEF FirstFile, SameFile, PublishFrame, WriteFrame
      <4>2. QED BY <1>1, <2>1, <4>1
    <3>4. CASE NextFile \/ WriteFails
      <4>1. NextFile /\ "failure" \notin faults /\ thread = "acquire" /\ ~InsertFails
        BY <2>2, <3>4 DEF NextFile, WriteFails, Writing
      <4>2. running' = running /\ failed' = failed /\ thread' = "emit"
        BY <4>1 DEF NextFile
      <4>3. QED BY <1>1, <2>1, <4>2
    <3>5. CASE SealFile \/ RunReturns
      BY <2>1, <3>5 DEF SealFile, RunReturns
    <3>6. QED BY <3>1, <3>2, <3>3, <3>4, <3>5 DEF Acquisition
  <2>4. QED BY <1>1, <2>1, <2>3 DEF OnCommand
<1>4. QED BY <1>2, <1>3

LEMMA OnCommandStep ==
  ASSUME TypeInv, Ownership, Numbers, OnCommand, [Next]_vars
  PROVE  OnCommand'
<1>1. faults' = faults
  BY FaultsAreKept
<1>2. SUFFICES ASSUME faults = {} PROVE OnCommand'
  BY <1>1 DEF OnCommand
<1>3. CASE UNCHANGED vars
  <2>1. UNCHANGED <<ctl, handle, running, stop_requested, failed, thread, cfg, cmd, request, RunsLogged, faults>>
    BY <1>3 DEF vars, serviceVars, runVars, ctlVars, kept, limits, RunsLogged, Logged
  <2>2. QED BY <2>1 DEF OnCommand
<1>4. CASE Control \/ Operator
  BY <1>2, <1>4, OnCommandControl
<1>5. CASE Acquisition
  BY <1>2, <1>5, OnCommandRun
<1>6. CASE Crash
  BY <1>2, <1>6 DEF Crash
<1>7. QED BY <1>3, <1>4, <1>5, <1>6 DEF Next, Ended

-----------------------------------------------------------------------------
(* The theorems.                                                            *)

IInv == TypeInv /\ Ownership /\ Answers /\ Place /\ Numbers /\ OnCommand

LEMMA InvariantHolds == Spec => []IInv
<1>1. Init => IInv
  BY TypeInvInit, OwnershipInit, AnswersInit, PlaceInit, NumbersInit, OnCommandInit DEF IInv
<1>2. IInv /\ [Next]_vars => IInv'
  BY TypeInvStep, OwnershipStep, AnswersStep, PlaceStep, NumbersStep, OnCommandStep DEF IInv
<1>3. QED BY <1>1, <1>2, PTL DEF Spec

\* The service always owns its acquisition thread: running_ says whether there is
\* one, and if runs end only on command no sequence of commands assigns over or
\* destroys a std::thread that holds one (daqd.cpp:326, 424 and 521).
THEOREM ThreadOwned == Spec => []ThreadIsOwned
<1>1. IInv => ThreadIsOwned
  BY DEF IInv, Ownership, OnCommand, ThreadIsOwned, NeverTerminates
<1>2. QED BY <1>1, InvariantHolds, PTL

\* The daemon's answers and status are true when they are given: "Ok" to start,
\* stop and pause, the error state after a failure, and the subrun and the events
\* it derives from its count of records (daqd.cpp:298, 329, 335, 461 and 495).
THEOREM DaemonKnows == Spec => []DaemonKnowsItsRun
<1>1. IInv => DaemonKnowsItsRun
  BY TypeInvImpliesTypeOK, PlaceIsKnown
  DEF IInv, Answers, DaemonKnowsItsRun, FailureLeavesError
<1>2. QED BY <1>1, InvariantHolds, PTL

\* Resuming goes on with subruns that have neither a file nor a row, after a pause
\* that marked the last row (daqd.cpp:378), however often the run was paused.
THEOREM PauseResumable == Spec => []PauseIsResumable
<1>1. IInv => PauseIsResumable
  BY DEF IInv, Numbers, Reliable, PauseIsResumable
<1>2. QED BY <1>1, InvariantHolds, PTL

\* No acquisition truncates a file that holds a record that was written and flushed
\* (daq_runtime.cpp:389), as long as the run log is reliable and the daemon lives,
\* whatever failed writes have left in files that no row names.
THEOREM FilesKept == Spec => FilesAreNotOverwritten
<1>1. IInv /\ [Next]_vars => [Reliable => Records \subseteq Records']_<<files, torn>>
  <2>1. SUFFICES ASSUME IInv, Next, Reliable, <<files, torn>>' # <<files, torn>>
                PROVE  Records \subseteq Records'
    BY DEF vars, kept
  <2>2. Acquisition
    BY <2>1 DEF Next, Control, Operator, Ended, Crash, vars, kept, runVars, limits, ReapFinished,
                ReapJoin, ResolveRun, BeginRun, ResumeRun, Refuse, StartLocked, PollStartup,
                NothingToHalt, HaltRun, Halt, StopJoined, StopEnds, PauseJoined, PauseEnds,
                AskRunning, ThenGo, ShutDown, Destroy, Receive, LeaveLoop
  <2>3. QED BY <2>1, <2>2, NumbersRun DEF IInv
<1>2. QED BY <1>1, InvariantHolds, PTL DEF Spec, FilesAreNotOverwritten, Reliable
=============================================================================
