-------------------------- MODULE DaqRuntimeProofs --------------------------
(***************************************************************************)
(* Proofs about DaqRuntime for any finite set of devices, any number of    *)
(* records per file, any faults and any bounds, in three parts, each on    *)
(* the one before it: the workers and their count; from the queue to the   *)
(* disk; what a run says of itself.                                        *)
(***************************************************************************)
EXTENDS DaqRuntime, FiniteSetTheorems, SequenceTheorems, TLAPS

-----------------------------------------------------------------------------
(* Division.                                                               *)

\* Quotient and remainder.
LEMMA DivMod ==
  ASSUME NEW m \in Nat, NEW E \in Nat \ {0}
  PROVE  m \div E \in Nat /\ m % E \in 0 .. E - 1 /\ m = E * (m \div E) + (m % E)
OBVIOUS

\* Different quotients are a divisor apart.
LEMMA Apart ==
  ASSUME NEW E \in Nat \ {0}, NEW a \in Int, NEW b \in Int, a < b
  PROVE  E * a + E <= E * b
<1>1. E * (b - a) >= E
  <2> DEFINE d == b - a
  <2>1. d \in Nat /\ d >= 1 OBVIOUS
  <2> HIDE DEF d
  <2>2. E * d >= E BY <2>1
  <2> QED BY <2>2 DEF d
<1>2. E * (b - a) = E * b - E * a OBVIOUS
<1>3. QED BY <1>1, <1>2

\* Quotient and remainder are unique.
LEMMA OneQuotient ==
  ASSUME NEW E \in Nat \ {0}, NEW a \in Int, NEW b \in Int,
         NEW q \in 0 .. E - 1, NEW r \in 0 .. E - 1, E * a + q = E * b + r
  PROVE  a = b /\ q = r
<1>0. E * a \in Int /\ E * b \in Int OBVIOUS
<1>1. ~(a < b)
  <2>1. SUFFICES ASSUME a < b PROVE FALSE OBVIOUS
  <2>2. E * a + E <= E * b BY <2>1, Apart
  <2>3. QED BY <1>0, <2>2
<1>2. ~(b < a)
  <2>1. SUFFICES ASSUME b < a PROVE FALSE OBVIOUS
  <2>2. E * b + E <= E * a BY <2>1, Apart
  <2>3. QED BY <1>0, <2>2
<1>3. QED BY <1>1, <1>2

-----------------------------------------------------------------------------
(* The workers: the alive count.                                           *)

Once == {d \in Devices : connected_once[d]}
Gone == {d \in Devices : Uncounted(d)}

WorkerTypes ==
  /\ connected_once \in [Devices -> BOOLEAN]
  /\ marked_dead \in [Devices -> BOOLEAN]
  /\ loss_count \in [Devices -> Nat]
  /\ pc \in [Devices -> WorkerPC]
  /\ window \in [Devices -> {"off", "open", "over"}]
  /\ produced \in [Devices -> 0 .. MaxFrames]

\* Where a worker is tells whether its device is marked dead.
Marks ==
  \A d \in Devices :
    /\ pc[d] \in {"notify_ok", "rejoin", "read", "push", "mark_lost"}
         => connected_once[d] /\ ~marked_dead[d]
    /\ pc[d] = "notify_failed" => ~marked_dead[d]
    /\ pc[d] \in {"tell_lost", "tell_last"} => marked_dead[d]
    /\ marked_dead[d] => connected_once[d]
    /\ pc[d] = "push" => produced[d] # 0

CountsExact ==
  /\ connected_count = Cardinality(Once)
  /\ AliveCountExact

WorkerInv == WorkerTypes /\ Marks /\ CountsExact

\* Everything the workers' invariant is about.
workerVars == <<connected_once, connected_count, marked_dead, alive_count, loss_count,
                pc, window, produced>>

\* A step that leaves the workers' variables alone keeps their invariant.
LEMMA WorkerInvStutter ==
  ASSUME WorkerInv, UNCHANGED workerVars PROVE WorkerInv'
BY DEF WorkerInv, WorkerTypes, Marks, CountsExact, workerVars, AliveCountExact, Once,
       Uncounted

\* The workers' invariant holds when the threads are spawned (daq_runtime.cpp:543).
LEMMA WorkerInvInit == ASSUME Init PROVE WorkerInv
<1>1. WorkerTypes
  BY ConstantsAssumption DEF Init, WorkerTypes, WorkerPC
<1>2. Marks
  BY DEF Init, Marks
<1>3. Once = {} /\ Gone = {}
  BY DEF Init, Once, Gone, Uncounted
<1>4. Cardinality(Devices) \in Nat /\ Cardinality({}) = 0
  BY ConstantsAssumption, FS_CardinalityType, FS_EmptySet
<1>5. CountsExact
  <2>1. connected_count = 0 /\ alive_count = Cardinality(Devices)
    BY DEF Init
  <2>2. alive_count = Cardinality(Devices) - Cardinality(Gone)
    BY <1>3, <1>4, <2>1
  <2>3. QED
    BY <1>3, <1>4, <2>1, <2>2 DEF CountsExact, AliveCountExact, Gone
<1>6. QED
  BY <1>1, <1>2, <1>5 DEF WorkerInv

\* Every step of a worker leaves the marks and the kinds right.
LEMMA WorkerTypesStep ==
  ASSUME WorkerTypes, Marks, NEW d \in Devices, Worker(d)
  PROVE  WorkerTypes' /\ Marks'
<1> USE ConstantsAssumption
        DEF WorkerTypes, Marks, WorkerPC, WorkerGoes, atomics, beside, Live
<1>1. CASE FirstConnect(d)  BY <1>1 DEF FirstConnect, CountFirst, Connects
<1>2. CASE NotifyOk(d)      BY <1>2 DEF NotifyOk
<1>3. CASE Reconnect(d)     BY <1>3 DEF Reconnect, Connects
<1>4. CASE Revive(d)        BY <1>4 DEF Revive, Connects, Mark
<1>5. CASE Rejoin(d)        BY <1>5 DEF Rejoin, CountAlive
<1>6. CASE StartupTimeout(d) BY <1>6 DEF StartupTimeout, RaiseFailure
<1>7. CASE NotifyFailed(d)  BY <1>7 DEF NotifyFailed
<1>8. CASE OpenWindow(d)    BY <1>8 DEF OpenWindow, Missing
<1>9. CASE Degrade(d)       BY <1>9 DEF Degrade, TimedOut, Missing, CountAlive
<1>10. CASE MarkLost(d)     BY <1>10 DEF MarkLost, Mark
<1>11. CASE TellLost(d)     BY <1>11 DEF TellLost, CountLoss
<1>12. CASE Exhaust(d)      BY <1>12 DEF Exhaust, LastToGo, TimedOut, Missing, Mark
<1>13. CASE TellLast(d)     BY <1>13 DEF TellLast, CountLoss, RaiseFailure
<1>14. CASE GiveUp(d)       BY <1>14 DEF GiveUp, RaiseFailure
<1>15. CASE FailStop(d)     BY <1>15 DEF FailStop
<1>16. CASE FailClose(d)    BY <1>16 DEF FailClose
<1>17. CASE ReadFrame(d)    BY <1>17 DEF ReadFrame
<1>18. CASE PushFrame(d)    BY <1>18 DEF PushFrame, PushAccepted
<1>19. CASE ReadFatal(d)    BY <1>19 DEF ReadFatal, RaiseFailure
<1>20. CASE ReadRecoverable(d) \/ LinkLost(d)
  BY <1>20 DEF ReadRecoverable, LinkLost, Unlink
<1>21. CASE WorkerExit(d)   BY <1>21 DEF WorkerExit, Leaves
<1>22. QED
  BY <1>1, <1>2, <1>3, <1>4, <1>5, <1>6, <1>7, <1>8, <1>9, <1>10, <1>11, <1>12, <1>13,
     <1>14, <1>15, <1>16, <1>17, <1>18, <1>19, <1>20, <1>21
     DEF Worker, ConnectStep, GiveUpStep, ReadStep

\* Only these four steps change the sets behind the two counts.
LEMMA GoneStep ==
  ASSUME WorkerTypes, Marks, NEW d \in Devices, Worker(d)
  PROVE  /\ \/ FirstConnect(d) /\ d \notin Once /\ Once' = Once \cup {d}
               /\ connected_count' = connected_count + 1
            \/ Once' = Once /\ connected_count' = connected_count
         /\ \/ d \notin Gone /\ Gone' = Gone \cup {d} /\ alive_count' = alive_count - 1
            \/ d \in Gone /\ Gone' = Gone \ {d} /\ alive_count' = alive_count + 1
            \/ Gone' = Gone /\ alive_count' = alive_count
<1> USE DEF WorkerTypes, Marks, WorkerPC, WorkerGoes, atomics, beside, Live, Once, Gone,
            Uncounted
<1>1. CASE FirstConnect(d)  BY <1>1 DEF FirstConnect, CountFirst, Connects
<1>2. CASE NotifyOk(d)      BY <1>2 DEF NotifyOk
<1>3. CASE Reconnect(d)     BY <1>3 DEF Reconnect, Connects
<1>4. CASE Revive(d)        BY <1>4 DEF Revive, Connects, Mark
<1>5. CASE Rejoin(d)        BY <1>5 DEF Rejoin, CountAlive
<1>6. CASE StartupTimeout(d) BY <1>6 DEF StartupTimeout, RaiseFailure
<1>7. CASE NotifyFailed(d)  BY <1>7 DEF NotifyFailed
<1>8. CASE OpenWindow(d)    BY <1>8 DEF OpenWindow, Missing
<1>9. CASE Degrade(d)       BY <1>9 DEF Degrade, TimedOut, Missing, CountAlive
<1>10. CASE MarkLost(d)     BY <1>10 DEF MarkLost, Mark
<1>11. CASE TellLost(d)     BY <1>11 DEF TellLost, CountLoss
<1>12. CASE Exhaust(d)      BY <1>12 DEF Exhaust, LastToGo, TimedOut, Missing, Mark
<1>13. CASE TellLast(d)     BY <1>13 DEF TellLast, CountLoss, RaiseFailure
<1>14. CASE GiveUp(d)       BY <1>14 DEF GiveUp, RaiseFailure, TimedOut, Missing
<1>15. CASE FailStop(d)     BY <1>15 DEF FailStop
<1>16. CASE FailClose(d)    BY <1>16 DEF FailClose
<1>17. CASE ReadFrame(d)    BY <1>17 DEF ReadFrame
<1>18. CASE PushFrame(d)    BY <1>18 DEF PushFrame, PushAccepted
<1>19. CASE ReadFatal(d)    BY <1>19 DEF ReadFatal, RaiseFailure
<1>20. CASE ReadRecoverable(d) \/ LinkLost(d)
  BY <1>20 DEF ReadRecoverable, LinkLost, Unlink
<1>21. CASE WorkerExit(d)   BY <1>21 DEF WorkerExit, Leaves
<1>22. QED
  BY <1>1, <1>2, <1>3, <1>4, <1>5, <1>6, <1>7, <1>8, <1>9, <1>10, <1>11, <1>12, <1>13,
     <1>14, <1>15, <1>16, <1>17, <1>18, <1>19, <1>20, <1>21
     DEF Worker, ConnectStep, GiveUpStep, ReadStep

\* The other threads and the environment leave the workers alone, save for time.
LEMMA OthersLeaveWorkers ==
  ASSUME WorkerTypes, Writer \/ Main \/ Environment \/ Returned \/ UNCHANGED vars
  PROVE  /\ UNCHANGED <<connected_once, connected_count, marked_dead, alive_count,
                        loss_count, pc, produced>>
         /\ window' \in [Devices -> {"off", "open", "over"}]
<1> USE DEF WorkerTypes, atomics, vars, beside
<1>1. CASE Writer
  BY <1>1 DEF Writer, MakeOutputDir, PopFrame, Take, RotateSubrun, CloseSubrun, OpenFile,
              OpenCounting, EmitFrame, WriteFrame, WriteTo, WriteFails, PopClosed, SealRun,
              WriterFailFlag, WriterFailStop, WriterFailClose, OutsideWriter
<1>2. CASE Main
  BY <1>2 DEF Main, LeavePoll, CloseQueue, CloseWhen, ReturnCode, OutsideMain
<1>3. CASE Environment
  BY <1>3 DEF Environment, RequestStop, StartupDeadline, WindowExpires, inside, env
<1>4. CASE Returned \/ UNCHANGED vars
  BY <1>4 DEF Returned
<1>5. QED BY <1>1, <1>2, <1>3, <1>4

\* No step of any thread breaks the workers' invariant.
LEMMA WorkerInvStep == ASSUME WorkerInv, [Next]_vars PROVE WorkerInv'
<1> USE DEF WorkerInv
<1>1. CASE Writer \/ Main \/ Environment \/ Returned \/ UNCHANGED vars
  BY <1>1, OthersLeaveWorkers
     DEF WorkerTypes, Marks, CountsExact, AliveCountExact, Once, Uncounted
<1>2. ASSUME NEW d \in Devices, Worker(d) PROVE WorkerInv'
  <2>1. WorkerTypes' /\ Marks'
    BY <1>2, WorkerTypesStep
  <2>2. /\ IsFiniteSet(Once) /\ Cardinality(Once) \in Nat
        /\ IsFiniteSet(Gone) /\ Cardinality(Gone) \in Nat
        /\ Cardinality(Devices) \in Nat
    BY ConstantsAssumption, FS_Subset, FS_CardinalityType DEF Once, Gone
  <2>3. connected_count' = Cardinality(Once')
    BY <1>2, <2>2, GoneStep, FS_AddElement DEF CountsExact
  <2>4. alive_count = Cardinality(Devices) - Cardinality(Gone)
    BY DEF CountsExact, AliveCountExact, Gone
  <2>5. alive_count' = Cardinality(Devices) - Cardinality(Gone')
    <3>1. CASE d \notin Gone /\ Gone' = Gone \cup {d} /\ alive_count' = alive_count - 1
      <4>1. Cardinality(Gone \cup {d}) = Cardinality(Gone) + 1
        BY <2>2, <3>1, FS_AddElement
      <4>2. QED BY <2>2, <2>4, <3>1, <4>1
    <3>2. CASE d \in Gone /\ Gone' = Gone \ {d} /\ alive_count' = alive_count + 1
      <4>1. Cardinality(Gone \ {d}) = Cardinality(Gone) - 1
        BY <2>2, <3>2, FS_RemoveElement
      <4>2. QED BY <2>2, <2>4, <3>2, <4>1
    <3>3. CASE Gone' = Gone /\ alive_count' = alive_count
      BY <2>4, <3>3
    <3>4. QED BY <1>2, <3>1, <3>2, <3>3, GoneStep
  <2>6. QED
    BY <2>1, <2>3, <2>5 DEF CountsExact, AliveCountExact, Gone
<1>3. QED BY <1>1, <1>2 DEF Next

\* alive_worker_count is exact at every step, for any number of devices.
THEOREM AliveCountCorrect == Spec => []AliveCountExact
<1>1. Init => WorkerInv
  BY WorkerInvInit
<1>2. WorkerInv /\ [Next]_vars => WorkerInv'
  BY WorkerInvStep
<1>3. WorkerInv => AliveCountExact
  BY DEF WorkerInv, CountsExact
<1>4. QED BY <1>1, <1>2, <1>3, PTL DEF Spec

\* The workers' invariant holds at every moment of a run.
LEMMA WorkerInvHolds == Spec => []WorkerInv
<1>1. Init => WorkerInv
  BY WorkerInvInit
<1>2. WorkerInv /\ [Next]_vars => WorkerInv'
  BY WorkerInvStep
<1>3. QED BY <1>1, <1>2, PTL DEF Spec

\* The run is declared lost only by a worker that sees every other device taken
\* off the alive count.
THEOREM ExhaustedAlone == Spec => ExhaustedOnlyWhenAlone
<1> DEFINE Alone == \A d \in Devices :
                      pc[d] # "tell_last" /\ pc'[d] = "tell_last" =>
                        \A e \in Devices \ {d} : Uncounted(e)
<1>1. ASSUME WorkerInv, [Next]_vars PROVE Alone
  <2> USE <1>1 DEF WorkerInv
  <2>1. CASE Writer \/ Main \/ Environment \/ Returned \/ UNCHANGED vars
    BY <2>1, OthersLeaveWorkers
  <2>2. ASSUME NEW d \in Devices, Worker(d),
               NEW c \in Devices, pc[c] # "tell_last", pc'[c] = "tell_last"
        PROVE  \A e \in Devices \ {c} : Uncounted(e)
    <3>1. c = d /\ Exhaust(d)
      <4> USE <2>2 DEF WorkerGoes, WorkerTypes
      <4>1. CASE ConnectStep(d)
        BY <4>1 DEF ConnectStep, FirstConnect, CountFirst, Connects, NotifyOk, Reconnect,
                    Revive, Rejoin
      <4>2. CASE GiveUpStep(d)
        BY <4>2 DEF GiveUpStep, StartupTimeout, NotifyFailed, OpenWindow, Degrade,
                    MarkLost, TellLost, Exhaust, LastToGo, TellLast, GiveUp, FailStop,
                    FailClose
      <4>3. CASE ReadStep(d)
        BY <4>3 DEF ReadStep, ReadFrame, PushFrame, PushAccepted, ReadFatal, WorkerExit,
                    ReadRecoverable, LinkLost, Unlink, Leaves
      <4>4. QED BY <4>1, <4>2, <4>3 DEF Worker
    <3>2. d \notin Gone /\ alive_count <= 1
      BY <3>1 DEF Exhaust, LastToGo, TimedOut, Missing, Gone, Uncounted
    <3>3. Gone \subseteq Devices \ {d}
      BY <3>2 DEF Gone
    <3>4. /\ IsFiniteSet(Devices \ {d}) /\ Cardinality(Devices) \in Nat
          /\ Cardinality(Devices \ {d}) = Cardinality(Devices) - 1
      BY ConstantsAssumption, FS_RemoveElement, FS_CardinalityType
    <3>5. /\ Cardinality(Gone) \in Nat
          /\ Cardinality(Gone) <= Cardinality(Devices \ {d})
          /\ Cardinality(Gone) = Cardinality(Devices \ {d}) => Gone = Devices \ {d}
      BY <3>3, <3>4, FS_Subset, FS_CardinalityType
    <3>6. alive_count = Cardinality(Devices) - Cardinality(Gone)
      BY DEF CountsExact, AliveCountExact, Gone
    <3>7. Gone = Devices \ {d}
      BY <3>2, <3>4, <3>5, <3>6
    <3>8. QED BY <3>1, <3>7 DEF Gone
  <2>3. QED BY <2>1, <2>2 DEF Next
<1>2. WorkerInv /\ [Next]_vars => [Alone]_vars
  BY <1>1
<1>3. QED BY <1>2, WorkerInvHolds, PTL DEF Spec, ExhaustedOnlyWhenAlone

-----------------------------------------------------------------------------
(* Type correctness.                                                       *)

FlagTypes ==
  /\ running \in BOOLEAN /\ closed \in BOOLEAN /\ stop_requested \in {0, 1}
  /\ exhausted \in BOOLEAN /\ startup_failed \in BOOLEAN /\ writer_ok \in BOOLEAN
  /\ drops \in Nat /\ startup_due \in BOOLEAN

ToldTypes ==
  /\ notified \in {"none", "ok", "failed"}
  /\ last_error \in {"none", "startup", "degraded", "exhausted", "reconnect"}
  /\ mpc \in {"poll", "join", "drain", "returned"} /\ rc \in {0, 1}

QueueTypes == queue \in Seq(Frame) /\ accepted \in Seq(Frame)

StateTypes == FlagTypes /\ ToldTypes /\ QueueTypes

WriterTypes ==
  /\ wpc \in WriterPC
  /\ seen_loss \in [Devices -> Nat]
  /\ rec \in Frame \cup {NoFrame}
  /\ subrun \in Nat /\ events \in Nat /\ next_event \in Nat
  /\ file_open \in BOOLEAN /\ hit \in SUBSET Devices /\ pending \in Status
  /\ published \in SUBSET Record /\ disk \in SUBSET Record
  /\ run_log \in SUBSET Row

\* Between the pop and the write the writer has a frame in its hands, and from the
\* emission on that frame has a number.
Held ==
  /\ wpc \in {"open", "rotate", "emit", "write"} => rec \in Frame
  /\ wpc = "write" => next_event # 0

TypeInv == WorkerInv /\ StateTypes /\ WriterTypes /\ Held

\* Any set of devices has a size, and at most that of all devices.
LEMMA SetsOfDevicesAreCounted ==
  ASSUME NEW S \in SUBSET Devices
  PROVE  Cardinality(S) \in Nat /\ Cardinality(S) <= Cardinality(Devices)
         /\ Cardinality(Devices) \in Nat
BY ConstantsAssumption, FS_Subset, FS_CardinalityType

\* The status texts made of a set of lost devices are statuses.
LEMMA StatusTyped ==
  ASSUME NEW hits \in SUBSET Devices
  PROVE  CompletedStatus(hits) \in Status /\ FinalStatus(hits) \in Status
<1>1. Cardinality(hits \cup DeadNow) \in Nat /\ Cardinality(DeadNow) \in Nat
  BY SetsOfDevicesAreCounted DEF DeadNow
<1>2. QED BY <1>1 DEF CompletedStatus, FinalStatus, Status

\* The inductive type invariant is no weaker than the one the runs check.
LEMMA TypeInvImpliesTypeOK == ASSUME TypeInv PROVE TypeOK
<1> USE DEF TypeInv
<1>1. /\ Cardinality(Once) \in 0 .. Cardinality(Devices)
      /\ Cardinality(Gone) \in 0 .. Cardinality(Devices)
      /\ Cardinality(Devices) \in Nat
  BY SetsOfDevicesAreCounted DEF Once, Gone
<1>2. /\ connected_count = Cardinality(Once)
      /\ alive_count = Cardinality(Devices) - Cardinality(Gone)
  BY DEF WorkerInv, CountsExact, AliveCountExact, Gone
<1>3. /\ connected_count \in 0 .. Cardinality(Devices)
      /\ alive_count \in 0 .. Cardinality(Devices)
  BY <1>1, <1>2
<1>4. QED
  BY <1>3 DEF TypeOK, WorkerInv, WorkerTypes, StateTypes, FlagTypes, ToldTypes, QueueTypes,
              WriterTypes

\* A run starts with every variable of its type.
LEMMA TypeInvInit == ASSUME Init PROVE TypeInv
<1>1. FlagTypes /\ ToldTypes /\ QueueTypes
  <2>1. FlagTypes   BY DEF Init, FlagTypes
  <2>2. ToldTypes   BY DEF Init, ToldTypes
  <2>3. QueueTypes  BY DEF Init, QueueTypes
  <2>4. QED BY <2>1, <2>2, <2>3
<1>2. WriterTypes
  BY ConstantsAssumption DEF Init, WriterTypes, WriterPC, Status
<1>3. Held
  BY DEF Init, Held
<1>4. QED BY <1>1, <1>2, <1>3, WorkerInvInit DEF TypeInv, StateTypes

\* A worker reaches the shared flags and, by a Push, the back of the queue.
LEMMA WorkerReach ==
  ASSUME NEW d \in Devices, Worker(d)
  PROVE  /\ UNCHANGED <<writer, published, disk, run_log, mainVars, stop_requested,
                        startup_due, writer_ok>>
         /\ PushAccepted(d) \/ UNCHANGED <<queue, accepted>>
<1> USE DEF atomics, flags, told, queueVars, output, env, beside
<1>1. CASE ConnectStep(d)
  BY <1>1 DEF ConnectStep, FirstConnect, CountFirst, Connects, NotifyOk, Reconnect,
              Revive, Rejoin, Mark, CountAlive
<1>2. CASE GiveUpStep(d)
  BY <1>2 DEF GiveUpStep, StartupTimeout, NotifyFailed, OpenWindow, Degrade, MarkLost,
              TellLost, Exhaust, LastToGo, TellLast, GiveUp, FailStop, FailClose, Mark,
              CountAlive, RaiseFailure
<1>3. CASE ReadStep(d)
  BY <1>3 DEF ReadStep, ReadFrame, PushFrame, PushAccepted, ReadFatal, WorkerExit,
              ReadRecoverable, LinkLost, Unlink, Leaves, RaiseFailure
<1>4. QED BY <1>1, <1>2, <1>3 DEF Worker

\* The writer reaches the front of the queue and, when it fails, the flags.
LEMMA WriterReach ==
  ASSUME Writer
  PROVE  /\ UNCHANGED <<OutsideWriter, accepted>>
         /\ PopFrame \/ UNCHANGED queue
         /\ \/ UNCHANGED <<flags, closed>>
            \/ WriterFailFlag \/ WriterFailStop \/ WriterFailClose
BY DEF Writer, MakeOutputDir, PopFrame, Take, RotateSubrun, CloseSubrun, OpenFile,
       OpenCounting, EmitFrame, WriteFrame, WriteTo, WriteFails, PopClosed, SealRun,
       WriterFailFlag, WriterFailStop, WriterFailClose, queueVars, output, flags

\* The main thread and the environment touch neither writer, files nor atomics
\* of the workers; only the main thread moves itself, clears running or closes the queue.
LEMMA OthersReach ==
  ASSUME Main \/ Environment \/ Returned \/ UNCHANGED vars
  PROVE  /\ UNCHANGED <<writer, output, queue, atomics, told, startup_failed, writer_ok>>
         /\ UNCHANGED <<mainVars, running, closed>> \/ Main
<1> USE DEF flags, queueVars, mainVars, output
<1>1. CASE Main
  BY <1>1 DEF Main, LeavePoll, CloseQueue, CloseWhen, ReturnCode, OutsideMain
<1>2. CASE Environment
  BY <1>2 DEF Environment, RequestStop, StartupDeadline, WindowExpires, inside
<1>3. CASE Returned \/ UNCHANGED vars
  BY <1>3 DEF Returned, vars, beside
<1>4. QED BY <1>1, <1>2, <1>3

\* A step of a worker keeps the types of all it shares with others.
LEMMA TypesWorker ==
  ASSUME TypeInv, NEW d \in Devices, Worker(d)
  PROVE  StateTypes' /\ WriterTypes' /\ Held'
<1> USE DEF TypeInv, StateTypes
<1>1. WriterTypes' /\ Held'
  BY WorkerReach DEF WriterTypes, Held, writer, locals
<1>2. QueueTypes'
  <2>1. CASE PushAccepted(d)
    <3>1. <<d, produced[d]>> \in Frame
      BY <2>1, ConstantsAssumption
         DEF PushAccepted, WorkerGoes, WorkerInv, WorkerTypes, Marks, Frame
    <3>2. QED BY <2>1, <3>1 DEF PushAccepted, QueueTypes
  <2>2. QED BY <2>1, WorkerReach DEF QueueTypes
<1>3. FlagTypes'
  <2> USE WorkerReach DEF FlagTypes, flags, queueVars, env, beside, atomics
  <2>1. CASE ConnectStep(d)
    BY <2>1 DEF ConnectStep, FirstConnect, CountFirst, NotifyOk, Reconnect, Revive, Rejoin,
                Mark, CountAlive
  <2>2. CASE GiveUpStep(d)
    BY <2>2 DEF GiveUpStep, StartupTimeout, NotifyFailed, OpenWindow, Degrade, MarkLost,
                TellLost, Exhaust, LastToGo, TellLast, GiveUp, FailStop, FailClose, Mark,
                CountAlive, CountLoss, RaiseFailure
  <2>3. CASE ReadFrame(d) \/ PushFrame(d) \/ ReadFatal(d) \/ WorkerExit(d)
    BY <2>3 DEF ReadFrame, PushFrame, PushAccepted, ReadFatal, WorkerExit, Leaves,
                RaiseFailure
  <2>4. CASE ReadRecoverable(d) \/ LinkLost(d)
    BY <2>4 DEF ReadRecoverable, LinkLost, Unlink
  <2>5. QED BY <2>1, <2>2, <2>3, <2>4 DEF Worker, ReadStep
<1>4. ToldTypes'
  <2> USE WorkerReach DEF ToldTypes, told, mainVars, atomics
  <2>1. CASE ConnectStep(d)
    BY <2>1 DEF ConnectStep, FirstConnect, CountFirst, NotifyOk, Reconnect, Revive, Rejoin,
                Mark, CountAlive
  <2>2. CASE GiveUpStep(d)
    BY <2>2 DEF GiveUpStep, StartupTimeout, NotifyFailed, OpenWindow, Degrade, MarkLost,
                TellLost, Exhaust, LastToGo, TellLast, GiveUp, FailStop, FailClose, Mark,
                CountAlive, CountLoss
  <2>3. CASE ReadStep(d)
    BY <2>3 DEF ReadStep, ReadFrame, PushFrame, PushAccepted, ReadFatal, WorkerExit,
                ReadRecoverable, LinkLost, Unlink, Leaves
  <2>4. QED BY <2>1, <2>2, <2>3 DEF Worker
<1>5. QED BY <1>1, <1>2, <1>3, <1>4

\* A step of the main thread or the environment keeps all types.
LEMMA TypesOthers ==
  ASSUME TypeInv, Main \/ Environment \/ Returned \/ UNCHANGED vars
  PROVE  StateTypes' /\ WriterTypes' /\ Held'
<1> USE DEF TypeInv, StateTypes
<1>1. WriterTypes' /\ Held'
  BY OthersReach DEF WriterTypes, Held, writer, locals, output
<1>2. QueueTypes'
  BY OthersReach DEF QueueTypes, output
<1>3. FlagTypes'
  <2>1. UNCHANGED <<exhausted, startup_failed, writer_ok>>
    BY OthersReach DEF atomics
  <2>2. CASE Main
    BY <2>1, <2>2 DEF Main, LeavePoll, CloseQueue, CloseWhen, ReturnCode, OutsideMain, env,
                      FlagTypes
  <2>3. CASE Environment
    BY <2>1, <2>3, OthersReach
       DEF Environment, RequestStop, StartupDeadline, WindowExpires, inside, env, flags,
           queueVars, FlagTypes
  <2>4. CASE Returned \/ UNCHANGED vars
    BY <2>4 DEF Returned, vars, beside, flags, queueVars, env, atomics, FlagTypes
  <2>5. QED BY <2>2, <2>3, <2>4
<1>4. ToldTypes'
  BY OthersReach DEF Main, LeavePoll, CloseQueue, CloseWhen, ReturnCode, mainVars, told,
                     ToldTypes
<1>5. QED BY <1>1, <1>2, <1>3, <1>4

\* A row inserted is a row of the run log (daq_runtime.cpp:365).
LEMMA LogTyped ==
  ASSUME WriterTypes, NEW status \in Status, LogSucceeds(status)
  PROVE  run_log' \in SUBSET Row
BY DEF WriterTypes, LogSucceeds, RowNow, Row, DeadNow

\* Refreshing the disconnects of a subrun keeps their types (daq_runtime.cpp:302).
LEMMA RefreshTyped ==
  ASSUME WorkerTypes, WriterTypes, RefreshLosses
  PROVE  hit' \in SUBSET Devices /\ seen_loss' \in [Devices -> Nat]
BY DEF WorkerTypes, WriterTypes, RefreshLosses, FreshLosses

\* What the writer shares with the other threads keeps its kind.
LEMMA TypesWriterState ==
  ASSUME TypeInv, Writer
  PROVE  StateTypes'
<1> USE DEF TypeInv, StateTypes
<1>1. QueueTypes'
  BY WriterReach DEF QueueTypes, PopFrame, Take
<1>2. FlagTypes' /\ ToldTypes'
  <2>1. UNCHANGED <<exhausted, drops, startup_due, stop_requested, told, mainVars>>
    BY WriterReach DEF OutsideWriter, atomics, env
  <2>2. running' \in BOOLEAN /\ closed' \in BOOLEAN /\ startup_failed' \in BOOLEAN
        /\ writer_ok' \in BOOLEAN
    BY WriterReach DEF FlagTypes, flags, WriterFailFlag, WriterFailStop, WriterFailClose,
                       queueVars
  <2>3. QED BY <2>1, <2>2 DEF FlagTypes, ToldTypes, told, mainVars
<1>3. QED BY <1>1, <1>2

\* A step of the writer keeps the types of its own variables.
LEMMA TypesWriter ==
  ASSUME TypeInv, Writer
  PROVE  WriterTypes' /\ Held'
<1> USE DEF TypeInv, WriterTypes, WriterPC, Held, WriterGoes, output, locals
<1>1. CASE MakeOutputDir  BY <1>1 DEF MakeOutputDir
<1>2. CASE PopFrame
  <2>1. Head(queue) \in Frame
    BY <1>2 DEF PopFrame, Take, StateTypes, QueueTypes
  <2>2. hit' \in SUBSET Devices /\ seen_loss' \in [Devices -> Nat]
    BY <1>2, RefreshTyped DEF PopFrame, Take, WorkerInv
  <2>3. CompletedStatus(hit') \in Status
    BY <2>2, StatusTyped
  <2>4. QED BY <1>2, <2>1, <2>2, <2>3 DEF PopFrame, Take
<1>3. CASE RotateSubrun
  <2>1. run_log' \in SUBSET Row
    BY <1>3, LogTyped DEF RotateSubrun, CloseSubrun, LogFails
  <2>2. file_open' \in BOOLEAN /\ subrun' \in Nat
    <3>1. file_open' = FALSE \/ file_open' = file_open
      BY <1>3 DEF RotateSubrun, CloseSubrun
    <3>2. subrun' = subrun + 1 \/ subrun' = subrun
      BY <1>3 DEF RotateSubrun, CloseSubrun
    <3>3. file_open' \in BOOLEAN
      BY <3>1, Zenon
    <3>4. subrun' \in Nat
      BY <3>2
    <3>5. QED BY <3>3, <3>4
  <2>3. UNCHANGED <<rec, events, next_event, seen_loss, hit, pending, published, disk>>
    BY <1>3 DEF RotateSubrun, CloseSubrun
  <2>4. wpc' \in {"open", "fail_flag"}
    BY <1>3 DEF RotateSubrun, CloseSubrun
  <2>5. rec \in Frame
    BY <1>3 DEF RotateSubrun, CloseSubrun
  <2>6. QED BY <2>1, <2>2, <2>3, <2>4, <2>5
<1>4. CASE OpenFile
  <2> USE <1>4 DEF OpenFile, OpenCounting
  <2>1. UNCHANGED <<rec, subrun, next_event, pending, published, run_log>>
    OBVIOUS
  <2>2. file_open' \in BOOLEAN /\ events' \in Nat /\ disk' \subseteq disk
    <3>1. file_open' = TRUE \/ file_open' = file_open
      OBVIOUS
    <3>2. events' = 0 \/ events' = events
      OBVIOUS
    <3>3. disk' = {r \in disk : r.subrun # subrun} \/ disk' = disk
      OBVIOUS
    <3>4. file_open' \in BOOLEAN
      BY <3>1, Zenon
    <3>5. events' \in Nat
      BY <3>2
    <3>6. disk' \subseteq disk
      BY <3>3
    <3>7. QED BY <3>4, <3>5, <3>6
  <2>3. seen_loss' \in [Devices -> Nat] /\ hit' \in SUBSET Devices
    BY DEF WorkerInv, WorkerTypes
  <2>4. wpc' \in {"emit", "fail_flag"} /\ rec \in Frame
    OBVIOUS
  <2>5. QED BY <2>1, <2>2, <2>3, <2>4
<1>5. CASE EmitFrame
  <2>1. [event |-> next_event, subrun |-> subrun, frame |-> rec] \in Record
    BY <1>5 DEF EmitFrame, Record
  <2>2. QED BY <1>5, <2>1 DEF EmitFrame
<1>6. CASE WriteFrame \/ WriteFails
  <2>1. [event |-> next_event - 1, subrun |-> subrun, frame |-> rec] \in Record
    BY <1>6 DEF WriteFrame, WriteTo, WriteFails, Record
  <2>2. disk' \in SUBSET Record
    BY <1>6, <2>1 DEF WriteFrame, WriteTo, WriteFails, WithRecord
  <2>3. CASE WriteFrame
    BY <2>2, <2>3 DEF WriteFrame, WriteTo
  <2>4. CASE WriteFails
    <3>1. [kind |-> "error", lost |-> 0] \in Status
      BY DEF Status
    <3>2. run_log' \in SUBSET Row
      BY <2>4, <3>1, LogTyped DEF WriteFails, LogFails
    <3>3. QED BY <2>2, <2>4, <3>2 DEF WriteFails
  <2>5. QED BY <1>6, <2>3, <2>4
<1>7. CASE PopClosed
  <2>1. hit' \in SUBSET Devices /\ seen_loss' \in [Devices -> Nat]
    BY <1>7, RefreshTyped DEF PopClosed, WorkerInv
  <2>2. pending' \in Status
    BY <1>7, <2>1, StatusTyped DEF PopClosed
  <2>3. QED BY <1>7, <2>1, <2>2 DEF PopClosed
<1>8. CASE SealRun
  <2>1. run_log' \in SUBSET Row
    BY <1>8, LogTyped DEF SealRun, LogFails
  <2>2. QED BY <1>8, <2>1 DEF SealRun
<1>9. CASE WriterFailFlag \/ WriterFailStop \/ WriterFailClose
  BY <1>9 DEF WriterFailFlag, WriterFailStop, WriterFailClose
<1>10. QED
  BY <1>1, <1>2, <1>3, <1>4, <1>5, <1>6, <1>7, <1>8, <1>9 DEF Writer

\* No step of any thread breaks the type invariant.
LEMMA TypeInvStep == ASSUME TypeInv, [Next]_vars PROVE TypeInv'
<1>1. WorkerInv'
  BY WorkerInvStep DEF TypeInv
<1>2. StateTypes' /\ WriterTypes' /\ Held'
  BY TypesWorker, TypesWriterState, TypesWriter, TypesOthers DEF Next
<1>3. QED BY <1>1, <1>2 DEF TypeInv

\* The type invariant holds at every moment of a run.
LEMMA TypeInvHolds == Spec => []TypeInv
<1>1. Init => TypeInv
  BY TypeInvInit
<1>2. TypeInv /\ [Next]_vars => TypeInv'
  BY TypeInvStep
<1>3. QED BY <1>1, <1>2, PTL DEF Spec

\* Every variable keeps its kind; the counters of connected and of alive devices
\* stay between zero and the number of devices.
THEOREM TypeCorrect == Spec => []TypeOK
<1>1. TypeInv => TypeOK
  BY TypeInvImpliesTypeOK
<1>2. QED BY <1>1, TypeInvHolds, PTL

-----------------------------------------------------------------------------
(***************************************************************************)
(* From the queue to the disk: DaqRuntime keeps RunContract, and numbers   *)
(* and keeps its records, for any devices, any capacity and any faults.    *)
(*                                                                         *)
(* The argument.  The queue always holds the last accepted frames; what is *)
(* in front of them was popped, and but for the frame the writer has in    *)
(* its hands it was published and written, in that order.  Where the       *)
(* writer is says which of the three numbers is ahead by one.              *)
(***************************************************************************)

\* The first n accepted frames under their numbers, and what is on disk and
\* published in that form.
First(n)  == {<<i, accepted[i + 1]>> : i \in 0 .. n - 1}
Pairs(S)  == {<<r.event, r.frame>> : r \in S}
Stored    == Pairs(disk)
Announced == Pairs(published)

Popped == Len(accepted) - Len(queue)

QueueIsTail ==
  /\ Popped \in 0 .. Len(accepted)
  /\ \A i \in 1 .. Len(queue) : queue[i] = accepted[Popped + i]

InHand  == Popped = next_event + 1 /\ rec = accepted[next_event + 1] /\ Stored = First(next_event)
Emitted == Popped = next_event /\ rec = accepted[next_event] /\ Stored = First(next_event - 1)
Settled == Popped = next_event /\ Stored = First(next_event)
Failed  == \E n \in 0 .. Popped : Stored = First(n)

WriterPlace ==
  /\ wpc \in {"mkdir", "pop", "seal", "done"} => Settled
  /\ wpc \in {"open", "rotate", "emit"} => InHand
  /\ wpc = "write" => Emitted
  /\ wpc \in {"fail_flag", "fail_stop", "fail_close", "failed"} => Failed
  /\ next_event <= Popped
  /\ Announced = First(next_event)

\* No record on disk is in a file that is still to be opened.
FilesPlace ==
  /\ \A r \in disk : r.subrun <= subrun
  /\ wpc \in {"rotate", "emit", "write", "seal"} => file_open
  /\ wpc = "open" => ~file_open
  /\ wpc \in {"mkdir", "pop", "open"} /\ ~file_open => \A r \in disk : r.subrun < subrun

\* Who may still be at work when the main thread has come so far.
JoinOrder ==
  /\ wpc \in {"seal", "done"} => closed /\ queue = <<>>
  /\ wpc \in {"fail_stop", "fail_close", "failed"} => ~writer_ok
  /\ mpc \in {"drain", "returned"} => \A d \in Devices : pc[d] \in {"done", "failed"}
  /\ mpc = "returned" => wpc \in {"done", "failed"}

PipelineInv == TypeInv /\ QueueIsTail /\ WriterPlace /\ FilesPlace /\ JoinOrder

\* One more record is one more pair of number and frame.
LEMMA OneMoreRecord ==
  ASSUME NEW S, NEW x
  PROVE  Pairs(S \cup {x}) = Pairs(S) \cup {<<x.event, x.frame>>}
BY DEF Pairs

\* The first n + 1 accepted frames are the first n and one more.
LEMMA FirstGrows ==
  ASSUME NEW n \in Nat
  PROVE  First(n + 1) = First(n) \cup {<<n, accepted[n + 1]>>}
<1>1. 0 .. (n + 1) - 1 = (0 .. n - 1) \cup {n}
  OBVIOUS
<1>2. QED BY <1>1 DEF First

\* The pipeline's invariant holds when the threads are spawned.
LEMMA PipelineInit == ASSUME Init PROVE PipelineInv
<1> USE DEF Init
<1>1. QueueIsTail /\ Popped = 0
  BY DEF QueueIsTail, Popped
<1>2. Stored = {} /\ Announced = {} /\ First(0) = {}
  BY DEF Stored, Announced, Pairs, First
<1>3. WriterPlace
  BY <1>1, <1>2 DEF WriterPlace, Settled
<1>4. FilesPlace /\ JoinOrder
  BY DEF FilesPlace, JoinOrder
<1>5. QED BY <1>1, <1>3, <1>4, TypeInvInit DEF PipelineInv

-----------------------------------------------------------------------------
(* The queue.                                                              *)

\* A frame accepted goes to both ends of the picture at once.
LEMMA PushKeepsTail ==
  ASSUME PipelineInv, NEW d \in Devices, PushAccepted(d)
  PROVE  /\ QueueIsTail' /\ Popped' = Popped
         /\ \A n \in 0 .. Len(accepted) : First(n)' = First(n)
         /\ \A i \in 1 .. Len(accepted) : accepted'[i] = accepted[i]
<1>1. accepted \in Seq(Frame) /\ queue \in Seq(Frame)
  BY DEF PipelineInv, TypeInv, StateTypes, QueueTypes
<1> DEFINE f == <<d, produced[d]>>
<1>2. queue' = Append(queue, f) /\ accepted' = Append(accepted, f)
  BY DEF PushAccepted
<1> HIDE DEF f
<1>3. /\ Len(queue') = Len(queue) + 1 /\ Len(accepted') = Len(accepted) + 1
      /\ Len(queue) \in Nat /\ Len(accepted) \in Nat
      /\ \A i \in 1 .. Len(accepted) : accepted'[i] = accepted[i]
      /\ \A i \in 1 .. Len(queue) : queue'[i] = queue[i]
      /\ queue'[Len(queue) + 1] = f /\ accepted'[Len(accepted) + 1] = f
  BY <1>1, <1>2
<1>4. Popped' = Popped
  BY <1>3 DEF Popped
<1>5. QueueIsTail'
  <2>1. Popped \in 0 .. Len(accepted) /\ Popped + Len(queue) = Len(accepted)
    BY <1>3 DEF PipelineInv, QueueIsTail, Popped
  <2>2. ASSUME NEW i \in 1 .. Len(queue') PROVE queue'[i] = accepted'[Popped + i]
    <3>1. CASE i = Len(queue) + 1
      BY <1>3, <2>1, <3>1
    <3>2. CASE i \in 1 .. Len(queue)
      BY <1>3, <2>1, <3>2 DEF PipelineInv, QueueIsTail
    <3>3. QED BY <1>3, <3>1, <3>2
  <2>3. QED BY <1>3, <1>4, <2>1, <2>2 DEF QueueIsTail
<1>6. \A n \in 0 .. Len(accepted) : First(n)' = First(n)
  <2> TAKE n \in 0 .. Len(accepted)
  <2>1. \A i \in 0 .. n - 1 : accepted'[i + 1] = accepted[i + 1]
    BY <1>3
  <2>2. QED BY <2>1 DEF First
<1>7. QED BY <1>3, <1>4, <1>5, <1>6

\* The frame popped is the first one not yet popped.
LEMMA PopKeepsTail ==
  ASSUME PipelineInv, PopFrame
  PROVE  QueueIsTail' /\ Popped' = Popped + 1 /\ rec' = accepted[Popped + 1]
<1>1. accepted \in Seq(Frame) /\ queue \in Seq(Frame)
  BY DEF PipelineInv, TypeInv, StateTypes, QueueTypes
<1>2. queue # <<>> /\ queue' = Tail(queue) /\ rec' = Head(queue) /\ accepted' = accepted
  BY DEF PopFrame, Take, output
<1>3. /\ Len(queue) \in Nat /\ Len(queue) > 0 /\ Len(accepted) \in Nat
      /\ Len(queue') = Len(queue) - 1
      /\ \A i \in 1 .. Len(queue') : queue'[i] = queue[i + 1]
      /\ rec' = queue[1]
  BY <1>1, <1>2
<1>4. Popped' = Popped + 1
  BY <1>2, <1>3 DEF Popped
<1>5. Popped \in 0 .. Len(accepted) /\ Popped + Len(queue) = Len(accepted)
  BY <1>3 DEF PipelineInv, QueueIsTail, Popped
<1>6. rec' = accepted[Popped + 1]
  BY <1>3 DEF PipelineInv, QueueIsTail
<1>7. \A i \in 1 .. Len(queue') : queue'[i] = accepted'[Popped' + i]
  <2> TAKE i \in 1 .. Len(queue')
  <2>1. i + 1 \in 1 .. Len(queue) /\ queue'[i] = queue[i + 1]
    BY <1>3
  <2>2. queue[i + 1] = accepted[Popped + (i + 1)]
    BY <2>1 DEF PipelineInv, QueueIsTail
  <2>3. Popped + (i + 1) = Popped' + i
    BY <1>3, <1>4, <1>5
  <2>4. QED BY <1>2, <2>1, <2>2, <2>3
<1>8. QED BY <1>2, <1>3, <1>4, <1>5, <1>6, <1>7 DEF QueueIsTail

-----------------------------------------------------------------------------
(* The steps.                                                              *)

\* No step of a worker opens the queue again or leaves a finished worker.
LEMMA WorkerOnward ==
  ASSUME WorkerTypes, NEW d \in Devices, Worker(d)
  PROVE  /\ closed' = closed \/ closed' = TRUE
         /\ pc[d] \notin {"done", "failed"}
<1> USE DEF WorkerGoes, queueVars, beside
<1>1. CASE ConnectStep(d)
  BY <1>1 DEF ConnectStep, FirstConnect, CountFirst, Connects, NotifyOk, Reconnect, Revive,
              Rejoin, Mark, CountAlive
<1>2. CASE GiveUpStep(d)
  BY <1>2 DEF GiveUpStep, StartupTimeout, NotifyFailed, OpenWindow, Missing, Degrade,
              TimedOut, MarkLost, TellLost, Exhaust, LastToGo, TellLast, GiveUp, FailStop,
              FailClose, Mark, CountAlive, RaiseFailure
<1>3. CASE ReadStep(d)
  BY <1>3 DEF ReadStep, ReadFrame, PushFrame, PushAccepted, ReadFatal, WorkerExit,
              ReadRecoverable, LinkLost, Unlink, Leaves, RaiseFailure
<1>4. QED BY <1>1, <1>2, <1>3 DEF Worker

\* A step of a worker keeps the pipeline's invariant: it only adds to the queue's end.
LEMMA PipelineWorker ==
  ASSUME PipelineInv, NEW d \in Devices, Worker(d)
  PROVE  QueueIsTail' /\ WriterPlace' /\ FilesPlace' /\ JoinOrder'
<1>1. /\ UNCHANGED <<wpc, rec, subrun, next_event, file_open, published, disk, mpc,
                     writer_ok>>
      /\ PushAccepted(d) \/ UNCHANGED <<queue, accepted>>
  BY WorkerReach DEF writer, locals, mainVars
<1>2. /\ closed' = closed \/ closed' = TRUE
      /\ pc[d] \notin {"done", "failed"}
  BY WorkerOnward DEF PipelineInv, TypeInv, WorkerInv
<1>3. JoinOrder'
  <2>1. mpc \notin {"drain", "returned"}
    BY <1>2 DEF PipelineInv, JoinOrder
  <2>2. ASSUME wpc \in {"seal", "done"} PROVE closed' /\ queue' = <<>>
    <3>1. closed /\ queue = <<>>
      BY <2>2 DEF PipelineInv, JoinOrder
    <3>2. queue' = queue
      BY <1>1, <3>1 DEF PushAccepted
    <3>3. QED BY <1>2, <3>1, <3>2
  <2>3. QED BY <1>1, <2>1, <2>2 DEF PipelineInv, JoinOrder
<1>4. FilesPlace'
  BY <1>1 DEF PipelineInv, FilesPlace
<1>5. Stored' = Stored /\ Announced' = Announced
  BY <1>1 DEF Stored, Announced
<1>6. CASE PushAccepted(d)
  <2>1. /\ QueueIsTail' /\ Popped' = Popped
        /\ \A n \in 0 .. Len(accepted) : First(n)' = First(n)
        /\ \A i \in 1 .. Len(accepted) : accepted'[i] = accepted[i]
    BY <1>6, PushKeepsTail
  <2>2. Popped \in 0 .. Len(accepted) /\ next_event \in 0 .. Popped /\ Len(accepted) \in Nat
    BY DEF PipelineInv, TypeInv, StateTypes, QueueTypes, QueueIsTail, WriterPlace,
           WriterTypes
  <2>3. /\ Settled => Settled'
        /\ InHand => InHand'
        /\ Failed => Failed'
    BY <1>1, <1>5, <2>1, <2>2 DEF Settled, InHand, Failed
  <2>4. wpc = "write" => Emitted'
    BY <1>1, <1>5, <2>1, <2>2 DEF Emitted, PipelineInv, WriterPlace, TypeInv, Held
  <2>5. First(next_event)' = First(next_event)
    BY <1>1, <2>1, <2>2
  <2>6. QED
    BY <1>1, <1>3, <1>4, <1>5, <2>1, <2>2, <2>3, <2>4, <2>5 DEF PipelineInv, WriterPlace
<1>7. CASE UNCHANGED <<queue, accepted>>
  <2>1. QueueIsTail' /\ Popped' = Popped
    BY <1>7 DEF PipelineInv, QueueIsTail, Popped
  <2>2. \A n \in Int : First(n)' = First(n)
    BY <1>7 DEF First
  <2>3. next_event \in Nat /\ Popped \in Nat
    BY DEF PipelineInv, TypeInv, WriterTypes, QueueIsTail
  <2>4. /\ Settled => Settled'
        /\ InHand => InHand'
        /\ Emitted => Emitted'
    BY <1>1, <1>5, <1>7, <2>1, <2>2, <2>3 DEF Settled, InHand, Emitted
  <2>5. Failed => Failed'
    BY <1>5, <2>1, <2>2, <2>3 DEF Failed
  <2>6. First(next_event)' = First(next_event)
    BY <1>1, <2>2, <2>3
  <2>7. QED
    BY <1>1, <1>3, <1>4, <1>5, <2>1, <2>3, <2>4, <2>5, <2>6 DEF PipelineInv, WriterPlace
<1>8. QED BY <1>1, <1>6, <1>7

\* Which frames came first changes only when a frame is accepted.
LEMMA FirstKept ==
  ASSUME UNCHANGED accepted
  PROVE  \A n \in Int : First(n)' = First(n)
BY DEF First

\* What the pipeline's invariant knows of numbers.
LEMMA Numbers ==
  ASSUME PipelineInv
  PROVE  /\ next_event \in Nat /\ subrun \in Nat /\ Popped \in Nat
         /\ next_event <= Popped
         /\ \A r \in disk : r.subrun \in Nat
BY DEF PipelineInv, TypeInv, WriterTypes, QueueIsTail, WriterPlace, Record

\* A step of the writer keeps what is known of who is still at work.
LEMMA WriterJoinOrder == ASSUME PipelineInv, Writer PROVE JoinOrder'
<1>1. UNCHANGED <<mpc, pc, accepted>>
  BY WriterReach DEF OutsideWriter, mainVars
<1>2. wpc \notin {"done", "failed"}
  BY DEF Writer, WriterGoes, MakeOutputDir, PopFrame, Take, RotateSubrun, CloseSubrun,
         OpenFile, OpenCounting, EmitFrame, WriteFrame, WriteTo, WriteFails, PopClosed,
         SealRun, WriterFailFlag, WriterFailStop, WriterFailClose
<1>3. mpc # "returned"
  BY <1>2 DEF PipelineInv, JoinOrder
<1>4. wpc' \in {"seal", "done"} => closed' /\ queue' = <<>>
  <2>1. CASE PopClosed
    BY <2>1 DEF PopClosed, queueVars
  <2>2. CASE SealRun
    BY <2>2 DEF SealRun, WriterGoes, queueVars, PipelineInv, JoinOrder
  <2>3. CASE ~PopClosed /\ ~SealRun
    BY <2>3 DEF Writer, WriterGoes, MakeOutputDir, PopFrame, Take, RotateSubrun,
                CloseSubrun, OpenFile, OpenCounting, EmitFrame, WriteFrame, WriteTo,
                WriteFails, WriterFailFlag, WriterFailStop, WriterFailClose
  <2>4. QED BY <2>1, <2>2, <2>3
<1>5. wpc' \in {"fail_stop", "fail_close", "failed"} => ~writer_ok'
  <2>1. CASE WriterFailFlag
    BY <2>1 DEF WriterFailFlag
  <2>2. CASE WriterFailStop \/ WriterFailClose
    BY <2>2 DEF WriterFailStop, WriterFailClose, WriterGoes, flags, PipelineInv, JoinOrder
  <2>3. CASE ~WriterFailFlag /\ ~WriterFailStop /\ ~WriterFailClose
    BY <2>3 DEF Writer, WriterGoes, MakeOutputDir, PopFrame, Take, RotateSubrun,
                CloseSubrun, OpenFile, OpenCounting, EmitFrame, WriteFrame, WriteTo,
                WriteFails, PopClosed, SealRun
  <2>4. QED BY <2>1, <2>2, <2>3
<1>6. QED BY <1>1, <1>3, <1>4, <1>5 DEF PipelineInv, JoinOrder

\* Opening a file takes nothing from the disk.
LEMMA OpenTruncatesNothing ==
  ASSUME PipelineInv, OpenFile PROVE disk' = disk
<1>1. wpc = "open" /\ (disk' = disk \/ disk' = {r \in disk : r.subrun # subrun})
  BY DEF OpenFile, OpenCounting, WriterGoes
<1>2. \A r \in disk : r.subrun < subrun
  BY <1>1 DEF PipelineInv, FilesPlace
<1>3. \A r \in disk : r.subrun # subrun
  BY <1>2, Numbers
<1>4. QED BY <1>1, <1>3

\* A step of the writer keeps the files yet to be opened empty.
LEMMA WriterFilesPlace == ASSUME PipelineInv, Writer PROVE FilesPlace'
<1> USE DEF PipelineInv, FilesPlace, WriterGoes
<1>1. CASE MakeOutputDir
  BY <1>1 DEF MakeOutputDir, locals, output
<1>2. CASE PopFrame
  BY <1>2 DEF PopFrame, Take, output
<1>3. CASE RotateSubrun
  <2>1. /\ \A r \in disk : r.subrun <= subrun
        /\ \A r \in disk : r.subrun <= subrun + 1 /\ r.subrun < subrun + 1
    BY Numbers
  <2>2. disk' = disk
    BY <1>3 DEF RotateSubrun, CloseSubrun
  <2>3. \/ wpc' = "open" /\ file_open' = FALSE /\ subrun' = subrun + 1
        \/ wpc' = "fail_flag" /\ subrun' = subrun
    BY <1>3 DEF RotateSubrun, CloseSubrun
  <2>4. QED BY <2>1, <2>2, <2>3
<1>4. CASE OpenFile
  <2>1. disk' = disk
    BY <1>4, OpenTruncatesNothing
  <2>2. QED BY <1>4, <2>1 DEF OpenFile, OpenCounting
<1>5. CASE EmitFrame
  BY <1>5 DEF EmitFrame
<1>6. CASE WriteFrame \/ WriteFails
  <2>1. \A r \in WithRecord : r.subrun <= subrun
    BY Numbers DEF WithRecord
  <2>2. \A r \in disk' : r.subrun <= subrun
    BY <1>6, <2>1 DEF WriteFrame, WriteTo, WriteFails
  <2>3. QED BY <1>6, <2>2 DEF WriteFrame, WriteTo, WriteFails, locals
<1>7. CASE PopClosed
  BY <1>7 DEF PopClosed, output
<1>8. CASE SealRun
  BY <1>8 DEF SealRun
<1>9. CASE WriterFailFlag \/ WriterFailStop \/ WriterFailClose
  BY <1>9 DEF WriterFailFlag, WriterFailStop, WriterFailClose, locals, output
<1>10. QED
  BY <1>1, <1>2, <1>3, <1>4, <1>5, <1>6, <1>7, <1>8, <1>9 DEF Writer

\* A step of the writer that leaves queue, disk and numbers alone.
LEMMA PlaceKept ==
  ASSUME PipelineInv, UNCHANGED <<accepted, queue, rec, next_event, published, disk>>
  PROVE  /\ QueueIsTail' /\ Popped' = Popped
         /\ Announced' = First(next_event)' /\ next_event' <= Popped'
         /\ Settled => Settled' /\ Failed'
         /\ InHand => InHand' /\ Failed'
         /\ Failed => Failed'
<1> USE Numbers DEF PipelineInv
<1>1. Popped' = Popped /\ Stored' = Stored /\ Announced' = Announced
  BY DEF Popped, Stored, Announced
<1>2. QueueIsTail'
  BY <1>1 DEF QueueIsTail
<1>3. \A n \in Int : First(n)' = First(n)
  BY FirstKept
<1>4. First(next_event)' = First(next_event)
  BY <1>3
<1>5. Announced' = First(next_event)' /\ next_event' <= Popped'
  BY <1>1, <1>4 DEF WriterPlace
<1>6. Failed => Failed'
  BY <1>1, <1>3 DEF Failed
<1>7. Settled => Settled' /\ Failed
  BY <1>1, <1>4 DEF Settled, Failed
<1>8. InHand => InHand' /\ Failed
  BY <1>1, <1>4 DEF InHand, Failed
<1>9. QED BY <1>1, <1>2, <1>5, <1>6, <1>7, <1>8

\* A step of the writer keeps queue, numbers and disk together.
LEMMA WriterPlaceStep ==
  ASSUME PipelineInv, Writer PROVE QueueIsTail' /\ WriterPlace'
<1> USE Numbers DEF PipelineInv, WriterGoes
<1>1. accepted' = accepted /\ \A n \in Int : First(n)' = First(n)
  BY WriterReach, FirstKept
<1>2. CASE PopFrame
  <2>1. QueueIsTail' /\ Popped' = Popped + 1 /\ rec' = accepted[Popped + 1]
    BY <1>2, PopKeepsTail
  <2>2. /\ wpc = "pop" /\ wpc' \in {"open", "rotate", "emit"}
        /\ UNCHANGED <<next_event, disk, published>>
    BY <1>2 DEF PopFrame, Take, output
  <2>3. Stored' = Stored /\ Announced' = Announced /\ First(next_event)' = First(next_event)
    BY <1>1, <2>2 DEF Stored, Announced
  <2>4. Settled
    BY <2>2 DEF WriterPlace
  <2>5. InHand'
    BY <1>1, <2>1, <2>2, <2>3, <2>4 DEF InHand, Settled
  <2>6. QED BY <2>1, <2>2, <2>3, <2>5 DEF WriterPlace
<1>3. CASE OpenFile
  <2>1. disk' = disk
    BY <1>3, OpenTruncatesNothing
  <2>2. UNCHANGED <<queue, rec, next_event, published>> /\ wpc = "open"
        /\ wpc' \in {"emit", "fail_flag"}
    BY <1>3 DEF OpenFile, OpenCounting, queueVars
  <2>3. QED BY <1>1, <2>1, <2>2, PlaceKept DEF WriterPlace
<1>4. CASE EmitFrame
  <2>1. /\ UNCHANGED <<queue, rec, disk>> /\ next_event' = next_event + 1
        /\ wpc = "emit" /\ wpc' = "write"
        /\ published' = published \cup
                          {[event |-> next_event, subrun |-> subrun, frame |-> rec]}
    BY <1>4 DEF EmitFrame, queueVars
  <2>2. InHand /\ Announced = First(next_event)
    BY <2>1 DEF WriterPlace
  <2>3. Stored' = Stored /\ Popped' = Popped /\ QueueIsTail'
    BY <1>1, <2>1 DEF Stored, Popped, QueueIsTail
  <2>4. Announced' = Announced \cup {<<next_event, rec>>}
    <3> DEFINE x == [event |-> next_event, subrun |-> subrun, frame |-> rec]
    <3>1. x.event = next_event /\ x.frame = rec /\ published' = published \cup {x}
      BY <2>1
    <3> HIDE DEF x
    <3>2. Announced' = Pairs(published \cup {x})
      BY <3>1 DEF Announced, Pairs
    <3>3. QED BY <3>1, <3>2, OneMoreRecord DEF Announced
  <2>5. First(next_event)' = First(next_event + 1)
    BY <1>1, <2>1
  <2>6. First(next_event - 1)' = First(next_event)
    BY <1>1, <2>1
  <2>7. Announced' = First(next_event)'
    BY <2>2, <2>4, <2>5, FirstGrows DEF InHand
  <2>8. Emitted'
    BY <1>1, <2>1, <2>2, <2>3, <2>6 DEF Emitted, InHand
  <2>9. QED BY <2>1, <2>2, <2>3, <2>7, <2>8 DEF WriterPlace, InHand
<1>5. CASE WriteFrame \/ WriteFails
  <2>1. /\ UNCHANGED <<queue, next_event, published>> /\ disk' \in {disk, WithRecord}
        /\ wpc = "write" /\ wpc' \in {"pop", "fail_flag"}
        /\ wpc' = "pop" => disk' = WithRecord
    BY <1>5 DEF WriteFrame, WriteTo, WriteFails, queueVars, locals
  <2>2. Emitted /\ next_event - 1 \in Nat
    BY <2>1 DEF WriterPlace, TypeInv, Held
  <2>3. /\ Popped' = Popped /\ QueueIsTail' /\ Announced' = Announced
        /\ First(next_event)' = First(next_event)
    BY <1>1, <2>1 DEF Popped, QueueIsTail, Announced
  <2>4. First(next_event) = First(next_event - 1) \cup {<<next_event - 1, rec>>}
    BY <2>2, FirstGrows DEF Emitted
  <2>5. disk' = WithRecord => Stored' = First(next_event)
    <3>1. disk' = WithRecord => Stored' = Stored \cup {<<next_event - 1, rec>>}
      <4> DEFINE x == [event |-> next_event - 1, subrun |-> subrun, frame |-> rec]
      <4>1. x.event = next_event - 1 /\ x.frame = rec /\ WithRecord = disk \cup {x}
        BY DEF WithRecord
      <4> HIDE DEF x
      <4>2. Pairs(WithRecord) = Pairs(disk) \cup {<<next_event - 1, rec>>}
        BY <4>1, OneMoreRecord
      <4>3. Stored' = Pairs(disk')
        BY DEF Stored, Pairs
      <4>4. QED BY <4>2, <4>3 DEF Stored
    <3>2. QED BY <2>2, <2>4, <3>1 DEF Emitted
  <2>6. disk' = disk => Stored' = First(next_event - 1)
    BY <2>2 DEF Emitted, Stored
  <2>7. Failed'
    BY <1>1, <2>1, <2>2, <2>3, <2>5, <2>6 DEF Failed, Emitted
  <2>8. wpc' = "pop" => Settled'
    BY <2>1, <2>2, <2>3, <2>5 DEF Settled, Emitted
  <2>9. QED BY <2>1, <2>2, <2>3, <2>7, <2>8 DEF WriterPlace
<1>6. CASE MakeOutputDir \/ RotateSubrun
  <2>1. /\ UNCHANGED <<queue, rec, next_event, published, disk>>
        /\ \/ wpc = "mkdir" /\ wpc' \in {"pop", "fail_flag"}
           \/ wpc = "rotate" /\ wpc' \in {"open", "fail_flag"}
    BY <1>6 DEF MakeOutputDir, RotateSubrun, CloseSubrun, locals, output, queueVars
  <2>2. QED BY <1>1, <2>1, PlaceKept DEF WriterPlace
<1>7. CASE PopClosed \/ SealRun
  <2>1. /\ UNCHANGED <<queue, rec, next_event, published, disk>>
        /\ wpc \in {"pop", "seal"} /\ wpc' \in {"seal", "done", "fail_flag"}
    BY <1>7 DEF PopClosed, SealRun, output, queueVars
  <2>2. QED BY <1>1, <2>1, PlaceKept DEF WriterPlace
<1>8. CASE WriterFailFlag \/ WriterFailStop \/ WriterFailClose
  <2>1. /\ UNCHANGED <<queue, rec, next_event, published, disk>>
        /\ wpc \in {"fail_flag", "fail_stop", "fail_close"}
        /\ wpc' \in {"fail_stop", "fail_close", "failed"}
    BY <1>8 DEF WriterFailFlag, WriterFailStop, WriterFailClose, locals, output, queueVars
  <2>2. QED BY <1>1, <2>1, PlaceKept DEF WriterPlace
<1>9. QED
  BY <1>2, <1>3, <1>4, <1>5, <1>6, <1>7, <1>8 DEF Writer

\* A step of the main thread or the environment keeps the pipeline's invariant.
LEMMA PipelineOthers ==
  ASSUME PipelineInv, Main \/ Environment \/ Returned \/ UNCHANGED vars
  PROVE  QueueIsTail' /\ WriterPlace' /\ FilesPlace' /\ JoinOrder'
<1>1. UNCHANGED <<wpc, rec, subrun, next_event, file_open, accepted, published, disk, queue,
                  writer_ok>>
  BY OthersReach DEF writer, locals, output
<1>2. QueueIsTail' /\ WriterPlace'
  <2>1. /\ QueueIsTail' /\ Popped' = Popped
        /\ Announced' = First(next_event)' /\ next_event' <= Popped'
        /\ Settled => Settled'
        /\ InHand => InHand'
        /\ Failed => Failed'
    BY <1>1, PlaceKept
  <2>2. First(next_event - 1)' = First(next_event - 1)
    BY <1>1, FirstKept, Numbers
  <2>3. Emitted => Emitted'
    BY <1>1, <2>1, <2>2 DEF Emitted, Stored
  <2>4. QED BY <1>1, <2>1, <2>3 DEF PipelineInv, WriterPlace
<1>3. FilesPlace'
  BY <1>1 DEF PipelineInv, FilesPlace
<1>4. JoinOrder'
  <2> USE DEF PipelineInv, JoinOrder
  <2>1. CASE LeavePoll
    BY <1>1, <2>1 DEF LeavePoll, OutsideMain
  <2>2. CASE CloseQueue
    BY <1>1, <2>2 DEF CloseQueue, CloseWhen, OutsideMain
  <2>3. CASE ReturnCode
    BY <1>1, <2>3 DEF ReturnCode, OutsideMain
  <2>4. CASE Environment
    BY <1>1, <2>4 DEF Environment, RequestStop, StartupDeadline, WindowExpires, inside,
                      mainVars, queueVars
  <2>5. CASE Returned \/ UNCHANGED vars
    BY <1>1, <2>5 DEF Returned, vars, beside, mainVars, queueVars
  <2>6. QED BY <2>1, <2>2, <2>3, <2>4, <2>5 DEF Main
<1>5. QED BY <1>2, <1>3, <1>4

\* No step of any thread breaks the pipeline's invariant.
LEMMA PipelineStep == ASSUME PipelineInv, [Next]_vars PROVE PipelineInv'
<1>1. TypeInv'
  BY TypeInvStep DEF PipelineInv
<1>2. QueueIsTail' /\ WriterPlace' /\ FilesPlace' /\ JoinOrder'
  BY PipelineWorker, PipelineOthers, WriterPlaceStep, WriterFilesPlace, WriterJoinOrder
     DEF Next
<1>3. QED BY <1>1, <1>2 DEF PipelineInv

\* The pipeline's invariant holds at every moment of a run.
LEMMA PipelineInvHolds == Spec => []PipelineInv
<1>1. Init => PipelineInv
  BY PipelineInit
<1>2. PipelineInv /\ [Next]_vars => PipelineInv'
  BY PipelineStep
<1>3. QED BY <1>1, <1>2, PTL DEF Spec

-----------------------------------------------------------------------------
(* What follows from it.                                                   *)

\* Event numbers are the order in which the queue took the frames, from 0 and
\* without a gap, for any number of devices and any interleaving.
THEOREM NumberingCorrect == Spec => []NumberedInPushOrder
<1>1. ASSUME PipelineInv PROVE NumberedInPushOrder
  <2>1. Announced = First(next_event) /\ next_event <= Popped /\ Popped <= Len(accepted)
        /\ next_event \in Nat /\ Popped \in Nat /\ Len(accepted) \in Nat
    BY <1>1, Numbers DEF PipelineInv, WriterPlace, QueueIsTail, TypeInv, StateTypes,
                         QueueTypes
  <2>2. ASSUME NEW r \in published
        PROVE  /\ r.event \in 0 .. next_event - 1
               /\ accepted[r.event + 1] = r.frame
    <3>1. <<r.event, r.frame>> \in First(next_event)
      BY <2>1 DEF Announced, Pairs
    <3>2. QED BY <3>1 DEF First
  <2>3. ASSUME NEW i \in 0 .. next_event - 1
        PROVE  \E r \in published : r.event = i
    <3>1. <<i, accepted[i + 1]>> \in Announced
      BY <2>1 DEF First
    <3>2. QED BY <3>1 DEF Announced, Pairs
  <2>4. {r.event : r \in published} = 0 .. next_event - 1
    BY <2>2, <2>3
  <2>5. \A r \in published : r.event < Len(accepted)
    BY <2>1, <2>2
  <2>6. QED BY <2>2, <2>4, <2>5 DEF NumberedInPushOrder
<1>2. QED BY <1>1, PipelineInvHolds, PTL

\* Only the writer touches the files.
LEMMA DiskGrows == ASSUME PipelineInv, [Next]_vars PROVE disk \subseteq disk'
<1>1. CASE Writer
  <2>1. CASE OpenFile
    BY <2>1, OpenTruncatesNothing
  <2>2. CASE WriteFrame \/ WriteFails
    BY <2>2 DEF WriteFrame, WriteTo, WriteFails, WithRecord
  <2>3. CASE ~OpenFile /\ ~WriteFrame /\ ~WriteFails
    BY <1>1, <2>3
       DEF Writer, MakeOutputDir, PopFrame, Take, RotateSubrun, CloseSubrun, EmitFrame,
           PopClosed, SealRun, WriterFailFlag, WriterFailStop, WriterFailClose, output
  <2>4. QED BY <2>1, <2>2, <2>3
<1>2. CASE \E d \in Devices : Worker(d)
  BY <1>2, WorkerReach
<1>3. CASE Main \/ Environment \/ Returned \/ UNCHANGED vars
  BY <1>3, OthersReach DEF output
<1>4. QED BY <1>1, <1>2, <1>3 DEF Next

\* Opening a file with trunc never throws away a record already written.
THEOREM FilesCorrect == Spec => FilesKeepTheirRecords
<1>1. PipelineInv /\ [Next]_vars => [disk \subseteq disk']_disk
  BY DiskGrows
<1>2. QED BY <1>1, PipelineInvHolds, PTL DEF Spec, FilesKeepTheirRecords

-----------------------------------------------------------------------------
(* DaqRuntime implements RunContract.                                      *)

Outcome == IF mpc # "returned" THEN "on" ELSE IF rc = 0 THEN "clean" ELSE "failed"

\* A run starts where the contract does.
LEMMA ContractInit == ASSUME Init PROVE Contract!Init
BY DEF Init, Contract!Init

\* A step of the writer writes the next frame or leaves the contract alone.
LEMMA WriterContract ==
  ASSUME PipelineInv, Writer
  PROVE  /\ UNCHANGED <<accepted, Outcome>> /\ Outcome = "on"
         /\ \/ Stored' = Stored
            \/ \E n \in 0 .. Len(accepted) - 1 : Stored = First(n) /\ Stored' = First(n + 1)
<1>1. UNCHANGED <<accepted, mpc, rc>>
  BY WriterReach DEF OutsideWriter, mainVars
<1>2. mpc # "returned"
  <2>1. wpc \notin {"done", "failed"}
    BY DEF Writer, WriterGoes, MakeOutputDir, PopFrame, Take, RotateSubrun, CloseSubrun,
           OpenFile, OpenCounting, EmitFrame, WriteFrame, WriteTo, WriteFails, PopClosed,
           SealRun, WriterFailFlag, WriterFailStop, WriterFailClose
  <2>2. QED BY <2>1 DEF PipelineInv, JoinOrder
<1>3. UNCHANGED Outcome /\ Outcome = "on"
  BY <1>1, <1>2 DEF Outcome
<1>4. CASE WriteFrame \/ WriteFails
  <2>1. wpc = "write" /\ disk' \in {disk, WithRecord}
    BY <1>4 DEF WriteFrame, WriteTo, WriteFails, WriterGoes
  <2>2. /\ Emitted /\ next_event \in Nat /\ next_event - 1 \in Nat
        /\ next_event <= Len(accepted) /\ Len(accepted) \in Nat
    BY <2>1, Numbers DEF PipelineInv, WriterPlace, TypeInv, Held, QueueIsTail, Emitted,
                         StateTypes, QueueTypes
  <2>3. disk' = WithRecord => Stored' = First((next_event - 1) + 1)
    <3> DEFINE x == [event |-> next_event - 1, subrun |-> subrun, frame |-> rec]
    <3>1. x.event = next_event - 1 /\ x.frame = rec /\ WithRecord = disk \cup {x}
      BY DEF WithRecord
    <3> HIDE DEF x
    <3>2. Pairs(WithRecord) = Pairs(disk) \cup {<<next_event - 1, rec>>}
      BY <3>1, OneMoreRecord
    <3>3. Stored' = Pairs(disk')
      BY DEF Stored, Pairs
    <3>4. First((next_event - 1) + 1) = First(next_event - 1) \cup {<<next_event - 1, rec>>}
      BY <2>2, FirstGrows DEF Emitted
    <3>5. QED BY <2>2, <3>2, <3>3, <3>4 DEF Stored, Emitted
  <2>4. disk' = disk => Stored' = Stored
    BY DEF Stored
  <2>5. next_event - 1 \in 0 .. Len(accepted) - 1
    BY <2>2
  <2>6. QED BY <1>1, <1>3, <2>1, <2>2, <2>3, <2>4, <2>5 DEF Emitted
<1>5. CASE ~WriteFrame /\ ~WriteFails
  <2>1. disk' = disk
    <3>1. CASE OpenFile
      BY <3>1, OpenTruncatesNothing
    <3>2. CASE ~OpenFile
      BY <1>5, <3>2
         DEF Writer, MakeOutputDir, PopFrame, Take, RotateSubrun, CloseSubrun, EmitFrame,
             PopClosed, SealRun, WriterFailFlag, WriterFailStop, WriterFailClose, output
    <3>3. QED BY <3>1, <3>2
  <2>2. QED BY <1>1, <1>3, <2>1 DEF Stored
<1>6. QED BY <1>4, <1>5

\* A run that returns zero has drained the queue and written all of it.
LEMMA ReturnContract ==
  ASSUME PipelineInv, ReturnCode
  PROVE  /\ UNCHANGED <<accepted, Stored>>
         /\ Outcome = "on" /\ Outcome' \in {"clean", "failed"}
         /\ Outcome' = "clean" => Stored = First(Len(accepted))
<1>1. /\ mpc = "drain" /\ mpc' = "returned" /\ wpc \in {"done", "failed"}
      /\ rc' = 0 => writer_ok
      /\ UNCHANGED <<accepted, disk>>
  BY DEF ReturnCode, OutsideMain, output
<1>2. rc' = 0 => wpc = "done"
  BY <1>1 DEF PipelineInv, JoinOrder
<1>3. wpc = "done" => Stored = First(Len(accepted))
  <2>1. ASSUME wpc = "done" PROVE Stored = First(Popped) /\ queue = <<>>
    BY <2>1 DEF PipelineInv, WriterPlace, Settled, JoinOrder
  <2>2. queue = <<>> => Popped = Len(accepted)
    BY DEF Popped, PipelineInv, TypeInv, StateTypes, QueueTypes
  <2>3. QED BY <2>1, <2>2
<1>4. QED BY <1>1, <1>2, <1>3 DEF Outcome, Stored

\* A step of a worker takes a frame in or leaves the contract alone.
LEMMA WorkerContract ==
  ASSUME PipelineInv, NEW d \in Devices, Worker(d)
  PROVE  /\ UNCHANGED <<Stored, Outcome>>
         /\ \/ UNCHANGED accepted
            \/ Outcome = "on" /\ \E f \in Frame : accepted' = Append(accepted, f)
<1>1. UNCHANGED <<disk, mpc, rc>> /\ (PushAccepted(d) \/ UNCHANGED accepted)
  BY WorkerReach DEF mainVars
<1>2. UNCHANGED <<Stored, Outcome>>
  BY <1>1 DEF Stored, Outcome
<1>3. CASE PushAccepted(d)
  <2>1. <<d, produced[d]>> \in Frame
    BY <1>3, ConstantsAssumption
       DEF PipelineInv, TypeInv, PushAccepted, WorkerGoes, WorkerInv, WorkerTypes, Marks,
           Frame
  <2>2. mpc # "returned"
    BY <1>3 DEF PushAccepted, WorkerGoes, PipelineInv, JoinOrder
  <2>3. QED BY <1>2, <1>3, <2>1, <2>2 DEF PushAccepted, Outcome
<1>4. QED BY <1>1, <1>2, <1>3

\* Every step of a run is a step of the contract or leaves it alone.
LEMMA ContractStep ==
  ASSUME PipelineInv, [Next]_vars
  PROVE  [Contract!Next]_(Contract!vars)
<1> USE DEF Stored, Pairs, First, Outcome, Contract!Next, Contract!vars, Contract!Prefix
<1>1. CASE \E d \in Devices : Worker(d)
  BY <1>1, WorkerContract DEF Contract!Accept
<1>2. CASE Writer
  BY <1>2, WriterContract DEF Contract!Store
<1>3. CASE ReturnCode
  BY <1>3, ReturnContract DEF Contract!Return
<1>4. CASE LeavePoll \/ CloseQueue
  BY <1>4 DEF LeavePoll, CloseQueue, CloseWhen, OutsideMain, output
<1>5. CASE Environment \/ Returned \/ UNCHANGED vars
  BY <1>5 DEF Environment, RequestStop, StartupDeadline, WindowExpires, inside, Returned,
              vars, beside, output, mainVars
<1>6. QED BY <1>1, <1>2, <1>3, <1>4, <1>5 DEF Next, Main

\* No frame accepted is lost, duplicated or reordered on its way to disk, and
\* RunDaqCore returns 0 only with all of them there.
THEOREM ContractKept == Spec => KeepsContract
<1>1. Init => Contract!Init
  BY ContractInit
<1>2. PipelineInv /\ [Next]_vars => [Contract!Next]_(Contract!vars)
  BY ContractStep
<1>3. QED BY <1>1, <1>2, PipelineInvHolds, PTL DEF Spec, KeepsContract, Contract!Spec

-----------------------------------------------------------------------------
(***************************************************************************)
(* What a run leaves behind and what it says of it: the files, the rows of *)
(* the run log, the return code and the startup verdict agree, for any     *)
(* devices, any number of records per file and any faults.                 *)
(*                                                                         *)
(* The argument.  The writer's place ties its counters to the files: so    *)
(* many records are in the current one, so many before it.  Only the       *)
(* writer's failures leave that place, and they end in the flags that the  *)
(* return code is made of.  The flags settle before the last row is made:  *)
(* the queue is only closed after a failure or when every worker is gone.  *)
(***************************************************************************)

Failing == {"fail_flag", "fail_stop", "fail_close", "failed"}
Broken  == {"fail_stop", "fail_close", "failed"}

-----------------------------------------------------------------------------
(* The parts of the invariant.                                              *)

\* A worker on its way to a verdict has reason to give it, and a verdict of
\* failure leaves the device that never connected behind.
Verdicts ==
  /\ \A d \in Devices :
       /\ pc[d] = "notify_ok" => \A e \in Devices : connected_once[e]
       /\ pc[d] = "notify_failed" => ~connected_once[d]
       /\ pc[d] \in {"notify_failed"} \cup Broken => startup_failed
  /\ notified = "ok" => \A e \in Devices : connected_once[e]
  /\ notified = "failed" => \E d \in Devices : ~connected_once[d] /\ pc[d] \in Broken

\* When the queue is closed the flags are settled, and the return code is theirs.
Endings ==
  /\ wpc \in Broken <=> ~writer_ok
  /\ ~writer_ok => startup_failed
  /\ closed => startup_failed \/ mpc \in {"drain", "returned"}
  /\ mpc = "returned" => (rc = 0 <=> writer_ok /\ ~startup_failed)

Taken(f) == \E i \in 1 .. Len(accepted) : accepted[i] = f

\* Unless the run fails, what a device delivered is in the queue or in its worker's
\* hands; and nothing else is in the queue.
Delivery ==
  /\ ~startup_failed =>
       \A d \in Devices : \A n \in 1 .. produced[d] :
         Taken(<<d, n>>) \/ (pc[d] = "push" /\ n = produced[d])
  /\ \A i \in 1 .. Len(accepted) : accepted[i][2] <= produced[accepted[i][1]]

\* The disk is what was published, but for the record in the writer's hands.
Trail ==
  /\ wpc \notin Failing \cup {"write"} => disk = published
  /\ wpc = "write" => published = WithRecord
  /\ DiskTrailsStream

\* The writer's place in its files, counted from the first record of the run.
Before(n) == EventsPerFile * (n - SubrunStart)

Counters ==
  /\ events \in 0 .. EventsPerFile
  /\ wpc = "mkdir" => ~file_open
  /\ wpc \in {"mkdir", "pop"} /\ ~file_open =>
       next_event = 0 /\ events = 0 /\ subrun = SubrunStart
  /\ wpc \in {"pop", "seal"} /\ file_open => events >= 1
  /\ wpc = "rotate" => events = EventsPerFile
  /\ wpc \in {"emit", "write"} => events < EventsPerFile
  /\ wpc \in {"mkdir", "pop", "rotate", "emit"} => next_event = Before(subrun) + events
  /\ wpc = "open" => next_event = Before(subrun)
  /\ wpc = "write" => next_event = Before(subrun) + (events + 1)
  /\ SubrunAsDaqdDerivesIt

InFile(n) == {r \in disk : r.subrun = n}

\* The records in the current file are those the writer counted.
Counted ==
  /\ IsFiniteSet(disk)
  /\ wpc \in {"pop", "rotate", "emit", "write", "seal"} /\ file_open =>
       Cardinality(InFile(subrun)) = events

FailureKind == {"error", "exit"}

\* Each row is about its file, and the row of the last one about the run.
RowIsTrue(row) ==
  /\ row.nevents \in 1 .. EventsPerFile
  /\ row.status.kind = "completed" => row.nevents = EventsPerFile
  /\ row.subrun <= subrun
  /\ wpc \notin Failing \cup {"done"} => row.subrun < subrun
  /\ \/ Cardinality(InFile(row.subrun)) = row.nevents
     \/ Cardinality(InFile(row.subrun)) = row.nevents + 1 /\ wpc \in Failing
  /\ row.subrun = subrun =>
       /\ wpc \in Failing => row.status.kind = "error"
       /\ wpc = "done" => (row.status.kind \in FailureKind <=> startup_failed)

\* Every closed file has its row.
FilesLogged ==
  wpc \notin Failing =>
    \A r \in disk : r.subrun < subrun \/ wpc = "done" =>
      \E row \in run_log : row.subrun = r.subrun

PendingIsTrue ==
  /\ wpc = "rotate" => pending.kind = "completed"
  /\ wpc = "seal" =>
       /\ pending.kind = "completed" => events = EventsPerFile
       /\ pending.kind \in FailureKind <=> startup_failed

Rows == (\A row \in run_log : RowIsTrue(row)) /\ FilesLogged /\ PendingIsTrue

Files   == Trail /\ Counters /\ Counted /\ Rows
IInv    == PipelineInv /\ Verdicts /\ Endings /\ Delivery /\ Files

\* The verdicts' invariant holds when the threads are spawned.
LEMMA VerdictInit == ASSUME Init PROVE IInv
<1>1. PipelineInv
  BY PipelineInit
<1>2. Verdicts /\ Endings
  BY DEF Init, Verdicts, Endings, Broken
<1>3. Delivery
  BY DEF Init, Delivery, Taken
<1>4. Trail
  BY DEF Init, Trail, DiskTrailsStream
<1>5. Counters
  <2>1. Before(SubrunStart) = 0
    BY ConstantsAssumption DEF Before
  <2>2. QED
    BY <2>1, ConstantsAssumption DEF Init, Counters, SubrunAsDaqdDerivesIt
<1>6. Counted
  BY FS_EmptySet DEF Init, Counted
<1>7. Rows
  BY DEF Init, Rows, FilesLogged, PendingIsTrue
<1>8. QED BY <1>1, <1>2, <1>3, <1>4, <1>5, <1>6, <1>7 DEF IInv, Files

-----------------------------------------------------------------------------
(* The workers.                                                             *)

\* The flags that a worker raises stay raised, and it only closes the queue after
\* having raised one.
LEMMA WorkerFlags ==
  ASSUME NEW d \in Devices, Worker(d)
  PROVE  /\ startup_failed' = startup_failed \/ startup_failed' = TRUE
         /\ closed' = closed \/ FailClose(d)
<1> USE DEF flags, queueVars, beside
<1>1. CASE ConnectStep(d)
  BY <1>1 DEF ConnectStep, FirstConnect, CountFirst, NotifyOk, Reconnect, Revive, Rejoin,
              Mark, CountAlive
<1>2. CASE GiveUpStep(d)
  BY <1>2 DEF GiveUpStep, StartupTimeout, NotifyFailed, OpenWindow, Degrade, MarkLost,
              TellLost, Exhaust, LastToGo, TellLast, GiveUp, FailStop, FailClose, Mark,
              CountAlive, RaiseFailure
<1>3. CASE ReadStep(d)
  BY <1>3 DEF ReadStep, ReadFrame, PushFrame, PushAccepted, ReadFatal, WorkerExit,
              ReadRecoverable, LinkLost, Unlink, Leaves, RaiseFailure
<1>4. QED BY <1>1, <1>2, <1>3 DEF Worker

\* The worker that completes the count is the last to connect.
LEMMA LastConnects ==
  ASSUME WorkerInv, NEW d \in Devices, ~connected_once[d],
         connected_count + 1 = Cardinality(Devices)
  PROVE  \A e \in Devices \ {d} : connected_once[e]
<1>1. IsFiniteSet(Once) /\ Once \cup {d} \subseteq Devices /\ d \notin Once
  BY ConstantsAssumption, FS_Subset DEF Once
<1>2. Cardinality(Once \cup {d}) = Cardinality(Once) + 1
  BY <1>1, FS_AddElement
<1>3. Cardinality(Once \cup {d}) = Cardinality(Devices)
  BY <1>2 DEF WorkerInv, CountsExact
<1>4. Once \cup {d} = Devices
  BY <1>1, <1>3, ConstantsAssumption, FS_Subset
<1>5. QED BY <1>4 DEF Once

\* A step of a worker gives no verdict without a reason.
LEMMA VerdictsWorker ==
  ASSUME WorkerInv, Verdicts, NEW d \in Devices, Worker(d)
  PROVE  Verdicts'
<1> USE DEF WorkerInv, WorkerTypes, Verdicts, WorkerGoes, Broken, atomics, flags, told, beside
<1>1. CASE FirstConnect(d)
  <2>1. connected_count + 1 = Cardinality(Devices) => \A e \in Devices \ {d} : connected_once[e]
    BY <1>1, LastConnects DEF FirstConnect, CountFirst
  <2>2. QED BY <1>1, <2>1 DEF FirstConnect, CountFirst, Connects
<1>2. CASE NotifyOk(d)      BY <1>2 DEF NotifyOk
<1>3. CASE Reconnect(d)     BY <1>3 DEF Reconnect, Connects
<1>4. CASE Revive(d)        BY <1>4 DEF Revive, Connects, Mark
<1>5. CASE Rejoin(d)        BY <1>5 DEF Rejoin, CountAlive
<1>6. CASE StartupTimeout(d) BY <1>6 DEF StartupTimeout, RaiseFailure
<1>7. CASE NotifyFailed(d)  BY <1>7 DEF NotifyFailed
<1>8. CASE OpenWindow(d)    BY <1>8 DEF OpenWindow, Missing
<1>9. CASE Degrade(d)       BY <1>9 DEF Degrade, TimedOut, Missing, CountAlive
<1>10. CASE MarkLost(d)     BY <1>10 DEF MarkLost, Mark
<1>11. CASE TellLost(d)     BY <1>11 DEF TellLost, CountLoss
<1>12. CASE Exhaust(d)      BY <1>12 DEF Exhaust, LastToGo, TimedOut, Missing, Mark
<1>13. CASE TellLast(d)     BY <1>13 DEF TellLast, CountLoss, RaiseFailure
<1>14. CASE GiveUp(d)       BY <1>14 DEF GiveUp, RaiseFailure
<1>15. CASE FailStop(d)     BY <1>15 DEF FailStop
<1>16. CASE FailClose(d)    BY <1>16 DEF FailClose
<1>17. CASE ReadFrame(d)    BY <1>17 DEF ReadFrame
<1>18. CASE PushFrame(d)    BY <1>18 DEF PushFrame, PushAccepted
<1>19. CASE ReadFatal(d)    BY <1>19 DEF ReadFatal, RaiseFailure
<1>20. CASE ReadRecoverable(d) \/ LinkLost(d)
  BY <1>20 DEF ReadRecoverable, LinkLost, Unlink
<1>21. CASE WorkerExit(d)   BY <1>21 DEF WorkerExit, Leaves
<1>22. QED
  BY <1>1, <1>2, <1>3, <1>4, <1>5, <1>6, <1>7, <1>8, <1>9, <1>10, <1>11, <1>12, <1>13,
     <1>14, <1>15, <1>16, <1>17, <1>18, <1>19, <1>20, <1>21
     DEF Worker, ConnectStep, GiveUpStep, ReadStep

\* A worker at work, which closes the queue only after having raised the failure.
LEMMA EndingsWorker ==
  ASSUME PipelineInv, Verdicts, Endings, NEW d \in Devices, Worker(d)
  PROVE  Endings'
<1>1. UNCHANGED <<wpc, writer_ok, mpc, rc>>
  BY WorkerReach DEF writer, mainVars
<1>2. mpc \notin {"drain", "returned"}
  BY WorkerOnward DEF PipelineInv, TypeInv, WorkerInv, JoinOrder
<1>3. startup_failed \in BOOLEAN
  BY DEF PipelineInv, TypeInv, StateTypes, FlagTypes
<1>4. startup_failed => startup_failed'
  BY <1>3, WorkerFlags
<1>5. FailClose(d) => startup_failed
  BY DEF FailClose, WorkerGoes, Verdicts, Broken
<1>6. closed' => closed \/ startup_failed
  BY <1>5, WorkerFlags
<1>7. QED BY <1>1, <1>2, <1>4, <1>6 DEF Endings

\* Only these two steps change what a worker has delivered or has in its hands.
LEMMA WorkerDelivers ==
  ASSUME WorkerTypes, NEW d \in Devices, Worker(d)
  PROVE  /\ \A e \in Devices \ {d} : pc'[e] = pc[e]
         /\ \/ ReadFrame(d) \/ PushFrame(d)
            \/ UNCHANGED <<produced, accepted>> /\ pc[d] # "push"
<1> USE DEF WorkerTypes, WorkerGoes, beside, output
<1>1. CASE ConnectStep(d)
  BY <1>1 DEF ConnectStep, FirstConnect, CountFirst, Connects, NotifyOk, Reconnect, Revive,
              Rejoin, Mark, CountAlive
<1>2. CASE GiveUpStep(d)
  BY <1>2 DEF GiveUpStep, StartupTimeout, NotifyFailed, OpenWindow, Missing, Degrade,
              TimedOut, MarkLost, TellLost, Exhaust, LastToGo, TellLast, GiveUp, FailStop,
              FailClose, Mark, CountAlive, RaiseFailure
<1>3. CASE ReadStep(d)
  BY <1>3 DEF ReadStep, ReadFrame, PushFrame, PushAccepted, ReadFatal, WorkerExit,
              ReadRecoverable, LinkLost, Unlink, Leaves, RaiseFailure
<1>4. QED BY <1>1, <1>2, <1>3 DEF Worker

\* No step of a worker loses a frame, unless the run fails.
LEMMA DeliveryWorker ==
  ASSUME PipelineInv, Endings, Delivery, NEW d \in Devices, Worker(d)
  PROVE  Delivery'
<1> DEFINE Here(e, n) == Taken(<<e, n>>) \/ (pc[e] = "push" /\ n = produced[e])
<1>1. /\ WorkerTypes /\ Marks /\ accepted \in Seq(Frame) /\ Len(accepted) \in Nat
      /\ startup_failed \in BOOLEAN
  BY DEF PipelineInv, TypeInv, WorkerInv, StateTypes, QueueTypes, FlagTypes
<1>2. startup_failed => startup_failed'
  BY <1>1, WorkerFlags
<1>3. \A e \in Devices \ {d} : pc'[e] = pc[e]
  BY <1>1, WorkerDelivers
<1>4. /\ ~startup_failed => \A e \in Devices : \A n \in 1 .. produced[e] : Here(e, n)
      /\ \A i \in 1 .. Len(accepted) : accepted[i][2] <= produced[accepted[i][1]]
  BY DEF Delivery
<1>5. \A i \in 1 .. Len(accepted) : accepted[i] \in Frame /\ accepted[i][1] \in Devices
                                    /\ accepted[i][2] \in Nat
  BY <1>1 DEF Frame
<1>6. CASE ReadFrame(d)
  <2>1. /\ accepted' = accepted /\ pc[d] = "read" /\ pc'[d] = "push"
        /\ produced' = [produced EXCEPT ![d] = @ + 1]
    BY <1>1, <1>6 DEF ReadFrame, WorkerGoes, output, WorkerTypes
  <2>2. \A e \in Devices : produced[e] \in Nat
    BY <1>1 DEF WorkerTypes
  <2>3. \A e \in Devices : produced'[e] = IF e = d THEN produced[d] + 1 ELSE produced[e]
    BY <1>1, <2>1 DEF WorkerTypes
  <2>4. \A f : Taken(f)' <=> Taken(f)
    BY <2>1 DEF Taken
  <2>5. ASSUME ~startup_failed, NEW e \in Devices, NEW n \in 1 .. produced'[e]
        PROVE  Here(e, n)'
    <3>1. CASE e = d /\ n = produced[d] + 1
      BY <2>1, <2>3, <3>1
    <3>2. CASE ~(e = d /\ n = produced[d] + 1)
      <4>1. n \in 1 .. produced[e]
        BY <2>2, <2>3, <2>5, <3>2
      <4>2. Here(e, n)
        BY <1>4, <2>5, <4>1
      <4>3. QED BY <1>3, <2>1, <2>3, <2>4, <4>2
    <3>3. QED BY <3>1, <3>2
  <2>6. \A i \in 1 .. Len(accepted) : accepted[i][2] <= produced'[accepted[i][1]]
    BY <1>4, <1>5, <2>2, <2>3
  <2>7. QED BY <1>2, <2>1, <2>5, <2>6 DEF Delivery
<1>7. CASE PushAccepted(d)
  <2> DEFINE f == <<d, produced[d]>>
  <2>1. /\ produced' = produced /\ accepted' = Append(accepted, f) /\ pc[d] = "push"
        /\ f[1] = d /\ f[2] = produced[d] /\ produced[d] \in Nat
    BY <1>1, <1>7 DEF PushAccepted, WorkerGoes, WorkerTypes
  <2>2. /\ Len(accepted') = Len(accepted) + 1
        /\ \A i \in 1 .. Len(accepted) : accepted'[i] = accepted[i]
        /\ accepted'[Len(accepted) + 1] = f
    <3> HIDE DEF f
    <3>1. QED BY <1>1, <2>1
  <2>3. \E i \in 1 .. Len(accepted') : accepted'[i] = f
    BY <1>1, <2>2
  <2>4. ASSUME NEW g, Taken(g) PROVE Taken(g)'
    <3>1. PICK i \in 1 .. Len(accepted) : accepted[i] = g
      BY <2>4 DEF Taken
    <3>2. i \in 1 .. Len(accepted') /\ accepted'[i] = g
      BY <1>1, <2>2, <3>1
    <3>3. QED BY <3>2 DEF Taken
  <2>5. ASSUME ~startup_failed, NEW e \in Devices, NEW n \in 1 .. produced'[e]
        PROVE  Here(e, n)'
    <3>1. Here(e, n)
      BY <1>4, <2>1, <2>5
    <3>2. CASE Taken(<<e, n>>)
      BY <2>4, <3>2
    <3>3. CASE pc[e] = "push" /\ n = produced[e]
      BY <1>3, <2>1, <2>3, <3>3 DEF Taken
    <3>4. QED BY <3>1, <3>2, <3>3
  <2>6. ASSUME NEW i \in 1 .. Len(accepted')
        PROVE  accepted'[i][2] <= produced'[accepted'[i][1]]
    <3>1. CASE i = Len(accepted) + 1
      BY <2>1, <2>2, <3>1
    <3>2. CASE i \in 1 .. Len(accepted)
      BY <1>4, <2>1, <2>2, <3>2
    <3>3. QED BY <1>1, <2>2, <3>1, <3>2
  <2>7. QED BY <1>2, <2>5, <2>6 DEF Delivery
<1>8. CASE PushFrame(d) /\ ~PushAccepted(d)
  <2>1. closed /\ pc[d] = "push" /\ UNCHANGED <<produced, accepted>>
    BY <1>8 DEF PushFrame, WorkerGoes, beside, output
  <2>2. mpc \notin {"drain", "returned"}
    BY <2>1 DEF PipelineInv, JoinOrder
  <2>3. startup_failed
    BY <2>1, <2>2 DEF Endings
  <2>4. QED BY <1>2, <1>4, <2>1, <2>3 DEF Delivery
<1>9. CASE UNCHANGED <<produced, accepted>> /\ pc[d] # "push"
  <2>1. \A e \in Devices : pc[e] = "push" => pc'[e] = "push"
    BY <1>3, <1>9
  <2>2. QED BY <1>2, <1>4, <1>9, <2>1 DEF Delivery, Taken
<1>10. QED BY <1>1, <1>6, <1>7, <1>8, <1>9, WorkerDelivers

\* Who leaves the writer and what leaves the run alone keeps the files' invariant,
\* if the flags are settled when the last row is made.
LEMMA FilesStutter ==
  ASSUME Files, UNCHANGED <<writer, published, disk, run_log>>,
         wpc \in {"seal", "done"} => startup_failed' = startup_failed
  PROVE  Files'
<1>1. UNCHANGED <<wpc, subrun, events, next_event, file_open, pending, rec>>
  BY DEF writer, locals
<1>2. Trail'
  BY <1>1 DEF Files, Trail, DiskTrailsStream, WithRecord
<1>3. \A n : InFile(n)' = InFile(n)
  BY DEF InFile
<1>4. Counters'
  BY <1>1 DEF Files, Counters, SubrunAsDaqdDerivesIt, Before
<1>5. Counted'
  BY <1>1, <1>3 DEF Files, Counted
<1>6. \A row \in run_log : RowIsTrue(row) => RowIsTrue(row)'
  BY <1>1, <1>3 DEF RowIsTrue, Failing
<1>7. FilesLogged'
  BY <1>1 DEF Files, Rows, FilesLogged
<1>8. PendingIsTrue'
  BY <1>1 DEF Files, Rows, PendingIsTrue
<1>9. QED BY <1>2, <1>4, <1>5, <1>6, <1>7, <1>8 DEF Files, Rows

\* A step of a worker keeps the verdicts' invariant.
LEMMA IInvWorker ==
  ASSUME IInv, NEW d \in Devices, Worker(d)
  PROVE  Verdicts' /\ Endings' /\ Delivery' /\ Files'
<1> USE DEF IInv
<1>1. Verdicts' /\ Endings' /\ Delivery'
  BY VerdictsWorker, EndingsWorker, DeliveryWorker DEF PipelineInv, TypeInv
<1>2. UNCHANGED <<writer, published, disk, run_log>>
  BY WorkerReach
<1>3. wpc \in {"seal", "done"} => startup_failed' = startup_failed
  <2>1. mpc \notin {"drain", "returned"}
    BY WorkerOnward DEF PipelineInv, TypeInv, WorkerInv, JoinOrder
  <2>2. wpc \in {"seal", "done"} => startup_failed
    BY <2>1 DEF PipelineInv, JoinOrder, Endings
  <2>3. startup_failed \in BOOLEAN
    BY DEF PipelineInv, TypeInv, StateTypes, FlagTypes
  <2>4. QED BY <2>2, <2>3, WorkerFlags
<1>4. QED BY <1>1, <1>2, <1>3, FilesStutter

-----------------------------------------------------------------------------
(* The main thread and the environment.                                     *)

\* A step of the main thread or the environment keeps the verdicts' invariant.
LEMMA IInvOthers ==
  ASSUME IInv, Main \/ Environment \/ Returned \/ UNCHANGED vars
  PROVE  Verdicts' /\ Endings' /\ Delivery' /\ Files'
<1> USE DEF IInv
<1>1. UNCHANGED <<writer, output, queue, atomics, told, startup_failed, writer_ok>>
  BY OthersReach
<1>2. UNCHANGED <<connected_once, pc, produced>>
  BY OthersLeaveWorkers DEF PipelineInv, TypeInv, WorkerInv
<1>3. Verdicts'
  BY <1>1, <1>2 DEF Verdicts, told
<1>4. Endings'
  <2> USE <1>1 DEF Endings, writer
  <2>1. CASE LeavePoll
    BY <2>1 DEF LeavePoll, OutsideMain
  <2>2. CASE CloseQueue
    BY <2>2 DEF CloseQueue, CloseWhen, OutsideMain
  <2>3. CASE ReturnCode
    BY <2>3 DEF ReturnCode, OutsideMain
  <2>4. CASE Environment
    BY <2>4 DEF Environment, RequestStop, StartupDeadline, WindowExpires, inside, mainVars,
                queueVars
  <2>5. CASE Returned \/ UNCHANGED vars
    BY <2>5 DEF Returned, vars, beside, mainVars, queueVars
  <2>6. QED BY <2>1, <2>2, <2>3, <2>4, <2>5 DEF Main
<1>5. Delivery'
  BY <1>1, <1>2 DEF Delivery, Taken, output
<1>6. Files'
  BY <1>1, FilesStutter DEF output
<1>7. QED BY <1>3, <1>4, <1>5, <1>6

-----------------------------------------------------------------------------
(* The writer.                                                              *)

\* The writer leaves the workers alone and takes no failure back.
LEMMA VerdictsWriter == ASSUME IInv, Writer PROVE Verdicts' /\ Delivery'
<1>1. UNCHANGED <<connected_once, pc, produced, notified, accepted>>
  BY WriterReach DEF OutsideWriter, atomics, told
<1>2. startup_failed' = startup_failed \/ startup_failed' = TRUE
  BY WriterReach DEF flags, WriterFailFlag, WriterFailStop, WriterFailClose
<1>3. startup_failed \in BOOLEAN
  BY DEF IInv, PipelineInv, TypeInv, StateTypes, FlagTypes
<1>4. startup_failed => startup_failed'
  BY <1>2, <1>3
<1>5. Verdicts'
  BY <1>1, <1>4 DEF IInv, Verdicts
<1>6. Delivery'
  BY <1>1, <1>4 DEF IInv, Delivery, Taken
<1>7. QED BY <1>5, <1>6

\* A writer that fails raises the flags before it closes the queue.
LEMMA EndingsWriter == ASSUME IInv, Writer PROVE Endings'
<1> USE DEF IInv, Endings, WriterGoes, Broken
<1>1. UNCHANGED <<mpc, rc>>
  BY WriterReach DEF OutsideWriter, mainVars
<1>2. mpc # "returned"
  BY DEF Writer, MakeOutputDir, PopFrame, Take, RotateSubrun, CloseSubrun, OpenFile,
         OpenCounting, EmitFrame, WriteFrame, WriteTo, WriteFails, PopClosed, SealRun,
         WriterFailFlag, WriterFailStop, WriterFailClose, PipelineInv, JoinOrder
<1>3. CASE WriterFailFlag
  BY <1>1, <1>2, <1>3 DEF WriterFailFlag, queueVars
<1>4. CASE WriterFailStop
  BY <1>1, <1>2, <1>4 DEF WriterFailStop, queueVars
<1>5. CASE WriterFailClose
  BY <1>1, <1>2, <1>5 DEF WriterFailClose, flags
<1>6. CASE ~WriterFailFlag /\ ~WriterFailStop /\ ~WriterFailClose
  <2>1. UNCHANGED <<startup_failed, writer_ok, closed>>
    BY <1>6, WriterReach DEF flags
  <2>2. wpc \notin Broken /\ wpc' \notin Broken
    BY <1>6 DEF Writer, MakeOutputDir, PopFrame, Take, RotateSubrun, CloseSubrun, OpenFile,
                OpenCounting, EmitFrame, WriteFrame, WriteTo, WriteFails, PopClosed, SealRun
  <2>3. QED BY <1>1, <1>2, <2>1, <2>2
<1>7. QED BY <1>3, <1>4, <1>5, <1>6

\* The disk follows the stream, one record behind.
LEMMA TrailWriter == ASSUME IInv, Writer PROVE Trail'
<1> USE DEF IInv, Files, Trail, DiskTrailsStream, WriterGoes, Failing
<1>1. CASE OpenFile
  <2>1. disk' = disk
    BY <1>1, OpenTruncatesNothing
  <2>2. QED BY <1>1, <2>1 DEF OpenFile, OpenCounting
<1>2. CASE EmitFrame
  <2>1. /\ disk = published /\ disk' = disk /\ wpc' = "write"
        /\ next_event \in Nat /\ next_event' = next_event + 1
        /\ published' = published \cup
                          {[event |-> next_event, subrun |-> subrun, frame |-> rec]}
        /\ UNCHANGED <<subrun, rec>>
    BY <1>2, Numbers DEF EmitFrame
  <2>2. next_event' - 1 = next_event
    BY <2>1
  <2>3. WithRecord' = published'
    BY <2>1, <2>2 DEF WithRecord
  <2>4. \A r \in published' \ disk' : r.event = next_event' - 1
    BY <2>1, <2>2
  <2>5. QED BY <2>1, <2>3, <2>4
<1>3. CASE WriteFrame
  BY <1>3 DEF WriteFrame, WriteTo
<1>4. CASE WriteFails
  <2>1. WithRecord = published /\ disk \subseteq published
    BY <1>4 DEF WriteFails
  <2>2. QED BY <1>4, <2>1 DEF WriteFails, locals
<1>5. CASE MakeOutputDir \/ WriterFailFlag \/ WriterFailStop \/ WriterFailClose
  BY <1>5 DEF MakeOutputDir, WriterFailFlag, WriterFailStop, WriterFailClose, locals, output
<1>6. CASE PopFrame \/ PopClosed
  BY <1>6 DEF PopFrame, Take, PopClosed, output
<1>7. CASE RotateSubrun \/ SealRun
  BY <1>7 DEF RotateSubrun, CloseSubrun, SealRun
<1>8. QED BY <1>1, <1>2, <1>3, <1>4, <1>5, <1>6, <1>7 DEF Writer

\* The place after so many records, one record on, and one file on.
LEMMA Places ==
  ASSUME NEW n \in Nat
  PROVE  /\ Before(n) \in Int
         /\ Before(n + 1) = Before(n) + EventsPerFile
         /\ EventsPerFile \in Nat \ {0} /\ SubrunStart \in Nat
<1> USE ConstantsAssumption
<1> DEFINE k == n - SubrunStart
<1>1. k \in Int /\ (n + 1) - SubrunStart = k + 1 OBVIOUS
<1> HIDE DEF k
<1>2. EventsPerFile * (k + 1) = EventsPerFile * k + EventsPerFile
  BY <1>1
<1>3. Before(n) = EventsPerFile * k /\ Before(n + 1) = EventsPerFile * (k + 1)
  BY <1>1 DEF Before, k
<1>4. QED BY <1>1, <1>2, <1>3

\* The writer's count is a quotient and a remainder, though it never divides.
LEMMA PlaceIsQuotient ==
  ASSUME NEW n \in Nat, NEW m \in Nat, NEW q \in 0 .. EventsPerFile - 1,
         m = Before(n) + q
  PROVE  n = SubrunStart + m \div EventsPerFile
<1> USE ConstantsAssumption
<1>1. /\ m \div EventsPerFile \in Nat /\ m % EventsPerFile \in 0 .. EventsPerFile - 1
      /\ m = EventsPerFile * (m \div EventsPerFile) + (m % EventsPerFile)
  BY DivMod
<1> DEFINE k == n - SubrunStart  a == m \div EventsPerFile  r == m % EventsPerFile
<1>2. k \in Int /\ a \in Int /\ r \in 0 .. EventsPerFile - 1 /\ m = EventsPerFile * a + r
      /\ m = EventsPerFile * k + q
  BY <1>1 DEF Before
<1> HIDE DEF k, a, r
<1>3. k = a
  BY <1>2, OneQuotient
<1>4. QED BY <1>3 DEF k, a

\* The writer's counters keep to its place.
LEMMA CountersWriter == ASSUME IInv, Writer PROVE Counters'
<1> USE ConstantsAssumption
<1> USE DEF IInv, Files, Counters, WriterGoes
<1>0. /\ subrun \in Nat /\ events \in Nat /\ next_event \in Nat /\ Before(subrun) \in Int
      /\ wpc \in {"mkdir", "pop", "open", "rotate", "emit", "write", "seal", "fail_flag",
                  "fail_stop", "fail_close", "failed", "done"}
      /\ \A r \in published : r.event \in Nat
  BY Places DEF PipelineInv, TypeInv, WriterTypes, WriterPC, Record
<1>1. CASE MakeOutputDir
  BY <1>0, <1>1 DEF MakeOutputDir, locals, output, SubrunAsDaqdDerivesIt, Before
<1>2. CASE PopFrame
  BY <1>0, <1>2 DEF PopFrame, Take, output, SubrunAsDaqdDerivesIt, Before
<1>3. CASE RotateSubrun
  <2>1. /\ UNCHANGED <<events, next_event, published>> /\ wpc = "rotate"
        /\ \/ wpc' = "open" /\ file_open' = FALSE /\ subrun' = subrun + 1
           \/ wpc' = "fail_flag" /\ subrun' = subrun
    BY <1>3 DEF RotateSubrun, CloseSubrun
  <2>2. next_event = Before(subrun + 1)
    BY <1>0, <2>1, Places
  <2>3. wpc' = "open" => next_event' = Before(subrun)'
    BY <2>1, <2>2 DEF Before
  <2>4. QED BY <1>0, <2>1, <2>3 DEF SubrunAsDaqdDerivesIt
<1>4. CASE OpenFile
  <2>1. /\ UNCHANGED <<subrun, next_event, published>> /\ wpc = "open"
        /\ \/ wpc' = "emit" /\ events' = 0
           \/ wpc' = "fail_flag" /\ events' = events
    BY <1>4 DEF OpenFile, OpenCounting
  <2>2. Before(subrun)' = Before(subrun)
    BY <2>1 DEF Before
  <2>3. QED BY <1>0, <2>1, <2>2 DEF SubrunAsDaqdDerivesIt
<1>5. CASE EmitFrame
  <2>1. /\ UNCHANGED <<subrun, events>> /\ wpc = "emit" /\ wpc' = "write"
        /\ next_event' = next_event + 1
        /\ published' = published \cup
                          {[event |-> next_event, subrun |-> subrun, frame |-> rec]}
    BY <1>5 DEF EmitFrame
  <2>2. Before(subrun)' = Before(subrun)
    BY <2>1 DEF Before
  <2>3. next_event = Before(subrun) + events /\ events \in 0 .. EventsPerFile - 1
    BY <1>0, <2>1
  <2>4. subrun = SubrunStart + next_event \div EventsPerFile
    BY <1>0, <2>3, PlaceIsQuotient
  <2>5. SubrunAsDaqdDerivesIt'
    <3>1. SUFFICES ASSUME NEW r \in published'
                   PROVE  r.subrun = SubrunStart + r.event \div EventsPerFile
      BY DEF SubrunAsDaqdDerivesIt
    <3>2. CASE r \in published
      BY <3>2 DEF SubrunAsDaqdDerivesIt
    <3>3. CASE r = [event |-> next_event, subrun |-> subrun, frame |-> rec]
      <4>1. r.subrun = subrun /\ r.event = next_event
        BY <3>3
      <4>2. QED BY <2>4, <4>1
    <3>4. QED BY <2>1, <3>2, <3>3
  <2>6. next_event' = Before(subrun)' + (events' + 1)
    BY <1>0, <2>1, <2>2, <2>3
  <2>7. QED BY <1>0, <2>1, <2>5, <2>6
<1>6. CASE WriteFrame
  <2>1. /\ UNCHANGED <<subrun, next_event, file_open, published>> /\ wpc = "write"
        /\ wpc' = "pop" /\ events' = events + 1
    BY <1>6 DEF WriteFrame, WriteTo
  <2>2. Before(subrun)' = Before(subrun)
    BY <2>1 DEF Before
  <2>3. file_open'
    BY <2>1 DEF PipelineInv, FilesPlace
  <2>4. QED BY <1>0, <2>1, <2>2, <2>3 DEF SubrunAsDaqdDerivesIt
<1>7. CASE WriteFails
  BY <1>0, <1>7 DEF WriteFails, locals, SubrunAsDaqdDerivesIt
<1>8. CASE PopClosed
  BY <1>0, <1>8 DEF PopClosed, output, SubrunAsDaqdDerivesIt
<1>9. CASE SealRun
  BY <1>0, <1>9 DEF SealRun, SubrunAsDaqdDerivesIt
<1>10. CASE WriterFailFlag \/ WriterFailStop \/ WriterFailClose
  BY <1>0, <1>10 DEF WriterFailFlag, WriterFailStop, WriterFailClose, locals, output,
                     SubrunAsDaqdDerivesIt
<1>11. QED
  BY <1>1, <1>2, <1>3, <1>4, <1>5, <1>6, <1>7, <1>8, <1>9, <1>10 DEF Writer

\* Taking one record more into the files changes only the file it is for.
LEMMA OneFileGrows ==
  ASSUME IInv, wpc = "write"
  PROVE  /\ IsFiniteSet(WithRecord)
         /\ Cardinality({r \in WithRecord : r.subrun = subrun}) = events + 1
         /\ \A n : n # subrun => {r \in WithRecord : r.subrun = n} = InFile(n)
<1> DEFINE x == [event |-> next_event - 1, subrun |-> subrun, frame |-> rec]
<1>1. x.event = next_event - 1 /\ x.subrun = subrun /\ WithRecord = disk \cup {x}
  BY DEF WithRecord
<1>2. x \notin disk
  <2>1. Stored = First(next_event - 1) /\ next_event \in Nat
    BY Numbers DEF IInv, PipelineInv, WriterPlace, Emitted
  <2>2. SUFFICES ASSUME x \in disk PROVE FALSE
    OBVIOUS
  <2> HIDE DEF x
  <2>3. <<x.event, x.frame>> \in Stored
    BY <2>2 DEF Stored, Pairs
  <2>4. x.event \in 0 .. (next_event - 1) - 1
    BY <2>1, <2>3 DEF First
  <2>5. QED BY <1>1, <2>1, <2>4
<1> HIDE DEF x
<1>3. IsFiniteSet(disk) /\ file_open /\ events \in Nat
  BY DEF IInv, Files, Counted, PipelineInv, FilesPlace, TypeInv, WriterTypes
<1>4. IsFiniteSet(InFile(subrun)) /\ Cardinality(InFile(subrun)) = events
  BY <1>3, FS_Subset DEF IInv, Files, Counted, InFile
<1>5. {r \in WithRecord : r.subrun = subrun} = InFile(subrun) \cup {x} /\ x \notin InFile(subrun)
  BY <1>1, <1>2 DEF InFile
<1>6. \A n : n # subrun => {r \in WithRecord : r.subrun = n} = InFile(n)
  BY <1>1 DEF InFile
<1>7. QED
  BY <1>1, <1>3, <1>4, <1>5, <1>6, FS_AddElement

\* What the writer counts is what is in its file.
LEMMA CountedWriter == ASSUME IInv, Writer PROVE Counted'
<1> USE DEF IInv, Files, WriterGoes
<1>0. IsFiniteSet(disk) /\ subrun \in Nat
  BY Numbers DEF Counted
<1>1. CASE OpenFile
  <2>1. /\ disk' = disk /\ subrun' = subrun /\ wpc = "open"
        /\ \/ wpc' = "emit" /\ events' = 0
           \/ wpc' = "fail_flag"
    BY <1>1, OpenTruncatesNothing DEF OpenFile, OpenCounting
  <2>2. \A r \in disk : r.subrun # subrun
    BY <1>0, <2>1, Numbers DEF PipelineInv, FilesPlace
  <2>3. InFile(subrun)' = {}
    BY <2>1, <2>2 DEF InFile
  <2>4. QED BY <1>0, <2>1, <2>3, FS_EmptySet DEF Counted
<1>2. CASE WriteFrame
  <2>1. disk' = WithRecord /\ events' = events + 1 /\ subrun' = subrun /\ wpc = "write"
    BY <1>2 DEF WriteFrame, WriteTo
  <2>2. InFile(subrun)' = {r \in WithRecord : r.subrun = subrun}
    BY <2>1 DEF InFile
  <2>3. IsFiniteSet(disk') /\ Cardinality(InFile(subrun)') = events'
    BY <2>1, <2>2, OneFileGrows
  <2>4. QED BY <2>3 DEF Counted
<1>3. CASE WriteFails
  <2>1. disk' \in {disk, WithRecord} /\ wpc = "write" /\ wpc' = "fail_flag"
    BY <1>3 DEF WriteFails
  <2>2. IsFiniteSet(disk')
    BY <1>0, <2>1, OneFileGrows
  <2>3. QED BY <2>1, <2>2 DEF Counted
<1>4. CASE ~OpenFile /\ ~WriteFrame /\ ~WriteFails
  <2>1. /\ disk' = disk
        /\ wpc' \in {"pop", "rotate", "emit", "write", "seal"} /\ file_open' =>
             /\ wpc \in {"pop", "emit"} /\ file_open
             /\ UNCHANGED <<subrun, events>>
    <3>1. CASE MakeOutputDir \/ PopFrame
      BY <3>1 DEF MakeOutputDir, PopFrame, Take, locals, output, Counters
    <3>2. CASE RotateSubrun \/ SealRun
      BY <3>2 DEF RotateSubrun, CloseSubrun, SealRun
    <3>3. CASE EmitFrame \/ PopClosed
      BY <3>3 DEF EmitFrame, PopClosed, output, PipelineInv, FilesPlace
    <3>4. CASE WriterFailFlag \/ WriterFailStop \/ WriterFailClose
      BY <3>4 DEF WriterFailFlag, WriterFailStop, WriterFailClose, locals, output
    <3>5. QED BY <1>4, <3>1, <3>2, <3>3, <3>4 DEF Writer
  <2>2. wpc' \in {"pop", "rotate", "emit", "write", "seal"} /\ file_open' =>
          InFile(subrun)' = InFile(subrun)
    BY <2>1 DEF InFile
  <2>3. QED BY <1>0, <2>1, <2>2 DEF Counted
<1>5. QED BY <1>1, <1>2, <1>3, <1>4

\* What the writer can do to the files and to its place among them.
LEMMA WriterFiles ==
  ASSUME IInv, Writer
  PROVE  \/ /\ wpc \notin Failing \cup {"done"}
            /\ subrun' = subrun \/ subrun' = subrun + 1
            /\ disk' = disk \/ (disk' = WithRecord /\ wpc = "write")
         \/ /\ wpc \in Failing /\ wpc' \in Failing
            /\ UNCHANGED <<subrun, disk, run_log>>
<1> USE DEF WriterGoes, Failing
<1>1. CASE OpenFile
  BY <1>1, OpenTruncatesNothing DEF IInv, OpenFile, OpenCounting
<1>2. CASE WriteFrame \/ WriteFails
  BY <1>2 DEF WriteFrame, WriteTo, WriteFails, locals
<1>3. CASE MakeOutputDir \/ PopFrame \/ PopClosed
  BY <1>3 DEF MakeOutputDir, PopFrame, Take, PopClosed, locals, output
<1>4. CASE RotateSubrun \/ SealRun \/ EmitFrame
  BY <1>4 DEF RotateSubrun, CloseSubrun, SealRun, EmitFrame
<1>5. CASE WriterFailFlag \/ WriterFailStop \/ WriterFailClose
  BY <1>5 DEF WriterFailFlag, WriterFailStop, WriterFailClose, locals, output
<1>6. QED BY <1>1, <1>2, <1>3, <1>4, <1>5 DEF Writer

\* A row once made stays true: its file is not written to any more.
LEMMA RowStaysTrue ==
  ASSUME IInv, Writer, NEW row \in run_log
  PROVE  RowIsTrue(row)'
<1>1. RowIsTrue(row) /\ row.subrun \in Nat /\ subrun \in Nat
  BY DEF IInv, Files, Rows, PipelineInv, TypeInv, WriterTypes, Row
<1>2. CASE wpc \in Failing
  <2>1. wpc' \in Failing /\ UNCHANGED <<subrun, disk>>
    BY <1>2, WriterFiles
  <2>2. \A n : InFile(n)' = InFile(n)
    BY <2>1 DEF InFile
  <2>3. wpc' \notin {"done"}
    BY <2>1 DEF Failing
  <2>4. QED BY <1>1, <1>2, <2>1, <2>2, <2>3 DEF RowIsTrue
<1>3. CASE wpc \notin Failing
  <2>1. /\ wpc \notin Failing \cup {"done"}
        /\ subrun' = subrun \/ subrun' = subrun + 1
        /\ disk' = disk \/ (disk' = WithRecord /\ wpc = "write")
    BY <1>3, WriterFiles
  <2>2. /\ row.nevents \in 1 .. EventsPerFile
        /\ row.status.kind = "completed" => row.nevents = EventsPerFile
        /\ row.subrun < subrun
        /\ Cardinality(InFile(row.subrun)) = row.nevents
    BY <1>1, <1>3, <2>1 DEF RowIsTrue
  <2>3. row.subrun < subrun' /\ row.subrun # subrun /\ row.subrun # subrun' /\ row.subrun <= subrun'
    BY <1>1, <2>1, <2>2
  <2>4. InFile(row.subrun)' = InFile(row.subrun)
    <3>1. CASE disk' = disk
      BY <3>1 DEF InFile
    <3>2. CASE disk' = WithRecord /\ wpc = "write"
      <4>1. InFile(row.subrun)' = {r \in WithRecord : r.subrun = row.subrun}
        BY <3>2 DEF InFile
      <4>2. QED BY <2>3, <3>2, <4>1, OneFileGrows
    <3>3. QED BY <2>1, <3>1, <3>2
  <2>5. QED BY <2>2, <2>3, <2>4 DEF RowIsTrue
<1>4. QED BY <1>2, <1>3

\* The row that is made says what is in the file and how the run stands.
LEMMA RowMade ==
  ASSUME IInv, Writer, NEW row \in run_log' \ run_log
  PROVE  RowIsTrue(row)'
<1> USE DEF IInv, Files, WriterGoes
<1>0. /\ subrun \in Nat /\ events \in Nat /\ events \in 0 .. EventsPerFile
      /\ wpc \in {"rotate", "seal"} => file_open
  BY DEF PipelineInv, TypeInv, WriterTypes, Counters, FilesPlace
<1>1. \A status : RowNow(status).subrun = subrun /\ RowNow(status).nevents = events
                  /\ RowNow(status).status = status
  BY DEF RowNow
<1>2. CASE RotateSubrun
  <2>1. /\ wpc = "rotate" /\ wpc' = "open" /\ subrun' = subrun + 1 /\ disk' = disk
        /\ row = RowNow(pending)
    BY <1>2 DEF RotateSubrun, CloseSubrun, LogSucceeds, LogFails
  <2>2. row.subrun = subrun /\ row.nevents = events /\ row.status.kind = "completed"
    BY <1>1, <2>1 DEF Rows, PendingIsTrue
  <2>3. events = EventsPerFile /\ Cardinality(InFile(subrun)) = events
    BY <1>0, <2>1 DEF Counters, Counted
  <2>4. InFile(row.subrun)' = InFile(subrun)
    BY <2>1, <2>2 DEF InFile
  <2>5. row.subrun < subrun' /\ row.subrun <= subrun' /\ row.subrun # subrun'
    BY <1>0, <2>1, <2>2
  <2>6. row.nevents \in 1 .. EventsPerFile
    BY <2>2, <2>3, ConstantsAssumption
  <2>7. QED BY <2>2, <2>3, <2>4, <2>5, <2>6 DEF RowIsTrue
<1>3. CASE SealRun
  <2>1. /\ wpc = "seal" /\ wpc' = "done" /\ UNCHANGED <<subrun, disk, startup_failed>>
        /\ row = RowNow(pending) /\ events # 0
    BY <1>3 DEF SealRun, LogSucceeds, LogFails, flags
  <2>2. row.subrun = subrun /\ row.nevents = events /\ row.status = pending
    BY <1>1, <2>1
  <2>3. /\ pending.kind = "completed" => events = EventsPerFile
        /\ pending.kind \in FailureKind <=> startup_failed
    BY <2>1 DEF Rows, PendingIsTrue
  <2>4. Cardinality(InFile(row.subrun)') = events
    <3>1. InFile(row.subrun)' = InFile(subrun)
      BY <2>1, <2>2 DEF InFile
    <3>2. QED BY <1>0, <2>1, <3>1 DEF Counted
  <2>5. row.subrun <= subrun' /\ row.nevents \in 1 .. EventsPerFile
    BY <1>0, <2>1, <2>2
  <2>6. QED BY <2>1, <2>2, <2>3, <2>4, <2>5 DEF RowIsTrue, Failing
<1>4. CASE WriteFails
  <2> DEFINE error == [kind |-> "error", lost |-> 0]
  <2>1. /\ wpc = "write" /\ wpc' = "fail_flag" /\ subrun' = subrun
        /\ disk' = disk \/ disk' = WithRecord
        /\ row = RowNow(error) /\ events # 0
    BY <1>4 DEF WriteFails, LogSucceeds, LogFails, locals
  <2>2. row.subrun = subrun /\ row.nevents = events /\ row.status.kind = "error"
    BY <1>1, <2>1
  <2>3. \/ Cardinality(InFile(row.subrun)') = events
        \/ Cardinality(InFile(row.subrun)') = events + 1
    <3>1. CASE disk' = disk
      <4>1. InFile(row.subrun)' = InFile(subrun)
        BY <2>2, <3>1 DEF InFile
      <4>2. QED BY <2>1, <4>1 DEF Counted, PipelineInv, FilesPlace
    <3>2. CASE disk' = WithRecord
      <4>1. InFile(row.subrun)' = {r \in WithRecord : r.subrun = subrun}
        BY <2>2, <3>2 DEF InFile
      <4>2. QED BY <2>1, <4>1, OneFileGrows
    <3>3. QED BY <2>1, <3>1, <3>2
  <2>4. row.subrun <= subrun' /\ row.nevents \in 1 .. EventsPerFile
    BY <1>0, <2>1, <2>2
  <2>5. wpc' \in Failing
    BY <2>1 DEF Failing
  <2>6. QED BY <2>1, <2>2, <2>3, <2>4, <2>5 DEF RowIsTrue
<1>5. CASE ~RotateSubrun /\ ~SealRun /\ ~WriteFails
  <2>1. run_log' = run_log
    BY <1>5 DEF Writer, MakeOutputDir, PopFrame, Take, OpenFile, OpenCounting, EmitFrame,
                WriteFrame, WriteTo, PopClosed, WriterFailFlag, WriterFailStop,
                WriterFailClose, output
  <2>2. QED BY <2>1
<1>6. QED BY <1>2, <1>3, <1>4, <1>5

\* No file is closed without its row.
LEMMA LoggedWriter == ASSUME IInv, Writer PROVE FilesLogged'
<1> USE DEF IInv, Files, Rows, WriterGoes
<1>0. /\ subrun \in Nat /\ events \in Nat /\ \A r \in disk : r.subrun \in Nat /\ r.subrun <= subrun
      /\ EventsPerFile # 0
  BY Numbers, ConstantsAssumption DEF PipelineInv, TypeInv, WriterTypes, FilesPlace
<1>1. \A status : RowNow(status).subrun = subrun
  BY DEF RowNow
<1>2. SUFFICES ASSUME wpc' \notin Failing, NEW r \in disk', r.subrun < subrun' \/ wpc' = "done"
               PROVE  \E row \in run_log' : row.subrun = r.subrun
  BY DEF FilesLogged
<1>3. /\ wpc \notin Failing \cup {"done"}
      /\ disk' = disk \/ (disk' = WithRecord /\ wpc = "write")
  BY <1>2, WriterFiles
<1>4. \A q \in disk : q.subrun < subrun => \E row \in run_log : row.subrun = q.subrun
  BY <1>3 DEF FilesLogged
<1>5. CASE RotateSubrun \/ SealRun
  <2>1. /\ disk' = disk /\ run_log' = run_log \cup {RowNow(pending)}
    <3>1. /\ disk' = disk /\ LogSucceeds(pending) /\ wpc \in {"rotate", "seal"}
      BY <1>2, <1>5 DEF RotateSubrun, CloseSubrun, SealRun, Failing
    <3>2. events # 0
      BY <1>0, <3>1 DEF Counters, PipelineInv, FilesPlace
    <3>3. QED BY <3>1, <3>2 DEF LogSucceeds
  <2>2. CASE r.subrun < subrun
    BY <1>4, <2>1, <2>2
  <2>3. CASE r.subrun = subrun
    BY <1>1, <2>1, <2>3
  <2>4. QED BY <1>0, <2>1, <2>2, <2>3
<1>6. CASE WriteFrame
  <2>1. /\ wpc' = "pop" /\ subrun' = subrun /\ run_log' = run_log /\ disk' = WithRecord
    BY <1>6 DEF WriteFrame, WriteTo
  <2>2. r.subrun < subrun
    BY <1>2, <2>1
  <2>3. r \in disk
    <3>1. CASE r = [event |-> next_event - 1, subrun |-> subrun, frame |-> rec]
      <4>1. r.subrun = subrun
        BY <3>1
      <4>2. QED BY <1>0, <2>2, <4>1
    <3>2. QED BY <1>2, <2>1, <3>1 DEF WithRecord
  <2>4. QED BY <1>4, <2>1, <2>2, <2>3
<1>7. CASE PopClosed
  <2>1. disk' = disk /\ subrun' = subrun /\ run_log' = run_log /\ wpc = "pop"
        /\ (wpc' = "done" => ~file_open)
    BY <1>7 DEF PopClosed, output
  <2>2. r.subrun < subrun
    BY <1>2, <2>1 DEF PipelineInv, FilesPlace
  <2>3. QED BY <1>4, <2>1, <2>2
<1>8. CASE ~RotateSubrun /\ ~SealRun /\ ~WriteFrame /\ ~PopClosed
  <2>1. disk' = disk
    BY <1>2, <1>3, <1>8 DEF Writer, WriteFails, MakeOutputDir, PopFrame, Take, OpenFile, OpenCounting,
       EmitFrame, WriterFailFlag, WriterFailStop, WriterFailClose, Failing
  <2>2. subrun' = subrun /\ run_log' = run_log /\ wpc' # "done"
    BY <1>2, <1>8 DEF Writer, MakeOutputDir, PopFrame, Take, OpenFile, OpenCounting, EmitFrame,
                WriteFails, WriterFailFlag, WriterFailStop, WriterFailClose, locals,
                output, Failing
  <2>3. QED BY <1>2, <1>4, <2>1, <2>2
<1>9. QED BY <1>5, <1>6, <1>7, <1>8

\* The status of the next row is decided on what the writer has and knows.
LEMMA PendingWriter == ASSUME IInv, Writer PROVE PendingIsTrue'
<1> USE DEF IInv, Files, PendingIsTrue, WriterGoes
<1>1. CASE PopFrame
  BY <1>1 DEF PopFrame, Take, CompletedStatus
<1>2. CASE PopClosed
  <2>1. UNCHANGED <<startup_failed, events>>
    BY <1>2 DEF PopClosed, flags
  <2>2. events \in 0 .. EventsPerFile /\ EventsPerFile \in Nat
    BY ConstantsAssumption DEF Counters
  <2>3. /\ wpc' \in {"seal", "done"}
        /\ wpc' = "seal" => pending' = FinalStatus(hit')
    BY <1>2 DEF PopClosed
  <2>4. /\ FinalStatus(hit').kind = "completed" => events = EventsPerFile
        /\ FinalStatus(hit').kind \in FailureKind <=> startup_failed
    BY <2>2 DEF FinalStatus, CompletedStatus, FailureKind
  <2>5. QED BY <2>1, <2>3, <2>4
<1>3. CASE ~PopFrame /\ ~PopClosed
  BY <1>3 DEF Writer, MakeOutputDir, RotateSubrun, CloseSubrun, OpenFile, OpenCounting,
              EmitFrame, WriteFrame, WriteTo, WriteFails, SealRun, WriterFailFlag,
              WriterFailStop, WriterFailClose
<1>4. QED BY <1>1, <1>2, <1>3

-----------------------------------------------------------------------------
(* What follows from it.                                                    *)

\* No step of any thread breaks the invariant.
LEMMA VerdictStep == ASSUME IInv, [Next]_vars PROVE IInv'
<1>1. PipelineInv'
  BY PipelineStep DEF IInv
<1>2. CASE Writer
  <2>1. Verdicts' /\ Endings' /\ Delivery' /\ Trail' /\ Counters' /\ Counted'
    BY <1>2, VerdictsWriter, EndingsWriter, TrailWriter, CountersWriter, CountedWriter
  <2>2. Rows'
    BY <1>2, RowStaysTrue, RowMade, LoggedWriter, PendingWriter DEF Rows
  <2>3. QED BY <1>1, <2>1, <2>2 DEF IInv, Files
<1>3. CASE \E d \in Devices : Worker(d)
  BY <1>1, <1>3, IInvWorker DEF IInv
<1>4. CASE Main \/ Environment \/ Returned \/ UNCHANGED vars
  BY <1>1, <1>4, IInvOthers DEF IInv
<1>5. QED BY <1>2, <1>3, <1>4 DEF Next

\* The invariant holds at every moment of a run.
LEMMA VerdictInvHolds == Spec => []IInv
<1>1. Init => IInv
  BY VerdictInit
<1>2. IInv /\ [Next]_vars => IInv'
  BY VerdictStep
<1>3. QED BY <1>1, <1>2, PTL DEF Spec

\* on_startup_status(true) is only ever said when every device has connected, and
\* (false) only when the run fails with a device that never did.
THEOREM VerdictCorrect == Spec => []StartupVerdict
<1>1. IInv => StartupVerdict
  BY DEF IInv, Verdicts, StartupVerdict
<1>2. QED BY <1>1, VerdictInvHolds, PTL

\* Stream, files and run log agree at every moment, for any number of records per
\* file and any faults.
THEOREM FilesAndRowsCorrect == Spec => []FilesAndRowsAgree
<1>1. ASSUME IInv PROVE FilesAndRowsAgree
  <2> USE <1>1 DEF IInv, Files
  <2>1. DiskTrailsStream /\ SubrunAsDaqdDerivesIt
    BY DEF Trail, Counters
  <2>2. LogMatchesFiles
    <3>1. SUFFICES ASSUME NEW row \in run_log
                   PROVE  /\ row.nevents \in 1 .. EventsPerFile
                          /\ \/ Cardinality(InFile(row.subrun)) = row.nevents
                             \/ /\ Cardinality(InFile(row.subrun)) = row.nevents + 1
                                /\ wpc # "done"
                          /\ row.status.kind = "completed" => row.nevents = EventsPerFile
      BY DEF LogMatchesFiles, InFile
    <3>2. QED BY DEF Rows, RowIsTrue, Failing
  <2>3. RowKeyNeverTaken
    <3>1. subrun \in Nat /\ \A row \in run_log : row.subrun \in Nat
      BY DEF PipelineInv, TypeInv, WriterTypes, Row
    <3>2. ASSUME wpc \in {"rotate", "seal", "write"}, NEW row \in run_log
          PROVE  row.subrun < subrun
      BY <3>2 DEF Rows, RowIsTrue, Failing
    <3>3. QED BY <3>1, <3>2 DEF RowKeyNeverTaken, KeyFree
  <2>4. QED BY <2>1, <2>2, <2>3 DEF FilesAndRowsAgree
<1>2. QED BY <1>1, VerdictInvHolds, PTL

\* The row of the file that was open at the end says what the return code says.
THEOREM FinalStatusCorrect == Spec => []FinalStatusMatchesReturnCode
<1>1. ASSUME IInv PROVE FinalStatusMatchesReturnCode
  <2> USE <1>1 DEF IInv, Files
  <2>1. SUFFICES ASSUME mpc = "returned", NEW row \in run_log, row.subrun = subrun
                 PROVE  row.status.kind \in {"completed", "stopped"} <=> rc = 0
    BY DEF FinalStatusMatchesReturnCode
  <2>2. /\ RowIsTrue(row) /\ wpc \in {"done", "failed"}
        /\ row.status.kind \in {"completed", "stopped", "error", "exit"}
    BY <2>1 DEF Rows, PipelineInv, JoinOrder, TypeInv, WriterTypes, Row, Status
  <2>3. rc = 0 <=> writer_ok /\ ~startup_failed
    BY <2>1 DEF Endings
  <2>4. CASE wpc = "done"
    <3>1. writer_ok
      BY <2>4 DEF Endings, Broken
    <3>2. row.status.kind \in FailureKind <=> startup_failed
      BY <2>1, <2>2, <2>4 DEF RowIsTrue
    <3>3. QED BY <2>2, <2>3, <3>1, <3>2 DEF FailureKind
  <2>5. CASE wpc = "failed"
    <3>1. ~writer_ok
      BY <2>5 DEF Endings, Broken
    <3>2. row.status.kind = "error"
      BY <2>1, <2>2, <2>5 DEF RowIsTrue, Failing
    <3>3. QED BY <2>3, <3>1, <3>2
  <2>6. QED BY <2>2, <2>4, <2>5
<1>2. QED BY <1>1, VerdictInvHolds, PTL

\* A run that returns 0 has every frame that any validator delivered in a file, and
\* a row for every file.
THEOREM CleanRunCorrect == Spec => []CleanRunIsComplete
<1>1. ASSUME IInv PROVE CleanRunIsComplete
  <2> USE <1>1 DEF IInv, Files
  <2>1. SUFFICES ASSUME mpc = "returned", rc = 0
                 PROVE  /\ {r.frame : r \in disk} = {f \in Frame : f[2] <= produced[f[1]]}
                        /\ {row.subrun : row \in run_log} = {r.subrun : r \in disk}
    BY DEF CleanRunIsComplete
  <2>2. writer_ok /\ ~startup_failed
    BY <2>1 DEF Endings
  <2>3. wpc = "done" /\ \A d \in Devices : pc[d] \in {"done", "failed"}
    BY <2>1, <2>2 DEF PipelineInv, JoinOrder, Endings, Broken
  <2>4. /\ accepted \in Seq(Frame) /\ Len(accepted) \in Nat
        /\ \A d \in Devices : produced[d] \in 0 .. MaxFrames
        /\ MaxFrames \in Nat
    BY ConstantsAssumption
       DEF PipelineInv, TypeInv, StateTypes, QueueTypes, WorkerInv, WorkerTypes
  <2>5. Stored = First(Len(accepted))
    BY <2>3, <2>4 DEF PipelineInv, WriterPlace, Settled, JoinOrder, Popped
  <2>6. \A i \in 1 .. Len(accepted) :
          accepted[i] \in Frame /\ accepted[i][2] <= produced[accepted[i][1]]
    BY <2>4 DEF Delivery
  <2>7. ASSUME NEW r \in disk
        PROVE  r.frame \in Frame /\ r.frame[2] <= produced[r.frame[1]]
    <3>1. <<r.event, r.frame>> \in First(Len(accepted))
      BY <2>5 DEF Stored, Pairs
    <3>2. PICK i \in 0 .. Len(accepted) - 1 : r.frame = accepted[i + 1]
      BY <3>1 DEF First
    <3>3. i + 1 \in 1 .. Len(accepted)
      BY <2>4
    <3>4. QED BY <2>6, <3>2, <3>3
  <2>8. ASSUME NEW f \in Frame, f[2] <= produced[f[1]]
        PROVE  \E r \in disk : r.frame = f
    <3>1. PICK d \in Devices, n \in 1 .. MaxFrames : f = <<d, n>>
      BY DEF Frame
    <3>2. n \in 1 .. produced[d]
      BY <2>4, <2>8, <3>1
    <3>3. Taken(f)
      BY <2>2, <2>3, <3>1, <3>2 DEF Delivery
    <3>4. PICK i \in 1 .. Len(accepted) : accepted[i] = f
      BY <3>3 DEF Taken
    <3>5. i - 1 \in 0 .. Len(accepted) - 1 /\ (i - 1) + 1 = i
      BY <2>4
    <3>6. <<i - 1, f>> \in Stored
      BY <2>5, <3>4, <3>5 DEF First
    <3>7. QED BY <3>6 DEF Stored, Pairs
  <2>9. ASSUME NEW row \in run_log PROVE \E r \in disk : r.subrun = row.subrun
    <3>1. Cardinality(InFile(row.subrun)) = row.nevents /\ row.nevents \in 1 .. EventsPerFile
      BY <2>3 DEF Rows, RowIsTrue, Failing
    <3>2. InFile(row.subrun) # {}
      BY <3>1, FS_EmptySet
    <3>3. QED BY <3>2 DEF InFile
  <2>10. ASSUME NEW r \in disk PROVE \E row \in run_log : row.subrun = r.subrun
    BY <2>3 DEF Rows, FilesLogged, Failing
  <2>11. QED BY <2>7, <2>8, <2>9, <2>10
<1>2. QED BY <1>1, VerdictInvHolds, PTL
=============================================================================
