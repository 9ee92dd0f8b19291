--------------------------- MODULE MonitorPipeline ---------------------------
(***************************************************************************)
(* datamon's thread once its parts are built: MonitorPipeline::Run takes   *)
(* frames from a source, decodes them and hands them to the text, ROOT and *)
(* realtime analysis sinks, in the order datamon.cpp builds them; then the *)
(* sinks are finalised.  The realtime sink calls the analyses, redraws     *)
(* them and saves snapshots of the one that was selected over a ZMQ socket.*)
(*                                                                         *)
(* Of each analysis, life keeps what it has been called with, in misuse    *)
(* what an analysis would not expect, and in plots the runs whose events   *)
(* are in the plots of the overview analysis, the only one there is.       *)
(* A loop over the analyses that stops at the first failing call is one    *)
(* step: the calls up to f, the failing one included, have been made.      *)
(***************************************************************************)
EXTENDS Integers, Sequences, FiniteSets

CONSTANTS
  NAnalyses,  \* --analysis, repeatable; 0: no realtime sink
  HasText,    \* a text sink
  HasRoot,    \* --root-out
  EnableGui,  \* not --no-gui
  Snapshots,  \* --snapshot-dir and --snapshot-select-endpoint are given
  MaxEvents,  \* --max-events, 0: all
  Runs,       \* run numbers of the frames
  FaultSets,  \* what may fail: a behaviour takes one of these sets
  MaxFrames,  \* bound: frames of the source
  MaxRequests \* bound: selection requests

\* Calls of an analysis fail; calls of anything else fail ("waits": the source
\* waits for more frames instead of ending).
InnerFaults == {"init", "update", "begin", "event", "end", "final"}
OuterFaults == {"source", "decode", "text", "root_open", "root_values", "bind"}
AllFaults   == InnerFaults \union OuterFaults \union {"waits"}

ASSUME PipelineAssumption ==
  /\ {NAnalyses, MaxEvents, MaxFrames, MaxRequests} \subseteq Nat
  /\ {HasText, HasRoot, EnableGui, Snapshots} \subseteq BOOLEAN
  /\ Runs \subseteq Nat \ {0}
  /\ FaultSets \subseteq SUBSET AllFaults

Analysis == 1 .. NAnalyses
NoRun    == 0
None     == 0 \* selected_analysis_name_ is empty

VARIABLES
  pc, idx, message, ok,        \* Run: place, idx, the message's run, its result
  stop, frames,                \* *stop_requested; frames the source delivered
  supply, faults,              \* frames the source has; what may fail
  seen,                        \* messages each sink took
  root, root_finalised,        \* the ROOT file: "none", "open", "closed"
  initialised, active_run, finalised, \* the realtime sink; active_run is NoRun
                               \* while has_active_run_ is false
  selected, requests, asked,   \* selected_analysis_name_; unanswered requests
  life,                        \* the analyses
  shots                        \* snapshots saved: of what, drawn since its last
                               \* event, selected by the poll for this snapshot

loopVars     == <<idx, message, ok>>
rootVars     == <<root, root_finalised>>
realtimeVars == <<initialised, active_run, finalised>>
selection    == <<selected, requests, asked>>
given        == <<supply, faults>>
env          == <<stop, frames, given>>
vars == <<pc, loopVars, env, seen, rootVars, realtimeVars, selection, life, shots>>

\* (A console sink comes before the text sink and is one of the same class.)
Sinks == <<"text", "root", "realtime">>
Built(s) == CASE s = "text" -> HasText
              [] s = "root" -> HasRoot
              [] s = "realtime" -> NAnalyses > 0

Fresh == [inits |-> 0, run |-> NoRun, plots |-> {}, drawn |-> FALSE, over |-> FALSE, misuse |-> {}]

Init ==
  /\ pc = "loop" /\ idx = 0 /\ message = NoRun /\ ok = TRUE
  /\ stop = FALSE /\ frames = 0
  /\ supply \in 0 .. MaxFrames /\ faults \in FaultSets
  /\ seen = [i \in 1 .. 3 |-> 0]
  /\ root = "none" /\ root_finalised = FALSE
  /\ initialised = FALSE /\ active_run = NoRun /\ finalised = FALSE
  /\ selected = None /\ requests = <<>> /\ asked = 0
  /\ life = [a \in Analysis |-> Fresh]
  /\ shots = {}

-----------------------------------------------------------------------------
(* The analyses as the sink calls them.                                    *)

Wrong(l, what, bad) == [l EXCEPT !.misuse = IF bad THEN @ \union {what} ELSE @]

\* Mutant: the plots are emptied when a run begins, not when it ends.
BugPlots(plots, op, r) ==
  CASE op = "event" -> plots \union {r} [] op = "begin" -> {} [] OTHER -> plots

\* The overview analysis fills its plots with every event, and empties them when
\* the run ends; BeginOfRun and Finalise leave them alone.
Plots(plots, op, r) ==
  CASE op = "event" -> plots \union {r} [] op \in {"init", "end"} -> {} [] OTHER -> plots

\* What one call of op for run r leaves of the life of an analysis.
Called(was, op, r) ==
  LET l == [was EXCEPT !.plots = Plots(@, op, r)] IN
  CASE op = "init"   -> [Wrong(l, "initialised twice", l.inits # 0) EXCEPT !.inits = @ + 1]
    [] op = "begin"  -> [Wrong(l, "begin in a run", l.run # NoRun) EXCEPT !.run = r]
    [] op = "event"  -> [Wrong(l, "event outside its run", l.run # r \/ l.inits = 0)
                           EXCEPT !.drawn = FALSE]
    [] op = "end"    -> [Wrong(l, "end outside its run", l.run # r) EXCEPT !.run = NoRun]
    [] op = "update" -> [l EXCEPT !.drawn = TRUE]
    [] op = "final"  -> [Wrong(l, "finalised in a run", l.run # NoRun) EXCEPT !.over = TRUE]

\* The places where a loop of calls of op may end: the failing one, or behind all.
Ends(op) == IF op \in faults THEN 1 .. NAnalyses + 1 ELSE {NAnalyses + 1}
AllDone(f) == f > NAnalyses

Calls(op, r, f) ==
  life' = [a \in Analysis |-> IF a <= f THEN Called(life[a], op, r) ELSE life[a]]

\* RedrawAll: UpdateDrawables of all analyses, then Draw of what is registered.
RedrawAll(f) == Calls("update", NoRun, f)

-----------------------------------------------------------------------------
(* Where Run goes.                                                         *)
Goto(from, to) == pc = from /\ pc' = to

\* The place of the next sink from i on that has been built, or what follows.
NextSink(i, places, after) ==
  LET later == {j \in i .. 3 : Built(Sinks[j])}
  IN  IF later = {} THEN after
      ELSE places[CHOOSE j \in later : \A k \in later : j <= k]

Finalisers == <<"finalise text", "finalise root", "finalise realtime">>

FirstFinalise == NextSink(1, Finalisers, "done")

\* Mutant: Run returns at once when something failed.
BugFails(to) == pc' = "done" /\ ok' = FALSE

\* Mutant: the result of Run is that of finalise_sinks.
BugFailsUnseen(to) == pc' = to /\ UNCHANGED ok

\* Run failed: the sinks are finalised, and it returns false.
Fails(to) == pc' = to /\ ok' = FALSE

\* Mutant: a failing sink costs only the message.
BugQuit == pc' = "loop" /\ UNCHANGED loopVars

Quit == Fails(FirstFinalise) /\ UNCHANGED <<idx, message>>

-----------------------------------------------------------------------------
(* The environment.                                                        *)

\* SIGINT or SIGTERM.
Signal ==
  /\ ~stop /\ stop' = TRUE
  /\ UNCHANGED <<pc, loopVars, frames, given, seen, rootVars, realtimeVars, selection, life, shots>>

\* A client of the selection endpoint asks for an analysis, or for none.
Request ==
  /\ Snapshots /\ asked < MaxRequests
  /\ \E a \in Analysis \union {None} : requests' = Append(requests, a)
  /\ asked' = asked + 1
  /\ UNCHANGED <<pc, loopVars, env, seen, rootVars, realtimeVars, selected, life, shots>>

-----------------------------------------------------------------------------
(* The loop of Run.                                                        *)

\* Mutant: off by one in the test of max_events.
BugMoreWanted == MaxEvents = 0 \/ idx <= MaxEvents

MoreWanted == MaxEvents = 0 \/ idx < MaxEvents

SourceEnds == frames = supply /\ "waits" \notin faults

BeginLoop == pc = "loop" /\ MoreWanted

\* Mutant: a source that waits does not look at the signal.
BugEndLoop ==
  /\ Goto("loop", FirstFinalise)
  /\ ~MoreWanted \/ SourceEnds
  /\ UNCHANGED <<loopVars, env, seen, rootVars, realtimeVars, selection, life, shots>>

\* max_events reached, stop requested, or the source has no more.
EndLoop ==
  /\ Goto("loop", FirstFinalise)
  /\ \/ ~MoreWanted
     \/ stop
     \/ SourceEnds
  /\ UNCHANGED <<loopVars, env, seen, rootVars, realtimeVars, selection, life, shots>>

\* A frame that is decoded goes to the first sink.  (Signal may come after the
\* test of stop_requested: the frame is then still taken.)
TakeFrame ==
  /\ BeginLoop /\ frames < supply
  /\ frames' = frames + 1 /\ \E r \in Runs : message' = r
  /\ pc' = NextSink(1, Sinks, "count")
  /\ UNCHANGED <<idx, ok, stop, given, seen, rootVars, realtimeVars, selection, life, shots>>

\* The source fails, or the decoder refuses the frame.
LoopFails ==
  /\ BeginLoop /\ faults \intersect {"source", "decode"} # {}
  /\ Quit
  /\ UNCHANGED <<env, seen, rootVars, realtimeVars, selection, life, shots>>

Count ==
  /\ Goto("count", "loop") /\ idx' = idx + 1
  /\ UNCHANGED <<message, ok, env, seen, rootVars, realtimeVars, selection, life, shots>>

-----------------------------------------------------------------------------
(* The text and the ROOT sink.                                             *)

Takes(i) ==
  /\ seen' = [seen EXCEPT ![i] = @ + 1]
  /\ pc' = NextSink(i + 1, Sinks, "count")
  /\ UNCHANGED loopVars

Text ==
  /\ pc = "text"
  /\ \/ Takes(1)
     \/ "text" \in faults /\ Quit /\ UNCHANGED seen
  /\ UNCHANGED <<env, rootVars, realtimeVars, selection, life, shots>>

\* EnsureOpen, then the values of the message fill the tree.
RootFile ==
  /\ pc = "root"
  /\ \/ root' = "open" /\ Takes(2)
     \/ "root_values" \in faults /\ root' = "open" /\ Quit /\ UNCHANGED seen
     \/ "root_open" \in faults /\ root = "none" /\ Quit /\ UNCHANGED <<root, seen>>
  /\ UNCHANGED <<env, root_finalised, realtimeVars, selection, life, shots>>

-----------------------------------------------------------------------------
(* The realtime sink.                                                      *)

\* PollSelectedAnalysisControl: every request that has come is answered.
Poll ==
  /\ requests' = <<>>
  /\ selected' = IF requests = <<>> THEN selected ELSE requests[Len(requests)]
  /\ UNCHANGED asked

\* SaveSnapshots: what was polled last is saved.
SaveSnapshots ==
  IF Snapshots
  THEN /\ Poll
       /\ shots' = IF selected' = None THEN shots
                   ELSE shots \union {<<selected', life[selected'].drawn, selected' # selected>>}
  ELSE UNCHANGED <<selection, shots>>

\* EnsureInitialised binds the selection endpoint, calls Initialise of all
\* analyses ...
Initialise(from, to, fail) ==
  /\ pc = from /\ ~initialised
  /\ \E f \in Ends("init") \union (IF "bind" \in faults THEN {0} ELSE {}) :
       /\ Calls("init", NoRun, f)
       /\ IF AllDone(f) THEN pc' = to /\ UNCHANGED ok ELSE Fails(fail)
  /\ UNCHANGED <<idx, message, env, seen, rootVars, realtimeVars, selection, shots>>

\* ... redraws them ...
FirstDraw(from, to, fail) ==
  /\ pc = from
  /\ \E f \in Ends("update") :
       /\ RedrawAll(f)
       /\ IF AllDone(f) THEN pc' = to /\ UNCHANGED ok ELSE Fails(fail)
  /\ UNCHANGED <<idx, message, env, seen, rootVars, realtimeVars, selection, shots>>

\* ... and saves a first snapshot.
FirstShot(from, to) ==
  /\ Goto(from, to)
  /\ SaveSnapshots
  /\ initialised' = TRUE
  /\ UNCHANGED <<loopVars, env, seen, rootVars, active_run, finalised, life>>

RtInitialise ==
  \/ Initialise("realtime", "rt draw", FirstFinalise)
  \/ FirstDraw("rt draw", "rt shot", FirstFinalise)
  \/ FirstShot("rt shot", "realtime")

\* Mutant: the result of the calls is ignored.
BugRtCalls(op, r, to, run) ==
  /\ initialised
  /\ \E f \in Ends(op) : Calls(op, r, f)
  /\ pc' = to /\ active_run' = run
  /\ UNCHANGED <<loopVars, env, seen, rootVars, initialised, finalised, selection, shots>>

\* One loop of calls of Consume; when all have succeeded the run becomes r.
RtCalls(op, r, to, run) ==
  /\ initialised
  /\ \E f \in Ends(op) :
       /\ Calls(op, r, f)
       /\ IF AllDone(f)
          THEN pc' = to /\ active_run' = run /\ UNCHANGED ok
          ELSE Fails(FirstFinalise) /\ UNCHANGED active_run
  /\ UNCHANGED <<idx, message, env, seen, rootVars, initialised, finalised, selection, shots>>

\* Mutant: a new run number is taken over without ending the old run.
BugEndRun == pc = "realtime" /\ active_run # NoRun /\ active_run # message /\ initialised
             /\ pc' = "rt begin"
             /\ UNCHANGED <<loopVars, env, seen, rootVars, realtimeVars, selection, life, shots>>

\* The message is of another run: the active one ends (has_active_run_ and
\* active_run_number_ stay until the next one has begun) ...
RtEndRun ==
  /\ pc = "realtime" /\ active_run # NoRun /\ active_run # message
  /\ RtCalls("end", active_run, "rt begin", active_run)

\* ... and the new one begins, as the first one does.
RtBeginRun ==
  /\ pc = "rt begin" \/ (pc = "realtime" /\ active_run = NoRun)
  /\ RtCalls("begin", message, "rt events", message)

RtEvents ==
  /\ pc = "rt events" \/ (pc = "realtime" /\ active_run = message)
  /\ RtCalls("event", message, "rt pump", active_run)

\* Mutant: the redraw is decided by the selection before the poll.
BugRedrawDue(gui_due, snapshot_due) ==
  (EnableGui /\ gui_due) \/ (snapshot_due /\ selected # None)

RedrawDue(gui_due, snapshot_due) ==
  (EnableGui /\ gui_due) \/ (snapshot_due /\ selected' # None)

\* PumpGui: polls the selection, redraws if the GUI or a snapshot is due ...
RtPump ==
  /\ pc = "rt pump"
  /\ IF Snapshots THEN Poll ELSE UNCHANGED selection
  /\ \E gui_due \in BOOLEAN, snapshot_due \in IF Snapshots THEN BOOLEAN ELSE {FALSE} :
       IF RedrawDue(gui_due, snapshot_due)
       THEN \E f \in Ends("update") :
              /\ RedrawAll(f)
              /\ IF AllDone(f) THEN pc' = (IF snapshot_due THEN "rt save" ELSE "rt end") /\ UNCHANGED ok
                               ELSE Fails(FirstFinalise)
       ELSE pc' = (IF snapshot_due THEN "rt save" ELSE "rt end") /\ UNCHANGED <<life, ok>>
  /\ UNCHANGED <<idx, message, env, seen, rootVars, realtimeVars, shots>>

\* ... and saves a snapshot that is due, after another poll.
RtSave ==
  /\ Goto("rt save", "rt end")
  /\ SaveSnapshots
  /\ UNCHANGED <<loopVars, env, seen, rootVars, realtimeVars, life>>

RtEnd ==
  /\ pc = "rt end"
  /\ Takes(3)
  /\ UNCHANGED <<env, rootVars, realtimeVars, selection, life, shots>>

-----------------------------------------------------------------------------
(* finalise_sinks: in order, until one fails.                              *)

FinaliseText ==
  /\ Goto("finalise text", NextSink(2, Finalisers, "done"))
  /\ UNCHANGED <<loopVars, env, seen, rootVars, realtimeVars, selection, life, shots>>

\* A file that was never opened is created now; then it is written and closed.
FinaliseRoot ==
  /\ pc = "finalise root" /\ root_finalised' = TRUE
  /\ \/ /\ root' = "closed" /\ pc' = NextSink(3, Finalisers, "done")
        /\ UNCHANGED ok
     \/ /\ root = "none" /\ "root_open" \in faults
        /\ Fails("done") /\ UNCHANGED root
  /\ UNCHANGED <<idx, message, env, seen, realtimeVars, selection, life, shots>>

\* The realtime sink is initialised if it is not yet ...
FinaliseRealtime ==
  /\ Goto("finalise realtime", IF initialised THEN "fin end" ELSE "fin init")
  /\ finalised' = TRUE
  /\ UNCHANGED <<loopVars, env, seen, rootVars, initialised, active_run, selection, life, shots>>

FinInitialise ==
  \/ Initialise("fin init", "fin draw", "done")
  \/ FirstDraw("fin draw", "fin shot", "done")
  \/ FirstShot("fin shot", "fin end")

FinCalls(op, from, to) ==
  /\ pc = from
  /\ \E f \in Ends(op) :
       /\ Calls(op, active_run, f)
       /\ IF AllDone(f)
          THEN pc' = to /\ active_run' = NoRun /\ UNCHANGED ok
          ELSE Fails("done") /\ UNCHANGED active_run
  /\ UNCHANGED <<idx, message, env, seen, rootVars, initialised, finalised, selection, shots>>

\* ... the active run ends ...
FinEndRun ==
  \/ active_run # NoRun /\ FinCalls("end", "fin end", "fin final")
  \/ /\ active_run = NoRun /\ Goto("fin end", "fin final")
     /\ UNCHANGED <<loopVars, env, seen, rootVars, realtimeVars, selection, life, shots>>

\* ... the analyses are finalised, redrawn, and a last snapshot is saved.
FinAnalyses == FinCalls("final", "fin final", "fin redraw")
FinRedraw   == FirstDraw("fin redraw", "fin save", "done")
FinSave ==
  /\ Goto("fin save", "done")
  /\ SaveSnapshots
  /\ UNCHANGED <<loopVars, env, seen, rootVars, realtimeVars, life>>

Done == pc = "done" /\ UNCHANGED vars

-----------------------------------------------------------------------------
Datamon ==
  \/ EndLoop \/ TakeFrame \/ Count \/ Text \/ RootFile
  \/ RtInitialise \/ RtEndRun \/ RtBeginRun \/ RtEvents \/ RtPump \/ RtSave \/ RtEnd
  \/ FinaliseText \/ FinaliseRoot \/ FinaliseRealtime \/ FinInitialise \/ FinEndRun
  \/ FinAnalyses \/ FinRedraw \/ FinSave

Next == Signal \/ Request \/ Datamon \/ LoopFails \/ Done

\* datamon's only thread runs on; signals, requests and a failure of the source
\* need not come.
Spec     == Init /\ [][Next]_vars
FairSpec == Spec /\ WF_vars(Datamon)

-----------------------------------------------------------------------------
(* Properties.                                                             *)

\* Types; no more events are counted than frames taken, nor than asked for.
TypeOK ==
  /\ idx \in 0 .. frames /\ frames \in 0 .. MaxFrames
  /\ MaxEvents > 0 => idx <= MaxEvents
  /\ message \in Runs \union {NoRun} /\ active_run \in Runs \union {NoRun}
  /\ {ok, stop, root_finalised, initialised, finalised} \subseteq BOOLEAN
  /\ root \in {"none", "open", "closed"}
  /\ selected \in Analysis \union {None} /\ requests \in Seq(Analysis \union {None})
  /\ asked \in 0 .. MaxRequests
  /\ shots \subseteq Analysis \X BOOLEAN \X BOOLEAN
  /\ supply \in frames .. MaxFrames /\ faults \in FaultSets

\* As long as the analyses do not fail themselves, each is initialised once,
\* sees every event between BeginOfRun and EndOfRun of its run, every run that
\* began ends before the next, and is finalised outside any run - also when the
\* source, the decoder or another sink fails (sink_realtime.cpp:374-385, 407).
AnalysesUsedInOrder ==
  faults \intersect InnerFaults = {} => \A a \in Analysis : life[a].misuse = {}

\* Whatever fails, no analysis is given an event of a run it has not begun.
EventsBelongToRun == \A a \in Analysis : "event outside its run" \notin life[a].misuse

\* However Run ends, a ROOT file it opened is written and closed, and analyses
\* that do not fail themselves and saw a run have seen its end and been
\* finalised.  finalise_sinks stops at the first sink that fails
\* (pipeline.cpp:21); that this loses nothing rests on the order in which
\* datamon.cpp:407-486 builds the sinks.
NothingLeftOpen ==
  pc = "done" =>
    /\ root # "open"
    /\ faults \intersect InnerFaults = {} =>
         \A a \in Analysis : life[a].inits # 0 => life[a].run = NoRun /\ life[a].over

\* Run returns true only if every sink took every frame and was finalised.
SuccessMeansComplete ==
  pc = "done" /\ ok =>
    /\ \A i \in 1 .. 3 : Built(Sinks[i]) => seen[i] = frames
    /\ HasRoot => root = "closed"
    /\ \A a \in Analysis : life[a].over

\* The plots show the events of the run that is on and of no other, also after
\* analyses have failed half way; out of a run they are empty
\* (kc705_tof_overview_analysis.cpp:91).
PlotsShowOneRun == \A a \in Analysis : life[a].plots \subseteq {life[a].run}

\* The sinks take the messages in step: none is ahead of a sink before it, and
\* after a failure none takes another.
SinksInStep ==
  \A i, j \in 1 .. 3 : Built(Sinks[i]) /\ Built(Sinks[j]) /\ i < j =>
    seen[i] - seen[j] \in {0, 1}

\* realtime_analysis.hpp:45 says of UpdateDrawables: "Called immediately before
\* drawable objects are redrawn/snapshotted."  A snapshot shows the plots as its
\* analysis left them at its last call, an event or the end of the run that
\* empties them before the snapshot of Finalise (sink_realtime.cpp:407 to 433),
\* unless the analysis is selected only by the poll that SaveSnapshots makes
\* itself (sink_realtime.cpp:266).
SnapshotsAreUpToDate == \A s \in shots : s[2] \/ s[3]

\* datamon ends, whatever fails, once it is asked to or the source has no more.
StopEndsDatamon == stop ~> pc = "done"

\* Sinks and analyses stay in step with the source, whatever fails, and what is
\* saved shows what they were given (pipeline.cpp:53, sink_realtime.cpp:266, 378).
SinksAgree ==
  TypeOK /\ SinksInStep /\ EventsBelongToRun /\ PlotsShowOneRun /\ SnapshotsAreUpToDate
=============================================================================
