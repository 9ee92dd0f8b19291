------------------------------ MODULE RunFiles ------------------------------
(***************************************************************************)
(* The files of the runs while they are written and read: the writer of    *)
(* DaqRuntime, as far as a reader can tell (frames appended and flushed,   *)
(* files rotated, acquisitions paused, resumed and followed by others),    *)
(* and datamon's two sources that read files: LiveRunFileSource follows    *)
(* the writer, FileFrameSource reads one file to its end.  A step of the   *)
(* reader is one look at the file system; SIGINT may come at any time, and *)
(* a run may be given any number that no run has used.                     *)
(*                                                                         *)
(* A frame is two cells, as a flush may reach the file in two parts.       *)
(***************************************************************************)
EXTENDS Integers, Sequences, FiniteSets

CONSTANTS
  EventsPerFile, \* cfg.events_per_file
  MaxFrames,     \* bound: frames written
  MaxRuns,       \* bound: runs
  MaxPauses      \* bound: pauses

ASSUME FilesAssumption ==
  /\ EventsPerFile \in Nat \ {0} /\ MaxFrames \in Nat
  /\ MaxRuns \in Nat \ {0} /\ MaxPauses \in Nat

VARIABLES
  files,                    \* the files that exist: <<run, subrun>> -> cells
  run, subrun, event, open, \* the writer: next_event_number, ofs.is_open()
  written, paused, dry,     \* frames written, pauses, and whether one came with
                            \* nothing written since the acquisition started
  numbering,                \* the runs so far: each the number after the last
                            \* ("next"), over some number ("gap"), or one of them
                            \* before a run that had files already ("back")
  rpc,                      \* the reader: "open", "read", "subrun", "run", "eof", "error"
  current_run, current_subrun, next_event, pos, \* its members; pos: ifs_'s place
  source,                   \* how datamon was started: LiveRunFileSource ("live",
                            \* or "impatient" with --idle-timeout-sec), or
                            \* FileFrameSource on the first file ("file")
  delivered,                \* envelopes and the cells they carry
  stopped,                  \* *stop_requested, which the signal handler sets
  late                      \* frames completed between a read that came short
                            \* and the reader's next look at the file

writer == <<run, subrun, event, open, written, paused, dry, numbering>>
place  == <<current_run, current_subrun, next_event, pos>>
reader == <<rpc, place, delivered>>
vars   == <<files, writer, reader, late, source, stopped>>

Init ==
  /\ files = <<>>
  /\ run = 1 /\ subrun = 0 /\ event = 0 /\ open = FALSE
  /\ written = 0 /\ paused = 0 /\ dry = FALSE /\ numbering = "next"
  /\ rpc = "open" /\ source \in {"live", "impatient", "file"}
  /\ current_run = 1 /\ current_subrun = 0 /\ next_event = 0 /\ pos = 0
  /\ delivered = <<>> /\ late = {} /\ stopped = FALSE

Exists(r, s) == <<r, s>> \in DOMAIN files
File         == files[<<run, subrun>>]
Cell(half)   == [frame |-> written + 1, run |-> run, subrun |-> subrun,
                 event |-> event, half |-> half]
Half         == open /\ Len(File) % 2 = 1
Full         == open /\ Len(File) = 2 * EventsPerFile

-----------------------------------------------------------------------------
(* The writer.                                                             *)

Create(s) ==
  /\ files' = [f \in DOMAIN files \union {<<run, s>>} |->
                 IF f = <<run, s>> THEN <<>> ELSE files[f]]
  /\ open' = TRUE /\ subrun' = s

\* open_run_file, for the first frame of an acquisition or when a file is full.
OpenFile ==
  /\ written < MaxFrames
  /\ ~open \/ Full
  /\ Create(IF open THEN subrun + 1 ELSE subrun)
  /\ UNCHANGED <<run, event, written, paused, dry, numbering, reader, late, source, stopped>>

AppendCell(half) == files' = [files EXCEPT ![<<run, subrun>>] = Append(@, Cell(half))]

\* write and flush reach the file in two parts.
WriteHalf ==
  /\ written < MaxFrames /\ open /\ ~Half /\ ~Full
  /\ AppendCell(1)
  /\ UNCHANGED <<writer, reader, late, source, stopped>>

WriteRest ==
  /\ Half /\ AppendCell(2)
  /\ written' = written + 1 /\ event' = event + 1
  /\ late' = IF rpc \in {"subrun", "run"} THEN late \union {written + 1} ELSE late
  /\ UNCHANGED <<run, subrun, open, paused, dry, numbering, reader, source, stopped>>

\* pause() and resume(): the next file is the next subrun, and the acquisition
\* counts its events from 0 again.
Pause ==
  /\ ~Half /\ paused < MaxPauses
  /\ paused' = paused + 1 /\ dry' = (dry \/ event = 0)
  /\ subrun' = subrun + 1 /\ event' = 0 /\ open' = FALSE
  /\ UNCHANGED <<files, run, written, numbering, reader, late, source, stopped>>

\* How the numbers of the runs go on with n.
Used == {f[1] : f \in DOMAIN files}
Numbering(n) == IF numbering = "back" \/ \E r \in Used : r > n THEN "back"
                ELSE IF n - 1 \in Used \union {0} THEN numbering ELSE "gap"

\* The run stops and another starts, under the next number or one that was asked
\* for (--Run-start); a run that left no file leaves its number.
NextRun ==
  /\ ~Half /\ run' \in (1 .. MaxRuns) \ Used
  /\ numbering' = Numbering(run')
  /\ subrun' = 0 /\ event' = 0 /\ open' = FALSE
  /\ UNCHANGED <<files, written, paused, dry, reader, late, source, stopped>>

Writer == OpenFile \/ WriteHalf \/ WriteRest \/ Pause \/ NextRun

-----------------------------------------------------------------------------
(* The reader.                                                             *)

\* SIGINT or SIGTERM.
RequestStop ==
  /\ ~stopped /\ stopped' = TRUE
  /\ UNCHANGED <<files, writer, reader, late, source>>

Reads(from, to) == rpc = from /\ rpc' = to

\* The stop word is looked at at the head of NextFrame and of its loop: the look
\* and the one at the file system that follows are one step, as nobody else
\* reads the word.  A source that is told to stop ends as if the data ended.
StopEnds ==
  /\ stopped /\ rpc \in {"open", "read"} /\ rpc' = "eof"
  /\ UNCHANGED <<files, writer, place, delivered, late, source, stopped>>

\* OpenCurrentFile, when the file exists.
OpenCurrentFile ==
  /\ ~stopped /\ Reads("open", "read") /\ Exists(current_run, current_subrun)
  /\ UNCHANGED <<files, writer, place, delivered, late, source, stopped>>

\* FileFrameSource does not wait for it.
OpenFails ==
  /\ ~stopped /\ source = "file" /\ Reads("open", "error") /\ ~Exists(current_run, current_subrun)
  /\ UNCHANGED <<files, writer, place, delivered, late, source, stopped>>

Content == files[<<current_run, current_subrun>>]
Ahead   == Len(Content) - pos

\* A whole frame is read.
ReadFrame ==
  /\ ~stopped /\ Reads("read", "read") /\ Ahead >= 2
  /\ delivered' = Append(delivered,
       [run |-> current_run, subrun |-> current_subrun, event |-> next_event,
        cells |-> SubSeq(Content, pos + 1, pos + 2)])
  /\ pos' = pos + 2 /\ next_event' = next_event + 1
  /\ UNCHANGED <<files, writer, current_run, current_subrun, late, source, stopped>>

\* Mutant: the part of a frame that was read is not given back.
BugStay == pos' = pos + Ahead

\* clear() and seekg(-n): the file stays where it was.
Stay == pos' = pos

\* The read comes short: the live source looks for the next file.
ReadShort ==
  /\ ~stopped /\ source # "file" /\ Reads("read", "subrun") /\ Ahead < 2
  /\ Stay
  /\ UNCHANGED <<files, writer, current_run, current_subrun, next_event, delivered,
                 late, source, stopped>>

\* Mutant: the end of the file is the end also with part of a frame left.
BugReadEnd ==
  /\ ~stopped /\ source = "file" /\ Reads("read", "eof") /\ Ahead < 2
  /\ UNCHANGED <<files, writer, place, delivered, late, source, stopped>>

\* FileFrameSource ends, in error if the file ends within a frame.
ReadEnd ==
  /\ ~stopped /\ source = "file" /\ rpc = "read" /\ Ahead < 2
  /\ rpc' = IF Ahead = 0 THEN "eof" ELSE "error"
  /\ UNCHANGED <<files, writer, place, delivered, late, source, stopped>>

\* Mutant: the place in the old file is kept.
BugSwitch(r, s, e) ==
  /\ rpc' = "read" /\ current_run' = r /\ current_subrun' = s
  /\ next_event' = e /\ UNCHANGED pos

Switch(r, s, e) ==
  /\ rpc' = "read" /\ current_run' = r /\ current_subrun' = s
  /\ next_event' = e /\ pos' = 0

\* Mutant: the count of events starts again with every subrun.
BugNextSubrun == Switch(current_run, current_subrun + 1, 0)

NextSubrun == Switch(current_run, current_subrun + 1, next_event)

\* Mutant: the next run is looked for although there is a next subrun.
BugCheckSubrun ==
  /\ Reads("subrun", "run") /\ UNCHANGED place
  /\ UNCHANGED <<files, writer, delivered, late, source, stopped>>

\* TryAdvanceNextRun looks for the next subrun ...
CheckSubrun ==
  /\ rpc = "subrun"
  /\ IF Exists(current_run, current_subrun + 1)
     THEN NextSubrun
     ELSE rpc' = "run" /\ UNCHANGED place
  /\ UNCHANGED <<files, writer, delivered, late, source, stopped>>

\* Mutant: the source stays in its run.
BugCheckRun ==
  /\ Reads("run", "read") /\ UNCHANGED place
  /\ UNCHANGED <<files, writer, delivered, late, source, stopped>>

\* ... and for the next run; without either it reads on after a while.
CheckRun ==
  /\ rpc = "run"
  /\ IF Exists(current_run + 1, 0)
     THEN Switch(current_run + 1, 0, 0)
     ELSE rpc' = "read" /\ UNCHANGED place
  /\ UNCHANGED <<files, writer, delivered, late, source, stopped>>

\* No frame and no file for idle_timeout_sec: the source ends.
IdleOut ==
  /\ source = "impatient"
  /\ \/ Reads("open", "eof") /\ ~Exists(current_run, current_subrun)
     \/ Reads("run", "eof") /\ ~Exists(current_run + 1, 0)
  /\ UNCHANGED <<files, writer, place, delivered, late, source, stopped>>

Reader ==
  \/ OpenCurrentFile \/ OpenFails \/ ReadFrame \/ ReadShort \/ ReadEnd
  \/ CheckSubrun \/ CheckRun \/ IdleOut \/ StopEnds

Next == Writer \/ Reader \/ RequestStop

\* The reader polls on; the writer writes when there is something to write, but
\* ends the flush it has begun.
Spec     == Init /\ [][Next]_vars
FairSpec == Spec /\ WF_vars(Reader) /\ WF_vars(WriteRest)

-----------------------------------------------------------------------------
(* Properties.                                                             *)

\* Types; the file the reader reads exists, and it is never behind its end.
TypeOK ==
  /\ source \in {"live", "impatient", "file"} /\ stopped \in BOOLEAN
  /\ numbering \in {"next", "gap", "back"}
  /\ DOMAIN files \subseteq (1 .. MaxRuns) \X (0 .. MaxFrames + MaxPauses)
  /\ rpc \in {"open", "read", "subrun", "run", "eof", "error"}
  /\ rpc \notin {"open", "eof", "error"} => Exists(current_run, current_subrun)
  /\ rpc = "read" => pos \in 0 .. Len(Content)
  /\ written \in 0 .. MaxFrames /\ late \subseteq 1 .. written

\* What is delivered are whole frames with the run and subrun of their file, and
\* as long as no run takes a number before an earlier run's, in the order they
\* were written and none twice (frame_source.cpp:222).
DeliversWholeFramesInOrder ==
  /\ \A i \in 1 .. Len(delivered) :
       LET d == delivered[i]
       IN  /\ d.cells[1].frame = d.cells[2].frame
           /\ d.cells[1].half = 1 /\ d.cells[2].half = 2
           /\ <<d.run, d.subrun>> = <<d.cells[1].run, d.cells[1].subrun>>
  /\ numbering # "back" => \A i \in 2 .. Len(delivered) :
       delivered[i - 1].cells[1].frame < delivered[i].cells[1].frame

\* The frames in files the reader has left behind.
Passed ==
  {c \in UNION {{files[f][i] : i \in 1 .. Len(files[f])} : f \in DOMAIN files} :
     /\ c.half = 2
     /\ \/ c.run < current_run
        \/ c.run = current_run /\ c.subrun < current_subrun}
Delivered == {delivered[i].cells[2] : i \in 1 .. Len(delivered)}

\* The live source leaves a file without some of its frames only if they were
\* completed between its last short read of the file and its look for the next
\* one (frame_source.cpp:210 and 226), a subrun before it does not exist because
\* a pause found nothing written (daqd.cpp:378), or a run was given a number
\* before that of an earlier run (daq_cli.cpp:119).
OnlyTheRaceSkips == ~dry /\ numbering # "back" => {c.frame : c \in Passed \ Delivered} \subseteq late

\* Unless a frame was skipped or the run was paused, the event number of an
\* envelope is the one the writer gave the record (frame_source.cpp:170, 215).
EventLabelsAreTrue ==
  late = {} /\ paused = 0 =>
    \A i \in 1 .. Len(delivered) : delivered[i].event = delivered[i].cells[1].event

\* FileFrameSource ends well only when it has delivered all that the file
\* holds, and that is whole frames, or when it is told to stop; otherwise it
\* ends in error.
EndsAtTheEnd ==
  [][source = "file" /\ ~stopped /\ rpc' = "eof" /\ rpc # "eof"
       => 2 * Len(delivered') = Len(Content)]_vars

\* With a live source that is not stopped every frame written is delivered, as
\* long as the source does not lose the race, no subrun was left out by a pause
\* in which nothing was written, and no number by a run: the source tries only
\* the number after its own (frame_source.cpp:157).
FramesArrive ==
  []<>(source = "live" /\ ~stopped /\ late = {} /\ ~dry /\ numbering = "next"
         => 1 .. written \subseteq {c.frame : c \in Delivered})

\* A source that is told to stop ends, wherever it is (frame_source.cpp:197).
StoppedSourceEnds == stopped ~> rpc \in {"eof", "error"}

\* Everything delivered is what was written: whole frames, in order, under their
\* own numbers (frame_source.cpp:170, 215 and 222).
DeliveredIsTrue == TypeOK /\ DeliversWholeFramesInOrder /\ EventLabelsAreTrue

\* Both kinds of source are complete: the live one delivers what is written but
\* for its race, one that reads a file ends well by itself only at the end of
\* whole frames, and either ends when told to (frame_source.cpp:91, 147 and 197).
SourcesAreComplete == FramesArrive /\ EndsAtTheEnd /\ StoppedSourceEnds
=============================================================================
