----------------------------- MODULE RunLogView -----------------------------
(***************************************************************************)
(* The run log as the operator reads it: the rows the writer of an         *)
(* acquisition inserts (write_run_log in daq_runtime.cpp), the mark a      *)
(* pause leaves on one of them (DaqService::pause), and the one line per   *)
(* run that the web backend makes of them (_get_run_log_rows of app.py,    *)
(* view "summary").  The module follows one run through its acquisitions.  *)
(*                                                                         *)
(* The threads of an acquisition are DaqRuntime's; here the writer handles *)
(* a record in one step.  Times, names and comments of rows are left out.  *)
(***************************************************************************)
EXTENDS Integers, FiniteSetsExt

CONSTANTS
  Devices,       \* the devices of the run
  EventsPerFile, \* events_per_file
  Partial,       \* --allow-partial-run-on-runtime-disconnect
  Faults,        \* what may fail: opening a file, a write, an insert, the mark
                 \* of a pause, a thread
  MaxRecords,    \* bound: records
  MaxSubrun      \* bound: a subrun a run is resumed with

ASSUME ViewAssumption ==
  /\ Devices # {} /\ EventsPerFile \in Nat \ {0} /\ Partial \in BOOLEAN
  /\ Faults \subseteq {"open", "write", "insert", "mark", "thread"}
  /\ MaxRecords \in Nat /\ MaxSubrun \in Nat

VARIABLES
  rows,     \* of daq_log: [subrun, nevents, status, disconnects, disconnected]
  phase,    \* of the run: "running", "paused" or "over"
  subrun, events, is_open, \* the writer's file
  dead,     \* worker_marked_dead
  dropped,  \* disconnected_in_subrun
  \* history: records written, pauses that had records to mark, failures, lost rows
  written, marked, failed, unlogged

data_file == <<subrun, events, is_open>>
devices == <<dead, dropped>>
history == <<written, marked, failed, unlogged>>
logVars == <<rows, phase, data_file, devices, history>>

LogInit ==
  /\ rows = {} /\ phase = "running"
  /\ subrun = 0 /\ events = 0 /\ is_open = FALSE
  /\ dead = {} /\ dropped = {}
  /\ written = 0 /\ marked = 0 /\ failed = FALSE /\ unlogged = FALSE

-----------------------------------------------------------------------------
(* The rows.                                                               *)

Plain(word) == [word |-> word, disconnects |-> 0]

\* status_with_disconnects("completed"): devices that are or were lost.
Completed ==
  [word |-> "completed",
   disconnects |-> IF Partial THEN Cardinality(dead \union dropped) ELSE 0]

\* Mutant: the row is given the records of the whole run.
BugRowOf(status, lost) ==
  {[subrun |-> subrun, nevents |-> n, status |-> status, disconnected |-> lost] :
     n \in {written} \ {0}}

\* write_run_log: an empty file has no row.
RowOf(status, lost) ==
  {[subrun |-> subrun, nevents |-> n, status |-> status, disconnected |-> lost] :
     n \in {events} \ {0}}

Insert(status)      == rows' = rows \union RowOf(status, dead) /\ UNCHANGED unlogged
InsertFails(status) == /\ "insert" \in Faults /\ RowOf(status, dead) # {}
                       /\ unlogged' = TRUE /\ UNCHANGED rows

-----------------------------------------------------------------------------
(* run_writer, for one record.                                             *)

Arriving == phase = "running" /\ written < MaxRecords
Full     == is_open /\ events >= EventsPerFile
NewFile  == Full \/ ~is_open

\* The writer returns false: no other row is written, and the run has failed.
WriterFails ==
  /\ phase' = "over" /\ failed' = TRUE /\ is_open' = FALSE
  /\ UNCHANGED <<subrun, events, devices, written, marked>>

\* A full file gets its row before the next one is opened.
RowOfFull == IF Full THEN Insert(Completed) ELSE UNCHANGED <<rows, unlogged>>

\* Mutant: the count of records goes on in the next file.
BugWriteRecord ==
  /\ Arriving /\ RowOfFull
  /\ subrun' = IF Full THEN subrun + 1 ELSE subrun
  /\ events' = IF is_open THEN events + 1 ELSE 1
  /\ dropped' = IF NewFile THEN {} ELSE dropped
  /\ is_open' = TRUE /\ written' = written + 1
  /\ UNCHANGED <<phase, dead, marked, failed>>

WriteRecord ==
  /\ Arriving /\ RowOfFull
  /\ subrun' = IF Full THEN subrun + 1 ELSE subrun
  /\ events' = IF NewFile THEN 1 ELSE events + 1
  /\ dropped' = IF NewFile THEN {} ELSE dropped
  /\ is_open' = TRUE /\ written' = written + 1
  /\ UNCHANGED <<phase, dead, marked, failed>>

\* The row of a full file cannot be inserted.
RotateFails == Arriving /\ Full /\ InsertFails(Completed) /\ WriterFails

\* The new file cannot be opened, or its first record not be written: the file
\* has no row.
NewFileFails ==
  /\ Arriving /\ NewFile /\ Faults \intersect {"open", "write"} # {}
  /\ RowOfFull /\ WriterFails

\* A later record cannot be written; whether its row can is not looked at.
WriteFails ==
  /\ Arriving /\ ~NewFile /\ "write" \in Faults
  /\ Insert(Plain("error")) \/ InsertFails(Plain("error"))
  /\ WriterFails

-----------------------------------------------------------------------------
(* Devices, and the end of an acquisition.                                 *)

\* A device is marked dead while others remain, and may come back.
Lose(d) ==
  /\ phase = "running" /\ Partial /\ d \notin dead /\ dead \union {d} # Devices
  /\ dead' = dead \union {d} /\ dropped' = dropped \union {d}
  /\ UNCHANGED <<rows, phase, data_file, history>>

Recover(d) ==
  /\ phase = "running" /\ d \in dead
  /\ dead' = dead \ {d} /\ UNCHANGED <<rows, phase, data_file, dropped, history>>

\* The writer drains the queue, and its last file gets a row.
EndsWith(status, lost, clean) ==
  /\ phase = "running" /\ phase' = "over" /\ is_open' = FALSE
  /\ \/ rows' = rows \union RowOf(status, lost) /\ failed' = ~clean /\ UNCHANGED unlogged
     \/ InsertFails(status) /\ failed' = TRUE
  /\ UNCHANGED <<subrun, events, written, marked>>

ThreadFails == "thread" \in Faults /\ EndsWith(Plain("error"), dead, FALSE) /\ UNCHANGED devices

\* No device is left.
Exhaust(d) ==
  /\ Partial /\ dead \union {d} = Devices
  /\ EndsWith([word |-> "exit", disconnects |-> Cardinality(Devices)], Devices, FALSE)
  /\ dead' = Devices /\ dropped' = dropped \union {d}

LastStatus == IF Full THEN Completed ELSE Plain("stopped")

Stop == EndsWith(LastStatus, dead, TRUE) /\ UNCHANGED devices

-----------------------------------------------------------------------------
(* DaqService: pause, resume, and a stop while paused.                     *)

\* UpdateRunLogStatus: the status of the row of this subrun becomes "paused".
Mark(set) ==
  {IF r.subrun = subrun THEN [r EXCEPT !.status = Plain("paused")] ELSE r : r \in set}

\* Mutant: a pause is only marked on a file that is not full.
BugPause ==
  /\ phase = "running" /\ phase' = "paused" /\ is_open' = FALSE
  /\ rows' = IF Full THEN rows \union RowOf(LastStatus, dead)
             ELSE Mark(rows \union RowOf(LastStatus, dead))
  /\ marked' = IF events > 0 THEN marked + 1 ELSE marked
  /\ subrun' = subrun + 1
  /\ UNCHANGED <<events, devices, written, failed, unlogged>>

\* The acquisition ends well and its last row is marked.
Pause ==
  /\ phase = "running" /\ phase' = "paused" /\ is_open' = FALSE
  /\ rows' = Mark(rows \union RowOf(LastStatus, dead))
  /\ marked' = IF events > 0 THEN marked + 1 ELSE marked
  /\ subrun' = subrun + 1
  /\ UNCHANGED <<events, devices, written, failed, unlogged>>

\* It does, but the mark cannot be set.
PauseUnmarked ==
  /\ phase = "running" /\ "mark" \in Faults /\ events > 0
  /\ rows' = rows \union RowOf(LastStatus, dead)
  /\ phase' = "over" /\ failed' = TRUE /\ is_open' = FALSE
  /\ UNCHANGED <<subrun, events, devices, written, marked, unlogged>>

\* Mutant: a run that has failed is resumed like a paused one.
BugResume ==
  /\ phase = "paused" \/ failed
  /\ subrun <= MaxSubrun
  /\ phase' = "running" /\ failed' = FALSE
  /\ events' = 0 /\ dead' = {} /\ dropped' = {} /\ subrun' = subrun + 1
  /\ UNCHANGED <<rows, is_open, written, marked, unlogged>>

Resume ==
  /\ phase = "paused" /\ phase' = "running" /\ subrun <= MaxSubrun
  /\ events' = 0 /\ dead' = {} /\ dropped' = {}
  /\ UNCHANGED <<rows, subrun, is_open, history>>

StopPaused == phase = "paused" /\ phase' = "over" /\ UNCHANGED <<rows, data_file, devices, history>>

Operator == Stop \/ Pause \/ PauseUnmarked \/ Resume \/ StopPaused
Writer   == WriteRecord \/ RotateFails \/ NewFileFails \/ WriteFails

LogNext ==
  \/ Writer \/ Operator \/ ThreadFails
  \/ \E d \in Devices : Lose(d) \/ Recover(d) \/ Exhaust(d)

LogSpec == LogInit /\ [][LogNext]_logVars

-----------------------------------------------------------------------------
(* The view: one line for the run, from the lines of one query.  They are  *)
(* ordered by run and by subrun, the newest run and the last subrun first. *)
(* oldest: no older run is listed, so that the first subrun is the last    *)
(* line of all.  tabs: those in the comment, which has no line break (one  *)
(* would cut every line in two).                                           *)

First == CHOOSE r \in rows : \A other \in rows : r.subrun <= other.subrun

\* The end of the output is stripped, and with it the empty list of lost devices
\* of its last line.
Cut(oldest) == oldest /\ First.disconnected = {}

\* Mutant: the lines come with the first subrun first.
BugParts(r, oldest, tabs) ==
  9 + tabs - (IF oldest /\ r.disconnected = {} /\ \A other \in rows : other.subrun <= r.subrun
              THEN 1 ELSE 0)

Parts(r, oldest, tabs) == 9 + tabs - (IF Cut(oldest) /\ r = First THEN 1 ELSE 0)

\* A line that does not have nine parts is passed over.
Read(oldest, tabs) == {r \in rows : Parts(r, oldest, tabs) = 9}

With(read, word)  == Cardinality({r \in read : r.status.word = word})
LastRow(read)     == CHOOSE r \in read : \A other \in read : other.subrun <= r.subrun
Unreachable(read) == UNION {r.disconnected : r \in read}

\* A last row "stopped" finishes a run that has no other such row and no failure.
Finished(read) ==
  \/ LastRow(read).status.word = "completed"
  \/ /\ LastRow(read).status.word = "stopped" /\ With(read, "stopped") = 1
     /\ With(read, "error") = 0 /\ With(read, "exit") = 0

\* A run of which no line is read is not shown.
Summary(read) ==
  [word    |-> IF Finished(read) THEN "completed" ELSE LastRow(read).status.word,
   lost    |-> IF Finished(read) THEN Cardinality(Unreachable(read)) ELSE LastRow(read).status.disconnects,
   paused  |-> IF Finished(read) THEN With(read, "paused") ELSE 0,
   subruns |-> Cardinality(read),
   nevents |-> MapThenSumSet(LAMBDA r : r.nevents, read)]

-----------------------------------------------------------------------------
(* Properties.                                                             *)

\* Types; a file never holds more records than events_per_file, and a run that
\* goes on has a device left.
LogTypes ==
  /\ phase \in {"running", "paused", "over"} /\ is_open \in BOOLEAN
  /\ subrun \in Nat /\ events \in 0 .. EventsPerFile
  /\ dead \union dropped \subseteq Devices /\ (phase # "over" => dead # Devices)
  /\ written \in 0 .. MaxRecords /\ marked \in 0 .. subrun
  /\ {failed, unlogged} \subseteq BOOLEAN

\* As long as every insert succeeds, the events the operator is shown are those
\* on disk, but for the file still open, over rotations, pauses and failures; of
\* the oldest run on the page the first file is missing, unless its row names a
\* lost device (app.py:330, 1386 and 1411, daq_runtime.cpp:365).
TotalsAreTrue ==
  \A oldest \in BOOLEAN : LET read == Read(oldest, 0) IN
    read # {} /\ ~unlogged =>
      Summary(read).nevents =
        written - (IF is_open THEN events ELSE 0) - (IF Cut(oldest) THEN First.nevents ELSE 0)

\* A run that is shown as completed is shown with all its pauses that followed
\* a record, also those that came when a file had just become full; of the
\* oldest run on the page a pause in the first file may be missing
\* (app.py:330, 1386 and 1452, daqd.cpp:367).
PausesAreCounted ==
  \A oldest \in BOOLEAN : LET read == Read(oldest, 0) IN
    read # {} /\ Summary(read).word = "completed" =>
      Summary(read).paused = marked - (IF Cut(oldest) /\ First.status.word = "paused" THEN 1 ELSE 0)

\* A run with a row of a failure is shown as failed, as nothing follows such a
\* row, and none is shown as failed that has not (app.py:1441, daqd.cpp:360 and
\* 394), with two exceptions: of a run whose comment has a tab the page reads no
\* row, or the first alone; and the oldest run on the page is not shown when it
\* has one row only and that names no lost device (app.py:310, 330 and 1386).
\* (The converse is not true: a writer that cannot open its next file or write
\* its first record leaves no row, and the run is shown as completed.)
FailureRowsAreShown ==
  \A oldest \in BOOLEAN, tabs \in 0 .. 2 : LET read == Read(oldest, tabs) IN
    /\ /\ \E r \in rows : r.status.word \in {"error", "exit"}
       /\ tabs = 0 /\ (Cut(oldest) => rows # {First})
       => read # {} /\ Summary(read).word \in {"error", "exit"}
    /\ read # {} /\ Summary(read).word \in {"error", "exit"} => failed

\* The line the operator reads adds up: events and pauses are those of the rows
\* that the page does not lose, over rotations, pauses, resumptions and failures
\* (app.py:330, 1411 and 1452).
SummaryAddsUp == LogTypes /\ TotalsAreTrue /\ PausesAreCounted
=============================================================================
