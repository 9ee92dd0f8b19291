--------------------------- MODULE RunFilesProofs ---------------------------
(***************************************************************************)
(* What the two file sources deliver, for any size of a file and any       *)
(* number of frames, runs and pauses, whatever numbers the runs are given  *)
(* and whenever datamon is told to stop.                                   *)
(*                                                                         *)
(* The argument.  Only the writer's own file may end within a frame        *)
(* (InvWriting), so a reader delivers whole frames as long as its place is *)
(* even (InvReader, InvDelivered).  The files have an order (Earlier),     *)
(* which is that of the frames in them (InvFrames, InvFiles), unless a run *)
(* took a number before an earlier run's: so a reader that moves only      *)
(* forward delivers in order.  For what it leaves behind the argument *)
(* is where it stands: before it looks for the next subrun everything left *)
(* in its file was completed since it read short, and before it looks for  *)
(* the next run also everything in later subruns (InvPassed).              *)
(***************************************************************************)
EXTENDS RunFiles, SequenceTheorems, TLAPS

Cells     == [frame : Nat, run : Nat, subrun : Nat, event : Nat, half : {1, 2}]
Envelopes == [run : Nat, subrun : Nat, event : Nat, cells : Seq(Cells)]

Current == <<current_run, current_subrun>>
Writing == <<run, subrun>>

\* f is a file of an earlier run than g, or of an earlier subrun.
Earlier(f, g) == f[1] < g[1] \/ (f[1] = g[1] /\ f[2] < g[2])

\* No run took a number before that of an earlier one.
InOrder == numbering # "back"

\* The number of the first event of subrun s, if the subruns before it are full.
Start(s) == EventsPerFile * s

-----------------------------------------------------------------------------
(* The writer.                                                             *)

InvTypes ==
  /\ DOMAIN files \subseteq (1 .. MaxRuns) \X (0 .. MaxFrames + MaxPauses)
  /\ \A f \in DOMAIN files : files[f] \in Seq(Cells)
  /\ run \in 1 .. MaxRuns /\ subrun \in Nat /\ event \in Nat /\ open \in BOOLEAN
  /\ written \in 0 .. MaxFrames /\ paused \in 0 .. MaxPauses /\ dry \in BOOLEAN
  /\ late \subseteq 1 .. written /\ numbering \in {"next", "gap", "back"}

\* The writer's file is the last one of its run, and of all if the runs are in
\* order, and only it may end within a frame.
InvWriting ==
  /\ \A f \in DOMAIN files : f[1] = run => f[2] < subrun \/ (open /\ f[2] = subrun)
  /\ InOrder => \A f \in DOMAIN files : f[1] <= run
  /\ open => Writing \in DOMAIN files
  /\ event > 0 => open
  /\ \A f \in DOMAIN files : Len(files[f]) <= 2 * EventsPerFile
                             /\ (Len(files[f]) % 2 = 1 => open /\ f = Writing)
  /\ Half => written < MaxFrames
  /\ subrun <= paused + written
  /\ open /\ Len(File) >= 2 => subrun + 1 <= paused + written

\* Subruns follow each other, unless a pause found nothing written.
InvNoGap ==
  ~dry => /\ \A f \in DOMAIN files : \A s \in 0 .. f[2] : Exists(f[1], s)
          /\ \A s \in 0 .. subrun - 1 : Exists(run, s)

\* The cells of a file: two for each frame, in the order they were written.
InvCells ==
  \A f \in DOMAIN files : \A i \in 1 .. Len(files[f]) :
    LET c == files[f][i] IN
    /\ c.run = f[1] /\ c.subrun = f[2] /\ (c.half = 1 <=> i % 2 = 1)
    /\ IF Half /\ f = Writing /\ i = Len(File) THEN c.frame = written + 1 ELSE c.frame <= written

\* Frames grow along a file, and two neighbours are one frame.
InvFrames ==
  \A f \in DOMAIN files : \A i, j \in 1 .. Len(files[f]) : i < j =>
    /\ files[f][i].frame <= files[f][j].frame
    /\ files[f][i].frame = files[f][j].frame <=> i % 2 = 1 /\ j = i + 1

\* Frames grow from file to file.
InvFiles ==
  InOrder => \A f, g \in DOMAIN files : Earlier(f, g) =>
    \A i \in 1 .. Len(files[f]), j \in 1 .. Len(files[g]) : files[f][i].frame < files[g][j].frame

\* As long as nothing was paused: every file but the last of a run is full, and
\* a record's place tells its number.
InvNumbers ==
  paused = 0 =>
    /\ \A f \in DOMAIN files : \A i \in 1 .. Len(files[f]) :
         files[f][i].event = Start(f[2]) + ((i - 1) \div 2)
    /\ \A f \in DOMAIN files : Exists(f[1], f[2] + 1) => Len(files[f]) = 2 * EventsPerFile
    /\ open => event = Start(subrun) + (Len(File) \div 2)
    /\ ~open => event = 0 /\ subrun = 0

-----------------------------------------------------------------------------
(* The reader.                                                             *)

\* The reader stands at the end of a frame in a file that is there, or before the
\* first.
InvReader ==
  /\ source \in {"live", "impatient", "file"} /\ rpc \in {"open", "read", "subrun", "run", "eof", "error"}
  /\ current_run \in Nat /\ current_subrun \in Nat /\ next_event \in Nat /\ pos \in Nat /\ pos % 2 = 0
  /\ Current \in DOMAIN files \/ Current = <<1, 0>>
  /\ Current \in DOMAIN files => pos <= Len(Content)
  /\ Current \notin DOMAIN files => pos = 0 /\ rpc \in {"open", "eof", "error"}
  /\ rpc = "open" => pos = 0 /\ Current = <<1, 0>>
  /\ source = "file" => rpc \in {"open", "read", "eof", "error"} /\ pos = 2 * Len(delivered)

Whole(d) ==
  /\ Len(d.cells) = 2
  /\ d.cells[1].frame = d.cells[2].frame /\ d.cells[1].half = 1 /\ d.cells[2].half = 2
  /\ d.run = d.cells[1].run /\ d.subrun = d.cells[1].subrun

\* What is delivered are whole frames, and if the runs are in order, what is not
\* yet read comes after them.
InvDelivered ==
  /\ delivered \in Seq(Envelopes)
  /\ \A i \in 1 .. Len(delivered) : Whole(delivered[i]) /\ delivered[i].cells[1].frame <= written
  /\ InOrder => \A i \in 2 .. Len(delivered) : delivered[i - 1].cells[1].frame < delivered[i].cells[1].frame
  /\ InOrder => \A n \in 1 .. Len(delivered), f \in DOMAIN files : \A i \in 1 .. Len(files[f]) :
       Earlier(Current, f) \/ (f = Current /\ i > pos) => delivered[n].cells[1].frame < files[f][i].frame

\* A frame that is behind the reader was delivered, or is late.
Accounted(c) == c \in Delivered \/ c.frame \in late
InvPassed ==
  /\ Current \in DOMAIN files => \A i \in 1 .. pos : i % 2 = 0 => Content[i] \in Delivered
  /\ ~dry /\ InOrder => \A f \in DOMAIN files : Earlier(f, Current) =>
               \A i \in 1 .. Len(files[f]) : i % 2 = 0 => Accounted(files[f][i])
  /\ rpc \in {"subrun", "run"} =>
       \A i \in 1 .. Len(Content) : i > pos /\ i % 2 = 0 => Content[i].frame \in late
  /\ rpc = "run" /\ ~dry =>
       \A f \in DOMAIN files : f[1] = current_run /\ f[2] > current_subrun =>
         \A i \in 1 .. Len(files[f]) : i % 2 = 0 => files[f][i].frame \in late

\* Then the reader numbers the records as the writer did.
InvLabels ==
  late = {} /\ paused = 0 =>
    /\ next_event = Start(current_subrun) + (pos \div 2)
    /\ \A i \in 1 .. Len(delivered) : delivered[i].event = delivered[i].cells[1].event

IInv ==
  /\ InvTypes /\ InvWriting /\ InvNoGap /\ InvCells /\ InvFrames /\ InvFiles /\ InvNumbers
  /\ InvReader /\ InvDelivered /\ InvPassed /\ InvLabels

-----------------------------------------------------------------------------
(* Init.                                                                   *)

\* Nothing is written and nothing read.
LEMMA IInvInit == ASSUME Init PROVE IInv
<1> USE FilesAssumption
<1>1. DOMAIN files = {} /\ late = {} /\ delivered = <<>>
  BY DEF Init
<1>2. InvTypes /\ InvWriting /\ InvNoGap
  <2>1. InvTypes
    <3>1. run = 1 /\ subrun = 0 /\ event = 0 /\ written = 0 /\ paused = 0
      BY Zenon DEF Init
    <3>2. run \in 1 .. MaxRuns /\ subrun \in Nat /\ event \in Nat
          /\ written \in 0 .. MaxFrames /\ paused \in 0 .. MaxPauses
      BY <3>1
    <3>3. open \in BOOLEAN /\ dry \in BOOLEAN /\ numbering \in {"next", "gap", "back"}
      BY Zenon DEF Init
    <3>4. QED BY <1>1, <3>2, <3>3 DEF InvTypes
  <2>2. InvWriting
    BY <1>1 DEF Init, InvWriting, Half
  <2>3. InvNoGap
    BY <1>1 DEF Init, InvNoGap
  <2>4. QED BY <2>1, <2>2, <2>3
<1>3. InvCells /\ InvFrames /\ InvFiles /\ InvNumbers
  BY <1>1 DEF Init, InvCells, InvFrames, InvFiles, InvNumbers
<1>4. InvReader
  BY <1>1 DEF Init, InvReader, Current
<1>5. InvDelivered
  BY <1>1 DEF InvDelivered
<1>6. InvPassed
  BY <1>1 DEF Init, InvPassed, Current
<1>7. InvLabels
  BY <1>1 DEF Init, InvLabels, Start
<1>8. QED BY <1>2, <1>3, <1>4, <1>5, <1>6, <1>7 DEF IInv

-----------------------------------------------------------------------------
(* Lemmas about the steps of the writer.                                   *)

LEMMA Pairs ==
  ASSUME InvTypes, NEW f \in DOMAIN files
  PROVE  f = <<f[1], f[2]>> /\ f[1] \in Nat /\ f[2] \in Nat
BY FilesAssumption DEF InvTypes

\* The next file starts EventsPerFile records later.
LEMMA StartNext == \A s \in Nat : Start(s) \in Nat /\ Start(s + 1) = Start(s) + EventsPerFile
BY FilesAssumption DEF Start

\* The parts of a cell.
LEMMA FrameTypes ==
  ASSUME IInv
  PROVE  \A f \in DOMAIN files : \A i \in 1 .. Len(files[f]) :
           /\ files[f][i] \in Cells /\ files[f][i].frame \in Nat
           /\ files[f][i].half = 1 \/ files[f][i].half = 2
<1> SUFFICES ASSUME NEW f \in DOMAIN files, NEW i \in 1 .. Len(files[f])
             PROVE  /\ files[f][i] \in Cells /\ files[f][i].frame \in Nat
                    /\ files[f][i].half = 1 \/ files[f][i].half = 2
  OBVIOUS
<1>1. files[f] \in Seq(Cells)
  BY DEF IInv, InvTypes
<1>2. files[f][i] \in Cells
  BY <1>1
<1>3. QED BY <1>2 DEF Cells

\* A cell at the end of the writer's file.
AddsCell(c) ==
  /\ Writing \in DOMAIN files /\ files' = [files EXCEPT ![Writing] = Append(@, c)] /\ c \in Cells
  /\ UNCHANGED <<run, subrun>>

\* What adding a cell changes: the end of the writer's file, and nothing before it.
LEMMA Added ==
  ASSUME InvTypes, NEW c, AddsCell(c)
  PROVE  /\ DOMAIN files' = DOMAIN files /\ Writing' = Writing
         /\ \A f \in DOMAIN files : f # Writing => files'[f] = files[f]
         /\ File \in Seq(Cells) /\ File' \in Seq(Cells) /\ Len(File') = Len(File) + 1
         /\ \A i \in 1 .. Len(File) : File'[i] = File[i]
         /\ File'[Len(File) + 1] = c
<1>1. Writing' = Writing /\ DOMAIN files' = DOMAIN files /\ files'[Writing] = Append(files[Writing], c)
  BY DEF AddsCell, Writing
<1>2. File \in Seq(Cells) /\ File' = Append(File, c) /\ c \in Cells
  BY <1>1 DEF InvTypes, AddsCell, File, Writing
<1>3. \A f \in DOMAIN files : f # Writing => files'[f] = files[f]
  BY DEF AddsCell
<1>4. QED BY <1>1, <1>2, <1>3

\* A new and empty file behind all others.
Creates == Writing' \notin DOMAIN files /\ files' = [f \in DOMAIN files \union {Writing'} |-> IF f = Writing' THEN <<>> ELSE files[f]]

\* What creating a file changes: nothing in the others.
LEMMA Created ==
  ASSUME Creates
  PROVE  /\ DOMAIN files' = DOMAIN files \union {Writing'}
         /\ \A f \in DOMAIN files : files'[f] = files[f] /\ f # Writing'
         /\ files'[Writing'] = <<>> /\ Len(File') = 0
<1>1. /\ DOMAIN files' = DOMAIN files \union {Writing'}
      /\ \A f \in DOMAIN files : files'[f] = files[f] /\ f # Writing'
      /\ files'[Writing'] = <<>>
  BY DEF Creates
<1>2. QED BY <1>1 DEF File, Writing

\* The cells of a file that does not end within a frame are of frames that are written.
LEMMA WrittenAll ==
  ASSUME InvCells, ~Half
  PROVE  \A f \in DOMAIN files : \A i \in 1 .. Len(files[f]) : files[f][i].frame <= written
BY DEF InvCells

\* The file that is opened comes after all there are; a full one is left for it.
LEMMA OpensLast ==
  ASSUME IInv, OpenFile
  PROVE  /\ Creates /\ ~Half /\ Writing' = <<run, subrun'>> /\ open' /\ subrun' \in Nat
         /\ subrun' <= paused + written
         /\ \A f \in DOMAIN files : f[1] = run => f[2] < subrun'
         /\ InOrder' = InOrder /\ (InOrder => \A f \in DOMAIN files : f[1] <= run)
         /\ subrun' = IF open THEN subrun + 1 ELSE subrun
         /\ open => Full
         /\ UNCHANGED <<run, event, written, paused, dry, numbering, reader, late, source>>
<1> USE FilesAssumption
<1>1. /\ subrun' = IF open THEN subrun + 1 ELSE subrun
      /\ open' /\ (open => Full)
      /\ files' = [f \in DOMAIN files \union {<<run, subrun'>>} |->
                 IF f = <<run, subrun'>> THEN <<>> ELSE files[f]]
  BY DEF OpenFile, Create
<1>2. UNCHANGED <<run, event, written, paused, dry, numbering, reader, late, source>>
  BY DEF OpenFile
<1>a. InOrder' = InOrder /\ (InOrder => \A f \in DOMAIN files : f[1] <= run)
  BY <1>2 DEF IInv, InvWriting, InOrder
<1>3. Writing' = <<run, subrun'>>
  BY <1>2 DEF Writing
<1>4. run \in Nat /\ subrun \in Nat /\ open \in BOOLEAN /\ written \in Nat /\ paused \in Nat
  BY DEF IInv, InvTypes
<1>5. \A f \in DOMAIN files : f[1] = run => f[2] < subrun'
  <2> SUFFICES ASSUME NEW f \in DOMAIN files, f[1] = run PROVE f[2] < subrun'
    OBVIOUS
  <2>1. f[1] \in Nat /\ f[2] \in Nat
    BY Pairs DEF IInv
  <2>2. f[2] < subrun \/ (open /\ f[2] = subrun)
    BY DEF IInv, InvWriting
  <2>3. QED BY <2>1, <2>2, <1>1, <1>4
<1>6. Writing' \notin DOMAIN files
  BY <1>3, <1>5, <1>1, <1>4
<1>7. Creates
  BY <1>1, <1>3, <1>6 DEF Creates
<1>8. ~Half
  BY <1>1 DEF Full, Half
<1>9. subrun' <= paused + written /\ subrun' \in Nat
  <2>1. CASE open
    <3>1. Len(File) >= 2
      BY <2>1, <1>1 DEF Full
    <3>2. QED BY <3>1, <2>1, <1>1, <1>4 DEF IInv, InvWriting
  <2>2. CASE ~open
    BY <2>2, <1>1, <1>4 DEF IInv, InvWriting
  <2>3. QED BY <2>1, <2>2
<1>10. QED BY <1>a, <1>1, <1>2, <1>3, <1>5, <1>7, <1>8, <1>9

\* Opening a file keeps what is said of the files and their cells,
LEMMA OpenKeepsWriter ==
  ASSUME IInv, OpenFile
  PROVE  InvTypes' /\ InvWriting' /\ InvNoGap' /\ InvCells'
<1> USE FilesAssumption
<1>1. /\ Creates /\ ~Half /\ Writing' = <<run, subrun'>> /\ open' /\ subrun' \in Nat
      /\ subrun' <= paused + written
      /\ \A f \in DOMAIN files : f[1] = run => f[2] < subrun'
      /\ InOrder' = InOrder /\ (InOrder => \A f \in DOMAIN files : f[1] <= run)
      /\ subrun' = IF open THEN subrun + 1 ELSE subrun
      /\ UNCHANGED <<run, event, written, paused, dry, numbering, late>>
  BY OpensLast DEF reader
<1>2. /\ DOMAIN files' = DOMAIN files \union {Writing'}
      /\ \A f \in DOMAIN files : files'[f] = files[f] /\ f # Writing'
      /\ files'[Writing'] = <<>> /\ Len(File') = 0
  BY <1>1, Created
<1>3. InvTypes /\ InvWriting /\ InvNoGap /\ InvCells
  BY DEF IInv
<1>4. run \in 1 .. MaxRuns /\ subrun \in Nat /\ written \in 0 .. MaxFrames /\ paused \in 0 .. MaxPauses
  BY <1>3 DEF InvTypes
<1>5. ~Half'
  BY <1>2 DEF Half
<1>6. InvTypes'
  <2>1. Writing' \in (1 .. MaxRuns) \X (0 .. MaxFrames + MaxPauses)
    <3>1. subrun' \in 0 .. MaxFrames + MaxPauses
      BY <1>1, <1>4
    <3>2. QED BY <3>1, <1>1, <1>4
  <2>2. DOMAIN files' \subseteq (1 .. MaxRuns) \X (0 .. MaxFrames + MaxPauses)
    <3>1. DOMAIN files \subseteq (1 .. MaxRuns) \X (0 .. MaxFrames + MaxPauses)
      BY <1>3 DEF InvTypes
    <3>2. DOMAIN files' = DOMAIN files \union {Writing'}
      BY <1>2
    <3>3. QED BY Zenon, <3>1, <3>2, <2>1
  <2>3. \A f \in DOMAIN files' : files'[f] \in Seq(Cells)
    <3>1. \A f \in DOMAIN files : files'[f] \in Seq(Cells)
      BY <1>2, <1>3 DEF InvTypes
    <3>2. files'[Writing'] \in Seq(Cells)
      BY <1>2
    <3>3. QED BY <3>1, <3>2, <1>2
  <2>4. open' \in BOOLEAN
    BY <1>1 DEF OpenFile, Create
  <2>5. /\ run' \in 1 .. MaxRuns /\ event' \in Nat
        /\ written' \in 0 .. MaxFrames /\ paused' \in 0 .. MaxPauses /\ dry' \in BOOLEAN
        /\ late' \subseteq 1 .. written' /\ numbering' \in {"next", "gap", "back"}
    BY <1>1, <1>3 DEF InvTypes
  <2>6. QED BY <2>2, <2>3, <2>4, <2>5, <1>1 DEF InvTypes
<1>7. InvWriting'
  <2>1. \A f \in DOMAIN files' : /\ f[1] = run' => f[2] < subrun' \/ (open' /\ f[2] = subrun')
                                 /\ InOrder' => f[1] <= run'
    <3> SUFFICES ASSUME NEW f \in DOMAIN files'
                 PROVE  /\ f[1] = run' => f[2] < subrun' \/ (open' /\ f[2] = subrun')
                        /\ InOrder' => f[1] <= run'
      OBVIOUS
    <3>1. CASE f \in DOMAIN files
      BY <3>1, <1>1
    <3>2. CASE f = Writing'
      BY <3>2, <1>1, <1>4
    <3>3. QED BY <3>1, <3>2, <1>2
  <2>2. Writing' \in DOMAIN files'
    BY <1>2
  <2>3. \A f \in DOMAIN files' : Len(files'[f]) <= 2 * EventsPerFile /\ Len(files'[f]) % 2 # 1
    <3>1. Len(files'[Writing']) = 0
      BY <1>2
    <3>2. \A f \in DOMAIN files : Len(files[f]) <= 2 * EventsPerFile /\ Len(files[f]) % 2 # 1
      BY <1>1, <1>3 DEF InvWriting, Half, File, Writing
    <3>3. \A f \in DOMAIN files' : f = Writing' \/ (f \in DOMAIN files /\ files'[f] = files[f])
      BY <1>2
    <3>4. Len(files'[Writing']) <= 2 * EventsPerFile /\ Len(files'[Writing']) % 2 # 1
      BY <3>1
    <3>5. QED BY <3>2, <3>3, <3>4
  <2>4. subrun' <= paused' + written' /\ ~(Len(File') >= 2)
    BY <1>1, <1>2
  <2>5. QED BY <2>1, <2>2, <2>3, <2>4, <1>1, <1>5 DEF InvWriting
<1>8. InvNoGap'
  <2> DEFINE There(r, s) == <<r, s>> \in DOMAIN files'
  <2> SUFFICES ASSUME ~dry
      PROVE  /\ \A f \in DOMAIN files' : \A s \in 0 .. f[2] : There(f[1], s)
             /\ \A s \in 0 .. subrun' - 1 : There(run, s)
    BY <1>1 DEF InvNoGap, Exists
  <2>1. \A s \in 0 .. subrun' - 1 : Exists(run, s)
    <3> SUFFICES ASSUME NEW s \in 0 .. subrun' - 1 PROVE Exists(run, s)
      OBVIOUS
    <3>1. CASE s \in 0 .. subrun - 1
      BY <3>1, <1>3 DEF InvNoGap
    <3>2. CASE s = subrun /\ open
      BY <3>2, <1>3 DEF InvWriting, Exists, Writing
    <3>3. QED BY <3>1, <3>2, <1>1, <1>4
  <2>2. \A r, s : Exists(r, s) => There(r, s)
    BY <1>2 DEF Exists
  <2>3. There(run, subrun')
    BY <1>1, <1>2
  <2> HIDE DEF There
  <2>4. \A s \in 0 .. subrun' - 1 : There(run, s)
    BY <2>1, <2>2
  <2>5. \A f \in DOMAIN files' : \A s \in 0 .. f[2] : There(f[1], s)
    <3> SUFFICES ASSUME NEW f \in DOMAIN files', NEW s \in 0 .. f[2] PROVE There(f[1], s)
      OBVIOUS
    <3>1. CASE f \in DOMAIN files
      BY <3>1, <2>2, <1>3 DEF InvNoGap
    <3>2. CASE f = Writing'
      <4>1. f[1] = run /\ f[2] = subrun'
        BY <3>2, <1>1
      <4>2. s = subrun' \/ s \in 0 .. subrun' - 1
        BY <4>1, <1>1
      <4>3. QED BY <4>1, <4>2, <2>3, <2>4
    <3>3. QED BY <3>1, <3>2, <1>2
  <2>6. QED BY <2>4, <2>5
<1>9. InvCells'
  <2>1. \A f \in DOMAIN files' : \A i \in 1 .. Len(files'[f]) : f \in DOMAIN files /\ files'[f] = files[f]
    BY <1>2
  <2>2. QED BY <2>1, <1>1, <1>3, <1>5 DEF InvCells
<1>10. QED BY <1>6, <1>7, <1>8, <1>9

\* the order of the frames and the numbers of the records,
LEMMA OpenKeepsNumbers ==
  ASSUME IInv, OpenFile
  PROVE  InvFrames' /\ InvFiles' /\ InvNumbers'
<1> USE FilesAssumption
<1>1. /\ Creates /\ ~Half /\ Writing' = <<run, subrun'>> /\ open' /\ subrun' \in Nat
      /\ \A f \in DOMAIN files : f[1] = run => f[2] < subrun'
      /\ InOrder' = InOrder
      /\ subrun' = IF open THEN subrun + 1 ELSE subrun
      /\ open => Full
      /\ UNCHANGED <<run, event, written, paused, dry, numbering, late>>
  BY OpensLast DEF reader
<1>2. /\ DOMAIN files' = DOMAIN files \union {Writing'}
      /\ \A f \in DOMAIN files : files'[f] = files[f] /\ f # Writing'
      /\ files'[Writing'] = <<>> /\ Len(File') = 0
  BY <1>1, Created
<1>3. InvTypes /\ InvFrames /\ InvFiles /\ InvNumbers
  BY DEF IInv
<1>4. \A f \in DOMAIN files' : \A i \in 1 .. Len(files'[f]) : f \in DOMAIN files /\ files'[f] = files[f]
  BY <1>2
<1>5. InvFrames'
  BY <1>3, <1>4 DEF InvFrames
<1>6. InvFiles'
  <2> SUFFICES ASSUME InOrder', NEW f \in DOMAIN files', NEW g \in DOMAIN files', Earlier(f, g),
                      NEW i \in 1 .. Len(files'[f]), NEW j \in 1 .. Len(files'[g])
               PROVE  files'[f][i].frame < files'[g][j].frame
    BY DEF InvFiles, Earlier
  <2>1. f \in DOMAIN files /\ files'[f] = files[f] /\ g \in DOMAIN files /\ files'[g] = files[g]
    BY <1>4
  <2>2. QED BY <2>1, <1>1, <1>3 DEF InvFiles
<1>7. InvNumbers'
  <2> SUFFICES ASSUME paused = 0
      PROVE  /\ \A f \in DOMAIN files' : \A i \in 1 .. Len(files'[f]) :
                  files'[f][i].event = Start(f[2]) + ((i - 1) \div 2)
             /\ \A f \in DOMAIN files' : <<f[1], f[2] + 1>> \in DOMAIN files' => Len(files'[f]) = 2 * EventsPerFile
             /\ event' = Start(subrun') + (Len(File') \div 2)
    BY <1>1 DEF InvNumbers, Exists, Start
  <2>1. \A f \in DOMAIN files' : \A i \in 1 .. Len(files'[f]) :
           files'[f][i].event = Start(f[2]) + ((i - 1) \div 2)
    BY <1>3, <1>4 DEF InvNumbers
  <2>2. ASSUME NEW f \in DOMAIN files', <<f[1], f[2] + 1>> \in DOMAIN files'
        PROVE  Len(files'[f]) = 2 * EventsPerFile
    <3>1. CASE f = Writing'
      <4>1. <<f[1], f[2] + 1>> = <<run, subrun' + 1>>
        BY <3>1, <1>1
      <4>2. <<run, subrun' + 1>> \notin DOMAIN files
        BY <1>1
      <4>3. <<run, subrun' + 1>> # Writing'
        BY <1>1
      <4>4. QED BY <4>1, <4>2, <4>3, <2>2, <1>2
    <3>2. CASE f \in DOMAIN files /\ <<f[1], f[2] + 1>> \in DOMAIN files
      <4>1. Len(files[f]) = 2 * EventsPerFile
        BY <3>2, <1>3 DEF InvNumbers, Exists
      <4>2. QED BY <4>1, <3>2, <1>2
    <3>3. CASE f \in DOMAIN files /\ <<f[1], f[2] + 1>> = Writing'
      <4>1. f = <<f[1], f[2]>> /\ f[1] \in Nat /\ f[2] \in Nat
        BY <3>3, <1>3, Pairs
      <4>2. f[1] = run /\ f[2] + 1 = subrun'
        BY <3>3, <1>1
      <4>3. open
        <5>1. CASE ~open
          <6>1. subrun = 0
            BY <5>1, <1>3 DEF InvNumbers
          <6>2. QED BY <6>1, <5>1, <1>1, <4>1, <4>2
        <5>2. QED BY <5>1
      <4>4. f = Writing
        BY <4>1, <4>2, <4>3, <1>1, <1>3 DEF Writing, InvTypes
      <4>5. Len(files[f]) = 2 * EventsPerFile
        BY <4>3, <4>4, <1>1 DEF Full, File, Writing
      <4>6. QED BY <4>5, <3>3, <1>2
    <3>4. QED BY <3>1, <3>2, <3>3, <2>2, <1>2
  <2>3. event = Start(subrun') + 0
    <3>1. CASE open
      <4>1. Len(File) = 2 * EventsPerFile
        BY <3>1, <1>1 DEF Full
      <4>2. event = Start(subrun) + (Len(File) \div 2)
        BY <3>1, <1>3 DEF InvNumbers
      <4>3. Len(File) \div 2 = EventsPerFile
        BY <4>1
      <4>4. subrun' = subrun + 1 /\ subrun \in Nat
        BY <3>1, <1>1, <1>3 DEF InvTypes
      <4>5. QED BY <4>2, <4>3, <4>4, StartNext
    <3>2. CASE ~open
      BY <3>2, <1>1, <1>3 DEF InvNumbers, Start
    <3>3. QED BY <3>1, <3>2
  <2>4. Len(File') \div 2 = 0
    BY <1>2
  <2>5. QED BY <2>1, <2>2, <2>3, <2>4, <1>1
<1>8. QED BY <1>5, <1>6, <1>7

\* and what the reader has delivered and passed.
LEMMA OpenKeepsReader ==
  ASSUME IInv, OpenFile
  PROVE  InvReader' /\ InvDelivered' /\ InvPassed' /\ InvLabels'
<1>1. Creates /\ InOrder' = InOrder /\ UNCHANGED <<event, written, paused, dry, rpc, current_run, current_subrun, next_event,
                              pos, delivered, late, source>>
  BY OpensLast DEF reader, place
<1>2. /\ DOMAIN files' = DOMAIN files \union {Writing'}
      /\ \A f \in DOMAIN files : files'[f] = files[f] /\ f # Writing'
      /\ files'[Writing'] = <<>>
  BY <1>1, Created
<1>3. InvReader /\ InvDelivered /\ InvPassed /\ InvLabels
  BY DEF IInv
<1>4. \A f \in DOMAIN files' : \A i \in 1 .. Len(files'[f]) : f \in DOMAIN files /\ files'[f] = files[f]
  BY <1>2
<1>5. Current' = Current /\ Delivered' = Delivered
  BY <1>1 DEF Current, Delivered
<1>6. Current \in DOMAIN files => Current \in DOMAIN files' /\ Content' = Content
  BY <1>1, <1>2 DEF Current, Content
<1>7. InvReader'
  <2>1. Current \in DOMAIN files' => pos <= Len(Content')
    <3>1. CASE Current \in DOMAIN files
      BY <3>1, <1>3, <1>6 DEF InvReader
    <3>2. CASE Current = Writing' /\ Current \notin DOMAIN files
      <4>1. pos = 0
        BY <3>2, <1>3 DEF InvReader
      <4>2. Content' = <<>>
        BY <3>2, <1>2, <1>5 DEF Content, Current
      <4>3. QED BY <4>1, <4>2
    <3>3. QED BY <3>1, <3>2, <1>2
  <2>2. Current \in DOMAIN files \/ Current = <<1, 0>>
    BY <1>3 DEF InvReader
  <2>3. QED BY <2>1, <2>2, <1>1, <1>3, <1>5, <1>6 DEF InvReader
<1>8. InvDelivered'
  BY <1>1, <1>3, <1>4, <1>5 DEF InvDelivered
<1>9. InvPassed'
  <2>1. \A c : Accounted(c)' <=> Accounted(c)
    BY <1>1, <1>5 DEF Accounted
  <2>2. Current \in DOMAIN files' => \A i \in 1 .. pos : i % 2 = 0 => Content'[i] \in Delivered
    <3>1. CASE Current \in DOMAIN files
      BY <3>1, <1>3, <1>6 DEF InvPassed
    <3>2. CASE Current \notin DOMAIN files
      BY <3>2, <1>3 DEF InvReader
    <3>3. QED BY <3>1, <3>2
  <2>3. ~dry /\ InOrder => \A f \in DOMAIN files' : Earlier(f, Current) =>
               \A i \in 1 .. Len(files'[f]) : i % 2 = 0 => Accounted(files'[f][i])
    BY <1>3, <1>4 DEF InvPassed
  <2>4. rpc \in {"subrun", "run"} =>
       \A i \in 1 .. Len(Content') : i > pos /\ i % 2 = 0 => Content'[i].frame \in late
    <3> SUFFICES ASSUME rpc \in {"subrun", "run"}
          PROVE \A i \in 1 .. Len(Content') : i > pos /\ i % 2 = 0 => Content'[i].frame \in late
      OBVIOUS
    <3>1. Current \in DOMAIN files
      BY <1>3 DEF InvReader
    <3>2. QED BY <3>1, <1>3, <1>6 DEF InvPassed
  <2>5. rpc = "run" /\ ~dry =>
       \A f \in DOMAIN files' : f[1] = current_run /\ f[2] > current_subrun =>
         \A i \in 1 .. Len(files'[f]) : i % 2 = 0 => files'[f][i].frame \in late
    BY <1>3, <1>4 DEF InvPassed
  <2>6. QED BY <2>1, <2>2, <2>3, <2>4, <2>5, <1>1, <1>5 DEF InvPassed
<1>10. InvLabels'
  BY <1>1, <1>3 DEF InvLabels, Start
<1>11. QED BY <1>7, <1>8, <1>9, <1>10

\* pause, or the end of a run: the writer leaves its file, and nothing else moves.
Leaves ==
  /\ ~Half /\ UNCHANGED <<files, written, reader, late, source>>
  /\ open' = FALSE /\ event' = 0
  /\ run' \in 1 .. MaxRuns /\ subrun' \in Nat /\ paused' \in 0 .. MaxPauses /\ dry' \in BOOLEAN
  /\ ~dry' => ~dry /\ \A s \in 0 .. subrun' - 1 : <<run', s>> \in DOMAIN files
  /\ paused' = 0 => paused = 0 /\ subrun' = 0
  /\ subrun' <= paused' + written
  /\ \A f \in DOMAIN files : f[1] = run' => f[2] < subrun'
  /\ numbering' \in {"next", "gap", "back"}
  /\ InOrder' => InOrder /\ \A f \in DOMAIN files : f[1] <= run'

\* A pause and the end of a run leave the file.
LEMMA PauseLeaves == ASSUME IInv, Pause PROVE Leaves
<1>1. /\ run \in 1 .. MaxRuns /\ subrun \in Nat /\ event \in Nat /\ written \in Nat
      /\ paused \in 0 .. MaxPauses /\ open \in BOOLEAN /\ dry \in BOOLEAN
  BY FilesAssumption DEF IInv, InvTypes
<1>2. /\ ~Half /\ UNCHANGED <<files, written, reader, late, source, run, numbering>>
      /\ open' = FALSE /\ event' = 0 /\ paused < MaxPauses
      /\ paused' = paused + 1 /\ subrun' = subrun + 1
  BY DEF Pause
<1>3. dry' \in BOOLEAN /\ (~dry' => ~dry /\ event # 0)
  BY <1>1 DEF Pause
<1>4. ~dry' => \A s \in 0 .. subrun' - 1 : <<run', s>> \in DOMAIN files
  <2> SUFFICES ASSUME ~dry', NEW s \in 0 .. subrun PROVE <<run, s>> \in DOMAIN files
    BY <1>1, <1>2
  <2>1. CASE s \in 0 .. subrun - 1
    BY <2>1, <1>3 DEF IInv, InvNoGap, Exists
  <2>2. CASE s = subrun
    <3>1. event > 0
      BY <1>1, <1>3
    <3>2. open
      BY <3>1 DEF IInv, InvWriting
    <3>3. QED BY <2>2, <3>2 DEF IInv, InvWriting, Writing
  <2>3. QED BY <2>1, <2>2, <1>1
<1>5. \A f \in DOMAIN files : f[1] = run' => f[2] < subrun'
  <2> SUFFICES ASSUME NEW f \in DOMAIN files, f[1] = run PROVE f[2] < subrun + 1
    BY <1>2
  <2>1. f[1] \in Nat /\ f[2] \in Nat
    BY Pairs DEF IInv
  <2>2. f[2] < subrun \/ f[2] = subrun
    BY DEF IInv, InvWriting
  <2>3. QED BY <2>1, <2>2, <1>1
<1>6. subrun' <= paused' + written
  <2>1. subrun <= paused + written
    BY DEF IInv, InvWriting
  <2>2. QED BY <2>1, <1>1, <1>2
<1>7. run' \in 1 .. MaxRuns /\ subrun' \in Nat /\ paused' \in 0 .. MaxPauses /\ paused' # 0
  BY <1>1, <1>2, FilesAssumption
<1>a. numbering' \in {"next", "gap", "back"} /\ (InOrder' => InOrder /\ \A f \in DOMAIN files : f[1] <= run')
  BY <1>2 DEF IInv, InvTypes, InvWriting, InOrder
<1>8. QED BY <1>a, <1>2, <1>3, <1>4, <1>5, <1>6, <1>7 DEF Leaves

LEMMA NextRunLeaves == ASSUME IInv, NextRun PROVE Leaves
<1>1. /\ written \in Nat /\ paused \in 0 .. MaxPauses /\ dry \in BOOLEAN
      /\ numbering \in {"next", "gap", "back"}
  BY FilesAssumption DEF IInv, InvTypes
<1>2. /\ ~Half /\ UNCHANGED <<files, written, reader, late, source, paused, dry>>
      /\ open' = FALSE /\ event' = 0 /\ subrun' = 0
      /\ run' \in 1 .. MaxRuns /\ run' \notin Used /\ numbering' = Numbering(run')
  BY DEF NextRun
<1>3. \A f \in DOMAIN files : f[1] \in Used
  BY DEF Used
<1>4. numbering' \in {"next", "gap", "back"}
  BY <1>1, <1>2 DEF Numbering
<1>5. ASSUME InOrder' PROVE InOrder /\ \A f \in DOMAIN files : f[1] <= run'
  <2>1. numbering # "back" /\ ~\E r \in Used : r > run'
    BY <1>2, <1>5 DEF InOrder, Numbering
  <2>2. ASSUME NEW f \in DOMAIN files PROVE f[1] <= run'
    <3>1. f[1] \in Nat /\ ~(f[1] > run')
      BY <1>3, <2>1, Pairs DEF IInv
    <3>2. QED BY <3>1, <1>2, FilesAssumption
  <2>3. QED BY <2>1, <2>2 DEF InOrder
<1>6. subrun' <= paused' + written /\ subrun' \in Nat
  BY <1>1, <1>2
<1>7. \A s \in 0 .. subrun' - 1 : <<run', s>> \in DOMAIN files
  BY <1>2
<1>8. QED BY <1>1, <1>2, <1>3, <1>4, <1>5, <1>6, <1>7 DEF Leaves

LEMMA LeaveKeeps == ASSUME IInv, Leaves PROVE IInv'
<1>1. /\ ~Half /\ UNCHANGED <<files, written, rpc, current_run, current_subrun, next_event, pos,
                               delivered, late, source>>
      /\ open' = FALSE /\ event' = 0
      /\ run' \in 1 .. MaxRuns /\ subrun' \in Nat /\ paused' \in 0 .. MaxPauses /\ dry' \in BOOLEAN
      /\ ~dry' => ~dry /\ \A s \in 0 .. subrun' - 1 : <<run', s>> \in DOMAIN files
      /\ paused' = 0 => paused = 0 /\ subrun' = 0
      /\ subrun' <= paused' + written
      /\ \A f \in DOMAIN files : f[1] = run' => f[2] < subrun'
      /\ numbering' \in {"next", "gap", "back"}
      /\ InOrder' => InOrder /\ \A f \in DOMAIN files : f[1] <= run'
  BY DEF Leaves, reader, place
<1>2. InvTypes'
  BY <1>1 DEF IInv, InvTypes
<1>3. InvWriting'
  <2>1. \A f \in DOMAIN files : Len(files[f]) <= 2 * EventsPerFile /\ Len(files[f]) % 2 # 1
    BY <1>1 DEF IInv, InvWriting, Half, File, Writing
  <2>2. ~Half' /\ ~(event' > 0)
    BY <1>1 DEF Half
  <2>3. QED BY <1>1, <2>1, <2>2 DEF InvWriting
<1>4. InvNoGap'
  <2>1. ~dry' => \A f \in DOMAIN files : \A s \in 0 .. f[2] : <<f[1], s>> \in DOMAIN files
    BY <1>1 DEF IInv, InvNoGap, Exists
  <2>2. QED BY <1>1, <2>1 DEF InvNoGap, Exists
<1>5. InvCells'
  <2>1. ~Half'
    BY <1>1 DEF Half
  <2>2. QED BY <1>1, <2>1 DEF IInv, InvCells
<1>6. InvFrames' /\ InvFiles'
  BY <1>1 DEF IInv, InvFrames, InvFiles, Earlier
<1>7. InvNumbers'
  <2>1. ASSUME paused' = 0
        PROVE /\ \A f \in DOMAIN files : \A i \in 1 .. Len(files[f]) :
                   files[f][i].event = Start(f[2]) + ((i - 1) \div 2)
              /\ \A f \in DOMAIN files : <<f[1], f[2] + 1>> \in DOMAIN files => Len(files[f]) = 2 * EventsPerFile
    BY <1>1, <2>1 DEF IInv, InvNumbers, Exists
  <2>2. QED BY <1>1, <2>1 DEF InvNumbers, Exists, Start
<1>8. InvReader' /\ InvDelivered'
  BY <1>1 DEF IInv, InvReader, InvDelivered, Current, Content, Earlier
<1>9. InvPassed'
  <2>1. InvPassed /\ Current' = Current /\ Delivered' = Delivered /\ Content' = Content
    BY <1>1 DEF IInv, Current, Delivered, Content
  <2>2. \A c : Accounted(c)' <=> Accounted(c)
    BY <1>1, <2>1 DEF Accounted
  <2>3. ~dry' => ~dry
    BY <1>1
  <2>4. QED BY <1>1, <2>1, <2>2, <2>3 DEF InvPassed
<1>10. InvLabels'
  BY <1>1 DEF IInv, InvLabels, Start
<1>11. QED BY <1>2, <1>3, <1>4, <1>5, <1>6, <1>7, <1>8, <1>9, <1>10 DEF IInv

\* A flush adds the first or the second cell of a frame to the writer's file.
Grows(c) ==
  /\ open /\ AddsCell(c) /\ Len(File) < 2 * EventsPerFile
  /\ c.frame = written + 1 /\ c.run = run /\ c.subrun = subrun /\ c.event = event
  /\ UNCHANGED <<open, paused, dry, numbering, reader, source>>
  /\ IF Half
     THEN /\ c.half = 2 /\ written' = written + 1 /\ event' = event + 1
          /\ late' = IF rpc \in {"subrun", "run"} THEN late \union {written + 1} ELSE late
     ELSE c.half = 1 /\ written < MaxFrames /\ UNCHANGED <<written, event, late>>

\* The writer's file, while it is open.
LEMMA WriterFile ==
  ASSUME IInv, open
  PROVE  Writing \in DOMAIN files /\ File = files[Writing] /\ File \in Seq(Cells) /\ Len(File) \in Nat
         /\ Len(File) <= 2 * EventsPerFile
BY DEF IInv, InvTypes, InvWriting, Writing, File

\* A cell that the writer writes is a cell.
LEMMA CellTypes ==
  ASSUME IInv, NEW half \in {1, 2}
  PROVE  Cell(half) \in Cells
BY FilesAssumption DEF IInv, InvTypes, Cells, Cell

\* The two writes of a frame are the two ways in which the file grows.
LEMMA HalfGrows == ASSUME IInv, WriteHalf PROVE Grows(Cell(1))
<1>1. /\ written < MaxFrames /\ open /\ ~Half /\ ~Full
      /\ files' = [files EXCEPT ![Writing] = Append(@, Cell(1))]
      /\ UNCHANGED <<writer, reader, late, source>>
  BY DEF WriteHalf, AppendCell, Writing
<1>2. Len(File) < 2 * EventsPerFile
  BY <1>1, WriterFile, FilesAssumption DEF Full
<1>3. AddsCell(Cell(1))
  BY <1>1, WriterFile, CellTypes DEF AddsCell, writer
<1>4. Cell(1).frame = written + 1 /\ Cell(1).run = run /\ Cell(1).subrun = subrun /\ Cell(1).event = event
      /\ Cell(1).half = 1
  BY DEF Cell
<1>5. QED BY <1>1, <1>2, <1>3, <1>4 DEF Grows, writer

LEMMA RestGrows == ASSUME IInv, WriteRest PROVE Grows(Cell(2))
<1>1. /\ Half /\ open
      /\ files' = [files EXCEPT ![Writing] = Append(@, Cell(2))]
      /\ written' = written + 1 /\ event' = event + 1
      /\ late' = IF rpc \in {"subrun", "run"} THEN late \union {written + 1} ELSE late
      /\ UNCHANGED <<run, subrun, open, paused, dry, numbering, reader, source>>
  BY DEF WriteRest, AppendCell, Writing, Half
<1>2. Len(File) < 2 * EventsPerFile
  <2>1. Len(File) % 2 = 1 /\ Len(File) \in Nat /\ Len(File) <= 2 * EventsPerFile
    BY <1>1, WriterFile DEF Half
  <2>2. \A n \in Nat : n % 2 = 1 /\ n <= 2 * EventsPerFile => n < 2 * EventsPerFile
    BY FilesAssumption
  <2>3. QED BY <2>1, <2>2
<1>3. AddsCell(Cell(2))
  BY <1>1, WriterFile, CellTypes DEF AddsCell
<1>4. Cell(2).frame = written + 1 /\ Cell(2).run = run /\ Cell(2).subrun = subrun /\ Cell(2).event = event
      /\ Cell(2).half = 2
  BY DEF Cell
<1>5. QED BY <1>1, <1>2, <1>3, <1>4 DEF Grows

\* What a write changes: whether the file ends within a frame.
LEMMA Grown ==
  ASSUME IInv, NEW c, Grows(c)
  PROVE  /\ DOMAIN files' = DOMAIN files /\ Writing' = Writing /\ Writing \in DOMAIN files
         /\ \A f \in DOMAIN files : f # Writing => files'[f] = files[f]
         /\ File = files[Writing] /\ File' = files'[Writing]
         /\ File \in Seq(Cells) /\ File' \in Seq(Cells) /\ Len(File) \in Nat /\ Len(File') = Len(File) + 1
         /\ \A i \in 1 .. Len(File) : File'[i] = File[i]
         /\ File'[Len(File) + 1] = c
         /\ (Half <=> Len(File) % 2 = 1) /\ (Half' <=> ~Half)
<1>1. AddsCell(c) /\ InvTypes /\ open /\ open' = open
  BY DEF Grows, IInv
<1>2. /\ DOMAIN files' = DOMAIN files /\ Writing' = Writing
      /\ \A f \in DOMAIN files : f # Writing => files'[f] = files[f]
      /\ File \in Seq(Cells) /\ File' \in Seq(Cells) /\ Len(File') = Len(File) + 1
      /\ \A i \in 1 .. Len(File) : File'[i] = File[i]
      /\ File'[Len(File) + 1] = c
  BY <1>1, Added
<1>3. File = files[Writing] /\ File' = files'[Writing] /\ Writing \in DOMAIN files
  BY <1>1, <1>2 DEF File, Writing, AddsCell
<1>4. Len(File) \in Nat
  BY <1>2
<1>5. (Half <=> Len(File) % 2 = 1) /\ (Half' <=> Len(File') % 2 = 1)
  BY <1>1 DEF Half
<1>6. Half' <=> ~Half
  <2>1. \A n \in Nat : (n + 1) % 2 = 1 <=> ~(n % 2 = 1)
    OBVIOUS
  <2>2. QED BY <2>1, <1>2, <1>4, <1>5
<1>7. QED BY <1>2, <1>3, <1>4, <1>5, <1>6

\* The frame that is written is newer than all the others.
LEMMA Newest ==
  ASSUME IInv, NEW c, Grows(c)
  PROVE  /\ written \in Nat
         /\ \A f \in DOMAIN files : \A i \in 1 .. Len(files[f]) : f # Writing => files[f][i].frame <= written
         /\ \A i \in 1 .. Len(File) : i # Len(File) \/ ~Half => File[i].frame <= written
         /\ Half => File[Len(File)].frame = written + 1
         /\ InOrder' = InOrder /\ (InOrder => \A f \in DOMAIN files : ~Earlier(Writing, f))
<1>1. File = files[Writing] /\ Writing \in DOMAIN files /\ Len(File) \in Nat /\ (Half <=> Len(File) % 2 = 1)
  BY Grown
<1>2. InvCells /\ InvTypes /\ InvWriting
  BY DEF IInv
<1>3. written \in Nat /\ run \in Nat /\ subrun \in Nat
  BY <1>2, FilesAssumption DEF InvTypes
<1>4. \A f \in DOMAIN files : \A i \in 1 .. Len(files[f]) : f # Writing => files[f][i].frame <= written
  BY <1>2 DEF InvCells
<1>5. \A i \in 1 .. Len(File) : i # Len(File) \/ ~Half => File[i].frame <= written
  BY <1>1, <1>2 DEF InvCells
<1>6. Half => File[Len(File)].frame = written + 1
  <2> SUFFICES ASSUME Half PROVE File[Len(File)].frame = written + 1
    OBVIOUS
  <2>1. Len(File) \in 1 .. Len(File)
    BY <1>1
  <2>2. QED BY <2>1, <1>1, <1>2 DEF InvCells
<1>7. ASSUME InOrder, NEW f \in DOMAIN files PROVE ~Earlier(Writing, f)
  <2>1. f[1] \in Nat /\ f[2] \in Nat
    BY <1>2, Pairs
  <2>2. f[1] <= run /\ (f[1] = run => f[2] < subrun \/ f[2] = subrun)
    BY <1>2, <1>7 DEF InvWriting
  <2>3. QED BY <2>1, <2>2, <1>3 DEF Earlier, Writing
<1>a. InOrder' = InOrder
  BY DEF Grows, InOrder
<1>8. QED BY <1>a, <1>3, <1>4, <1>5, <1>6, <1>7

\* A write keeps what is said of the files,
LEMMA GrowKeepsWriter ==
  ASSUME IInv, NEW c, Grows(c)
  PROVE  InvTypes' /\ InvWriting' /\ InvNoGap'
<1> USE FilesAssumption
<1>1. /\ DOMAIN files' = DOMAIN files /\ Writing' = Writing /\ Writing \in DOMAIN files
      /\ \A f \in DOMAIN files : f # Writing => files'[f] = files[f]
      /\ File = files[Writing] /\ File' = files'[Writing]
      /\ File' \in Seq(Cells) /\ Len(File) \in Nat /\ Len(File') = Len(File) + 1
      /\ (Half <=> Len(File) % 2 = 1) /\ (Half' <=> ~Half)
  BY Grown
<1>2. InvTypes /\ InvWriting /\ InvNoGap
  BY DEF IInv
<1>3. open /\ Len(File) < 2 * EventsPerFile /\ UNCHANGED <<run, subrun, open, paused, dry, numbering>> /\ InOrder' = InOrder
  BY DEF Grows, AddsCell, InOrder
<1>4. /\ ~Half => written < MaxFrames /\ UNCHANGED <<written, event, late>>
      /\ Half => written' = written + 1 /\ event' = event + 1 /\ (late' = late \/ late' = late \union {written + 1})
  BY DEF Grows
<1>5. written \in 0 .. MaxFrames /\ event \in Nat /\ late \subseteq 1 .. written
      /\ run \in Nat /\ subrun \in Nat /\ paused \in Nat
  BY <1>2 DEF InvTypes
<1>6. Half => written < MaxFrames
  BY <1>2 DEF InvWriting
<1>7. InvTypes'
  <2>1. \A f \in DOMAIN files' : files'[f] \in Seq(Cells)
    BY <1>1, <1>2 DEF InvTypes
  <2>2. written' \in 0 .. MaxFrames /\ event' \in Nat
    BY <1>4, <1>5, <1>6
  <2>3. late' \subseteq 1 .. written'
    <3>1. CASE ~Half
      BY <3>1, <1>4, <1>5
    <3>2. CASE Half
      <4>1. written' = written + 1 /\ written \in Nat
        BY <3>2, <1>4, <1>5
      <4>2. \A n \in late : n \in 1 .. written'
        BY <4>1, <1>5
      <4>3. written + 1 \in 1 .. written'
        BY <4>1
      <4>4. QED BY <4>2, <4>3, <3>2, <1>4
    <3>3. QED BY <3>1, <3>2
  <2>4. QED BY <2>1, <2>2, <2>3, <1>1, <1>2, <1>3 DEF InvTypes
<1>8. InvWriting'
  <2>1. \A f \in DOMAIN files : Len(files'[f]) <= 2 * EventsPerFile /\ (Len(files'[f]) % 2 = 1 => f = Writing)
    <3>1. Len(files'[Writing]) <= 2 * EventsPerFile
      BY <1>1, <1>3
    <3>2. \A f \in DOMAIN files : f # Writing => Len(files'[f]) <= 2 * EventsPerFile /\ Len(files'[f]) % 2 # 1
      BY <1>1, <1>2 DEF InvWriting
    <3>3. QED BY <3>1, <3>2
  <2>2. Half' => written' < MaxFrames
    BY <1>1, <1>4
  <2>3. subrun <= paused + written'
    BY <1>2, <1>4, <1>5 DEF InvWriting
  <2>4. Len(File') >= 2 => subrun + 1 <= paused + written'
    <3>1. CASE Half
      BY <3>1, <1>2, <1>4, <1>5 DEF InvWriting
    <3>2. CASE ~Half /\ Len(File') >= 2
      <4>1. Len(File) >= 1 /\ Len(File) % 2 # 1
        BY <3>2, <1>1
      <4>2. \A n \in Nat : n >= 1 /\ n % 2 # 1 => n >= 2
        OBVIOUS
      <4>3. Len(File) >= 2
        BY <4>1, <4>2, <1>1
      <4>4. QED BY <4>3, <3>2, <1>2, <1>3, <1>4 DEF InvWriting
    <3>3. QED BY <3>1, <3>2
  <2>5. /\ \A f \in DOMAIN files : f[1] = run => f[2] < subrun \/ (open /\ f[2] = subrun)
        /\ InOrder => \A f \in DOMAIN files : f[1] <= run
    BY <1>2 DEF InvWriting
  <2>6. QED BY <2>1, <2>2, <2>3, <2>4, <2>5, <1>1, <1>3 DEF InvWriting
<1>9. InvNoGap'
  BY <1>1, <1>2, <1>3 DEF InvNoGap, Exists
<1>10. QED BY <1>7, <1>8, <1>9

\* their cells, in order,
LEMMA GrowKeepsCells ==
  ASSUME IInv, NEW c, Grows(c)
  PROVE  InvCells' /\ InvFrames' /\ InvFiles'
<1>1. /\ DOMAIN files' = DOMAIN files /\ Writing' = Writing /\ Writing \in DOMAIN files
      /\ \A f \in DOMAIN files : f # Writing => files'[f] = files[f]
      /\ File = files[Writing] /\ File' = files'[Writing]
      /\ Len(File) \in Nat /\ Len(File') = Len(File) + 1
      /\ \A i \in 1 .. Len(File) : File'[i] = File[i]
      /\ File'[Len(File) + 1] = c
      /\ (Half <=> Len(File) % 2 = 1) /\ (Half' <=> ~Half)
  BY Grown
<1>2. InvCells /\ InvFrames /\ InvFiles
  BY DEF IInv
<1>3. /\ written \in Nat
      /\ \A f \in DOMAIN files : \A i \in 1 .. Len(files[f]) : f # Writing => files[f][i].frame <= written
      /\ \A i \in 1 .. Len(File) : i # Len(File) \/ ~Half => File[i].frame <= written
      /\ Half => File[Len(File)].frame = written + 1
      /\ InOrder' = InOrder /\ (InOrder => \A f \in DOMAIN files : ~Earlier(Writing, f))
  BY Newest
<1>4. /\ c.frame = written + 1 /\ c.run = run /\ c.subrun = subrun
      /\ Half => c.half = 2 /\ written' = written + 1
      /\ ~Half => c.half = 1 /\ written' = written
  BY DEF Grows
<1>5. Writing[1] = run /\ Writing[2] = subrun
  BY DEF Writing
<1>6. ASSUME NEW f \in DOMAIN files, f # Writing, NEW i \in 1 .. Len(files[f])
      PROVE  files[f][i].frame \in Nat /\ files[f][i].frame <= written /\ files'[f] = files[f]
  BY <1>1, <1>3, <1>6, FrameTypes
<1>7. \A i \in 1 .. Len(File) : File[i].frame \in Nat
  BY <1>1, FrameTypes
<1>8. InvCells'
  <2>1. ASSUME NEW f \in DOMAIN files, f # Writing, NEW i \in 1 .. Len(files'[f])
        PROVE  LET d == files'[f][i] IN
               d.run = f[1] /\ d.subrun = f[2] /\ (d.half = 1 <=> i % 2 = 1) /\ d.frame <= written'
    <3>1. i \in 1 .. Len(files[f]) /\ files'[f] = files[f]
      BY <2>1, <1>1
    <3>2. files[f][i].frame \in Nat /\ files[f][i].frame <= written
      BY <3>1, <2>1, <1>6
    <3>3. files[f][i].frame <= written'
      BY <3>2, <1>3, <1>4
    <3>4. QED BY <3>1, <3>3, <2>1, <1>2 DEF InvCells
  <2>2. ASSUME NEW i \in 1 .. Len(File')
        PROVE  LET d == File'[i] IN
               /\ d.run = run /\ d.subrun = subrun /\ (d.half = 1 <=> i % 2 = 1)
               /\ IF Half' /\ i = Len(File') THEN d.frame = written' + 1 ELSE d.frame <= written'
    <3>1. CASE i \in 1 .. Len(File)
      <4>1. File'[i] = File[i] /\ i # Len(File')
        BY <3>1, <1>1
      <4>2. File[i].run = run /\ File[i].subrun = subrun /\ (File[i].half = 1 <=> i % 2 = 1)
        BY <3>1, <1>1, <1>2, <1>5 DEF InvCells
      <4>3. File[i].frame <= written'
        BY <3>1, <1>1, <1>3, <1>4, <1>7
      <4>4. QED BY <4>1, <4>2, <4>3
    <3>2. CASE i = Len(File) + 1
      <4>1. File'[i] = c /\ i = Len(File')
        BY <3>2, <1>1
      <4>2. i % 2 = 1 <=> ~Half
        <5>1. \A n \in Nat : (n + 1) % 2 = 1 <=> ~(n % 2 = 1)
          OBVIOUS
        <5>2. QED BY <5>1, <3>2, <1>1
      <4>3. c.half = 1 <=> i % 2 = 1
        BY <4>2, <1>4
      <4>4. IF Half' THEN c.frame = written' + 1 ELSE c.frame <= written'
        BY <1>1, <1>3, <1>4
      <4>5. QED BY <4>1, <4>3, <4>4, <1>4
    <3>3. QED BY <3>1, <3>2, <1>1
  <2>3. Half' <=> Half' /\ Writing' = Writing
    BY <1>1
  <2>4. QED BY <2>1, <2>2, <1>1, <1>5 DEF InvCells
<1>9. InvFrames'
  <2>1. ASSUME NEW i \in 1 .. Len(File'), NEW j \in 1 .. Len(File'), i < j
        PROVE  /\ File'[i].frame <= File'[j].frame
               /\ File'[i].frame = File'[j].frame <=> i % 2 = 1 /\ j = i + 1
    <3>1. CASE j \in 1 .. Len(File)
      <4>1. i \in 1 .. Len(File) /\ File'[i] = File[i] /\ File'[j] = File[j]
        BY <2>1, <3>1, <1>1
      <4>2. QED BY <4>1, <3>1, <2>1, <1>1, <1>2 DEF InvFrames
    <3>2. CASE j = Len(File) + 1
      <4>1. i \in 1 .. Len(File) /\ File'[i] = File[i] /\ File'[j].frame = written + 1
        BY <2>1, <3>2, <1>1, <1>4
      <4>2. CASE i = Len(File) /\ Half
        BY <4>1, <4>2, <3>2, <1>1, <1>3
      <4>3. CASE ~(i = Len(File) /\ Half)
        <5>1. File[i].frame <= written /\ File[i].frame \in Nat
          BY <4>1, <4>3, <1>3, <1>7
        <5>2. ~(i % 2 = 1 /\ j = i + 1)
          BY <4>1, <4>3, <3>2, <1>1
        <5>3. QED BY <5>1, <5>2, <4>1, <1>3
      <4>4. QED BY <4>2, <4>3
    <3>3. QED BY <3>1, <3>2, <1>1
  <2>2. ASSUME NEW f \in DOMAIN files, f # Writing,
               NEW i \in 1 .. Len(files'[f]), NEW j \in 1 .. Len(files'[f]), i < j
        PROVE  /\ files'[f][i].frame <= files'[f][j].frame
               /\ files'[f][i].frame = files'[f][j].frame <=> i % 2 = 1 /\ j = i + 1
    BY <2>2, <1>1, <1>2 DEF InvFrames
  <2>3. QED BY <2>1, <2>2, <1>1 DEF InvFrames
<1>10. InvFiles'
  <2> SUFFICES ASSUME InOrder, NEW f \in DOMAIN files, NEW g \in DOMAIN files, Earlier(f, g),
                      NEW i \in 1 .. Len(files'[f]), NEW j \in 1 .. Len(files'[g])
               PROVE  files'[f][i].frame < files'[g][j].frame
    BY <1>1, <1>3 DEF InvFiles, Earlier
  <2>1. f # Writing
    BY <1>3
  <2>2. files'[f] = files[f] /\ i \in 1 .. Len(files[f])
    BY <2>1, <1>1
  <2>3. CASE g # Writing
    <3>1. files'[g] = files[g] /\ j \in 1 .. Len(files[g])
      BY <2>3, <1>1
    <3>2. QED BY <3>1, <2>2, <1>2 DEF InvFiles
  <2>4. CASE g = Writing /\ j \in 1 .. Len(File)
    <3>1. files'[g][j] = files[g][j] /\ j \in 1 .. Len(files[g])
      BY <2>4, <1>1
    <3>2. QED BY <3>1, <2>2, <1>2 DEF InvFiles
  <2>5. CASE g = Writing /\ j = Len(File) + 1
    <3>1. files'[g][j].frame = written + 1
      BY <2>5, <1>1, <1>4
    <3>2. files[f][i].frame \in Nat /\ files[f][i].frame <= written
      BY <2>1, <2>2, <1>6
    <3>3. QED BY <3>1, <3>2, <2>2, <1>3
  <2>6. QED BY <2>3, <2>4, <2>5, <1>1
<1>11. QED BY <1>8, <1>9, <1>10

\* the numbers of the records,
LEMMA GrowKeepsNumbers ==
  ASSUME IInv, NEW c, Grows(c)
  PROVE  InvNumbers'
<1>1. /\ DOMAIN files' = DOMAIN files /\ Writing' = Writing /\ Writing \in DOMAIN files
      /\ \A f \in DOMAIN files : f # Writing => files'[f] = files[f]
      /\ File = files[Writing] /\ File' = files'[Writing]
      /\ Len(File) \in Nat /\ Len(File') = Len(File) + 1
      /\ \A i \in 1 .. Len(File) : File'[i] = File[i]
      /\ File'[Len(File) + 1] = c
      /\ (Half <=> Len(File) % 2 = 1)
  BY Grown
<1>2. InvNumbers /\ InvTypes /\ InvWriting
  BY DEF IInv
<1>3. /\ open /\ c.event = event /\ UNCHANGED <<run, subrun, open, paused>>
      /\ Half => event' = event + 1
      /\ ~Half => event' = event
  BY DEF Grows, AddsCell
<1>4. Writing[1] = run /\ Writing[2] = subrun /\ run \in Nat /\ subrun \in Nat
  BY <1>2 DEF Writing, InvTypes
<1> SUFFICES ASSUME paused = 0
    PROVE  /\ \A f \in DOMAIN files : \A i \in 1 .. Len(files'[f]) :
                files'[f][i].event = Start(f[2]) + ((i - 1) \div 2)
           /\ \A f \in DOMAIN files : Exists(f[1], f[2] + 1) => Len(files'[f]) = 2 * EventsPerFile
           /\ event' = Start(subrun) + (Len(File') \div 2)
  BY <1>1, <1>3 DEF InvNumbers, Exists, Start
<1>5. event = Start(subrun) + (Len(File) \div 2) /\ Start(subrun) \in Nat
  BY <1>2, <1>3, <1>4, StartNext DEF InvNumbers
<1>6. \A i \in 1 .. Len(File') : File'[i].event = Start(subrun) + ((i - 1) \div 2)
  <2> SUFFICES ASSUME NEW i \in 1 .. Len(File') PROVE File'[i].event = Start(subrun) + ((i - 1) \div 2)
    OBVIOUS
  <2>1. CASE i \in 1 .. Len(File)
    <3>1. File[i].event = Start(subrun) + ((i - 1) \div 2)
      BY <2>1, <1>1, <1>2, <1>4 DEF InvNumbers
    <3>2. QED BY <3>1, <2>1, <1>1
  <2>2. CASE i = Len(File) + 1
    <3>1. i - 1 = Len(File)
      BY <2>2, <1>1
    <3>2. QED BY <3>1, <2>2, <1>1, <1>3, <1>5
  <2>3. QED BY <2>1, <2>2, <1>1
<1>7. ASSUME NEW f \in DOMAIN files, Exists(f[1], f[2] + 1)
      PROVE  Len(files'[f]) = 2 * EventsPerFile /\ f # Writing
  <2>1. f # Writing
    <3>1. ~Exists(run, subrun + 1)
      BY <1>2, <1>4 DEF InvWriting, Exists
    <3>2. QED BY <3>1, <1>4, <1>7
  <2>2. QED BY <2>1, <1>1, <1>2, <1>7 DEF InvNumbers
<1>8. event' = Start(subrun) + (Len(File') \div 2)
  <2>1. \A n \in Nat : n \div 2 \in Nat /\ (n % 2 = 1 => (n + 1) \div 2 = (n \div 2) + 1)
                       /\ (n % 2 # 1 => (n + 1) \div 2 = n \div 2)
    OBVIOUS
  <2>2. Len(File) \div 2 \in Nat
    BY <2>1, <1>1
  <2>3. CASE Half
    <3>1. Len(File') \div 2 = (Len(File) \div 2) + 1
      BY <2>1, <2>3, <1>1
    <3>2. QED BY <3>1, <2>2, <2>3, <1>3, <1>5
  <2>4. CASE ~Half
    <3>1. Len(File') \div 2 = Len(File) \div 2
      BY <2>1, <2>4, <1>1
    <3>2. QED BY <3>1, <2>4, <1>3, <1>5
  <2>5. QED BY <2>3, <2>4
<1>9. \A f \in DOMAIN files : \A i \in 1 .. Len(files'[f]) :
                files'[f][i].event = Start(f[2]) + ((i - 1) \div 2)
  <2> SUFFICES ASSUME NEW f \in DOMAIN files, NEW i \in 1 .. Len(files'[f])
      PROVE files'[f][i].event = Start(f[2]) + ((i - 1) \div 2)
    OBVIOUS
  <2>1. CASE f = Writing
    BY <2>1, <1>1, <1>4, <1>6
  <2>2. CASE f # Writing
    <3>1. files'[f] = files[f]
      BY <2>2, <1>1
    <3>2. QED BY <3>1, <1>2 DEF InvNumbers
  <2>3. QED BY <2>1, <2>2
<1>10. QED BY <1>7, <1>8, <1>9

\* what was delivered,
LEMMA GrowKeepsReader ==
  ASSUME IInv, NEW c, Grows(c)
  PROVE  InvReader' /\ InvDelivered' /\ InvLabels'
<1>1. /\ DOMAIN files' = DOMAIN files /\ Writing \in DOMAIN files
      /\ \A f \in DOMAIN files : f # Writing => files'[f] = files[f]
      /\ File = files[Writing] /\ File' = files'[Writing]
      /\ Len(File) \in Nat /\ Len(File') = Len(File) + 1
      /\ \A i \in 1 .. Len(File) : File'[i] = File[i]
      /\ File'[Len(File) + 1] = c
  BY Grown
<1>2. InvReader /\ InvDelivered /\ InvLabels
  BY DEF IInv
<1>3. /\ c.frame = written + 1 /\ written \in Nat
      /\ written' = written \/ written' = written + 1
      /\ UNCHANGED <<paused, rpc, current_run, current_subrun, next_event, pos, delivered, source>>
      /\ late' = {} => late = {}
      /\ InOrder' = InOrder
  BY Newest DEF Grows, reader, place
<1>4. Current' = Current /\ Content' = files'[Current] /\ Content = files[Current]
  BY <1>3 DEF Current, Content
<1>5. InvReader'
  <2>1. Current \in DOMAIN files => pos <= Len(files'[Current])
    <3> SUFFICES ASSUME Current \in DOMAIN files PROVE pos <= Len(files'[Current])
      OBVIOUS
    <3>1. pos <= Len(files[Current]) /\ pos \in Nat
      BY <1>2, <1>4 DEF InvReader
    <3>2. CASE Current = Writing
      BY <3>1, <3>2, <1>1
    <3>3. CASE Current # Writing
      BY <3>1, <3>3, <1>1
    <3>4. QED BY <3>2, <3>3
  <2>2. QED BY <2>1, <1>1, <1>2, <1>3, <1>4 DEF InvReader
<1>6. InvDelivered'
  <2>1. \A n \in 1 .. Len(delivered) : delivered[n].cells[1].frame \in Nat
    <3> SUFFICES ASSUME NEW n \in 1 .. Len(delivered) PROVE delivered[n].cells[1].frame \in Nat
      OBVIOUS
    <3>1. delivered[n] \in Envelopes
      BY <1>2 DEF InvDelivered
    <3>2. Len(delivered[n].cells) >= 1
      BY <1>2 DEF InvDelivered, Whole
    <3>3. delivered[n].cells \in Seq(Cells)
      BY <3>1 DEF Envelopes
    <3>4. delivered[n].cells[1] \in Cells
      BY <3>2, <3>3
    <3>5. QED BY <3>4 DEF Cells
  <2>2. \A n \in 1 .. Len(delivered) : delivered[n].cells[1].frame <= written
    BY <1>2 DEF InvDelivered
  <2>3. \A n \in 1 .. Len(delivered) : delivered[n].cells[1].frame <= written'
    BY <2>1, <2>2, <1>3
  <2>4. ASSUME InOrder, NEW n \in 1 .. Len(delivered), NEW f \in DOMAIN files, NEW i \in 1 .. Len(files'[f]),
               Earlier(Current, f) \/ (f = Current /\ i > pos)
        PROVE  delivered[n].cells[1].frame < files'[f][i].frame
    <3>1. CASE f = Writing /\ i = Len(File) + 1
      BY <3>1, <2>1, <2>2, <1>1, <1>3
    <3>2. CASE files'[f][i] = files[f][i] /\ i \in 1 .. Len(files[f])
      BY <3>2, <2>4, <1>2 DEF InvDelivered
    <3>3. QED BY <3>1, <3>2, <1>1
  <2>5. QED BY <2>3, <2>4, <1>1, <1>2, <1>3, <1>4 DEF InvDelivered
<1>7. InvLabels'
  BY <1>2, <1>3 DEF InvLabels, Start
<1>8. QED BY <1>5, <1>6, <1>7

\* and what the reader has passed: a frame completed behind a short read is late.
LEMMA GrowKeepsPassed ==
  ASSUME IInv, NEW c, Grows(c)
  PROVE  InvPassed'
<1>1. /\ DOMAIN files' = DOMAIN files /\ Writing \in DOMAIN files
      /\ \A f \in DOMAIN files : f # Writing => files'[f] = files[f]
      /\ File = files[Writing] /\ File' = files'[Writing]
      /\ Len(File) \in Nat /\ Len(File') = Len(File) + 1
      /\ \A i \in 1 .. Len(File) : File'[i] = File[i]
      /\ File'[Len(File) + 1] = c
      /\ (Half <=> Len(File) % 2 = 1)
  BY Grown
<1>2. InvReader /\ InvPassed /\ InvTypes
  BY DEF IInv
<1>3. /\ c.frame = written + 1
      /\ UNCHANGED <<dry, rpc, current_run, current_subrun, pos, delivered, source>>
      /\ late \subseteq late'
      /\ Half /\ rpc \in {"subrun", "run"} => c.frame \in late'
      /\ InOrder' = InOrder /\ (InOrder => \A f \in DOMAIN files : ~Earlier(Writing, f))
  BY Newest DEF Grows, reader, place
<1>4. Current' = Current /\ Content' = files'[Current] /\ Content = files[Current] /\ Delivered' = Delivered
  BY <1>3 DEF Current, Content, Delivered
<1> DEFINE Seen(d) == d \in Delivered \/ d.frame \in late'
<1>5. \A d : Accounted(d) => Seen(d)
  BY <1>3, <1>4 DEF Accounted
  \* A second cell is an old one, or the new one.
<1>6. ASSUME NEW f \in DOMAIN files, NEW i \in 1 .. Len(files'[f]), i % 2 = 0
      PROVE  \/ i \in 1 .. Len(files[f]) /\ files'[f][i] = files[f][i]
             \/ f = Writing /\ files'[f][i] = c /\ Half
  <2>1. CASE f = Writing /\ i = Len(File) + 1
    <3>1. \A n \in Nat : (n + 1) % 2 = 0 => n % 2 = 1
      OBVIOUS
    <3>2. QED BY <3>1, <2>1, <1>1, <1>6
  <2>2. CASE files'[f][i] = files[f][i] /\ i \in 1 .. Len(files[f])
    BY <2>2
  <2>3. QED BY <2>1, <2>2, <1>1
<1>7. Current \in DOMAIN files => \A i \in 1 .. pos : i % 2 = 0 => files'[Current][i] \in Delivered
  <2> SUFFICES ASSUME Current \in DOMAIN files, NEW i \in 1 .. pos, i % 2 = 0
               PROVE  files'[Current][i] \in Delivered
    OBVIOUS
  <2>1. i \in 1 .. Len(files[Current]) /\ files[Current][i] \in Delivered
    BY <1>2, <1>4 DEF InvReader, InvPassed
  <2>2. QED BY <2>1, <1>1
<1>8. ~dry /\ InOrder => \A f \in DOMAIN files : Earlier(f, Current) =>
               \A i \in 1 .. Len(files'[f]) : i % 2 = 0 => Seen(files'[f][i])
  <2> SUFFICES ASSUME ~dry, InOrder, NEW f \in DOMAIN files, Earlier(f, Current), f # Writing,
                      NEW i \in 1 .. Len(files[f]), i % 2 = 0
               PROVE  Seen(files[f][i])
    <3> SUFFICES ASSUME InOrder, NEW f \in DOMAIN files, Earlier(f, Current) PROVE f # Writing
      BY <1>1
    <3>1. CASE Current \in DOMAIN files
      BY <3>1, <1>3
    <3>2. CASE Current \notin DOMAIN files
      <4>1. Current = <<1, 0>>
        BY <3>2, <1>2 DEF InvReader
      <4>2. f[1] \in 1 .. MaxRuns /\ f[2] \in 0 .. MaxFrames + MaxPauses
        BY <1>2 DEF InvTypes
      <4>3. f[1] >= 1 /\ f[2] >= 0 /\ f[1] \in Int /\ f[2] \in Int
        BY <4>2, FilesAssumption
      <4>4. QED BY <4>1, <4>3 DEF Earlier
    <3>3. QED BY <3>1, <3>2
  <2> HIDE DEF Seen
  <2>1. Accounted(files[f][i])
    BY <1>2 DEF InvPassed
  <2>2. QED BY <2>1, <1>5
<1>9. rpc \in {"subrun", "run"} =>
       \A i \in 1 .. Len(files'[Current]) : i > pos /\ i % 2 = 0 => files'[Current][i].frame \in late'
  <2> SUFFICES ASSUME rpc \in {"subrun", "run"}, NEW i \in 1 .. Len(files'[Current]), i > pos, i % 2 = 0
               PROVE  files'[Current][i].frame \in late'
    OBVIOUS
  <2>1. Current \in DOMAIN files
    BY <1>2 DEF InvReader
  <2>2. CASE files'[Current][i] = c /\ Half
    BY <2>2, <1>3
  <2>3. CASE i \in 1 .. Len(files[Current]) /\ files'[Current][i] = files[Current][i]
    BY <2>3, <1>2, <1>3, <1>4 DEF InvPassed
  <2>4. QED BY <2>1, <2>2, <2>3, <1>6
<1>10. rpc = "run" /\ ~dry =>
       \A f \in DOMAIN files : f[1] = current_run /\ f[2] > current_subrun =>
         \A i \in 1 .. Len(files'[f]) : i % 2 = 0 => files'[f][i].frame \in late'
  <2> SUFFICES ASSUME rpc = "run", ~dry, NEW f \in DOMAIN files, f[1] = current_run, f[2] > current_subrun,
                      NEW i \in 1 .. Len(files'[f]), i % 2 = 0
               PROVE  files'[f][i].frame \in late'
    OBVIOUS
  <2>1. CASE files'[f][i] = c /\ Half
    BY <2>1, <1>3
  <2>2. CASE i \in 1 .. Len(files[f]) /\ files'[f][i] = files[f][i]
    BY <2>2, <1>2, <1>3 DEF InvPassed
  <2>3. QED BY <2>1, <2>2, <1>6
<1>11. QED BY <1>1, <1>3, <1>4, <1>7, <1>8, <1>9, <1>10 DEF InvPassed, Accounted

LEMMA GrowKeeps == ASSUME IInv, NEW c, Grows(c) PROVE IInv'
BY GrowKeepsWriter, GrowKeepsCells, GrowKeepsNumbers, GrowKeepsReader, GrowKeepsPassed DEF IInv

LEMMA OpenKeeps == ASSUME IInv, OpenFile PROVE IInv'
BY OpenKeepsWriter, OpenKeepsNumbers, OpenKeepsReader DEF IInv

-----------------------------------------------------------------------------
(* Lemmas about the steps of the reader.                                   *)

\* A step of the reader leaves the writer and the files alone.
LEMMA ReaderKeepsWriter ==
  ASSUME IInv, UNCHANGED <<files, writer, late, source>>
  PROVE  InOrder' = InOrder /\ InvTypes' /\ InvWriting' /\ InvNoGap' /\ InvCells' /\ InvFrames' /\ InvFiles' /\ InvNumbers'
<1>1. UNCHANGED <<files, run, subrun, event, open, written, paused, dry, numbering, late, source>>
  BY DEF writer
<1>a. InOrder' = InOrder
  BY <1>1 DEF InOrder
<1>2. File' = File /\ Writing' = Writing
  BY <1>1 DEF File, Writing
<1>3. Half' <=> Half
  BY <1>1, <1>2 DEF Half
<1>4. InvTypes' /\ InvNoGap' /\ InvFrames' /\ InvFiles'
  BY <1>a, <1>1 DEF IInv, InvTypes, InvNoGap, Exists, InvFrames, InvFiles, Earlier
<1>5. InvWriting'
  BY <1>a, <1>1, <1>2, <1>3 DEF IInv, InvWriting
<1>6. InvCells'
  BY <1>1, <1>2, <1>3 DEF IInv, InvCells
<1>7. InvNumbers'
  BY <1>1, <1>2 DEF IInv, InvNumbers, Exists, Start
<1>8. QED BY <1>a, <1>4, <1>5, <1>6, <1>7

\* The reader goes on with its place as it is.
Turns ==
  /\ UNCHANGED <<files, writer, place, delivered, late, source>>
  /\ rpc' \in {"read", "subrun", "run", "eof", "error"}
  /\ Current \notin DOMAIN files => rpc' \in {"eof", "error"}
  /\ source = "file" => rpc' \in {"read", "eof", "error"}
  /\ rpc' \in {"subrun", "run"} =>
       \A i \in 1 .. Len(Content) : i > pos /\ i % 2 = 0 => Content[i].frame \in late
  /\ rpc' = "run" /\ ~dry => ~\E f \in DOMAIN files : f[1] = current_run /\ f[2] > current_subrun

LEMMA TurnKeeps == ASSUME IInv, Turns PROVE IInv'
<1>1. /\ UNCHANGED <<files, writer, current_run, current_subrun, next_event, pos, delivered, late, source>>
      /\ UNCHANGED <<written, dry, paused>> /\ InOrder' = InOrder
  BY ReaderKeepsWriter DEF Turns, place, writer
<1>2. Current' = Current /\ Content' = Content /\ Delivered' = Delivered
  BY <1>1 DEF Current, Content, Delivered
<1>3. InvReader /\ InvDelivered /\ InvPassed /\ InvLabels
  BY DEF IInv
<1>4. InvReader'
  BY <1>1, <1>2, <1>3 DEF InvReader, Turns
<1>5. InvDelivered'
  BY <1>1, <1>2, <1>3 DEF InvDelivered
<1>6. InvLabels'
  BY <1>1, <1>3 DEF InvLabels, Start
<1>7. InvPassed'
  <2>1. \A c : Accounted(c)' <=> Accounted(c)
    BY <1>1, <1>2 DEF Accounted
  <2>2. /\ Current \in DOMAIN files => \A i \in 1 .. pos : i % 2 = 0 => Content[i] \in Delivered
        /\ ~dry /\ InOrder => \A f \in DOMAIN files : Earlier(f, Current) =>
               \A i \in 1 .. Len(files[f]) : i % 2 = 0 => Accounted(files[f][i])
    BY <1>3 DEF InvPassed
  <2>3. /\ rpc' \in {"subrun", "run"} =>
            \A i \in 1 .. Len(Content) : i > pos /\ i % 2 = 0 => Content[i].frame \in late
        /\ rpc' = "run" /\ ~dry => ~\E f \in DOMAIN files : f[1] = current_run /\ f[2] > current_subrun
    BY DEF Turns
  <2>4. QED BY <1>1, <1>2, <2>1, <2>2, <2>3 DEF InvPassed
<1>8. QED BY <1>1, <1>4, <1>5, <1>6, <1>7, ReaderKeepsWriter DEF IInv

\* What the reader's place is, wherever it has a file.
LEMMA Reading ==
  ASSUME IInv, Current \in DOMAIN files
  PROVE  /\ Content = files[Current] /\ Content \in Seq(Cells) /\ Len(Content) \in Nat
         /\ pos \in Nat /\ pos % 2 = 0 /\ pos <= Len(Content)
         /\ \A i \in 1 .. Len(Content) : i % 2 = 0 /\ i > pos => i >= pos + 2
<1>1. Content = files[Current] /\ Content \in Seq(Cells)
  BY DEF IInv, InvTypes, Content, Current
<1>2. Len(Content) \in Nat
  BY <1>1
<1>3. pos \in Nat /\ pos % 2 = 0 /\ pos <= Len(Content)
  BY DEF IInv, InvReader
<1>4. \A i \in Nat : i % 2 = 0 /\ i > pos => i >= pos + 2
  BY <1>3
<1>5. QED BY <1>1, <1>2, <1>3, <1>4

\* The reader's steps that leave its place alone: it finds its first file or not,
\* gives up, ends, is told to stop, or reads short.
LEMMA OpensTurns == ASSUME IInv, OpenCurrentFile PROVE Turns
BY DEF OpenCurrentFile, Reads, Turns, Exists, Current

LEMMA FailsTurns == ASSUME IInv, OpenFails PROVE Turns
BY DEF OpenFails, Reads, Turns

LEMMA IdleTurns == ASSUME IInv, IdleOut PROVE Turns
BY DEF IdleOut, Reads, Turns

LEMMA EndTurns == ASSUME IInv, ReadEnd PROVE Turns
BY DEF ReadEnd, Turns

LEMMA StopTurns == ASSUME IInv, StopEnds PROVE Turns
BY DEF StopEnds, Turns

LEMMA ShortTurns == ASSUME IInv, ReadShort PROVE Turns
<1>1. /\ source # "file" /\ rpc = "read" /\ rpc' = "subrun" /\ Len(Content) - pos < 2
      /\ UNCHANGED <<files, writer, place, delivered, late, source>>
  BY DEF ReadShort, Reads, Ahead, Stay, place
<1>2. Current \in DOMAIN files
  BY <1>1 DEF IInv, InvReader
<1>3. \A i \in 1 .. Len(Content) : ~(i > pos /\ i % 2 = 0)
  BY <1>1, <1>2, Reading
<1>4. QED BY <1>1, <1>2, <1>3 DEF Turns

\* Without a gap, a later subrun has the next one before it.
LEMMA NextIsThere ==
  ASSUME IInv, ~dry, NEW f \in DOMAIN files, f[1] = current_run, f[2] > current_subrun
  PROVE  Exists(current_run, current_subrun + 1)
<1>1. f[2] \in Nat /\ current_subrun \in Nat
  BY Pairs DEF IInv, InvReader
<1>2. current_subrun + 1 \in 0 .. f[2]
  BY <1>1
<1>3. QED BY <1>2 DEF IInv, InvNoGap

\* It finds no next subrun, or no next run.
LEMMA SubrunTurns ==
  ASSUME IInv, CheckSubrun, ~Exists(current_run, current_subrun + 1)
  PROVE  Turns
<1>1. /\ rpc = "subrun" /\ rpc' = "run"
      /\ UNCHANGED <<files, writer, place, delivered, late, source>>
  BY DEF CheckSubrun
<1>2. Current \in DOMAIN files /\ source # "file"
  BY <1>1 DEF IInv, InvReader
<1>3. \A i \in 1 .. Len(Content) : i > pos /\ i % 2 = 0 => Content[i].frame \in late
  BY <1>1 DEF IInv, InvPassed
<1>4. ~dry => ~\E f \in DOMAIN files : f[1] = current_run /\ f[2] > current_subrun
  BY NextIsThere
<1>5. QED BY <1>1, <1>2, <1>3, <1>4 DEF Turns

LEMMA RunTurns ==
  ASSUME IInv, CheckRun, ~Exists(current_run + 1, 0)
  PROVE  Turns
<1>1. /\ rpc = "run" /\ rpc' = "read"
      /\ UNCHANGED <<files, writer, place, delivered, late, source>>
  BY DEF CheckRun
<1>2. Current \in DOMAIN files
  BY <1>1 DEF IInv, InvReader
<1>3. QED BY <1>1, <1>2 DEF Turns

\* The reader leaves its file for file g, with all behind it delivered or late.
Switches(g) ==
  /\ UNCHANGED <<files, writer, delivered, late, source>>
  /\ source # "file" /\ g \in DOMAIN files /\ Current \in DOMAIN files
  /\ current_run' = g[1] /\ current_subrun' = g[2] /\ g = <<g[1], g[2]>>
  /\ rpc' = "read" /\ pos' = 0 /\ next_event' \in Nat
  /\ \A f \in DOMAIN files : f = g \/ Earlier(g, f) => Earlier(Current, f)
  /\ ~dry /\ InOrder => \A f \in DOMAIN files : Earlier(f, g) =>
               \A i \in 1 .. Len(files[f]) : i % 2 = 0 => Accounted(files[f][i])
  /\ late = {} /\ paused = 0 => next_event' = Start(g[2])

LEMMA SwitchKeeps == ASSUME IInv, NEW g, Switches(g) PROVE IInv'
<1>1. /\ UNCHANGED <<files, writer, delivered, late, source, written, dry, paused>>
      /\ source # "file" /\ g \in DOMAIN files /\ Current' = g
      /\ current_run' = g[1] /\ current_subrun' = g[2]
      /\ rpc' = "read" /\ pos' = 0 /\ next_event' \in Nat
      /\ Delivered' = Delivered /\ Content' = files[g] /\ InOrder' = InOrder
  BY ReaderKeepsWriter DEF Switches, writer, Current, Delivered, Content
<1>2. g[1] \in Nat /\ g[2] \in Nat /\ InvReader /\ InvDelivered /\ InvLabels
  BY <1>1, Pairs DEF IInv
<1>3. Len(files[g]) \in Nat
  BY <1>1 DEF IInv, InvTypes
<1>4. InvReader'
  BY <1>1, <1>2, <1>3 DEF InvReader
<1>5. InvDelivered'
  <2>1. \A f \in DOMAIN files : f = g \/ Earlier(g, f) => Earlier(Current, f)
    BY DEF Switches
  <2>2. QED BY <2>1, <1>1, <1>2 DEF InvDelivered
<1>6. InvPassed'
  <2>1. \A c : Accounted(c)' <=> Accounted(c)
    BY <1>1 DEF Accounted
  <2>2. ~dry /\ InOrder => \A f \in DOMAIN files : Earlier(f, g) =>
               \A i \in 1 .. Len(files[f]) : i % 2 = 0 => Accounted(files[f][i])
    BY DEF Switches
  <2>3. QED BY <1>1, <2>1, <2>2 DEF InvPassed
<1>7. InvLabels'
  <2>1. late = {} /\ paused = 0 => next_event' = Start(g[2]) + 0
    BY <1>2, StartNext DEF Switches
  <2>2. pos' \div 2 = 0
    BY <1>1
  <2>3. QED BY <2>1, <2>2, <1>1, <1>2 DEF InvLabels, Start
<1>8. QED BY <1>1, <1>4, <1>5, <1>6, <1>7, ReaderKeepsWriter DEF IInv

\* The reader's own file, when it is left: all its frames are delivered or late.
LEMMA LeftBehind ==
  ASSUME IInv, rpc \in {"subrun", "run"}, NEW i \in 1 .. Len(Content), i % 2 = 0
  PROVE  Accounted(Content[i])
<1>1. Current \in DOMAIN files
  BY DEF IInv, InvReader
<1>2. pos \in Nat
  BY <1>1, Reading
<1>3. CASE i \in 1 .. pos
  BY <1>1, <1>3 DEF IInv, InvPassed, Accounted
<1>4. CASE i > pos
  BY <1>4 DEF IInv, InvPassed, Accounted
<1>5. QED BY <1>2, <1>3, <1>4

\* It finds the next subrun of the run: what it leaves behind was delivered or is late.
LEMMA SubrunSwitches ==
  ASSUME IInv, CheckSubrun, Exists(current_run, current_subrun + 1)
  PROVE  Switches(<<current_run, current_subrun + 1>>)
<1> DEFINE g == <<current_run, current_subrun + 1>>
<1>1. /\ rpc = "subrun" /\ rpc' = "read" /\ pos' = 0 /\ next_event' = next_event
      /\ current_run' = current_run /\ current_subrun' = current_subrun + 1
      /\ UNCHANGED <<files, writer, delivered, late, source>>
  BY DEF CheckSubrun, NextSubrun, Switch
<1>2. /\ Current \in DOMAIN files /\ source # "file"
      /\ current_run \in Nat /\ current_subrun \in Nat /\ next_event \in Nat
  BY <1>1 DEF IInv, InvReader
<1>3. g \in DOMAIN files /\ g = <<g[1], g[2]>> /\ g[1] = current_run /\ g[2] = current_subrun + 1
  BY DEF Exists
<1>4. Current[1] = current_run /\ Current[2] = current_subrun /\ Current = <<current_run, current_subrun>>
  BY DEF Current
<1> HIDE DEF g
<1>5. ASSUME NEW f \in DOMAIN files, f = g \/ Earlier(g, f) PROVE Earlier(Current, f)
  <2>1. f[1] \in Nat /\ f[2] \in Nat
    BY Pairs DEF IInv
  <2>2. QED BY <2>1, <1>2, <1>3, <1>4, <1>5 DEF Earlier
<1>6. ASSUME ~dry, InOrder, NEW f \in DOMAIN files, Earlier(f, g), NEW i \in 1 .. Len(files[f]), i % 2 = 0
      PROVE  Accounted(files[f][i])
  <2>1. f = <<f[1], f[2]>> /\ f[1] \in Nat /\ f[2] \in Nat
    BY Pairs DEF IInv
  <2>2. Earlier(f, Current) \/ f = Current
    BY <2>1, <1>2, <1>3, <1>4, <1>6 DEF Earlier
  <2>3. CASE Earlier(f, Current)
    BY <2>3, <1>6 DEF IInv, InvPassed
  <2>4. CASE f = Current
    <3>1. Content = files[f]
      BY <2>4 DEF Content, Current
    <3>2. QED BY <3>1, <1>1, <1>6, LeftBehind
  <2>5. QED BY <2>2, <2>3, <2>4
<1>7. ASSUME late = {}, paused = 0 PROVE next_event' = Start(g[2])
  <2>1. Content = files[Current] /\ Len(Content) \in Nat /\ pos \in Nat /\ pos <= Len(Content)
    BY <1>2, Reading
  <2>2. Len(Content) = 2 * EventsPerFile
    BY <2>1, <1>2, <1>4, <1>7 DEF IInv, InvNumbers
  <2>3. \A i \in 1 .. Len(Content) : ~(i > pos /\ i % 2 = 0)
    BY <1>1, <1>7 DEF IInv, InvPassed
  <2>4. Len(Content) \in 1 .. Len(Content) /\ Len(Content) % 2 = 0
    BY <2>2, FilesAssumption
  <2>5. pos = 2 * EventsPerFile
    BY <2>1, <2>2, <2>3, <2>4
  <2>6. pos \div 2 = EventsPerFile
    BY <2>5, FilesAssumption
  <2>7. next_event = Start(current_subrun) + EventsPerFile
    BY <2>6, <1>7 DEF IInv, InvLabels
  <2>8. QED BY <2>7, <1>1, <1>2, <1>3, StartNext
<1>8. QED BY <1>1, <1>2, <1>3, <1>5, <1>6, <1>7 DEF Switches, g

\* It finds the next run: so is every later subrun that it did not find.
LEMMA RunSwitches ==
  ASSUME IInv, CheckRun, Exists(current_run + 1, 0)
  PROVE  Switches(<<current_run + 1, 0>>)
<1> DEFINE g == <<current_run + 1, 0>>
<1>1. /\ rpc = "run" /\ rpc' = "read" /\ pos' = 0 /\ next_event' = 0
      /\ current_run' = current_run + 1 /\ current_subrun' = 0
      /\ UNCHANGED <<files, writer, delivered, late, source>>
  BY DEF CheckRun, Switch
<1>2. /\ Current \in DOMAIN files /\ source # "file"
      /\ current_run \in Nat /\ current_subrun \in Nat
  BY <1>1 DEF IInv, InvReader
<1>3. g \in DOMAIN files /\ g = <<g[1], g[2]>> /\ g[1] = current_run + 1 /\ g[2] = 0
  BY DEF Exists
<1>4. Current[1] = current_run /\ Current[2] = current_subrun /\ Current = <<current_run, current_subrun>>
  BY DEF Current
<1> HIDE DEF g
<1>5. ASSUME NEW f \in DOMAIN files, f = g \/ Earlier(g, f) PROVE Earlier(Current, f)
  <2>1. f[1] \in Nat /\ f[2] \in Nat
    BY Pairs DEF IInv
  <2>2. QED BY <2>1, <1>2, <1>3, <1>4, <1>5 DEF Earlier
<1>6. ASSUME ~dry, InOrder, NEW f \in DOMAIN files, Earlier(f, g), NEW i \in 1 .. Len(files[f]), i % 2 = 0
      PROVE  Accounted(files[f][i])
  <2>1. f = <<f[1], f[2]>> /\ f[1] \in Nat /\ f[2] \in Nat
    BY Pairs DEF IInv
  <2>2. Earlier(f, Current) \/ f = Current \/ (f[1] = current_run /\ f[2] > current_subrun)
    BY <2>1, <1>2, <1>3, <1>4, <1>6 DEF Earlier
  <2>3. CASE Earlier(f, Current)
    BY <2>3, <1>6 DEF IInv, InvPassed
  <2>4. CASE f = Current
    <3>1. Content = files[f]
      BY <2>4 DEF Content, Current
    <3>2. QED BY <3>1, <1>1, <1>6, LeftBehind
  <2>5. CASE f[1] = current_run /\ f[2] > current_subrun
    BY <2>5, <1>1, <1>6 DEF IInv, InvPassed, Accounted
  <2>6. QED BY <2>2, <2>3, <2>4, <2>5
<1>7. next_event' \in Nat /\ next_event' = Start(g[2])
  BY <1>1, <1>3, FilesAssumption DEF Start
<1>8. QED BY <1>1, <1>2, <1>3, <1>5, <1>6, <1>7 DEF Switches, g

\* Two cells from the middle of a file.
LEMMA TwoCells ==
  ASSUME NEW S, NEW s \in Seq(S), NEW n \in Nat, n + 2 <= Len(s)
  PROVE  /\ SubSeq(s, n + 1, n + 2) \in Seq(S) /\ Len(SubSeq(s, n + 1, n + 2)) = 2
         /\ SubSeq(s, n + 1, n + 2)[1] = s[n + 1] /\ SubSeq(s, n + 1, n + 2)[2] = s[n + 2]
OBVIOUS

\* The two cells that ReadFrame takes are one frame, which comes after all that
\* was delivered and before all that is left.
LEMMA FrameRead ==
  ASSUME IInv, ReadFrame
  PROVE  LET a == Content[pos + 1]
             b == Content[pos + 2]
         IN  /\ Current \in DOMAIN files /\ pos + 2 <= Len(Content)
             /\ a \in Cells /\ b \in Cells /\ a.frame = b.frame /\ a.half = 1 /\ b.half = 2
             /\ a.run = current_run /\ a.subrun = current_subrun /\ a.frame <= written
             /\ InOrder => \A n \in 1 .. Len(delivered) : delivered[n].cells[1].frame < a.frame
             /\ InOrder => \A f \in DOMAIN files : \A i \in 1 .. Len(files[f]) :
                  Earlier(Current, f) \/ (f = Current /\ i > pos + 2) => a.frame < files[f][i].frame
             /\ paused = 0 => a.event = Start(current_subrun) + (pos \div 2)
<1> DEFINE a == Content[pos + 1]
           b == Content[pos + 2]
<1>1. rpc = "read" /\ Ahead >= 2
  BY DEF ReadFrame, Reads
<1>2. Current \in DOMAIN files
  BY <1>1 DEF IInv, InvReader
<1>3. /\ Content = files[Current] /\ Content \in Seq(Cells) /\ Len(Content) \in Nat
      /\ pos \in Nat /\ pos % 2 = 0
  BY <1>2, Reading
<1>4. pos + 2 <= Len(Content)
  BY <1>1, <1>3 DEF Ahead
<1>5. pos + 1 \in 1 .. Len(Content) /\ pos + 2 \in 1 .. Len(Content)
  BY <1>3, <1>4
<1>6. (pos + 1) % 2 = 1 /\ (pos + 2) % 2 = 0 /\ (pos + 2) % 2 # 1 /\ (pos + 1) - 1 = pos
      /\ pos + 1 < pos + 2 /\ pos + 2 = (pos + 1) + 1
  BY <1>3
<1>7. a \in Cells /\ b \in Cells /\ a.frame \in Nat /\ b.frame \in Nat /\ (b.half = 1 \/ b.half = 2)
  BY <1>2, <1>3, <1>5, FrameTypes
<1>8. a.frame = b.frame
  BY <1>2, <1>3, <1>5, <1>6 DEF IInv, InvFrames
<1>9. /\ a.run = current_run /\ a.subrun = current_subrun /\ (a.half = 1 <=> (pos + 1) % 2 = 1)
      /\ (b.half = 1 <=> (pos + 2) % 2 = 1)
  <2>1. Current[1] = current_run /\ Current[2] = current_subrun
    BY DEF Current
  <2>2. QED BY <2>1, <1>2, <1>3, <1>5 DEF IInv, InvCells
<1>10. b.frame <= written
  <2>1. ~(Half /\ Current = Writing /\ pos + 2 = Len(File))
    BY <1>6 DEF Half
  <2>2. QED BY <2>1, <1>2, <1>3, <1>5 DEF IInv, InvCells
<1>11. InOrder => \A n \in 1 .. Len(delivered) : delivered[n].cells[1].frame < a.frame
  <2>1. pos + 1 > pos
    BY <1>3
  <2>2. QED BY <2>1, <1>2, <1>3, <1>5 DEF IInv, InvDelivered
<1>12. ASSUME InOrder, NEW f \in DOMAIN files, NEW i \in 1 .. Len(files[f]),
              Earlier(Current, f) \/ (f = Current /\ i > pos + 2)
       PROVE  a.frame < files[f][i].frame
  <2>1. CASE Earlier(Current, f)
    BY <2>1, <1>2, <1>3, <1>5, <1>12 DEF IInv, InvFiles
  <2>2. CASE f = Current /\ i > pos + 2
    <3>1. b.frame <= files[f][i].frame /\ b.frame # files[f][i].frame
      BY <2>2, <1>2, <1>3, <1>5, <1>6 DEF IInv, InvFrames
    <3>2. files[f][i].frame \in Nat
      BY FrameTypes
    <3>3. QED BY <3>1, <3>2, <1>7, <1>8
  <2>3. QED BY <2>1, <2>2, <1>12
<1>13. paused = 0 => a.event = Start(current_subrun) + (pos \div 2)
  <2>1. Current[2] = current_subrun
    BY DEF Current
  <2>2. QED BY <2>1, <1>2, <1>3, <1>5, <1>6 DEF IInv, InvNumbers
<1>14. QED BY <1>2, <1>4, <1>6, <1>7, <1>8, <1>9, <1>10, <1>11, <1>12, <1>13

LEMMA ReadKeeps == ASSUME IInv, ReadFrame PROVE IInv'
<1> DEFINE a == Content[pos + 1]
           b == Content[pos + 2]
           d == [run |-> current_run, subrun |-> current_subrun, event |-> next_event,
                 cells |-> SubSeq(Content, pos + 1, pos + 2)]
<1>1. /\ Current \in DOMAIN files /\ pos + 2 <= Len(Content)
      /\ a \in Cells /\ b \in Cells /\ a.frame = b.frame /\ a.half = 1 /\ b.half = 2
      /\ a.run = current_run /\ a.subrun = current_subrun /\ a.frame <= written
      /\ InOrder => \A n \in 1 .. Len(delivered) : delivered[n].cells[1].frame < a.frame
      /\ InOrder => \A f \in DOMAIN files : \A i \in 1 .. Len(files[f]) :
                  Earlier(Current, f) \/ (f = Current /\ i > pos + 2) => a.frame < files[f][i].frame
      /\ paused = 0 => a.event = Start(current_subrun) + (pos \div 2)
  BY FrameRead
<1>2. /\ rpc = "read" /\ rpc' = "read" /\ delivered' = Append(delivered, d)
      /\ pos' = pos + 2 /\ next_event' = next_event + 1
      /\ UNCHANGED <<files, writer, current_run, current_subrun, late, source, written, dry, paused>>
      /\ InOrder' = InOrder
  BY ReaderKeepsWriter DEF ReadFrame, Reads, writer
<1>3. /\ current_run \in Nat /\ current_subrun \in Nat /\ next_event \in Nat /\ pos \in Nat /\ pos % 2 = 0
      /\ source \in {"live", "impatient", "file"}
      /\ source = "file" => pos = 2 * Len(delivered)
      /\ Content = files[Current] /\ Content \in Seq(Cells) /\ Len(Content) \in Nat
  BY <1>1, Reading DEF IInv, InvReader
<1>4. /\ Len(d.cells) = 2 /\ d.cells \in Seq(Cells) /\ d.cells[1] = a /\ d.cells[2] = b
      /\ d.run = current_run /\ d.subrun = current_subrun /\ d.event = next_event
  BY <1>1, <1>3, TwoCells
<1>5. d \in Envelopes
  BY <1>3, <1>4 DEF Envelopes
<1>6. Whole(d)
  BY <1>1, <1>4 DEF Whole
<1> HIDE DEF a, b, d
<1>7. delivered \in Seq(Envelopes)
  BY DEF IInv, InvDelivered
<1>8. /\ delivered' \in Seq(Envelopes) /\ Len(delivered) \in Nat /\ Len(delivered') = Len(delivered) + 1
      /\ \A n \in 1 .. Len(delivered) : delivered'[n] = delivered[n]
      /\ delivered'[Len(delivered) + 1] = d
  BY <1>2, <1>5, <1>7
<1>9. Current' = Current /\ Content' = Content
  BY <1>2 DEF Current, Content
<1>10. InvReader'
  <2>1. pos' \in Nat /\ pos' % 2 = 0 /\ next_event' \in Nat /\ pos' <= Len(Content)
    BY <1>1, <1>2, <1>3
  <2>2. source = "file" => pos' = 2 * Len(delivered')
    BY <1>2, <1>3, <1>8
  <2>3. QED BY <2>1, <2>2, <1>1, <1>2, <1>3, <1>9 DEF InvReader
<1>11. InvDelivered'
  <2>1. \A i \in 1 .. Len(delivered') : Whole(delivered'[i]) /\ delivered'[i].cells[1].frame <= written
    <3> SUFFICES ASSUME NEW i \in 1 .. Len(delivered')
                 PROVE  Whole(delivered'[i]) /\ delivered'[i].cells[1].frame <= written
      OBVIOUS
    <3>1. CASE i \in 1 .. Len(delivered)
      BY <3>1, <1>8 DEF IInv, InvDelivered
    <3>2. CASE i = Len(delivered) + 1
      BY <3>2, <1>1, <1>4, <1>6, <1>8
    <3>3. QED BY <3>1, <3>2, <1>8
  <2>2. InOrder => \A i \in 2 .. Len(delivered') : delivered'[i - 1].cells[1].frame < delivered'[i].cells[1].frame
    <3> SUFFICES ASSUME InOrder, NEW i \in 2 .. Len(delivered')
                 PROVE  delivered'[i - 1].cells[1].frame < delivered'[i].cells[1].frame
      OBVIOUS
    <3>1. i - 1 \in 1 .. Len(delivered) /\ delivered'[i - 1] = delivered[i - 1]
      BY <1>8
    <3>2. CASE i \in 2 .. Len(delivered)
      <4>1. delivered'[i] = delivered[i]
        BY <3>2, <1>8
      <4>2. QED BY <4>1, <3>1, <3>2 DEF IInv, InvDelivered
    <3>3. CASE i = Len(delivered) + 1
      BY <3>1, <3>3, <1>1, <1>4, <1>8
    <3>4. QED BY <3>2, <3>3, <1>8
  <2>3. ASSUME InOrder, NEW n \in 1 .. Len(delivered'), NEW f \in DOMAIN files, NEW i \in 1 .. Len(files[f]),
               Earlier(Current, f) \/ (f = Current /\ i > pos + 2)
        PROVE  delivered'[n].cells[1].frame < files[f][i].frame
    <3>1. CASE n \in 1 .. Len(delivered)
      <4>1. Earlier(Current, f) \/ (f = Current /\ i > pos)
        BY <2>3, <1>3
      <4>2. delivered'[n] = delivered[n]
        BY <3>1, <1>8
      <4>3. QED BY <4>1, <4>2, <3>1, <2>3 DEF IInv, InvDelivered
    <3>2. CASE n = Len(delivered) + 1
      BY <3>2, <2>3, <1>1, <1>4, <1>8
    <3>3. QED BY <3>1, <3>2, <1>8
  <2>4. QED BY <2>1, <2>2, <2>3, <1>2, <1>8, <1>9 DEF InvDelivered
<1>12. Delivered \subseteq Delivered' /\ b \in Delivered'
  <2>1. Len(delivered) + 1 \in 1 .. Len(delivered') /\ delivered'[Len(delivered) + 1].cells[2] = b
    BY <1>4, <1>8
  <2>2. \A n \in 1 .. Len(delivered) : n \in 1 .. Len(delivered') /\ delivered'[n].cells[2] = delivered[n].cells[2]
    BY <1>8
  <2>3. QED BY <2>1, <2>2 DEF Delivered
<1>13. InvPassed'
  <2>1. \A c : Accounted(c) => Accounted(c)'
    BY <1>2, <1>12 DEF Accounted
  <2>2. \A i \in 1 .. pos + 2 : i % 2 = 0 => Content[i] \in Delivered'
    <3> SUFFICES ASSUME NEW i \in 1 .. pos + 2, i % 2 = 0 PROVE Content[i] \in Delivered'
      OBVIOUS
    <3>1. i \in 1 .. pos \/ i = pos + 2
      BY <1>3
    <3>2. CASE i \in 1 .. pos
      BY <3>2, <1>1, <1>12 DEF IInv, InvPassed
    <3>3. CASE i = pos + 2
      BY <3>3, <1>12 DEF b
    <3>4. QED BY <3>1, <3>2, <3>3
  <2>3. ~dry /\ InOrder => \A f \in DOMAIN files : Earlier(f, Current) =>
               \A i \in 1 .. Len(files[f]) : i % 2 = 0 => Accounted(files[f][i])
    BY DEF IInv, InvPassed
  <2>4. \A f \in DOMAIN files : \A i \in 1 .. Len(files[f]) :
          Accounted(files[f][i]) => files[f][i] \in Delivered' \/ files[f][i].frame \in late
    BY <1>2, <1>12 DEF Accounted
  <2>5. QED BY <2>2, <2>3, <2>4, <1>2, <1>9 DEF InvPassed, Accounted
<1>14. InvLabels'
  <2> SUFFICES ASSUME late = {}, paused = 0
      PROVE  /\ next_event' = Start(current_subrun) + (pos' \div 2)
             /\ \A i \in 1 .. Len(delivered') : delivered'[i].event = delivered'[i].cells[1].event
    BY <1>2 DEF InvLabels, Start
  <2>1. next_event = Start(current_subrun) + (pos \div 2) /\ Start(current_subrun) \in Nat
    BY <1>3, StartNext DEF IInv, InvLabels
  <2>2. (pos + 2) \div 2 = (pos \div 2) + 1 /\ pos \div 2 \in Nat
    BY <1>3
  <2>3. next_event' = Start(current_subrun) + (pos' \div 2)
    BY <2>1, <2>2, <1>2
  <2>4. d.event = d.cells[1].event
    BY <2>1, <1>1, <1>4
  <2>5. \A i \in 1 .. Len(delivered) : delivered[i].event = delivered[i].cells[1].event
    BY DEF IInv, InvLabels
  <2>6. QED BY <2>3, <2>4, <2>5, <1>8
<1>15. QED BY <1>2, <1>10, <1>11, <1>13, <1>14, ReaderKeepsWriter DEF IInv

-----------------------------------------------------------------------------
(* The theorems.                                                           *)

LEMMA IInvNext == ASSUME IInv, [Next]_vars PROVE IInv'
<1>1. CASE OpenFile
  BY <1>1, OpenKeeps
<1>2. CASE WriteHalf
  BY <1>2, HalfGrows, GrowKeeps
<1>3. CASE WriteRest
  BY <1>3, RestGrows, GrowKeeps
<1>4. CASE Pause
  BY <1>4, PauseLeaves, LeaveKeeps
<1>5. CASE NextRun
  BY <1>5, NextRunLeaves, LeaveKeeps
<1>6. CASE OpenCurrentFile
  BY <1>6, OpensTurns, TurnKeeps
<1>7. CASE OpenFails
  BY <1>7, FailsTurns, TurnKeeps
<1>8. CASE ReadFrame
  BY <1>8, ReadKeeps
<1>9. CASE ReadShort
  BY <1>9, ShortTurns, TurnKeeps
<1>10. CASE ReadEnd
  BY <1>10, EndTurns, TurnKeeps
<1>11. CASE CheckSubrun
  BY <1>11, SubrunTurns, TurnKeeps, SubrunSwitches, SwitchKeeps
<1>12. CASE CheckRun
  BY <1>12, RunTurns, TurnKeeps, RunSwitches, SwitchKeeps
<1>13. CASE IdleOut
  BY <1>13, IdleTurns, TurnKeeps
<1>a. CASE StopEnds
  BY <1>a, StopTurns, TurnKeeps
<1>14. CASE UNCHANGED vars \/ RequestStop
  <2>1. UNCHANGED <<files, writer, late, source, rpc, current_run, current_subrun, next_event, pos,
                    delivered, written, dry, paused>>
    BY <1>14 DEF vars, reader, place, writer, RequestStop
  <2>a. InOrder' = InOrder
    BY <2>1, ReaderKeepsWriter
  <2>2. Current' = Current /\ Content' = Content /\ Delivered' = Delivered
    BY <2>1 DEF Current, Content, Delivered
  <2>3. \A c : Accounted(c)' <=> Accounted(c)
    BY <2>1, <2>2 DEF Accounted
  <2>4. InvReader' /\ InvDelivered' /\ InvPassed' /\ InvLabels'
    BY <2>a, <2>1, <2>2, <2>3 DEF IInv, InvReader, InvDelivered, InvPassed, InvLabels, Start
  <2>5. QED BY <2>1, <2>4, ReaderKeepsWriter DEF IInv
<1>15. QED
  BY <1>a, <1>1, <1>2, <1>3, <1>4, <1>5, <1>6, <1>7, <1>8, <1>9, <1>10, <1>11, <1>12, <1>13, <1>14
  DEF Next, Writer, Reader

\* The files and the reader's place in them, as the invariant has them
\* (daq_runtime.cpp:401, frame_source.cpp:126 to 245).
THEOREM IInvAlways == Spec => []IInv
BY IInvInit, IInvNext, PTL DEF Spec

\* The stop word is set or not.
StopWordTypes == stopped \in BOOLEAN

LEMMA StopWord == Spec => []StopWordTypes
<1>1. Init => StopWordTypes
  BY Zenon DEF Init, StopWordTypes
<1>2. ASSUME StopWordTypes, [Next]_vars PROVE StopWordTypes'
  <2>1. stopped' = stopped \/ stopped' = TRUE
    BY <1>2 DEF Next, Writer, Reader, vars, OpenFile, WriteHalf, WriteRest, Pause, NextRun, RequestStop,
                OpenCurrentFile, OpenFails, ReadFrame, ReadShort, ReadEnd, CheckSubrun, CheckRun,
                IdleOut, StopEnds
  <2>2. QED BY <1>2, <2>1 DEF StopWordTypes
<1>3. QED BY <1>1, <1>2, PTL DEF Spec

\* What the invariant says of the properties.
LEMMA IInvTypes == ASSUME IInv, StopWordTypes PROVE TypeOK
<1>1. rpc \notin {"open", "eof", "error"} => Exists(current_run, current_subrun)
  BY DEF IInv, InvReader, Exists, Current
<1>2. rpc = "read" => pos \in 0 .. Len(Content)
  <2> SUFFICES ASSUME rpc = "read" PROVE pos \in 0 .. Len(Content)
    OBVIOUS
  <2>1. Current \in DOMAIN files
    BY DEF IInv, InvReader
  <2>2. QED BY <2>1, Reading
<1>3. QED BY <1>1, <1>2 DEF IInv, InvTypes, InvReader, TypeOK, StopWordTypes

LEMMA IInvDelivers == ASSUME IInv PROVE DeliversWholeFramesInOrder
<1>1. \A i \in 1 .. Len(delivered) : Whole(delivered[i])
  BY DEF IInv, InvDelivered
<1>2. InOrder => \A i \in 2 .. Len(delivered) : delivered[i - 1].cells[1].frame < delivered[i].cells[1].frame
  BY DEF IInv, InvDelivered
<1>3. QED BY <1>1, <1>2 DEF DeliversWholeFramesInOrder, Whole, InOrder

LEMMA IInvSkips == ASSUME IInv PROVE OnlyTheRaceSkips
<1> SUFFICES ASSUME ~dry, InOrder, NEW f \in DOMAIN files, NEW i \in 1 .. Len(files[f]),
                    files[f][i].half = 2, files[f][i] \notin Delivered,
                    \/ files[f][i].run < current_run
                    \/ files[f][i].run = current_run /\ files[f][i].subrun < current_subrun
             PROVE  files[f][i].frame \in late
  BY DEF OnlyTheRaceSkips, Passed, InOrder
<1>1. files[f][i].run = f[1] /\ files[f][i].subrun = f[2] /\ (files[f][i].half = 1 <=> i % 2 = 1)
  BY DEF IInv, InvCells
<1>2. Earlier(f, Current)
  BY <1>1 DEF Earlier, Current
<1>3. i % 2 = 0
  <2>1. i % 2 # 1 /\ i \in Int
    BY <1>1
  <2>2. QED BY <2>1
<1>4. Accounted(files[f][i])
  BY <1>2, <1>3 DEF IInv, InvPassed
<1>5. QED BY <1>4 DEF Accounted

\* A file source that ends well unasked has read all there is.
LEMMA IInvEnds ==
  ASSUME IInv, Next, source = "file", ~stopped, rpc' = "eof", rpc # "eof"
  PROVE  2 * Len(delivered') = Len(Content)
<1>1. ReadEnd
  BY DEF Next, Writer, Reader, OpenFile, WriteHalf, WriteRest, Pause, NextRun, reader, writer,
         OpenCurrentFile, OpenFails, ReadFrame, ReadShort, CheckSubrun, NextSubrun, Switch, CheckRun,
         IdleOut, StopEnds, RequestStop, Reads
<1>2. rpc = "read" /\ Ahead = 0 /\ delivered' = delivered
  BY <1>1 DEF ReadEnd
<1>3. Current \in DOMAIN files /\ pos = 2 * Len(delivered)
  BY <1>2 DEF IInv, InvReader
<1>4. QED BY <1>2, <1>3, Reading DEF Ahead

\* Whatever the writer flushes, rotates, pauses and starts while it is read, every
\* envelope holds one whole frame, with its run and subrun, in the order written
\* unless a run took a number before an earlier run's, and with its number unless
\* frames were skipped or the run paused (frame_source.cpp:170, 215 and 222).
THEOREM Delivers == Spec => []DeliveredIsTrue
<1>1. ASSUME IInv, StopWordTypes PROVE DeliveredIsTrue
  <2>1. EventLabelsAreTrue
    BY <1>1 DEF IInv, InvLabels, EventLabelsAreTrue
  <2>2. QED BY <1>1, <2>1, IInvTypes, IInvDelivers DEF DeliveredIsTrue
<1>2. QED BY <1>1, IInvAlways, StopWord, PTL

\* Without a pause that found nothing written, and with runs in order, a frame that
\* the live source leaves behind was completed between its short read and its look
\* for the next file (frame_source.cpp:210 and 226).
THEOREM Skips == Spec => []OnlyTheRaceSkips
BY IInvAlways, IInvSkips, PTL

\* A source of one file that is not told to stop ends well only when it has
\* delivered every frame in it (frame_source.cpp:57 and 91).
THEOREM FileEnds == Spec => EndsAtTheEnd
<1>1. ASSUME IInv, [Next]_vars
      PROVE  [source = "file" /\ ~stopped /\ rpc' = "eof" /\ rpc # "eof"
                => 2 * Len(delivered') = Len(Content)]_vars
  BY <1>1, IInvEnds
<1>2. QED BY <1>1, IInvAlways, PTL DEF Spec, EndsAtTheEnd
=============================================================================
