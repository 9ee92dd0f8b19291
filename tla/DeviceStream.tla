---------------------------- MODULE DeviceStream ----------------------------
(***************************************************************************)
(* From the device's frames to the frames a worker pushes: a device that   *)
(* sends framed words over TCP (as kc705_tof_dummy_device does), the TCP   *)
(* driver in raw mode, the KC705 validator that cuts frames out of the     *)
(* stream, and the worker's loop around ReadBytes and Feed.                *)
(*                                                                         *)
(* A wire frame is 2 + 8 + 2 bytes and a chunk 8 bytes.  Here a frame is   *)
(* four cells, one per part the validator looks at or hands on, and a cell *)
(* says what the validator would find in it and where it comes from.  What *)
(* the 8 bytes of a payload stand for is Kc705Word's.                      *)
(*                                                                         *)
(* DaqRuntime has the rest of the worker: stop, the reconnect window, the  *)
(* queue.  There a frame, a lost link or a fatal verdict is one choice.    *)
(***************************************************************************)
EXTENDS FiniteSets, Kc705Word

CONSTANTS
  Chunk,         \* see TcpDeviceDriver
  MaxFrames,     \* bound: frames a device sends in one connection
  MaxConnections \* bound: connections

Layout == <<"header", "board", "time", "footer">>
F      == Len(Layout) \* kWireFrameSize

ASSUME StreamAssumption ==
  /\ Chunk \in 1 .. F - 1 \* a chunk is shorter than a frame: 8 < 12
  /\ MaxFrames \in Nat /\ MaxConnections \in Nat

VARIABLES
  sock, peer, hup, wire, got, \* the driver
  honest,    \* the device sends no malformed frame
  conn,      \* connections made so far
  frames,    \* whole frames the device sent in this connection
  spoiled,   \* which of them is the first malformed one, 0 if none is
  cut,       \* the device died while sending a frame
  buffer,    \* the validator's buffer_
  pc,        \* the worker: "connect", "read", "failed" (fatal verdict), "gone"
  forwarded  \* payloads handed on in this connection

Driver == INSTANCE TcpDeviceDriver

driver == <<sock, peer, hup, wire, got>>
device == <<honest, frames, spoiled, cut>>
worker == <<buffer, pc, forwarded>>
vars   == <<driver, conn, device, worker>>

Init ==
  /\ Driver!Init
  /\ honest \in BOOLEAN
  /\ conn = 0 /\ frames = 0 /\ spoiled = 0 /\ cut = FALSE
  /\ buffer = <<>> /\ pc = "connect" /\ forwarded = <<>>

-----------------------------------------------------------------------------
(* The device.  Every connection starts with a whole frame.                *)

Wire(c, n)    == [i \in 1 .. F |-> [conn |-> c, frame |-> n, mark |-> Layout[i]]]
Payload(c, n) == SubSeq(Wire(c, n), 2, 3)

\* A part the validator looks at is wrong (another board's id, a broken
\* header or footer), or the frame lacks a part.
Malformed(c, n) ==
  {[Wire(c, n) EXCEPT ![i].mark = "noise"] : i \in {1, 2, 4}} \union
  {SubSeq(Wire(c, n), 1, i - 1) \o SubSeq(Wire(c, n), i + 1, F) : i \in 1 .. F}

Ready == ~cut /\ frames < MaxFrames

SendFrame ==
  /\ Ready
  /\ Driver!DeviceSends(Wire(conn, frames + 1))
  /\ frames' = frames + 1
  /\ UNCHANGED <<honest, conn, spoiled, cut, worker>>

SendMalformed ==
  /\ ~honest /\ Ready
  /\ \E m \in Malformed(conn, frames + 1) : Driver!DeviceSends(m)
  /\ frames' = frames + 1
  /\ spoiled' = IF spoiled = 0 THEN frames + 1 ELSE spoiled
  /\ UNCHANGED <<honest, conn, cut, worker>>

\* send_all gets only part of a frame out; the connection is then closed.
SendPart ==
  /\ ~cut /\ cut' = TRUE
  /\ \E n \in 1 .. F - 1 : Driver!DeviceSends(SubSeq(Wire(conn, frames + 1), 1, n))
  /\ UNCHANGED <<honest, conn, frames, spoiled, worker>>

EndConnection ==
  /\ \E how \in {"closed", "reset"} : Driver!DeviceEnds(how)
  /\ UNCHANGED <<conn, device, worker>>

-----------------------------------------------------------------------------
(* The validator.                                                          *)

Place(buf, i)  == SubSeq(buf, (i - 1) * F + 1, i * F)
\* Mutant: the footer is not compared.
BugWellFormed(fr) == \A i \in {1, 2} : fr[i].mark = Layout[i]

WellFormed(fr) == \A i \in {1, 2, 4} : fr[i].mark = Layout[i]

\* Mutant: a frame is cut out only when a byte of the next one is there.
BugWhole(buf) == (Len(buf) - 1) \div F

\* Mutant: frames are cut out two at a time.
BugPairs(buf) == IF Len(buf) >= 2 * F THEN 2 ELSE 0

\* How many whole frames the buffer holds.
Whole(buf) == Len(buf) \div F

Bad(buf) == {i \in 1 .. Whole(buf) : ~WellFormed(Place(buf, i))}

\* Feed: every whole frame in the buffer is checked and cut out in turn.  The
\* first that is malformed ends it with a fatal verdict, and then the worker
\* does not look at the frames cut out before it by the same call.
Feed(buf) ==
  IF Bad(buf) = {}
  THEN /\ buffer' = SubSeq(buf, Whole(buf) * F + 1, Len(buf))
       /\ forwarded' = forwarded \o [i \in 1 .. Whole(buf) |-> SubSeq(Place(buf, i), 2, 3)]
       /\ UNCHANGED pc
  ELSE /\ \E i \in Bad(buf) :
            /\ \A j \in Bad(buf) : i <= j
            /\ buffer' = SubSeq(buf, (i - 1) * F + 1, Len(buf))
       /\ pc' = "failed"
       /\ UNCHANGED forwarded

\* Mutant: the validator keeps the bytes of the lost connection.
BugReset == UNCHANGED buffer

Reset == buffer' = <<>>

-----------------------------------------------------------------------------
(* The worker.                                                             *)

Connect ==
  /\ pc = "connect" /\ conn < MaxConnections
  /\ Driver!ConnectDevice
  /\ pc' = "read" /\ conn' = conn + 1
  /\ frames' = 0 /\ spoiled' = 0 /\ cut' = FALSE /\ forwarded' = <<>>
  /\ UNCHANGED <<honest, buffer>>

Read ==
  /\ pc = "read"
  /\ \E n \in 1 .. Chunk : Driver!ReadOk(n) /\ Feed(buffer \o SubSeq(wire, 1, n))
  /\ UNCHANGED <<conn, device>>

\* kDisconnected or kError: disconnect, forget, connect again.
LoseLink ==
  /\ pc = "read" /\ Driver!ReadLost
  /\ Driver!DisconnectDevice /\ Reset
  /\ pc' = "connect"
  /\ UNCHANGED <<conn, device, forwarded>>

\* The failed worker returns; the driver's destructor closes the socket.
Return ==
  /\ pc = "failed" /\ pc' = "gone"
  /\ Driver!DisconnectDevice
  /\ UNCHANGED <<conn, device, buffer, forwarded>>

Next ==
  \/ SendFrame \/ SendMalformed \/ SendPart \/ EndConnection
  \/ Connect \/ Read \/ LoseLink \/ Return

Worker == Connect \/ Read \/ LoseLink \/ Return

\* The worker's thread runs on; the device owes nothing.
Spec     == Init /\ [][Next]_vars
FairSpec == Spec /\ WF_vars(Worker)

-----------------------------------------------------------------------------
(* Properties.                                                             *)

\* Types; between two steps the buffer holds less than a frame.
TypeOK ==
  /\ {sock, hup, honest} \subseteq BOOLEAN /\ peer \in {"none", "up", "closed", "reset"}
  /\ conn \in 0 .. MaxConnections /\ frames \in 0 .. MaxFrames
  /\ spoiled \in 0 .. frames /\ cut \in BOOLEAN
  /\ pc \in {"connect", "read", "failed", "gone"}
  /\ pc # "failed" /\ pc # "gone" => Len(buffer) < F
  /\ pc \in {"read", "failed"} <=> sock

\* What is handed on are the frames the device sent in this connection, in
\* order and from the first, never one at or behind a malformed one.  README.md:227:
\* "The validator rejects header/footer mismatch and board ID mismatch before
\* forwarding frames downstream."
ForwardsGoodFramesInOrder ==
  /\ Len(forwarded) <= frames
  /\ spoiled # 0 => Len(forwarded) < spoiled
  /\ \A i \in 1 .. Len(forwarded) : forwarded[i] = Payload(conn, i)

\* A device that sends well-formed frames never fails a run, however its
\* connections end, in the middle of a frame or not (daq_runtime.cpp:211).
HonestDeviceIsAccepted == pc = "failed" => spoiled # 0

\* A frame is handed on in the step that reads its last byte: none waits in
\* the buffer, none is skipped.
NothingHeldBack ==
  pc = "read" /\ spoiled = 0 =>
    Len(forwarded) = Len(got) \div F /\ Len(buffer) = Len(got) % F

\* The worker drops what Feed cut out before the malformed frame of the same
\* chunk (daq_runtime.cpp:235); as a chunk is shorter than a frame there is
\* never such a frame, and all frames before the malformed one are handed on.
FatalLosesNothing == pc = "failed" => Len(forwarded) = spoiled - 1

\* When the worker gives up a connection the device closed in order, every
\* whole frame the device sent has been handed on, unless poll reports the close
\* as a hangup (tcp_device_driver.cpp:89, 96).
CloseLosesNothing ==
  [][~hup /\ pc = "read" /\ pc' = "connect" /\ peer = "closed" /\ spoiled = 0
       => Len(forwarded) = frames]_vars

\* Whatever the device sent is handed on, unless the connection or the run fails
\* or poll reports a close as a hangup.
FramesArrive ==
  \A c \in 1 .. MaxConnections, n \in 1 .. MaxFrames :
    (conn = c /\ frames = n) ~>
      (Len(forwarded) >= n \/ conn # c \/ spoiled # 0 \/ hup \/ peer \in {"reset", "none"})

\* What is handed on can be decoded into what the device put in
\* (kc705_tof_decoder.cpp:38).
PayloadsAreReadable == forwarded # <<>> => WordsSurvive

\* The framing is right wherever chunks and connections end: frames handed on
\* are the good ones, in order, at once, and up to the malformed one, and only a
\* malformed one fails the run (kc705_tof_validator.cpp:47, daq_runtime.cpp:211
\* and 233).
FramingIsRight ==
  /\ TypeOK /\ HonestDeviceIsAccepted
  /\ NothingHeldBack /\ ForwardsGoodFramesInOrder /\ FatalLosesNothing
=============================================================================
