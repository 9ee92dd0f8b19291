--------------------------- MODULE TcpDeviceDriver ---------------------------
(***************************************************************************)
(* The TCP device driver, src/drivers/tcp_device_driver.cpp: one socket to *)
(* one device, polled and read in chunks of raw bytes.  (The front end     *)
(* asks for kRawBytes; nothing in the repository asks for the conversion   *)
(* of words to host order, and its two buffers stay empty.)  The device    *)
(* and the network are external: the bytes that arrive, and how the        *)
(* connection ends, are choices of the environment.                        *)
(*                                                                         *)
(* got is a history variable: what ReadBytes has handed out since          *)
(* ConnectDevice.  DeviceStream puts the driver between device and worker. *)
(***************************************************************************)
EXTENDS Integers, Sequences

CONSTANT Chunk \* max_bytes of every ReadBytes: kReadChunkSizeBytes

VARIABLES
  sock, \* sock_fd_ >= 0
  peer, \* the other end: "none", "up", "closed" (orderly) or "reset"
  hup,  \* the host's poll reports POLLHUP already for an orderly close
  wire, \* bytes received by the socket and not yet read
  got

driverVars == <<sock, peer, hup, wire, got>>

Init ==
  /\ sock = FALSE /\ peer = "none" /\ hup \in BOOLEAN
  /\ wire = <<>> /\ got = <<>>

-----------------------------------------------------------------------------
(* The device's end of the connection.                                     *)

DeviceSends(bytes) ==
  /\ peer = "up" /\ wire' = wire \o bytes
  /\ UNCHANGED <<sock, peer, hup, got>>

DeviceEnds(how) ==
  /\ peer = "up" /\ peer' = how
  /\ UNCHANGED <<sock, hup, wire, got>>

-----------------------------------------------------------------------------
(* Connecting closes what was open first; if it fails only that happens.   *)

ConnectDevice ==
  /\ sock' = TRUE /\ peer' = "up" /\ wire' = <<>> /\ got' = <<>>
  /\ UNCHANGED hup

\* Mutant: the descriptor is closed, but sock_fd_ keeps it.
BugDisconnectDevice ==
  peer' = "none" /\ wire' = <<>> /\ UNCHANGED <<sock, hup, got>>

DisconnectDevice ==
  sock' = FALSE /\ peer' = "none" /\ wire' = <<>> /\ UNCHANGED <<hup, got>>

-----------------------------------------------------------------------------
(* ReadBytes.  A poll that times out or is interrupted changes nothing.    *)

\* Mutant: an orderly close (POLLRDHUP) is taken for the end at once, too.
BugHangsUp == peer \in {"reset", "closed"}

\* poll: a hangup is taken for the end before anything is read.
HangsUp == peer = "reset" \/ (hup /\ peer = "closed")

Readable == sock /\ ~HangsUp /\ (wire # <<>> \/ peer = "closed")

\* recv takes what has arrived, or part of it, and never more than a chunk; the
\* bytes are appended to got and handed to the caller.  kOk.
ReadOk(n) ==
  /\ Readable
  /\ n \in 1 .. Chunk /\ n <= Len(wire)
  /\ got' = got \o SubSeq(wire, 1, n) /\ wire' = SubSeq(wire, n + 1, Len(wire))
  /\ UNCHANGED <<sock, peer, hup>>

\* kDisconnected or kError: poll hangs up, or recv returns 0 because all that
\* came before the close has been read.
ReadLost == sock /\ (HangsUp \/ (Readable /\ wire = <<>>))
=============================================================================
