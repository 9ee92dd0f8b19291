------------------------------ MODULE DataLink ------------------------------
(***************************************************************************)
(* The online data stream: publish_data of daqd sends every record as four *)
(* message parts over a ZMQ PUB socket, and datamon's ZmqDataFrameSource   *)
(* puts four parts together again.  The header of a record travels as      *)
(* bytes, which are digits to a small base here: two for the 32-bit        *)
(* numbers, three for the 64-bit one, one each for magic, version and the  *)
(* reserved field.                                                         *)
(*                                                                         *)
(* The sockets are external: a message is passed on when its last part has *)
(* been sent, whole or not at all; a subscriber that has not joined or has *)
(* its queue full misses it.  The parts a source reads are taken from one  *)
(* queue of parts, as it never asks whether more parts follow.             *)
(***************************************************************************)
EXTENDS Integers, Sequences, FiniteSets

CONSTANTS
  Base,      \* values of a byte
  Headers,   \* headers of records: [run, subrun, event]
  MayFail,   \* the send of a part may fail
  MayEnd,    \* --idle-timeout-sec is given, or datamon may be told to stop
  HWM,       \* bound: messages queued at the subscriber
  MaxFrames  \* bound: records

ASSUME LinkAssumption ==
  /\ Base \in Nat /\ Base > 2
  /\ Headers \subseteq [run : 0 .. Base * Base - 1, subrun : 0 .. Base * Base - 1,
                        event : 0 .. Base * Base * Base - 1]
  /\ {MayFail, MayEnd} \subseteq BOOLEAN
  /\ HWM \in Nat \ {0} /\ MaxFrames \in Nat

-----------------------------------------------------------------------------
(* The header on the wire.                                                 *)

\* The bytes of a number, from the last to the third but last.
Byte0(n) == n % Base
Byte1(n) == (n \div Base) % Base
Byte2(n) == ((n \div Base) \div Base) % Base

Magic   == Base - 1
Version == 2

\* Mutant: the subrun is written in front of the run.
BugHeaderWire(h) ==
  <<Magic, Version, 0, Byte1(h.subrun), Byte0(h.subrun), Byte1(h.run), Byte0(h.run),
    Byte2(h.event), Byte1(h.event), Byte0(h.event)>>

\* WriteDataFrameHeader
HeaderWire(h) ==
  <<Magic, Version, 0, Byte1(h.run), Byte0(h.run), Byte1(h.subrun), Byte0(h.subrun),
    Byte2(h.event), Byte1(h.event), Byte0(h.event)>>

\* What a publisher of version 1 writes: no subrun.
OldHeaderWire(h) ==
  <<Magic, 1, 0, Byte1(h.run), Byte0(h.run), Byte2(h.event), Byte1(h.event), Byte0(h.event)>>

WireSize(version) == IF version = 1 THEN 8 ELSE 10

\* Mutant: only headers of version 1 have the right size.
BugIsHeader(bytes) == Len(bytes) = WireSize(1) /\ bytes[1] = Magic

\* ReadDataFrameHeader: whether bytes are a header ...
IsHeader(bytes) ==
  /\ Len(bytes) \in {WireSize(1), WireSize(Version)}
  /\ bytes[1] = Magic
  /\ bytes[2] \in {1, Version}
  /\ Len(bytes) = WireSize(bytes[2])

Number2(bytes, i) == bytes[i] * Base + bytes[i + 1]
Number3(bytes, i) == Number2(bytes, i) * Base + bytes[i + 2]

\* Mutant: version 1 is taken to have a subrun, too.
BugOldSubrun(bytes) ==
  [run |-> Number2(bytes, 4), subrun |-> Number2(bytes, 6),
   event |-> Number3(bytes, IF bytes[2] = 1 THEN 6 ELSE 8)]

\* ... and what it says.
HeaderOf(bytes) ==
  [run    |-> Number2(bytes, 4),
   subrun |-> IF bytes[2] = 1 THEN 0 ELSE Number2(bytes, 6),
   event  |-> Number3(bytes, IF bytes[2] = 1 THEN 6 ELSE 8)]

-----------------------------------------------------------------------------
\* Message parts; only a header has digits to read.
Topic      == [kind |-> "topic", record |-> 0, bytes |-> <<>>]
Source     == [kind |-> "source", record |-> 0, bytes |-> <<>>]
Header(b)  == [kind |-> "header", record |-> 0, bytes |-> b]
Payload(n) == [kind |-> "payload", record |-> n, bytes |-> <<>>]

VARIABLES
  version,   \* of the headers the publisher writes: 1 or 2
  published, \* headers of the records given to publish_data
  sending,   \* parts of the current record that have been sent: 0 .. 3
  open,      \* parts of a message that lacks its last one
  broken,    \* records of which a part could not be sent
  missed,    \* records that found the queue full, or no subscriber
  joined,    \* the subscriber's connection is up
  queue,     \* parts that wait at the subscriber
  parts,     \* parts NextFrame has put together
  rpc,       \* the source: "recv", "eof" or "error"
  delivered  \* envelopes: [header, payload]

publisher == <<version, published, sending, open, broken, missed>>
source    == <<parts, rpc, delivered>>
vars      == <<publisher, joined, queue, source>>

Init ==
  /\ version \in {1, Version}
  /\ published = <<>> /\ sending = 0 /\ open = <<>> /\ broken = {} /\ missed = {}
  /\ joined = FALSE /\ queue = <<>>
  /\ parts = <<>> /\ rpc = "recv" /\ delivered = <<>>

-----------------------------------------------------------------------------
(* publish_data                                                            *)

Last == Len(published) \* the record at hand

Part(i) ==
  CASE i = 1 -> Topic
    [] i = 2 -> Source
    [] i = 3 -> Header(IF version = 1 THEN OldHeaderWire(published[Last])
                       ELSE HeaderWire(published[Last]))
    [] i = 4 -> Payload(Last)

\* The writer has another record, with numbers no other has; its topic is sent.
Publish ==
  /\ sending = 0 /\ Last < MaxFrames
  /\ \E h \in Headers : /\ \A i \in 1 .. Last : published[i] # h
                        /\ published' = Append(published, h)
  /\ \/ open' = Append(open, Topic) /\ sending' = 1 /\ UNCHANGED broken
     \/ MayFail /\ broken' = broken \union {Last + 1} /\ UNCHANGED <<open, sending>>
  /\ UNCHANGED <<version, joined, queue, missed, source>>

\* A part more parts follow.
SendMore ==
  /\ sending \in {1, 2}
  /\ open' = Append(open, Part(sending + 1)) /\ sending' = sending + 1
  /\ UNCHANGED <<version, published, broken, missed, joined, queue, source>>

\* The whole messages in the queue.
Queued == Cardinality({i \in 1 .. Len(queue) : queue[i].kind = "payload"})

\* Mutant: the next record is taken to have its first parts sent.
BugSendLast ==
  /\ sending = 3
  /\ IF joined /\ Queued < HWM
     THEN queue' = queue \o Append(open, Part(4)) /\ UNCHANGED missed
     ELSE missed' = missed \union {Last} /\ UNCHANGED queue
  /\ open' = <<>> /\ UNCHANGED sending
  /\ UNCHANGED <<version, published, broken, joined, source>>

\* The last part: the message goes to the subscriber, or is lost.
SendLast ==
  /\ sending = 3
  /\ IF joined /\ Queued < HWM
     THEN queue' = queue \o Append(open, Part(4)) /\ UNCHANGED missed
     ELSE missed' = missed \union {Last} /\ UNCHANGED queue
  /\ open' = <<>> /\ sending' = 0
  /\ UNCHANGED <<version, published, broken, joined, source>>

\* zmq_send fails: publish_data returns, and the parts sent so far stay in front
\* of those of the next record.
SendFails ==
  /\ MayFail /\ sending # 0
  /\ broken' = broken \union {Last} /\ sending' = 0
  /\ UNCHANGED <<version, published, open, missed, joined, queue, source>>

\* The subscriber's connection comes up (again), or is lost.
Join  == ~joined /\ joined' = TRUE /\ UNCHANGED <<publisher, queue, source>>
Leave == joined /\ joined' = FALSE /\ UNCHANGED <<publisher, queue, source>>

-----------------------------------------------------------------------------
(* NextFrame                                                               *)

Receives == rpc = "recv" /\ queue # <<>>

\* One of the first three parts.
RecvPart ==
  /\ Receives /\ Len(parts) < 3
  /\ parts' = Append(parts, Head(queue)) /\ queue' = Tail(queue)
  /\ UNCHANGED <<publisher, joined, rpc, delivered>>

\* Mutant: the comparison never finds the topic.
BugOther == TRUE

\* Four parts of something else are skipped.
Other == parts[1] # Topic

\* The fourth part completes a frame, if it is one.
RecvLast ==
  /\ Receives /\ Len(parts) = 3
  /\ parts' = <<>> /\ queue' = Tail(queue)
  /\ IF Other
     THEN UNCHANGED <<rpc, delivered>>
     ELSE IF ~IsHeader(parts[3].bytes)
          THEN rpc' = "error" /\ UNCHANGED delivered
          ELSE /\ delivered' = Append(delivered,
                    [header |-> HeaderOf(parts[3].bytes), payload |-> Head(queue)])
               /\ UNCHANGED rpc
  /\ UNCHANGED <<publisher, joined>>

\* A receive times out: for a topic the source goes on waiting, in the end for
\* idle_timeout_sec; in the middle of a frame that is an error.
RecvTimeout ==
  /\ rpc = "recv" /\ queue = <<>>
  /\ IF parts = <<>> THEN MayEnd /\ rpc' = "eof" ELSE rpc' = "error"
  /\ UNCHANGED <<publisher, joined, queue, parts, delivered>>

\* A signal is seen between two frames, or interrupts a receive that waits.
RecvStopped ==
  /\ MayEnd /\ rpc = "recv" /\ (parts = <<>> \/ queue = <<>>)
  /\ rpc' = "eof" /\ UNCHANGED <<publisher, joined, queue, parts, delivered>>

Publisher == Publish \/ SendMore \/ SendLast \/ SendFails
Receiver  == RecvPart \/ RecvLast

Next == Publisher \/ Join \/ Leave \/ Receiver \/ RecvTimeout \/ RecvStopped

\* datamon reads on, and publish_data ends; the rest need not happen.
Spec     == Init /\ [][Next]_vars
FairSpec == Spec /\ WF_vars(Receiver) /\ WF_vars(SendMore \/ SendLast)

-----------------------------------------------------------------------------
(* Properties.                                                             *)

\* Types; the source never holds a whole frame between two receives.
TypeOK ==
  /\ version \in {1, Version}
  /\ published \in Seq(Headers) /\ Last <= MaxFrames
  /\ sending \in 0 .. 3 /\ Len(open) >= sending
  /\ broken \union missed \subseteq 1 .. Last
  /\ joined \in BOOLEAN /\ Queued <= HWM
  /\ Len(parts) <= 3 /\ rpc \in {"recv", "eof", "error"}

\* The header of record n as datamon should see it.
Expected(n) == IF version = 1 THEN [published[n] EXCEPT !.subrun = 0] ELSE published[n]

\* The record a frame comes from, by its payload.
RecordOf(d) == d.payload.record

\* As long as every part of every message could be sent, what datamon decodes
\* are records daqd published, each with its own numbers, in order and none
\* twice, also if records in between are missed and whichever version of the
\* header is sent (data_frame_header.hpp:17 and 48, zmq_frame_source.cpp:190).
DeliversWhatWasPublished ==
  broken = {} =>
    /\ \A i \in 1 .. Len(delivered) :
         /\ RecordOf(delivered[i]) \in 1 .. Last
         /\ delivered[i].header = Expected(RecordOf(delivered[i]))
    /\ \A i \in 2 .. Len(delivered) :
         RecordOf(delivered[i - 1]) < RecordOf(delivered[i])

\* As long as every part of every message could be sent, the source never ends
\* in error: whatever is missed is missed whole (daqd.cpp:595, zmq_frame_source.cpp:153).
LossIsNoError == broken = {} => rpc # "error"

\* Whatever parts could not be sent: what datamon accepts carries the numbers of
\* a record, and that record's payload unless its last part was the one that
\* could not be sent (daqd.cpp:598 and 604, data_frame_header.hpp:49).
HeadersAreGenuine ==
  \A i \in 1 .. Len(delivered) : \E n \in 1 .. Last :
    /\ delivered[i].header = Expected(n)
    /\ delivered[i].payload = Payload(n) \/ (n \in broken /\ delivered[i].payload = Topic)

\* As long as every part could be sent, a record that was not missed is
\* delivered, unless the source has ended.
RecordsArrive ==
  \A n \in 1 .. MaxFrames :
    Last >= n ~> \/ n \in missed \/ broken # {}
                 \/ \E i \in 1 .. Len(delivered) : RecordOf(delivered[i]) = n
                 \/ rpc # "recv"

\* As long as sends succeed, loss is loss of whole records: what arrives are
\* records in their order, and the source does not end in error.
LinkKeepsRecords == TypeOK /\ DeliversWhatWasPublished /\ LossIsNoError
=============================================================================
