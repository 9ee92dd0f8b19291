------------------------------- MODULE Kc705Word -------------------------------
(***************************************************************************)
(* The data word of a KC705 frame: a board, a channel and a time, packed   *)
(* by the device, sent as bytes, the highest first, looked at by the       *)
(* validator and taken apart by the decoder.  The code's fields have 3, 5  *)
(* and 56 bits of 64, and a byte has 256 values; here the sizes are        *)
(* constants, of which only their order and products matter: the first     *)
(* byte holds board and channel.                                           *)
(*                                                                         *)
(* DeviceStream moves such words as opaque payloads.                       *)
(***************************************************************************)
EXTENDS Integers, Sequences, SequencesExt

CONSTANTS
  Boards,    \* values of the board field, 8
  Channels,  \* values of the channel field, 32
  WordBytes  \* 8

ASSUME WordAssumption == {Boards, Channels, WordBytes} \subseteq Nat \ {0}

ByteValues == Boards * Channels

\* What a byte counts for that has k bytes behind it.
Weight[k \in 0 .. WordBytes] == IF k = 0 THEN 1 ELSE ByteValues * Weight[k - 1]
TimeValues == Weight[WordBytes - 1]

-----------------------------------------------------------------------------
(* The device: a number larger than its field is cut to it.                *)

\* Mutant: the time is not cut, and spills into the channel.
BugBuildWord(board_id, channel_id, value56) ==
  (board_id % Boards) * Channels * TimeValues + (channel_id % Channels) * TimeValues + value56

BuildWord(board_id, channel_id, value56) ==
  (board_id % Boards) * Channels * TimeValues
    + (channel_id % Channels) * TimeValues + (value56 % TimeValues)

OnWire(word) == [k \in 1 .. WordBytes |-> (word \div Weight[WordBytes - k]) % ByteValues]

-----------------------------------------------------------------------------
(* The validator and the decoder.                                          *)

\* Mutant: the lowest byte is taken for the first.
BugReadBigEndian(bytes) == FoldRight(LAMBDA byte, word : word * ByteValues + byte, bytes, 0)

ReadBigEndian(bytes) == FoldLeft(LAMBDA word, byte : word * ByteValues + byte, 0, bytes)

BoardOf(word) == (word \div (Channels * TimeValues)) % Boards

Accepts(expected_board_id, bytes) == BoardOf(ReadBigEndian(bytes)) = expected_board_id

\* A frame of another length is refused.
FrameToEvent(bytes) ==
  IF Len(bytes) # WordBytes THEN {}
  ELSE LET word == ReadBigEndian(bytes)
       IN  {[board_id |-> BoardOf(word), channel_id |-> (word \div TimeValues) % Channels,
             time |-> word % TimeValues]}

-----------------------------------------------------------------------------
\* What the decoder finds is what the device put in, and a validator hears the
\* boards with its number and no other, for every board and channel a device can
\* be given and every time, also one beyond its field.  README.md:225: "the top 3
\* bits represent board ID, next 5 bits represent channel ID, and the remaining 56
\* bits represent raw timing value."
WordsSurvive ==
  \A board_id \in 0 .. Boards - 1, channel_id \in 0 .. Channels - 1, value56 \in 0 .. 2 * TimeValues :
    LET bytes == OnWire(BuildWord(board_id, channel_id, value56))
    IN  /\ FrameToEvent(bytes) =
             {[board_id |-> board_id, channel_id |-> channel_id, time |-> value56 % TimeValues]}
        /\ \A expected_board_id \in 0 .. Boards - 1 :
             Accepts(expected_board_id, bytes) = (expected_board_id = board_id)
=============================================================================
