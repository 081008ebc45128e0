----------------------------- MODULE BLEMIDIParser -----------------------------
(***************************************************************************)
(* BLEMIDIParser takes the MIDI bytes and their timestamps out of one      *)
(* BLE packet (BLEMIDIParser.hpp).  The parser is a record of its fields   *)
(* without the pointers into the packet.                                   *)
(***************************************************************************)
EXTENDS Naturals, Sequences

IsData(b) == b < 128

\* How many bytes of a packet the constructor skips: header and timestamp, or the
\* header alone in front of a system exclusive continuation, or everything.
Skipped(packet) ==
  IF Len(packet) < 2 \/ IsData(packet[1]) THEN Len(packet)
  ELSE IF IsData(packet[2]) THEN 1
  ELSE 2

\* The constructor.
OpenPacket(packet) ==
  LET high == (packet[1] % 128) * 128
  IN  [prevWasTimestamp |-> TRUE,
       timestamp |-> IF Len(packet) < 2 \/ IsData(packet[1]) THEN 0
                     ELSE IF IsData(packet[2]) THEN high
                     ELSE high + (packet[2] % 128)]

\* Mutant: a timestamp below the one before is not taken as an overflow.
NextTimestampNoOverflow(timestamp, low) == (timestamp \div 128) * 128 + low

\* The timestamp after a timestamp byte: if it is less than the one before, the
\* high part has overflowed.  The mask 0x3F80 keeps one bit more than the header
\* transmits.
NextTimestamp(timestamp, low) ==
  LET high == IF low < timestamp % 128 THEN timestamp + 128 ELSE timestamp
  IN  ((high \div 128) % 128) * 128 + low

\* pull returns byte b: what is not data is a timestamp and a status byte in turns.
Returns(s, b) == IsData(b) \/ s.prevWasTimestamp

\* The parser when pull is past byte b.
PullByte(s, b) ==
  IF Returns(s, b) THEN [s EXCEPT !.prevWasTimestamp = FALSE]
  ELSE [prevWasTimestamp |-> TRUE, timestamp |-> NextTimestamp(s.timestamp, b % 128)]
===============================================================================
