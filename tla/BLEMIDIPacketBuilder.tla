------------------------- MODULE BLEMIDIPacketBuilder --------------------------
(***************************************************************************)
(* BLEMIDIPacketBuilder collects MIDI messages in a BLE packet             *)
(* (BLEMIDIPacketBuilder.hpp and .cpp).  The builder is a record; adding a *)
(* message gives the builder afterwards and whether the message fitted, and *)
(* for a system exclusive message the bytes left for the next packet.      *)
(***************************************************************************)
EXTENDS Naturals, Sequences

Least(x, y) == IF x <= y THEN x ELSE y

Builders(capacities) ==
  [buffer : Seq(0..255), capacity : capacities, runningHeader : 0..255,
   runningTimestamp : 0..255]

NewBuilder(capacity) ==
  [buffer |-> <<>>, capacity |-> capacity, runningHeader |-> 0, runningTimestamp |-> 0]

TimestampMSB(t) == 128 + ((t \div 128) % 64)
TimestampLSB(t) == 128 + (t % 128)

Room(b) == b.capacity - Len(b.buffer)

\* The first byte of a packet has the high bits of the timestamp.
InitBuffer(b, t) ==
  IF b.buffer = <<>> THEN [b EXCEPT !.buffer = <<TimestampMSB(t)>>] ELSE b

\* Mutant: the running status survives the packet.
ResetKeepsHeader(b) == [b EXCEPT !.buffer = <<>>]

\* The builder for a new packet. The timestamp stays, but is not used again
\* without the header.
Reset(b) == [b EXCEPT !.buffer = <<>>, !.runningHeader = 0]

Added(b)  == [ok |-> TRUE, builder |-> b, rest |-> <<>>]
Refused(b) == [ok |-> FALSE, builder |-> b, rest |-> <<>>]

\* A channel message: a header that is the running one is left out, and so is
\* then a timestamp that is the running one.
AddImpl(b, message, t) ==
  LET c     == InitBuffer(b, t)
      bytes == IF Head(message) # c.runningHeader THEN <<TimestampLSB(t)>> \o message
               ELSE IF TimestampLSB(t) # c.runningTimestamp
                 THEN <<TimestampLSB(t)>> \o Tail(message)
                 ELSE Tail(message)
  IN  IF Len(bytes) > Room(c) THEN Refused(c)
      ELSE Added([c EXCEPT !.buffer = @ \o bytes,
                           !.runningHeader = Head(message),
                           !.runningTimestamp = TimestampLSB(t)])

\* A real-time or system common message; the next message has a timestamp again.
AddSystem(b, message, t) ==
  LET c == InitBuffer(b, t)
  IN  IF Len(message) + 1 > Room(c) THEN Refused(c)
      ELSE Added([c EXCEPT !.buffer = @ \o <<TimestampLSB(t)>> \o message,
                           !.runningTimestamp = 0])

\* Mutant: the end of a message is taken for a data byte.
ContinueWithoutTimestamp(b, data, t) ==
  LET c    == InitBuffer(b, t)
      n    == Least(Len(data), Room(c))
      more == [c EXCEPT !.buffer = @ \o SubSeq(data, 1, n)]
  IN  [ok |-> TRUE, builder |-> more, rest |-> SubSeq(data, n + 1, Len(data))]

\* As many bytes of a system exclusive message as fit; its last byte needs a
\* timestamp if it ends the message.
ContinueSysEx(b, data, t) ==
  LET c    == InitBuffer(b, t)
      n    == Least(Len(data) - 1, Room(c))
      last == data[Len(data)]
      end  == IF last = 247 THEN <<TimestampLSB(t), last>> ELSE <<last>>
      more == [c EXCEPT !.buffer = @ \o SubSeq(data, 1, n)]
  IN  IF data = <<>> THEN Added(c)
      ELSE IF n = Len(data) - 1 /\ Len(end) <= Room(more)
        THEN Added([more EXCEPT !.buffer = @ \o end])
        ELSE [ok |-> TRUE, builder |-> more, rest |-> SubSeq(data, n + 1, Len(data))]

\* The beginning of the message, or of a chunk of it, and what follows.
AddSysEx(b, data, t) ==
  LET c     == InitBuffer(b, t)
      start == [c EXCEPT !.buffer = @ \o <<TimestampLSB(t), 240>>, !.runningHeader = 0]
  IN  IF Head(data) # 240 THEN ContinueSysEx(c, data, t)
      ELSE IF Room(c) < 2 THEN Refused(c)
      ELSE ContinueSysEx(start, Tail(data), t)
===============================================================================
