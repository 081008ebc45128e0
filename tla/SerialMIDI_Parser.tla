--------------------------- MODULE SerialMIDI_Parser ---------------------------
(***************************************************************************)
(* SerialMIDI_Parser turns a stream of MIDI bytes into messages            *)
(* (SerialMIDI_Parser.cpp and .hpp, SysExBuffer).  The parser is a record; *)
(* feeding it a byte gives the parser afterwards, whose field "event" is   *)
(* the event that feed returns, with the bytes of its message: data2 is     *)
(* nowhere else, as feed sets it only when it returns a message.           *)
(***************************************************************************)
EXTENDS Naturals, Sequences

CONSTANTS
  SysExSize,          \* SYSEX_BUFFER_SIZE
  SysCommonCancels    \* sysCommonCancelsRunningStatus

ASSUME SerialParserAssumption ==
  SysExSize \in Nat \ {0, 1} /\ SysCommonCancels \in BOOLEAN

Byte == 0..255

SysExStart   == 240
SongPosition == 242
SongSelect   == 243
TuneRequest  == 246
SysExEnd     == 247
TimingClock  == 248

IsStatus(b) == b >= 128
IsChannel(header) == header \in 128..239
IsSysCommon(header) == header \in 241..247

\* The number of data bytes of a channel or system common message.
DataBytes(header) ==
  IF IsChannel(header)
    THEN IF header \in 192..223 THEN 1 ELSE 2
    ELSE IF header = SongPosition THEN 2 ELSE IF header <= SongSelect THEN 1 ELSE 0

NoByte    == 255
NoMessage == [type |-> "none", bytes |-> <<>>]

NewParser == [thirdByte |-> FALSE, currentHeader |-> 0, runningHeader |-> 0,
              data1 |-> 0, sysex |-> <<>>, storedByte |-> NoByte,
              event |-> NoMessage]

Parsers ==
  [thirdByte : BOOLEAN, currentHeader : Byte, runningHeader : Byte,
   data1 : Byte, sysex : Seq(Byte), storedByte : Byte,
   event : [type : {"none", "channel", "syscommon", "realtime", "chunk", "sysex"},
            bytes : Seq(Byte)]]

Emit(p, t, s) == [p EXCEPT !.event = [type |-> t, bytes |-> s]]

\* The end of a channel or system common message: the header of a channel
\* message becomes the running status, a system common message may cancel it.
Finish(p, header, bytes) ==
  [Emit(p, IF IsChannel(header) THEN "channel" ELSE "syscommon", bytes) EXCEPT
     !.currentHeader = 0,
     !.runningHeader = IF IsChannel(header) THEN header
                       ELSE IF SysCommonCancels THEN 0 ELSE @]

HasSysExSpace(p) == Len(p.sysex) < SysExSize

-------------------------------------------------------------------------------
\* A status byte ends the system exclusive message that is being received, and
\* is stored to be handled later, like any byte that finds the buffer full.
Terminate(p, b) ==
  IF ~HasSysExSpace(p)
    THEN [Emit(p, "chunk", p.sysex) EXCEPT !.storedByte = b]
    ELSE [Emit(p, "sysex", Append(p.sysex, SysExEnd)) EXCEPT
            !.storedByte = IF b = SysExEnd THEN @ ELSE b,
            !.sysex = Append(@, SysExEnd),
            !.currentHeader = 0, !.runningHeader = 0]

HandleNonRealTimeStatus(p, b) ==
  IF p.currentHeader = SysExStart THEN Terminate(p, b)
  ELSE CASE b = TuneRequest -> Finish([p EXCEPT !.data1 = 0], b, <<b>>)
         [] b = SysExStart  -> [p EXCEPT !.sysex = <<b>>, !.runningHeader = 0,
                                         !.currentHeader = b]
         [] b = SysExEnd    -> p
         [] OTHER           -> [p EXCEPT !.currentHeader = b, !.thirdByte = FALSE]

HandleStatus(p, b) ==
  IF b >= TimingClock THEN Emit(p, "realtime", <<b>>) ELSE HandleNonRealTimeStatus(p, b)

\* The second data byte of a message.
HandleThirdByte(p, b) ==
  IF IsChannel(p.currentHeader) \/ IsSysCommon(p.currentHeader)
    THEN [Finish(p, p.currentHeader, <<p.currentHeader, p.data1, b>>) EXCEPT
            !.thirdByte = FALSE]
    ELSE [p EXCEPT !.runningHeader = 0, !.currentHeader = 0]

\* The first data byte of a message, or data of a system exclusive message.
HandleSecondByte(p, b) ==
  IF IsChannel(p.currentHeader) \/ IsSysCommon(p.currentHeader)
    THEN CASE DataBytes(p.currentHeader) = 2 -> [p EXCEPT !.data1 = b, !.thirdByte = TRUE]
           [] DataBytes(p.currentHeader) = 1 -> Finish([p EXCEPT !.data1 = b],
                                                       p.currentHeader, <<p.currentHeader, b>>)
           [] OTHER -> [p EXCEPT !.runningHeader = 0, !.currentHeader = 0]
  ELSE IF ~HasSysExSpace(p)
    THEN [Emit(p, "chunk", p.sysex) EXCEPT !.storedByte = b]
    ELSE [p EXCEPT !.sysex = Append(@, b)]

\* Running status applies when no header has been received.
HandleData(p, b) ==
  LET q == IF p.currentHeader = 0 THEN [p EXCEPT !.currentHeader = p.runningHeader] ELSE p
  IN  IF q.currentHeader = 0 THEN p
      ELSE IF q.thirdByte THEN HandleThirdByte(q, b) ELSE HandleSecondByte(q, b)

Feed(p, b) ==
  LET q == [p EXCEPT !.event = NoMessage]
  IN  IF IsStatus(b) THEN HandleStatus(q, b) ELSE HandleData(q, b)

\* The stored byte is handled first, in an empty buffer if it belongs to a
\* system exclusive message.
Resume(p) ==
  IF p.storedByte = NoByte THEN [p EXCEPT !.event = NoMessage]
  ELSE Feed([p EXCEPT !.storedByte = NoByte,
                      !.sysex = IF p.currentHeader = SysExStart THEN <<>> ELSE @],
            p.storedByte)
===============================================================================
