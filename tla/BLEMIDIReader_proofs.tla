------------------------- MODULE BLEMIDIReader_proofs -------------------------
(***************************************************************************)
(* What a receiver reads from a packet that grows: the lemmas on which the *)
(* proofs of GenericBLEMIDI_proofs rest.  The receiver is BLEMIDIParser    *)
(* and SerialMIDI_Parser as composed in GenericBLEMIDI_Interface.          *)
(*                                                                         *)
(* Messages are added to a packet one after the other, while a receiver    *)
(* reads a packet from its first byte on.  So the position of the reader   *)
(* at the end of the packet is named (Cursor), and each kind of byte that  *)
(* may follow is shown to move it from where it was, whatever comes before *)
(* in the packet.                                                          *)
(***************************************************************************)
EXTENDS GenericBLEMIDI_Interface, FiniteSetTheorems, SequenceTheorems, TLAPS

-------------------------------------------------------------------------------
(***************************************************************************)
(* The parser: its type, and what each kind of byte does                   *)
(***************************************************************************)
\* Emitting an event keeps the type of the parser.
LEMMA EmitType ==
  ASSUME NEW p \in Parsers, NEW s \in Seq(Byte),
         NEW e \in {"none", "channel", "syscommon", "realtime", "chunk", "sysex"}
  PROVE  /\ Emit(p, e, s) \in Parsers
         /\ Emit(p, e, s).thirdByte = p.thirdByte
         /\ Emit(p, e, s).currentHeader = p.currentHeader
         /\ Emit(p, e, s).runningHeader = p.runningHeader
         /\ Emit(p, e, s).data1 = p.data1
         /\ Emit(p, e, s).sysex = p.sysex
         /\ Emit(p, e, s).storedByte = p.storedByte
         /\ Emit(p, e, s).event = [type |-> e, bytes |-> s]
BY DEF Emit, Parsers

\* So does finishing a system exclusive message,
LEMMA FinishType ==
  ASSUME NEW p \in Parsers, NEW h \in Byte, NEW s \in Seq(Byte)
  PROVE  /\ Finish(p, h, s) \in Parsers
         /\ Finish(p, h, s).thirdByte = p.thirdByte
         /\ Finish(p, h, s).currentHeader = 0
         /\ Finish(p, h, s).runningHeader =
              IF IsChannel(h) THEN h ELSE IF SysCommonCancels THEN 0 ELSE p.runningHeader
         /\ Finish(p, h, s).data1 = p.data1
         /\ Finish(p, h, s).sysex = p.sysex
         /\ Finish(p, h, s).storedByte = p.storedByte
         /\ Finish(p, h, s).event =
              [type |-> IF IsChannel(h) THEN "channel" ELSE "syscommon", bytes |-> s]
<1> DEFINE q == Emit(p, IF IsChannel(h) THEN "channel" ELSE "syscommon", s)
<1>1. /\ q \in Parsers
      /\ q.thirdByte = p.thirdByte /\ q.data1 = p.data1 /\ q.sysex = p.sysex
      /\ q.runningHeader = p.runningHeader /\ q.storedByte = p.storedByte
      /\ q.event = [type |-> IF IsChannel(h) THEN "channel" ELSE "syscommon", bytes |-> s]
  BY EmitType
<1>2. Finish(p, h, s) = [q EXCEPT
     !.currentHeader = 0,
     !.runningHeader = IF IsChannel(h) THEN h
                       ELSE IF SysCommonCancels THEN 0 ELSE @]
  BY DEF Finish
<1>3. DEFINE x == IF IsChannel(h) THEN h ELSE IF SysCommonCancels THEN 0 ELSE p.runningHeader
<1>4. x \in Byte
  BY DEF Parsers, Byte
<1> HIDE DEF q, x
<1>5. Finish(p, h, s) = [q EXCEPT !.currentHeader = 0, !.runningHeader = x]
  BY <1>1, <1>2 DEF x
<1>6. 0 \in Byte
  BY DEF Byte
<1>7. Finish(p, h, s) \in Parsers
  BY <1>1, <1>4, <1>5, <1>6 DEF Parsers
<1> QED BY <1>1, <1>5, <1>7 DEF Parsers, x

\* ending one before its end,
LEMMA TerminateType ==
  ASSUME NEW p \in Parsers, NEW b \in Byte
  PROVE  Terminate(p, b) \in Parsers
<1>1. p.sysex \in Seq(Byte) /\ Append(p.sysex, SysExEnd) \in Seq(Byte)
  BY DEF Parsers, Byte, SysExEnd
<1>2. CASE ~HasSysExSpace(p)
  <2> DEFINE f == Emit(p, "chunk", p.sysex)
  <2>1. f \in Parsers
    BY <1>1, EmitType
  <2>2. Terminate(p, b) = [f EXCEPT !.storedByte = b]
    BY <1>2 DEF Terminate
  <2> HIDE DEF f
  <2> QED BY <2>1, <2>2 DEF Parsers
<1>3. CASE HasSysExSpace(p)
  <2> DEFINE q == Emit(p, "sysex", Append(p.sysex, SysExEnd))
             x == IF b = SysExEnd THEN q.storedByte ELSE b
  <2>1. q \in Parsers /\ q.sysex = p.sysex
    BY <1>1, EmitType
  <2>2. x \in Byte
    BY <2>1 DEF Parsers
  <2>3. Terminate(p, b) = [q EXCEPT !.storedByte = x, !.sysex = Append(p.sysex, SysExEnd),
                                    !.currentHeader = 0, !.runningHeader = 0]
    BY <1>3, <2>1 DEF Terminate
  <2>4. 0 \in Byte
    BY DEF Byte
  <2> HIDE DEF q, x
  <2> QED BY <1>1, <2>1, <2>2, <2>3, <2>4 DEF Parsers
<1> QED BY <1>2, <1>3

\* handling a status byte,
LEMMA StatusType ==
  ASSUME NEW p \in Parsers, NEW b \in Byte
  PROVE  HandleStatus(p, b) \in Parsers
<1>1. <<b>> \in Seq(Byte) /\ 0 \in Byte
  BY DEF Byte
<1>2. CASE b >= TimingClock
  BY <1>1, <1>2, EmitType DEF HandleStatus
<1>3. CASE b < TimingClock /\ p.currentHeader = SysExStart
  BY <1>3, TerminateType DEF HandleStatus, HandleNonRealTimeStatus, TimingClock, Byte
<1>4. CASE b < TimingClock /\ p.currentHeader # SysExStart
  <2>1. HandleStatus(p, b) = HandleNonRealTimeStatus(p, b)
    BY <1>4 DEF HandleStatus, TimingClock, Byte
  <2>2. CASE b = TuneRequest
    <3> DEFINE q == [p EXCEPT !.data1 = 0]
    <3>1. HandleStatus(p, b) = Finish(q, b, <<b>>)
      BY <1>4, <2>1, <2>2 DEF HandleNonRealTimeStatus, TuneRequest, SysExStart, SysExEnd
    <3>2. q \in Parsers
      BY <1>1 DEF Parsers
    <3> HIDE DEF q
    <3> QED BY <1>1, <3>1, <3>2, FinishType
  <2>3. CASE b = SysExStart
    <3>1. HandleStatus(p, b) = [p EXCEPT !.sysex = <<b>>, !.runningHeader = 0,
                                         !.currentHeader = b]
      BY <1>4, <2>1, <2>3 DEF HandleNonRealTimeStatus, TuneRequest, SysExStart, SysExEnd
    <3> QED BY <1>1, <3>1 DEF Parsers
  <2>4. CASE b = SysExEnd
    <3>1. HandleStatus(p, b) = p
      BY <1>4, <2>1, <2>4 DEF HandleNonRealTimeStatus, TuneRequest, SysExStart, SysExEnd
    <3> QED BY <3>1
  <2>5. CASE b \notin {TuneRequest, SysExStart, SysExEnd}
    <3>1. HandleStatus(p, b) = [p EXCEPT !.currentHeader = b, !.thirdByte = FALSE]
      BY <1>4, <2>1, <2>5 DEF HandleNonRealTimeStatus
    <3> QED BY <3>1 DEF Parsers
  <2> QED BY <2>2, <2>3, <2>4, <2>5
<1> QED BY <1>2, <1>3, <1>4 DEF Byte, TimingClock

\* handling a data byte,
LEMMA DataType ==
  ASSUME NEW p \in Parsers, NEW b \in Byte
  PROVE  HandleData(p, b) \in Parsers
<1> DEFINE q == IF p.currentHeader = 0 THEN [p EXCEPT !.currentHeader = p.runningHeader] ELSE p
           c == q.currentHeader
<1>1. q \in Parsers /\ c \in Byte /\ 0 \in Byte
  <2>1. [p EXCEPT !.currentHeader = p.runningHeader] \in Parsers
    BY DEF Parsers
  <2>2. q \in Parsers
    BY <2>1
  <2> HIDE DEF q
  <2> QED BY <2>2 DEF Parsers, Byte
<1>2. HandleData(p, b) = IF c = 0 THEN p
                         ELSE IF q.thirdByte THEN HandleThirdByte(q, b) ELSE HandleSecondByte(q, b)
  BY DEF HandleData
<1> HIDE DEF q
<1>3. HandleThirdByte(q, b) \in Parsers
  <2>1. <<c, q.data1, b>> \in Seq(Byte)
    BY <1>1 DEF Parsers
  <2>2. CASE IsChannel(c) \/ IsSysCommon(c)
    <3> DEFINE f == Finish(q, c, <<c, q.data1, b>>)
    <3>1. f \in Parsers
      BY <1>1, <2>1, FinishType
    <3>2. HandleThirdByte(q, b) = [f EXCEPT !.thirdByte = FALSE]
      BY <2>2 DEF HandleThirdByte
    <3> HIDE DEF f
    <3> QED BY <3>1, <3>2 DEF Parsers
  <2>3. CASE ~(IsChannel(c) \/ IsSysCommon(c))
    BY <1>1, <2>3 DEF HandleThirdByte, Parsers
  <2> QED BY <2>2, <2>3
<1>4. HandleSecondByte(q, b) \in Parsers
  <2>1. <<c, b>> \in Seq(Byte) /\ q.sysex \in Seq(Byte) /\ Append(q.sysex, b) \in Seq(Byte)
    BY <1>1 DEF Parsers
  <2> DEFINE q1 == [q EXCEPT !.data1 = b]
  <2>2. q1 \in Parsers /\ [q1 EXCEPT !.thirdByte = TRUE] \in Parsers
    BY <1>1 DEF Parsers
  <2>3. CASE (IsChannel(c) \/ IsSysCommon(c)) /\ DataBytes(c) = 2
    <3>1. HandleSecondByte(q, b) = [q EXCEPT !.data1 = b, !.thirdByte = TRUE]
      BY <2>3 DEF HandleSecondByte
    <3> QED BY <1>1, <3>1 DEF Parsers
  <2>4. CASE (IsChannel(c) \/ IsSysCommon(c)) /\ DataBytes(c) = 1
    <3>1. HandleSecondByte(q, b) = Finish(q1, c, <<c, b>>)
      BY <2>4 DEF HandleSecondByte
    <3> HIDE DEF q1, c
    <3>2. Finish(q1, c, <<c, b>>) \in Parsers
      BY <1>1, <2>1, <2>2, FinishType
    <3> QED BY <3>1, <3>2
  <2>5. CASE (IsChannel(c) \/ IsSysCommon(c)) /\ DataBytes(c) \notin {1, 2}
    <3>1. HandleSecondByte(q, b) = [q EXCEPT !.runningHeader = 0, !.currentHeader = 0]
      BY <2>5 DEF HandleSecondByte
    <3> QED BY <1>1, <3>1 DEF Parsers
  <2>6. CASE ~(IsChannel(c) \/ IsSysCommon(c)) /\ ~HasSysExSpace(q)
    <3> DEFINE f == Emit(q, "chunk", q.sysex)
    <3>1. f \in Parsers
      BY <1>1, <2>1, EmitType
    <3>2. HandleSecondByte(q, b) = [f EXCEPT !.storedByte = b]
      BY <2>6 DEF HandleSecondByte
    <3> HIDE DEF f
    <3> QED BY <3>1, <3>2 DEF Parsers
  <2>7. CASE ~(IsChannel(c) \/ IsSysCommon(c)) /\ HasSysExSpace(q)
    <3>1. HandleSecondByte(q, b) = [q EXCEPT !.sysex = Append(@, b)]
      BY <2>7 DEF HandleSecondByte
    <3> QED BY <1>1, <2>1, <3>1 DEF Parsers
  <2> QED BY <2>3, <2>4, <2>5, <2>6, <2>7
<1> QED BY <1>2, <1>3, <1>4

\* and handling any byte.
LEMMA FeedType ==
  ASSUME NEW p \in Parsers, NEW b \in Byte
  PROVE  Feed(p, b) \in Parsers
<1> DEFINE q == [p EXCEPT !.event = NoMessage]
<1>1. NoMessage \in [type : {"none", "channel", "syscommon", "realtime", "chunk", "sysex"},
                     bytes : Seq(Byte)]
  BY DEF NoMessage
<1>2. q \in Parsers
  BY <1>1 DEF Parsers
<1>3. Feed(p, b) = IF IsStatus(b) THEN HandleStatus(q, b) ELSE HandleData(q, b)
  BY DEF Feed
<1> HIDE DEF q
<1> QED BY <1>2, <1>3, StatusType, DataType

\* Handling the stored byte again keeps the type, and stores at most that byte again.
LEMMA ResumeType ==
  ASSUME NEW p \in Parsers
  PROVE  Resume(p) \in Parsers
<1>1. NoMessage \in [type : {"none", "channel", "syscommon", "realtime", "chunk", "sysex"},
                     bytes : Seq(Byte)]
  BY DEF NoMessage
<1>2. CASE p.storedByte = NoByte
  BY <1>1, <1>2 DEF Resume, Parsers
<1>3. CASE p.storedByte # NoByte
  <2> DEFINE x == IF p.currentHeader = SysExStart THEN <<>> ELSE p.sysex
             q == [p EXCEPT !.storedByte = NoByte, !.sysex = x]
  <2>1. x \in Seq(Byte) /\ NoByte \in Byte /\ p.storedByte \in Byte
    BY DEF Parsers, NoByte, Byte
  <2>2. Resume(p) = Feed(q, p.storedByte)
    BY <1>3 DEF Resume, Parsers
  <2> HIDE DEF x
  <2>3. q \in Parsers
    BY <2>1 DEF Parsers
  <2> QED BY <2>1, <2>2, <2>3, FeedType
<1> QED BY <1>2, <1>3

\* A parser whose event has been taken out of it.
Cleared(p) == [p EXCEPT !.event = NoMessage]

\* What a receiver has after it took a parser's event.
LEMMA ReadFields ==
  ASSUME NEW r \in Receivers, NEW p \in Parsers, NEW time \in Nat
  PROVE  LET q == Read(r, p, time)
             e == p.event
         IN  /\ q \in Receivers
             /\ q.parser = Cleared(p)
             /\ q.items = (IF e.type = "sysex"
                            THEN Append(r.items, [bytes |-> r.partial \o e.bytes, time |-> time])
                            ELSE IF e.type \in {"channel", "syscommon"}
                              THEN Append(r.items, [bytes |-> e.bytes, time |-> time])
                              ELSE r.items)
             /\ q.clocks = (IF e.type = "realtime"
                            THEN Append(r.clocks, [bytes |-> e.bytes, time |-> time])
                            ELSE r.clocks)
             /\ q.partial = (IF e.type = "chunk" THEN r.partial \o e.bytes
                           ELSE IF e.type = "sysex" THEN <<>> ELSE r.partial)
<1> DEFINE e == p.event
           item == [bytes |-> r.partial \o e.bytes, time |-> time]
           it2 == [bytes |-> e.bytes, time |-> time]
           p1 == [p EXCEPT !.event = NoMessage]
           q == [r EXCEPT !.parser = p1]
<1>1. /\ e.type \in {"none", "channel", "syscommon", "realtime", "chunk", "sysex"}
      /\ e.bytes \in Seq(Byte)
      /\ p1 \in Parsers
  <2>1. NoMessage \in [type : {"none", "channel", "syscommon", "realtime", "chunk", "sysex"},
                       bytes : Seq(Byte)]
    BY DEF NoMessage
  <2>2. p1 \in Parsers
    BY <2>1 DEF Parsers
  <2> QED BY <2>2 DEF Parsers
<1>2. r.items \in Seq(Items) /\ r.clocks \in Seq(Items) /\ r.partial \in Seq(Byte)
  BY DEF Receivers
<1>3. r.partial \o e.bytes \in Seq(Byte)
  BY <1>1, <1>2
<1>4. item \in Items /\ it2 \in Items /\ it2 = [item EXCEPT !.bytes = e.bytes]
  BY <1>1, <1>3 DEF Items
<1>5. /\ Append(r.items, item) \in Seq(Items)
      /\ Append(r.items, it2) \in Seq(Items)
      /\ Append(r.clocks, it2) \in Seq(Items)
  BY <1>2, <1>4
<1>6. q \in Receivers /\ q.parser = p1 /\ q.items = r.items /\ q.clocks = r.clocks
      /\ q.partial = r.partial
  BY <1>1 DEF Receivers
<1>13. p1 = Cleared(p)
  BY DEF Cleared
<1>7. Read(r, p, time) =
        CASE e.type = "none"     -> q
          [] e.type = "realtime" -> [q EXCEPT !.clocks = Append(@, it2)]
          [] e.type = "chunk"    -> [q EXCEPT !.partial = @ \o e.bytes]
          [] e.type = "sysex"    -> [q EXCEPT !.items = Append(@, item), !.partial = <<>>]
          [] OTHER -> [q EXCEPT !.items = Append(@, it2)]
  BY <1>4 DEF Read
<1> HIDE DEF e, item, it2, p1, q
<1>8. CASE e.type = "none"
  BY <1>6, <1>7, <1>8, <1>13 DEF e
<1>9. CASE e.type = "realtime"
  <2>1. Read(r, p, time) = [q EXCEPT !.clocks = Append(r.clocks, it2)]
    BY <1>6, <1>7, <1>9
  <2>2. [q EXCEPT !.clocks = Append(r.clocks, it2)] \in Receivers
    BY <1>5, <1>6 DEF Receivers
  <2> QED BY <1>5, <1>6, <1>9, <1>13, <2>1, <2>2 DEF e, it2, Receivers
<1>10. CASE e.type = "chunk"
  <2>1. Read(r, p, time) = [q EXCEPT !.partial = r.partial \o e.bytes]
    BY <1>6, <1>7, <1>10
  <2>2. [q EXCEPT !.partial = r.partial \o e.bytes] \in Receivers
    BY <1>3, <1>6 DEF Receivers
  <2> QED BY <1>5, <1>6, <1>10, <1>13, <2>1, <2>2 DEF e, it2, Receivers
<1>11. CASE e.type = "sysex"
  <2>1. Read(r, p, time) = [q EXCEPT !.items = Append(r.items, item), !.partial = <<>>]
    BY <1>6, <1>7, <1>11
  <2>2. [q EXCEPT !.items = Append(r.items, item), !.partial = <<>>] \in Receivers
    <3>1. <<>> \in Seq(Byte)
      OBVIOUS
    <3> QED BY <1>5, <1>6, <3>1 DEF Receivers
  <2> QED BY <1>5, <1>6, <1>11, <1>13, <2>1, <2>2 DEF e, item, Receivers
<1>12. CASE e.type \in {"channel", "syscommon"}
  <2>1. Read(r, p, time) = [q EXCEPT !.items = Append(r.items, it2)]
    BY <1>6, <1>7, <1>12
  <2>2. [q EXCEPT !.items = Append(r.items, it2)] \in Receivers
    BY <1>5, <1>6 DEF Receivers
  <2> QED BY <1>5, <1>6, <1>12, <1>13, <2>1, <2>2 DEF e, it2, Receivers
<1> QED BY <1>1, <1>8, <1>9, <1>10, <1>11, <1>12 DEF e

\* The same, one field at a time.
LEMMA ReadKeeps ==
  ASSUME NEW r \in Receivers, NEW p \in Parsers, NEW time \in Nat
  PROVE  /\ Read(r, p, time) \in Receivers
         /\ Read(r, p, time).parser = Cleared(p)
<1>1. Read(r, p, time) \in Receivers
  BY ReadFields
<1>2. Read(r, p, time).parser = Cleared(p)
  BY ReadFields
<1> QED BY <1>1, <1>2

\* The messages that are not real-time messages.
LEMMA ReadItems ==
  ASSUME NEW r \in Receivers, NEW p \in Parsers, NEW time \in Nat
  PROVE  Read(r, p, time).items =
           (IF p.event.type = "sysex"
              THEN Append(r.items, [bytes |-> r.partial \o p.event.bytes, time |-> time])
              ELSE IF p.event.type \in {"channel", "syscommon"}
                THEN Append(r.items, [bytes |-> p.event.bytes, time |-> time])
                ELSE r.items)
BY ReadFields

\* The real-time messages.
LEMMA ReadClocks ==
  ASSUME NEW r \in Receivers, NEW p \in Parsers, NEW time \in Nat
  PROVE  Read(r, p, time).clocks =
           (IF p.event.type = "realtime"
              THEN Append(r.clocks, [bytes |-> p.event.bytes, time |-> time])
              ELSE r.clocks)
BY ReadFields

\* The chunks of the system exclusive message that is being received.
LEMMA ReadPartial ==
  ASSUME NEW r \in Receivers, NEW p \in Parsers, NEW time \in Nat
  PROVE  Read(r, p, time).partial =
           (IF p.event.type = "chunk" THEN r.partial \o p.event.bytes
            ELSE IF p.event.type = "sysex" THEN <<>> ELSE r.partial)
BY ReadFields

\* A receiver that reads a byte remains a receiver.
LEMMA RxByteType ==
  ASSUME NEW r \in Receivers, NEW b \in Byte, NEW time \in Nat
  PROVE  /\ RxByte(r, b, time) \in Receivers
         /\ Read(r, Feed(r.parser, b), time) \in Receivers
         /\ RxByte(r, b, time) = ReadStored(time)[ReadStored(time)[Read(r, Feed(r.parser, b), time)]]
<1>1. \A x \in Receivers : x.parser \in Parsers
  BY DEF Receivers
<1>2. \A x \in Receivers : ReadStored(time)[x] \in Receivers
  BY <1>1, ResumeType, ReadFields DEF ReadStored
<1>3. Read(r, Feed(r.parser, b), time) \in Receivers
  BY <1>1, FeedType, ReadFields
<1> QED BY <1>2, <1>3 DEF RxByte

\* Nothing is stored: the byte is handled at once.
LEMMA RxByteDirect ==
  ASSUME NEW r \in Receivers, NEW b \in Byte, NEW time \in Nat,
         Read(r, Feed(r.parser, b), time).parser.storedByte = NoByte
  PROVE  RxByte(r, b, time) = Read(r, Feed(r.parser, b), time)
<1> DEFINE q == Read(r, Feed(r.parser, b), time)
<1>1. q \in Receivers /\ RxByte(r, b, time) = ReadStored(time)[ReadStored(time)[q]]
  BY RxByteType
<1>2. Feed(r.parser, b) \in Parsers
  BY FeedType DEF Receivers
<1>3. q.parser = Cleared(Feed(r.parser, b))
  BY <1>2, ReadKeeps
<1>4. q.parser.event = NoMessage /\ q.parser \in Parsers
  <2>1. q.parser \in Parsers
    BY <1>1 DEF Receivers
  <2> QED BY <1>2, <1>3, <2>1 DEF Parsers, Cleared
<1> HIDE DEF q
<1>5. Resume(q.parser) = q.parser
  BY <1>4 DEF Resume, q, Parsers
<1>6. Read(q, q.parser, time) = q
  BY <1>1, <1>4 DEF Read, NoMessage, Receivers, Parsers
<1>7. ReadStored(time)[q] = q
  BY <1>1, <1>5, <1>6 DEF ReadStored
<1> QED BY <1>1, <1>7 DEF q

\* What a receiver has after a byte that is not stored.
LEMMA RxFields ==
  ASSUME NEW r \in Receivers, NEW b \in Byte, NEW time \in Nat,
         Feed(r.parser, b).storedByte = NoByte
  PROVE  LET q == RxByte(r, b, time)
             f == Feed(r.parser, b)
             e == f.event
         IN  /\ q \in Receivers
             /\ q.parser.storedByte = NoByte
             /\ q.parser.thirdByte = f.thirdByte
             /\ q.parser.currentHeader = f.currentHeader
             /\ q.parser.runningHeader = f.runningHeader
             /\ q.parser.data1 = f.data1
             /\ q.parser.sysex = f.sysex
             /\ q.items = (IF e.type = "sysex"
                            THEN Append(r.items, [bytes |-> r.partial \o e.bytes, time |-> time])
                            ELSE IF e.type \in {"channel", "syscommon"}
                              THEN Append(r.items, [bytes |-> e.bytes, time |-> time])
                              ELSE r.items)
             /\ q.clocks = (IF e.type = "realtime"
                            THEN Append(r.clocks, [bytes |-> e.bytes, time |-> time])
                            ELSE r.clocks)
             /\ q.partial = (IF e.type = "chunk" THEN r.partial \o e.bytes
                           ELSE IF e.type = "sysex" THEN <<>> ELSE r.partial)
<1> DEFINE f == Feed(r.parser, b)
           q == Read(r, f, time)
<1>1. f \in Parsers
  BY FeedType DEF Receivers
<1>2. q.parser = Cleared(f)
  BY <1>1, ReadKeeps
<1>3. /\ q.parser.storedByte = NoByte
      /\ q.parser.thirdByte = f.thirdByte
      /\ q.parser.currentHeader = f.currentHeader
      /\ q.parser.runningHeader = f.runningHeader
      /\ q.parser.data1 = f.data1
      /\ q.parser.sysex = f.sysex
  BY <1>1, <1>2 DEF Parsers, Cleared
<1>4. RxByte(r, b, time) = q
  BY <1>3, RxByteDirect
<1> DEFINE e == f.event
<1>5. /\ q \in Receivers
      /\ q.items = (IF e.type = "sysex"
                            THEN Append(r.items, [bytes |-> r.partial \o e.bytes, time |-> time])
                            ELSE IF e.type \in {"channel", "syscommon"}
                              THEN Append(r.items, [bytes |-> e.bytes, time |-> time])
                              ELSE r.items)
      /\ q.clocks = (IF e.type = "realtime"
                            THEN Append(r.clocks, [bytes |-> e.bytes, time |-> time])
                            ELSE r.clocks)
      /\ q.partial = (IF e.type = "chunk" THEN r.partial \o e.bytes
                           ELSE IF e.type = "sysex" THEN <<>> ELSE r.partial)
  <2> HIDE DEF f
  <2>1. Read(r, f, time) \in Receivers
    BY <1>1, ReadKeeps
  <2>2. q.items = (IF e.type = "sysex"
                            THEN Append(r.items, [bytes |-> r.partial \o e.bytes, time |-> time])
                            ELSE IF e.type \in {"channel", "syscommon"}
                              THEN Append(r.items, [bytes |-> e.bytes, time |-> time])
                              ELSE r.items)
    BY <1>1, ReadItems
  <2>3. q.clocks = (IF e.type = "realtime"
                            THEN Append(r.clocks, [bytes |-> e.bytes, time |-> time])
                            ELSE r.clocks)
    BY <1>1, ReadClocks
  <2>4. q.partial = (IF e.type = "chunk" THEN r.partial \o e.bytes
                           ELSE IF e.type = "sysex" THEN <<>> ELSE r.partial)
    BY <1>1, ReadPartial
  <2> HIDE DEF q, e
  <2> QED BY <2>1, <2>2, <2>3, <2>4 DEF q
<1> HIDE DEF q
<1> QED BY <1>3, <1>4, <1>5

\* The fields of a parser that gets a byte.
LEMMA FeedClears ==
  ASSUME NEW p \in Parsers, NEW b \in Byte
  PROVE  LET q == [p EXCEPT !.event = NoMessage]
         IN  /\ q \in Parsers
             /\ q.thirdByte = p.thirdByte /\ q.currentHeader = p.currentHeader
             /\ q.runningHeader = p.runningHeader /\ q.data1 = p.data1 /\ q.sysex = p.sysex
             /\ q.storedByte = p.storedByte /\ q.event.type = "none" /\ q.event.bytes = <<>>
             /\ Feed(p, b) = IF IsStatus(b) THEN HandleStatus(q, b) ELSE HandleData(q, b)
<1>1. NoMessage \in [type : {"none", "channel", "syscommon", "realtime", "chunk", "sysex"},
                     bytes : Seq(Byte)]
  BY DEF NoMessage
<1> DEFINE q == [p EXCEPT !.event = NoMessage]
<1>2. q \in Parsers
  BY <1>1 DEF Parsers
<1> QED BY <1>2 DEF Parsers, Feed, NoMessage

\* The status byte of a message with data is kept until the data come.
LEMMA FeedStatus ==
  ASSUME NEW p \in Parsers, NEW b \in Byte, IsStatus(b), b < TimingClock,
         b \notin {TuneRequest, SysExStart, SysExEnd}, p.currentHeader # SysExStart
  PROVE  LET f == Feed(p, b)
         IN  /\ f.thirdByte = FALSE /\ f.currentHeader = b /\ f.runningHeader = p.runningHeader
             /\ f.data1 = p.data1 /\ f.sysex = p.sysex /\ f.storedByte = p.storedByte
             /\ f.event.type = "none"
<1> DEFINE q == [p EXCEPT !.event = NoMessage]
<1>1. /\ q \in Parsers
      /\ q.thirdByte = p.thirdByte /\ q.currentHeader = p.currentHeader
      /\ q.runningHeader = p.runningHeader /\ q.data1 = p.data1 /\ q.sysex = p.sysex
      /\ q.storedByte = p.storedByte /\ q.event.type = "none" /\ q.event.bytes = <<>>
      /\ Feed(p, b) = HandleStatus(q, b)
  BY FeedClears
<1> HIDE DEF q
<1>2. Feed(p, b) = HandleNonRealTimeStatus(q, b)
  <2>1. ~(b >= TimingClock)
    BY DEF TimingClock, Byte
  <2> QED BY <1>1, <2>1 DEF HandleStatus
<1>3. HandleNonRealTimeStatus(q, b) = [q EXCEPT !.currentHeader = b, !.thirdByte = FALSE]
  BY <1>1 DEF HandleNonRealTimeStatus
<1> QED BY <1>1, <1>2, <1>3 DEF Parsers

\* Tune Request is a message by itself, and ends the running status.
LEMMA FeedTune ==
  ASSUME NEW p \in Parsers, p.currentHeader # SysExStart, SysCommonCancels = FALSE
  PROVE  LET f == Feed(p, TuneRequest)
         IN  /\ f.thirdByte = p.thirdByte /\ f.currentHeader = 0
             /\ f.runningHeader = p.runningHeader
             /\ f.data1 = 0 /\ f.sysex = p.sysex /\ f.storedByte = p.storedByte
             /\ f.event.type = "syscommon" /\ f.event.bytes = <<TuneRequest>>
<1> DEFINE q == [p EXCEPT !.event = NoMessage]
           b == TuneRequest
<1>0. b \in Byte /\ IsStatus(b) /\ <<b>> \in Seq(Byte) /\ b < TimingClock /\ ~IsChannel(b)
  BY DEF Byte, IsStatus, TuneRequest, TimingClock, IsChannel
<1>1. /\ q \in Parsers
      /\ q.thirdByte = p.thirdByte /\ q.currentHeader = p.currentHeader
      /\ q.runningHeader = p.runningHeader /\ q.data1 = p.data1 /\ q.sysex = p.sysex
      /\ q.storedByte = p.storedByte /\ q.event.type = "none" /\ q.event.bytes = <<>>
      /\ Feed(p, b) = HandleStatus(q, b)
  BY <1>0, FeedClears
<1> HIDE DEF q, b
<1>2. Feed(p, b) = Finish([q EXCEPT !.data1 = 0], b, <<b>>)
  BY <1>0, <1>1 DEF b, HandleStatus, HandleNonRealTimeStatus, TimingClock, TuneRequest, SysExStart, SysExEnd
<1> DEFINE c == [q EXCEPT !.data1 = 0]
<1>3. /\ c \in Parsers
      /\ c.thirdByte = q.thirdByte /\ c.runningHeader = q.runningHeader /\ c.data1 = 0
      /\ c.sysex = q.sysex /\ c.storedByte = q.storedByte
  <2>1. 0 \in Byte
    BY DEF Byte
  <2> QED BY <1>1, <2>1 DEF Parsers
<1> HIDE DEF c
<1>4. /\ Finish(c, b, <<b>>).thirdByte = c.thirdByte
      /\ Finish(c, b, <<b>>).currentHeader = 0
      /\ Finish(c, b, <<b>>).runningHeader = c.runningHeader
      /\ Finish(c, b, <<b>>).data1 = c.data1
      /\ Finish(c, b, <<b>>).sysex = c.sysex
      /\ Finish(c, b, <<b>>).storedByte = c.storedByte
      /\ Finish(c, b, <<b>>).event = [type |-> "syscommon", bytes |-> <<b>>]
  BY <1>0, <1>3, FinishType
<1>5. Feed(p, b) = Finish(c, b, <<b>>)
  BY <1>2 DEF c
<1> QED BY <1>1, <1>3, <1>4, <1>5 DEF b

\* A real-time byte is a message by itself, and changes nothing else.
LEMMA FeedRealTime ==
  ASSUME NEW p \in Parsers, NEW b \in Byte, b >= TimingClock
  PROVE  LET f == Feed(p, b)
         IN  /\ f.thirdByte = p.thirdByte /\ f.currentHeader = p.currentHeader
             /\ f.runningHeader = p.runningHeader
             /\ f.data1 = p.data1 /\ f.sysex = p.sysex /\ f.storedByte = p.storedByte
             /\ f.event.type = "realtime" /\ f.event.bytes = <<b>>
<1> DEFINE q == [p EXCEPT !.event = NoMessage]
<1>0. IsStatus(b) /\ <<b>> \in Seq(Byte)
  BY DEF Byte, IsStatus, TimingClock
<1>1. /\ q \in Parsers
      /\ q.thirdByte = p.thirdByte /\ q.currentHeader = p.currentHeader
      /\ q.runningHeader = p.runningHeader /\ q.data1 = p.data1 /\ q.sysex = p.sysex
      /\ q.storedByte = p.storedByte /\ q.event.type = "none" /\ q.event.bytes = <<>>
      /\ Feed(p, b) = HandleStatus(q, b)
  BY <1>0, FeedClears
<1> HIDE DEF q
<1>2. Feed(p, b) = Emit(q, "realtime", <<b>>)
  BY <1>1 DEF HandleStatus
<1>3. /\ Emit(q, "realtime", <<b>>).thirdByte = q.thirdByte
      /\ Emit(q, "realtime", <<b>>).currentHeader = q.currentHeader
      /\ Emit(q, "realtime", <<b>>).runningHeader = q.runningHeader
      /\ Emit(q, "realtime", <<b>>).data1 = q.data1
      /\ Emit(q, "realtime", <<b>>).sysex = q.sysex
      /\ Emit(q, "realtime", <<b>>).storedByte = q.storedByte
      /\ Emit(q, "realtime", <<b>>).event = [type |-> "realtime", bytes |-> <<b>>]
  BY <1>0, <1>1, EmitType
<1> QED BY <1>0, <1>1, <1>2, <1>3

\* The header that a data byte belongs to.
Header(p) == IF p.currentHeader = 0 THEN p.runningHeader ELSE p.currentHeader

\* The headers of the messages that have data.
HasData(h) == (IsChannel(h) \/ IsSysCommon(h)) /\ h \in Byte

\* The first of two data bytes is kept.
LEMMA FeedFirst ==
  ASSUME NEW p \in Parsers, NEW b \in Byte, ~IsStatus(b), ~p.thirdByte,
         HasData(Header(p)), DataBytes(Header(p)) = 2
  PROVE  LET f == Feed(p, b)
         IN  /\ f.thirdByte = TRUE /\ f.currentHeader = Header(p)
             /\ f.runningHeader = p.runningHeader
             /\ f.data1 = b /\ f.sysex = p.sysex /\ f.storedByte = p.storedByte
             /\ f.event.type = "none"
<1> DEFINE q == [p EXCEPT !.event = NoMessage]
           h == Header(p)
           c == IF q.currentHeader = 0 THEN [q EXCEPT !.currentHeader = q.runningHeader] ELSE q
<1>1. /\ q \in Parsers
      /\ q.thirdByte = p.thirdByte /\ q.currentHeader = p.currentHeader
      /\ q.runningHeader = p.runningHeader /\ q.data1 = p.data1 /\ q.sysex = p.sysex
      /\ q.storedByte = p.storedByte /\ q.event.type = "none" /\ q.event.bytes = <<>>
      /\ Feed(p, b) = HandleData(q, b)
  BY FeedClears
<1> HIDE DEF q
<1>2. c.currentHeader = h /\ c.thirdByte = FALSE /\ h # 0
      /\ c \in Parsers /\ c.runningHeader = p.runningHeader /\ c.sysex = p.sysex
      /\ c.storedByte = p.storedByte /\ c.event.type = "none"
  <2>1. h # 0
    BY DEF HasData, IsChannel, IsSysCommon
  <2>2. CASE q.currentHeader = 0
    BY <1>1, <2>1, <2>2 DEF Parsers, Header
  <2>3. CASE q.currentHeader # 0
    BY <1>1, <2>1, <2>3 DEF Parsers, Header
  <2> QED BY <2>2, <2>3
<1>3. Feed(p, b) = HandleSecondByte(c, b)
  BY <1>1, <1>2 DEF HandleData
<1> HIDE DEF c, h
<1>4. HandleSecondByte(c, b) = [c EXCEPT !.data1 = b, !.thirdByte = TRUE]
  BY <1>2 DEF HandleSecondByte, HasData, h
<1> QED BY <1>2, <1>3, <1>4 DEF Parsers, h

\* The only data byte of a message completes it.
LEMMA FeedSingle ==
  ASSUME NEW p \in Parsers, NEW b \in Byte, ~IsStatus(b), ~p.thirdByte,
         HasData(Header(p)), DataBytes(Header(p)) = 1, SysCommonCancels = FALSE
  PROVE  LET f == Feed(p, b)
         IN  /\ f.thirdByte = FALSE /\ f.currentHeader = 0
             /\ f.runningHeader = IF IsChannel(Header(p)) THEN Header(p) ELSE p.runningHeader
             /\ f.storedByte = p.storedByte
             /\ f.event.type \in {"channel", "syscommon"} /\ f.event.bytes = <<Header(p), b>>
<1> DEFINE q == [p EXCEPT !.event = NoMessage]
           h == Header(p)
           c == IF q.currentHeader = 0 THEN [q EXCEPT !.currentHeader = q.runningHeader] ELSE q
           d == [c EXCEPT !.data1 = b]
<1>1. /\ q \in Parsers
      /\ q.thirdByte = p.thirdByte /\ q.currentHeader = p.currentHeader
      /\ q.runningHeader = p.runningHeader /\ q.data1 = p.data1 /\ q.sysex = p.sysex
      /\ q.storedByte = p.storedByte /\ q.event.type = "none" /\ q.event.bytes = <<>>
      /\ Feed(p, b) = HandleData(q, b)
  BY FeedClears
<1> HIDE DEF q
<1>2. c.currentHeader = h /\ c.thirdByte = FALSE /\ h # 0
      /\ c \in Parsers /\ c.runningHeader = p.runningHeader /\ c.sysex = p.sysex
      /\ c.storedByte = p.storedByte /\ c.event.type = "none"
  <2>1. h # 0
    BY DEF HasData, IsChannel, IsSysCommon
  <2>2. CASE q.currentHeader = 0
    BY <1>1, <2>1, <2>2 DEF Parsers, Header
  <2>3. CASE q.currentHeader # 0
    BY <1>1, <2>1, <2>3 DEF Parsers, Header
  <2> QED BY <2>2, <2>3
<1>3. Feed(p, b) = HandleSecondByte(c, b)
  BY <1>1, <1>2 DEF HandleData
<1>4. h \in Byte /\ <<h, b>> \in Seq(Byte) /\ DataBytes(h) = 1 /\ (IsChannel(h) \/ IsSysCommon(h))
  BY DEF HasData
<1> HIDE DEF c, h
<1>5. HandleSecondByte(c, b) = Finish(d, h, <<h, b>>)
  BY <1>2, <1>4 DEF HandleSecondByte
<1>6. d \in Parsers /\ d.thirdByte = FALSE /\ d.runningHeader = p.runningHeader
      /\ d.storedByte = p.storedByte
  BY <1>2 DEF Parsers
<1> HIDE DEF d
<1>7. /\ Finish(d, h, <<h, b>>).thirdByte = d.thirdByte
      /\ Finish(d, h, <<h, b>>).currentHeader = 0
      /\ Finish(d, h, <<h, b>>).runningHeader = IF IsChannel(h) THEN h ELSE d.runningHeader
      /\ Finish(d, h, <<h, b>>).storedByte = d.storedByte
      /\ Finish(d, h, <<h, b>>).event =
           [type |-> IF IsChannel(h) THEN "channel" ELSE "syscommon", bytes |-> <<h, b>>]
  BY <1>4, <1>6, FinishType
<1> QED BY <1>3, <1>5, <1>6, <1>7 DEF h

\* So does the second one of two.
LEMMA FeedThird ==
  ASSUME NEW p \in Parsers, NEW b \in Byte, ~IsStatus(b), p.thirdByte,
         HasData(p.currentHeader), SysCommonCancels = FALSE
  PROVE  LET f == Feed(p, b)
             h == p.currentHeader
         IN  /\ f.thirdByte = FALSE /\ f.currentHeader = 0
             /\ f.runningHeader = IF IsChannel(h) THEN h ELSE p.runningHeader
             /\ f.storedByte = p.storedByte
             /\ f.event.type \in {"channel", "syscommon"} /\ f.event.bytes = <<h, p.data1, b>>
<1> DEFINE q == [p EXCEPT !.event = NoMessage]
           h == p.currentHeader
           s == <<h, q.data1, b>>
           d == Finish(q, h, s)
<1>1. /\ q \in Parsers
      /\ q.thirdByte = p.thirdByte /\ q.currentHeader = p.currentHeader
      /\ q.runningHeader = p.runningHeader /\ q.data1 = p.data1 /\ q.sysex = p.sysex
      /\ q.storedByte = p.storedByte /\ q.event.type = "none" /\ q.event.bytes = <<>>
      /\ Feed(p, b) = HandleData(q, b)
  BY FeedClears
<1> HIDE DEF q
<1>2. h \in Byte /\ s \in Seq(Byte) /\ h # 0 /\ (IsChannel(h) \/ IsSysCommon(h))
  <2>1. q.data1 \in Byte
    BY <1>1 DEF Parsers
  <2> QED BY <2>1 DEF HasData, IsChannel, IsSysCommon
<1>3. Feed(p, b) = HandleThirdByte(q, b)
  BY <1>1, <1>2 DEF HandleData
<1>4. HandleThirdByte(q, b) = [d EXCEPT !.thirdByte = FALSE]
  BY <1>1, <1>2 DEF HandleThirdByte
<1>5. /\ d \in Parsers /\ d.currentHeader = 0
      /\ d.runningHeader = IF IsChannel(h) THEN h ELSE q.runningHeader
      /\ d.storedByte = q.storedByte
      /\ d.event = [type |-> IF IsChannel(h) THEN "channel" ELSE "syscommon", bytes |-> s]
  <2> HIDE DEF s, h
  <2> QED BY <1>1, <1>2, FinishType
<1>6. s = <<h, p.data1, b>>
  BY <1>1
<1> HIDE DEF d, s, h
<1>7. Feed(p, b) = [d EXCEPT !.thirdByte = FALSE]
  BY <1>3, <1>4
<1>8. /\ Feed(p, b).thirdByte = FALSE
      /\ Feed(p, b).currentHeader = 0
      /\ Feed(p, b).runningHeader = IF IsChannel(h) THEN h ELSE p.runningHeader
      /\ Feed(p, b).storedByte = p.storedByte
      /\ Feed(p, b).event = [type |-> IF IsChannel(h) THEN "channel" ELSE "syscommon", bytes |-> s]
  BY <1>1, <1>5, <1>7 DEF Parsers
<1> QED BY <1>6, <1>8 DEF h

\* A system exclusive message starts with an empty buffer.
LEMMA FeedStart ==
  ASSUME NEW p \in Parsers, p.currentHeader # SysExStart
  PROVE  LET f == Feed(p, SysExStart)
         IN  /\ f.thirdByte = p.thirdByte /\ f.currentHeader = SysExStart
             /\ f.sysex = <<SysExStart>> /\ f.storedByte = p.storedByte
             /\ f.event.type = "none"
<1> DEFINE q == [p EXCEPT !.event = NoMessage]
           b == SysExStart
<1>0. b \in Byte /\ IsStatus(b) /\ <<b>> \in Seq(Byte) /\ b < TimingClock
  BY DEF Byte, IsStatus, SysExStart, TimingClock
<1>1. /\ q \in Parsers
      /\ q.thirdByte = p.thirdByte /\ q.currentHeader = p.currentHeader
      /\ q.runningHeader = p.runningHeader /\ q.data1 = p.data1 /\ q.sysex = p.sysex
      /\ q.storedByte = p.storedByte /\ q.event.type = "none" /\ q.event.bytes = <<>>
      /\ Feed(p, b) = HandleStatus(q, b)
  BY <1>0, FeedClears
<1> HIDE DEF q
<1>2. Feed(p, b) = HandleNonRealTimeStatus(q, b)
  BY <1>1 DEF HandleStatus, TimingClock, SysExStart
<1>3. HandleNonRealTimeStatus(q, b) = [q EXCEPT !.sysex = <<b>>, !.runningHeader = 0,
                                                !.currentHeader = b]
  BY <1>1 DEF HandleNonRealTimeStatus, TuneRequest, SysExStart, SysExEnd
<1> QED BY <1>0, <1>1, <1>2, <1>3 DEF Parsers

\* The parser in a system exclusive message: with room in the buffer, and without.
LEMMA FeedSysExData ==
  ASSUME NEW p \in Parsers, NEW b \in Byte, ~IsStatus(b), p.currentHeader = SysExStart,
         p.thirdByte = FALSE
  PROVE  LET f == Feed(p, b)
         IN  /\ f.thirdByte = FALSE /\ f.currentHeader = SysExStart
             /\ f.runningHeader = p.runningHeader
             /\ HasSysExSpace(p) => /\ f.sysex = Append(p.sysex, b)
                                    /\ f.storedByte = p.storedByte /\ f.event.type = "none"
             /\ ~HasSysExSpace(p) => /\ f.sysex = p.sysex /\ f.storedByte = b
                                     /\ f.event.type = "chunk" /\ f.event.bytes = p.sysex
<1> DEFINE q == [p EXCEPT !.event = NoMessage]
           e == Emit(q, "chunk", q.sysex)
<1>1. /\ q \in Parsers
      /\ q.thirdByte = p.thirdByte /\ q.currentHeader = p.currentHeader
      /\ q.runningHeader = p.runningHeader /\ q.data1 = p.data1 /\ q.sysex = p.sysex
      /\ q.storedByte = p.storedByte /\ q.event.type = "none" /\ q.event.bytes = <<>>
      /\ Feed(p, b) = HandleData(q, b)
  BY FeedClears
<1> HIDE DEF q
<1>2. Feed(p, b) = HandleSecondByte(q, b) /\ ~IsChannel(q.currentHeader) /\ ~IsSysCommon(q.currentHeader)
  BY <1>1 DEF HandleData, SysExStart, IsChannel, IsSysCommon
<1>3. HasSysExSpace(q) <=> HasSysExSpace(p)
  BY <1>1 DEF HasSysExSpace
<1>4. CASE HasSysExSpace(p)
  <2>1. Feed(p, b) = [q EXCEPT !.sysex = Append(q.sysex, b)]
    BY <1>1, <1>2, <1>3, <1>4 DEF HandleSecondByte
  <2> QED BY <1>1, <1>4, <2>1 DEF Parsers
<1>5. CASE ~HasSysExSpace(p)
  <2>1. q.sysex \in Seq(Byte)
    BY <1>1 DEF Parsers
  <2>2. /\ e \in Parsers
        /\ e.thirdByte = q.thirdByte
        /\ e.currentHeader = q.currentHeader
        /\ e.runningHeader = q.runningHeader
        /\ e.sysex = q.sysex
        /\ e.event = [type |-> "chunk", bytes |-> q.sysex]
    BY <1>1, <2>1, EmitType
  <2>3. Feed(p, b) = [e EXCEPT !.storedByte = b]
    BY <1>1, <1>2, <1>3, <1>5 DEF HandleSecondByte
  <2> HIDE DEF e
  <2> QED BY <1>1, <1>5, <2>2, <2>3 DEF Parsers
<1> QED BY <1>4, <1>5

\* The end of a system exclusive message completes it, unless the buffer is full.
LEMMA FeedSysExEnd ==
  ASSUME NEW p \in Parsers, p.currentHeader = SysExStart
  PROVE  LET f == Feed(p, SysExEnd)
         IN  /\ f.thirdByte = p.thirdByte
             /\ HasSysExSpace(p) => /\ f.currentHeader = 0
                                    /\ f.storedByte = p.storedByte /\ f.event.type = "sysex"
                                    /\ f.event.bytes = Append(p.sysex, SysExEnd)
             /\ ~HasSysExSpace(p) => /\ f.sysex = p.sysex /\ f.storedByte = SysExEnd
                                     /\ f.currentHeader = SysExStart
                                     /\ f.event.type = "chunk" /\ f.event.bytes = p.sysex
<1> DEFINE q == [p EXCEPT !.event = NoMessage]
           b == SysExEnd
           e == Emit(q, "chunk", q.sysex)
           s == Append(q.sysex, SysExEnd)
           g == Emit(q, "sysex", s)
<1>0. b \in Byte /\ IsStatus(b) /\ b < TimingClock
  BY DEF Byte, IsStatus, SysExEnd, TimingClock
<1>1. /\ q \in Parsers
      /\ q.thirdByte = p.thirdByte /\ q.currentHeader = p.currentHeader
      /\ q.runningHeader = p.runningHeader /\ q.data1 = p.data1 /\ q.sysex = p.sysex
      /\ q.storedByte = p.storedByte /\ q.event.type = "none" /\ q.event.bytes = <<>>
      /\ Feed(p, b) = HandleStatus(q, b)
  BY <1>0, FeedClears
<1> HIDE DEF q
<1>2. Feed(p, b) = Terminate(q, b)
  BY <1>1 DEF HandleStatus, HandleNonRealTimeStatus, TimingClock, SysExEnd
<1>3. HasSysExSpace(q) <=> HasSysExSpace(p)
  BY <1>1 DEF HasSysExSpace
<1>4. q.sysex \in Seq(Byte) /\ s \in Seq(Byte)
  BY <1>0, <1>1 DEF Parsers
<1>5. CASE HasSysExSpace(p)
  <2>1. /\ g \in Parsers
        /\ g.thirdByte = q.thirdByte
        /\ g.storedByte = q.storedByte
        /\ g.event = [type |-> "sysex", bytes |-> s]
    <3> HIDE DEF s
    <3> QED BY <1>1, <1>4, EmitType
  <2>2. Feed(p, b) = [g EXCEPT !.storedByte = g.storedByte, !.sysex = Append(g.sysex, SysExEnd),
                               !.currentHeader = 0, !.runningHeader = 0]
    BY <1>2, <1>3, <1>5, <2>1 DEF Terminate
  <2>3. s = Append(p.sysex, SysExEnd)
    BY <1>1
  <2> HIDE DEF g, s
  <2> QED BY <1>1, <1>5, <2>1, <2>2, <2>3 DEF Parsers
<1>6. CASE ~HasSysExSpace(p)
  <2>2. /\ e \in Parsers
        /\ e.thirdByte = q.thirdByte
        /\ e.currentHeader = q.currentHeader
        /\ e.sysex = q.sysex
        /\ e.event = [type |-> "chunk", bytes |-> q.sysex]
    BY <1>1, <1>4, EmitType
  <2>3. Feed(p, b) = [e EXCEPT !.storedByte = b]
    BY <1>2, <1>3, <1>6 DEF Terminate
  <2> HIDE DEF e
  <2> QED BY <1>1, <1>6, <2>2, <2>3 DEF Parsers
<1> QED BY <1>5, <1>6

-------------------------------------------------------------------------------
(***************************************************************************)
(* The receiver: the messages that it takes from the parser                *)
(***************************************************************************)
\* A receiver that stores nothing and has read every event.
LEMMA NothingStored ==
  ASSUME NEW q \in Receivers, NEW time \in Nat, q.parser.event = NoMessage,
         q.parser.storedByte = NoByte
  PROVE  ReadStored(time)[q] = q
<1>1. q.parser \in Parsers
  BY DEF Receivers
<1>2. Resume(q.parser) = q.parser
  BY <1>1 DEF Resume, Parsers
<1>3. Read(q, q.parser, time) = q
  BY <1>1 DEF Read, NoMessage, Receivers, Parsers
<1> QED BY <1>2, <1>3 DEF ReadStored

\* What Read does with each event.
LEMMA ReadNone ==
  ASSUME NEW r \in Receivers, NEW p \in Parsers, NEW time \in Nat, p.event.type = "none"
  PROVE  /\ Read(r, p, time).items = r.items
         /\ Read(r, p, time).clocks = r.clocks
         /\ Read(r, p, time).partial = r.partial
BY ReadItems, ReadClocks, ReadPartial

\* A real-time message is added to the clocks,
LEMMA ReadRealTime ==
  ASSUME NEW r \in Receivers, NEW p \in Parsers, NEW time \in Nat, p.event.type = "realtime"
  PROVE  /\ Read(r, p, time).items = r.items
         /\ Read(r, p, time).clocks = Append(r.clocks, [bytes |-> p.event.bytes, time |-> time])
         /\ Read(r, p, time).partial = r.partial
BY ReadItems, ReadClocks, ReadPartial

\* a chunk to the partial message,
LEMMA ReadChunk ==
  ASSUME NEW r \in Receivers, NEW p \in Parsers, NEW time \in Nat, p.event.type = "chunk"
  PROVE  /\ Read(r, p, time).items = r.items
         /\ Read(r, p, time).clocks = r.clocks
         /\ Read(r, p, time).partial = r.partial \o p.event.bytes
BY ReadItems, ReadClocks, ReadPartial

\* a system exclusive message to the items, behind its chunks,
LEMMA ReadSysEx ==
  ASSUME NEW r \in Receivers, NEW p \in Parsers, NEW time \in Nat, p.event.type = "sysex"
  PROVE  /\ Read(r, p, time).items
              = Append(r.items, [bytes |-> r.partial \o p.event.bytes, time |-> time])
         /\ Read(r, p, time).clocks = r.clocks
         /\ Read(r, p, time).partial = <<>>
<1>1. Read(r, p, time).items
        = Append(r.items, [bytes |-> r.partial \o p.event.bytes, time |-> time])
  BY ReadItems
<1>2. Read(r, p, time).clocks = r.clocks
  BY ReadClocks
<1>3. Read(r, p, time).partial = <<>>
  BY ReadPartial
<1> QED BY <1>1, <1>2, <1>3

\* and any other message to the items.
LEMMA ReadMessage ==
  ASSUME NEW r \in Receivers, NEW p \in Parsers, NEW time \in Nat,
         p.event.type \in {"channel", "syscommon"}
  PROVE  /\ Read(r, p, time).items = Append(r.items, [bytes |-> p.event.bytes, time |-> time])
         /\ Read(r, p, time).clocks = r.clocks
         /\ Read(r, p, time).partial = r.partial
BY ReadItems, ReadClocks, ReadPartial

\* The parser keeps everything but its event.
LEMMA ReadParser ==
  ASSUME NEW r \in Receivers, NEW p \in Parsers, NEW time \in Nat
  PROVE  LET q == Read(r, p, time)
         IN  /\ q \in Receivers /\ q.parser.event = NoMessage
             /\ q.parser.thirdByte = p.thirdByte
             /\ q.parser.currentHeader = p.currentHeader
             /\ q.parser.runningHeader = p.runningHeader
             /\ q.parser.data1 = p.data1
             /\ q.parser.sysex = p.sysex
             /\ q.parser.storedByte = p.storedByte
<1> DEFINE q == Read(r, p, time)
<1>1. q \in Receivers /\ q.parser = Cleared(p)
  BY ReadKeeps
<1> HIDE DEF q
<1> QED BY <1>1 DEF Parsers, Cleared, q

\* The buffer of the system exclusive message is full: the byte is stored, and handled
\* when the chunk has been read.
LEMMA RxByteStored ==
  ASSUME NEW r \in Receivers, NEW b \in Byte, NEW time \in Nat, b # NoByte,
         NEW f \in Parsers, f = Feed(r.parser, b),
         f.storedByte = b, f.currentHeader = SysExStart, f.event.type = "chunk",
         \A p2 \in Parsers :
           p2.sysex = <<>> /\ p2.storedByte = NoByte
           /\ p2.currentHeader = f.currentHeader /\ p2.thirdByte = f.thirdByte
             => Feed(p2, b).storedByte = NoByte
  PROVE  \E r1 \in Receivers, p2 \in Parsers, g \in Parsers :
           /\ r1.items = r.items /\ r1.clocks = r.clocks
           /\ r1.partial = r.partial \o f.event.bytes
           /\ p2.sysex = <<>> /\ p2.storedByte = NoByte
           /\ p2.currentHeader = f.currentHeader /\ p2.thirdByte = f.thirdByte
           /\ g = Feed(p2, b)
           /\ RxByte(r, b, time) = Read(r1, g, time)
<1> DEFINE r1 == Read(r, f, time)
           p1 == r1.parser
           p2 == [p1 EXCEPT !.storedByte = NoByte, !.sysex = <<>>]
           g == Feed(p2, b)
           r2 == Read(r1, g, time)
<1>2. /\ r1 \in Receivers
      /\ r1.items = r.items /\ r1.clocks = r.clocks /\ r1.partial = r.partial \o f.event.bytes
      /\ p1.thirdByte = f.thirdByte /\ p1.currentHeader = SysExStart /\ p1.storedByte = b
  BY ReadChunk, ReadParser
<1> HIDE DEF r1
<1>3. p1 \in Parsers
  BY <1>2 DEF Receivers
<1> HIDE DEF p1
<1>4. Resume(p1) = g
  BY <1>2 DEF Resume
<1>5. /\ p2 \in Parsers /\ p2.sysex = <<>> /\ p2.storedByte = NoByte
      /\ p2.currentHeader = f.currentHeader /\ p2.thirdByte = f.thirdByte
  <2>1. NoByte \in Byte /\ <<>> \in Seq(Byte)
    BY DEF NoByte, Byte
  <2> QED BY <1>2, <1>3, <2>1 DEF Parsers
<1> HIDE DEF p2
<1>6. g \in Parsers /\ g.storedByte = NoByte
  BY <1>5, FeedType
<1>7. ReadStored(time)[r1] = r2
  BY <1>2, <1>4 DEF ReadStored, p1
<1>8. r2 \in Receivers /\ r2.parser.event = NoMessage /\ r2.parser.storedByte = NoByte
  <2>1. r1 \in Receivers
    BY <1>2
  <2>2. r2 \in Receivers /\ r2.parser = Cleared(g)
    BY <1>6, <2>1, ReadKeeps
  <2> QED BY <1>6, <2>2 DEF Parsers, Cleared
<1> HIDE DEF r2
<1>9. ReadStored(time)[r2] = r2
  BY <1>8, NothingStored
<1>10. RxByte(r, b, time) = r2
  BY <1>7, <1>9, RxByteType DEF r1
<1> QED BY <1>2, <1>5, <1>6, <1>10 DEF r2, g

\* A receiver that is not in the middle of a message with data, and has nothing stored.
Ready(r) == r.parser.storedByte = NoByte /\ r.parser.thirdByte = FALSE

\* The receiver q is r when it has read a message that is not a system exclusive one.
Got(q, r, m, time) ==
  /\ q \in Receivers /\ Ready(q) /\ q.parser.currentHeader = 0
  /\ q.items = Append(r.items, [bytes |-> m, time |-> time])
  /\ q.clocks = r.clocks /\ q.partial = r.partial
  /\ q.parser.runningHeader = IF IsChannel(m[1]) THEN m[1] ELSE r.parser.runningHeader

\* Appending to the second of two sequences.
LEMMA ConcatAppend ==
  ASSUME NEW s \in Seq(Byte), NEW t \in Seq(Byte), NEW x \in Byte
  PROVE  /\ s \o Append(t, x) = Append(s \o t, x)
         /\ s \o <<x>> = Append(s, x)
         /\ s \o t \in Seq(Byte)
<1>1. s \o <<x>> = Append(s, x)
  BY AppendIsConcat
<1>2. Append(t, x) = t \o <<x>>
  BY AppendIsConcat
<1>3. s \o t \in Seq(Byte)
  OBVIOUS
<1>4. Append(s \o t, x) = (s \o t) \o <<x>>
  BY <1>3, AppendIsConcat
<1>5. <<x>> \in Seq(Byte)
  OBVIOUS
<1>6. (s \o t) \o <<x>> = s \o (t \o <<x>>)
  BY <1>5, ConcatAssociative
<1> QED BY <1>1, <1>2, <1>3, <1>4, <1>6

\* A receiver reads a status byte with data to come,
LEMMA RxStatus ==
  ASSUME NEW r \in Receivers, NEW b \in Byte, NEW time \in Nat, r.parser.storedByte = NoByte,
         IsStatus(b), b < TimingClock,
         b \notin {TuneRequest, SysExStart, SysExEnd}, r.parser.currentHeader # SysExStart
  PROVE  /\ RxByte(r, b, time) \in Receivers /\ Ready(RxByte(r, b, time))
         /\ RxByte(r, b, time).parser.currentHeader = b
         /\ RxByte(r, b, time).items = r.items /\ RxByte(r, b, time).clocks = r.clocks
         /\ RxByte(r, b, time).partial = r.partial
         /\ RxByte(r, b, time).parser.runningHeader = r.parser.runningHeader
<1>1. r.parser \in Parsers
  BY DEF Receivers
<1> DEFINE f == Feed(r.parser, b)
<1>2. f \in Parsers /\ f.thirdByte = FALSE /\ f.currentHeader = b
      /\ f.runningHeader = r.parser.runningHeader /\ f.storedByte = NoByte
      /\ f.event.type = "none"
  BY <1>1, FeedStatus, FeedType
<1>3. RxByte(r, b, time) = Read(r, f, time)
  <2>1. Read(r, f, time).parser.storedByte = NoByte
    BY <1>2, ReadParser
  <2> QED BY <2>1, RxByteDirect
<1> HIDE DEF f
<1> QED BY <1>2, <1>3, ReadParser, ReadNone DEF Ready

\* Tune Request,
LEMMA RxTune ==
  ASSUME NEW r \in Receivers, NEW time \in Nat, Ready(r), SysCommonCancels = FALSE,
         r.parser.currentHeader # SysExStart
  PROVE  Got(RxByte(r, TuneRequest, time), r, <<TuneRequest>>, time)
<1>1. r.parser \in Parsers /\ TuneRequest \in Byte /\ ~IsChannel(TuneRequest)
  BY DEF Receivers, TuneRequest, Byte, IsChannel
<1> DEFINE f == Feed(r.parser, TuneRequest)
<1>2. f \in Parsers /\ f.thirdByte = FALSE /\ f.currentHeader = 0
      /\ f.runningHeader = r.parser.runningHeader /\ f.storedByte = NoByte
      /\ f.event.type \in {"channel", "syscommon"} /\ f.event.bytes = <<TuneRequest>>
  BY <1>1, FeedTune, FeedType DEF Ready
<1>3. RxByte(r, TuneRequest, time) = Read(r, f, time)
  <2>1. Read(r, f, time).parser.storedByte = NoByte
    BY <1>2, ReadParser
  <2> QED BY <1>1, <2>1, RxByteDirect
<1> HIDE DEF f
<1>4. <<TuneRequest>>[1] = TuneRequest
  OBVIOUS
<1> DEFINE q == Read(r, f, time)
<1>5. /\ q \in Receivers
      /\ q.parser.thirdByte = FALSE
      /\ q.parser.currentHeader = 0
      /\ q.parser.runningHeader = f.runningHeader
      /\ q.parser.storedByte = NoByte
  BY <1>2, ReadParser
<1>6. /\ q.items = Append(r.items, [bytes |-> <<TuneRequest>>, time |-> time])
      /\ q.clocks = r.clocks /\ q.partial = r.partial
  BY <1>2, ReadMessage
<1> HIDE DEF q
<1>7. Got(q, r, <<TuneRequest>>, time)
  BY <1>1, <1>2, <1>4, <1>5, <1>6 DEF Ready, Got
<1> QED BY <1>3, <1>7 DEF q

\* a real-time byte,
LEMMA RxRealTime ==
  ASSUME NEW r \in Receivers, NEW b \in Byte, NEW time \in Nat, b >= TimingClock,
         r.parser.storedByte = NoByte
  PROVE  /\ RxByte(r, b, time) \in Receivers
         /\ RxByte(r, b, time).parser.storedByte = NoByte
         /\ RxByte(r, b, time).parser.thirdByte = r.parser.thirdByte
         /\ RxByte(r, b, time).parser.currentHeader = r.parser.currentHeader
         /\ RxByte(r, b, time).parser.runningHeader = r.parser.runningHeader
         /\ RxByte(r, b, time).parser.sysex = r.parser.sysex
         /\ RxByte(r, b, time).items = r.items /\ RxByte(r, b, time).partial = r.partial
         /\ RxByte(r, b, time).clocks = Append(r.clocks, [bytes |-> <<b>>, time |-> time])
<1>1. r.parser \in Parsers
  BY DEF Receivers
<1> DEFINE f == Feed(r.parser, b)
<1>2. /\ f \in Parsers /\ f.thirdByte = r.parser.thirdByte
      /\ f.currentHeader = r.parser.currentHeader /\ f.sysex = r.parser.sysex
      /\ f.runningHeader = r.parser.runningHeader /\ f.storedByte = NoByte
      /\ f.event.type = "realtime" /\ f.event.bytes = <<b>>
  BY <1>1, FeedRealTime, FeedType
<1>3. RxByte(r, b, time) = Read(r, f, time)
  <2>1. Read(r, f, time).parser.storedByte = NoByte
    BY <1>2, ReadParser
  <2> QED BY <2>1, RxByteDirect
<1> HIDE DEF f
<1>4. Read(r, f, time).clocks = Append(r.clocks, [bytes |-> <<b>>, time |-> time])
      /\ Read(r, f, time).items = r.items /\ Read(r, f, time).partial = r.partial
  BY <1>2, ReadRealTime
<1> QED BY <1>2, <1>3, <1>4, ReadParser

\* the first of two data bytes,
LEMMA RxFirst ==
  ASSUME NEW r \in Receivers, NEW b \in Byte, NEW time \in Nat, Ready(r), ~IsStatus(b),
         HasData(Header(r.parser)), DataBytes(Header(r.parser)) = 2
  PROVE  /\ RxByte(r, b, time) \in Receivers
         /\ RxByte(r, b, time).parser.storedByte = NoByte
         /\ RxByte(r, b, time).parser.thirdByte = TRUE
         /\ RxByte(r, b, time).parser.data1 = b
         /\ RxByte(r, b, time).parser.currentHeader = Header(r.parser)
         /\ RxByte(r, b, time).parser.runningHeader = r.parser.runningHeader
         /\ RxByte(r, b, time).items = r.items
         /\ RxByte(r, b, time).partial = r.partial
         /\ RxByte(r, b, time).clocks = r.clocks
<1>1. r.parser \in Parsers
  BY DEF Receivers
<1> DEFINE f == Feed(r.parser, b)
<1>2. /\ f \in Parsers /\ f.thirdByte = TRUE /\ f.data1 = b
      /\ f.currentHeader = Header(r.parser)
      /\ f.runningHeader = r.parser.runningHeader /\ f.storedByte = NoByte
      /\ f.event.type = "none"
  BY <1>1, FeedFirst, FeedType DEF Ready
<1>3. RxByte(r, b, time) = Read(r, f, time)
  <2>1. Read(r, f, time).parser.storedByte = NoByte
    BY <1>2, ReadParser
  <2> QED BY <2>1, RxByteDirect
<1> HIDE DEF f
<1> QED BY <1>2, <1>3, ReadParser, ReadNone

\* the only data byte of a message,
LEMMA RxSingle ==
  ASSUME NEW r \in Receivers, NEW b \in Byte, NEW time \in Nat, Ready(r), ~IsStatus(b),
         HasData(Header(r.parser)), DataBytes(Header(r.parser)) = 1, SysCommonCancels = FALSE
  PROVE  Got(RxByte(r, b, time), r, <<Header(r.parser), b>>, time)
<1>1. r.parser \in Parsers
  BY DEF Receivers
<1> DEFINE f == Feed(r.parser, b)
           h == Header(r.parser)
<1>2. /\ f \in Parsers /\ f.thirdByte = FALSE
      /\ f.currentHeader = 0 /\ f.storedByte = NoByte
      /\ f.runningHeader = IF IsChannel(h) THEN h ELSE r.parser.runningHeader
      /\ f.event.type \in {"channel", "syscommon"} /\ f.event.bytes = <<h, b>>
  BY <1>1, FeedSingle, FeedType DEF Ready
<1>3. RxByte(r, b, time) = Read(r, f, time)
  <2>1. Read(r, f, time).parser.storedByte = NoByte
    BY <1>2, ReadParser
  <2> QED BY <2>1, RxByteDirect
<1> HIDE DEF f, h
<1>4. <<h, b>>[1] = h
  OBVIOUS
<1> DEFINE q == Read(r, f, time)
<1>5. /\ q \in Receivers
      /\ q.parser.thirdByte = FALSE
      /\ q.parser.currentHeader = 0
      /\ q.parser.runningHeader = f.runningHeader
      /\ q.parser.storedByte = NoByte
  BY <1>2, ReadParser
<1>6. /\ q.items = Append(r.items, [bytes |-> <<h, b>>, time |-> time])
      /\ q.clocks = r.clocks /\ q.partial = r.partial
  BY <1>2, ReadMessage
<1> HIDE DEF q
<1>7. Got(q, r, <<h, b>>, time)
  BY <1>2, <1>4, <1>5, <1>6 DEF Ready, Got
<1> QED BY <1>3, <1>7 DEF h, q

\* the second of two,
LEMMA RxThird ==
  ASSUME NEW r \in Receivers, NEW b \in Byte, NEW time \in Nat, r.parser.storedByte = NoByte,
         r.parser.thirdByte = TRUE, ~IsStatus(b),
         HasData(r.parser.currentHeader), SysCommonCancels = FALSE
  PROVE  Got(RxByte(r, b, time), r, <<r.parser.currentHeader, r.parser.data1, b>>, time)
<1>1. r.parser \in Parsers
  BY DEF Receivers
<1> DEFINE f == Feed(r.parser, b)
           h == r.parser.currentHeader
           m == <<h, r.parser.data1, b>>
<1>2. /\ f \in Parsers /\ f.thirdByte = FALSE
      /\ f.currentHeader = 0 /\ f.storedByte = NoByte
      /\ f.runningHeader = IF IsChannel(h) THEN h ELSE r.parser.runningHeader
      /\ f.event.type \in {"channel", "syscommon"} /\ f.event.bytes = m
  BY <1>1, FeedThird, FeedType
<1>3. RxByte(r, b, time) = Read(r, f, time)
  <2>1. Read(r, f, time).parser.storedByte = NoByte
    BY <1>2, ReadParser
  <2> QED BY <2>1, RxByteDirect
<1>4. m[1] = h
  OBVIOUS
<1> HIDE DEF f, h, m
<1> DEFINE q == Read(r, f, time)
<1>5. /\ q \in Receivers
      /\ q.parser.thirdByte = FALSE
      /\ q.parser.currentHeader = 0
      /\ q.parser.runningHeader = f.runningHeader
      /\ q.parser.storedByte = NoByte
  BY <1>2, ReadParser
<1>6. /\ q.items = Append(r.items, [bytes |-> m, time |-> time])
      /\ q.clocks = r.clocks /\ q.partial = r.partial
  BY <1>2, ReadMessage
<1> HIDE DEF q
<1>7. Got(q, r, m, time)
  BY <1>2, <1>4, <1>5, <1>6 DEF Ready, Got
<1> QED BY <1>3, <1>7 DEF h, m, q

\* the start of a system exclusive message,
LEMMA RxStart ==
  ASSUME NEW r \in Receivers, NEW time \in Nat, Ready(r),
         r.parser.currentHeader # SysExStart
  PROVE  /\ RxByte(r, SysExStart, time) \in Receivers /\ Ready(RxByte(r, SysExStart, time))
         /\ RxByte(r, SysExStart, time).parser.currentHeader = SysExStart
         /\ RxByte(r, SysExStart, time).parser.sysex = <<SysExStart>>
         /\ RxByte(r, SysExStart, time).items = r.items
         /\ RxByte(r, SysExStart, time).clocks = r.clocks
         /\ RxByte(r, SysExStart, time).partial = r.partial
<1>1. r.parser \in Parsers /\ SysExStart \in Byte
  BY DEF Receivers, SysExStart, Byte
<1> DEFINE f == Feed(r.parser, SysExStart)
<1>2. f \in Parsers /\ f.thirdByte = FALSE /\ f.currentHeader = SysExStart
      /\ f.sysex = <<SysExStart>> /\ f.storedByte = NoByte /\ f.event.type = "none"
  BY <1>1, FeedStart, FeedType DEF Ready
<1>3. RxByte(r, SysExStart, time) = Read(r, f, time)
  <2>1. Read(r, f, time).parser.storedByte = NoByte
    BY <1>2, ReadParser
  <2> QED BY <1>1, <2>1, RxByteDirect
<1> HIDE DEF f
<1> QED BY <1>2, <1>3, ReadParser, ReadNone DEF Ready

\* What has been received of a system exclusive message.
Collected(r) == r.partial \o r.parser.sysex

\* a data byte of one, whether there is room in the buffer or not,
LEMMA RxSysExData ==
  ASSUME NEW r \in Receivers, NEW b \in Byte, NEW time \in Nat, Ready(r), ~IsStatus(b),
         r.parser.currentHeader = SysExStart
  PROVE  /\ RxByte(r, b, time) \in Receivers /\ Ready(RxByte(r, b, time))
         /\ RxByte(r, b, time).parser.currentHeader = SysExStart
         /\ Collected(RxByte(r, b, time)) = Append(Collected(r), b)
         /\ RxByte(r, b, time).items = r.items /\ RxByte(r, b, time).clocks = r.clocks
<1> DEFINE f == Feed(r.parser, b)
<1>1. r.parser \in Parsers /\ r.parser.sysex \in Seq(Byte) /\ r.partial \in Seq(Byte)
      /\ f \in Parsers
  BY FeedType DEF Receivers, Parsers
<1>2. b # NoByte
  BY DEF NoByte, IsStatus, Byte
<1>3. CASE HasSysExSpace(r.parser)
  <2>1. f.thirdByte = FALSE /\ f.currentHeader = SysExStart
        /\ f.sysex = Append(r.parser.sysex, b) /\ f.storedByte = NoByte /\ f.event.type = "none"
    BY <1>1, <1>3, FeedSysExData DEF Ready
  <2>2. RxByte(r, b, time) = Read(r, f, time)
    <3>1. Read(r, f, time).parser.storedByte = NoByte
      BY <1>1, <2>1, ReadParser
    <3> QED BY <3>1, RxByteDirect
  <2> HIDE DEF f
  <2>3. /\ Read(r, f, time) \in Receivers /\ Ready(Read(r, f, time))
        /\ Read(r, f, time).parser.currentHeader = SysExStart
        /\ Read(r, f, time).parser.sysex = Append(r.parser.sysex, b)
        /\ Read(r, f, time).items = r.items /\ Read(r, f, time).clocks = r.clocks
        /\ Read(r, f, time).partial = r.partial
    BY <1>1, <2>1, ReadParser, ReadNone DEF Ready
  <2>4. r.partial \o Append(r.parser.sysex, b) = Append(r.partial \o r.parser.sysex, b)
    BY <1>1, ConcatAppend
  <2> QED BY <2>2, <2>3, <2>4 DEF Collected
<1>4. CASE ~HasSysExSpace(r.parser)
  <2>1. f.thirdByte = FALSE /\ f.currentHeader = SysExStart
        /\ f.sysex = r.parser.sysex /\ f.storedByte = b /\ f.event.type = "chunk"
        /\ f.event.bytes = r.parser.sysex
    BY <1>1, <1>4, FeedSysExData DEF Ready
  <2>2. ASSUME NEW p2 \in Parsers, p2.sysex = <<>>, p2.storedByte = NoByte,
               p2.currentHeader = f.currentHeader, p2.thirdByte = f.thirdByte
        PROVE  /\ Feed(p2, b) \in Parsers
               /\ Feed(p2, b).thirdByte = FALSE
               /\ Feed(p2, b).currentHeader = SysExStart
               /\ Feed(p2, b).sysex = <<b>>
               /\ Feed(p2, b).storedByte = NoByte
               /\ Feed(p2, b).event.type = "none"
    <3>1. HasSysExSpace(p2) /\ Append(p2.sysex, b) = <<b>>
      BY <2>2, SerialParserAssumption DEF HasSysExSpace
    <3>2. p2.currentHeader = SysExStart /\ p2.thirdByte = FALSE
      BY <2>1, <2>2
    <3> HIDE DEF f
    <3> QED BY <2>2, <3>1, <3>2, FeedSysExData, FeedType
  <2>3. PICK r1 \in Receivers, p2 \in Parsers, g \in Parsers :
           /\ r1.items = r.items /\ r1.clocks = r.clocks
           /\ r1.partial = r.partial \o f.event.bytes
           /\ p2.sysex = <<>> /\ p2.storedByte = NoByte
           /\ p2.currentHeader = f.currentHeader /\ p2.thirdByte = f.thirdByte
           /\ g = Feed(p2, b)
           /\ RxByte(r, b, time) = Read(r1, g, time)
    <3>1. \A p2 \in Parsers :
            p2.sysex = <<>> /\ p2.storedByte = NoByte
            /\ p2.currentHeader = f.currentHeader /\ p2.thirdByte = f.thirdByte
              => Feed(p2, b).storedByte = NoByte
      BY <2>2
    <3> DEFINE g0 == f
    <3>2. g0 \in Parsers /\ g0 = Feed(r.parser, b) /\ g0.storedByte = b
          /\ g0.currentHeader = SysExStart /\ g0.event.type = "chunk" /\ b \in Byte
          /\ b # NoByte
      BY <1>1, <1>2, <2>1
    <3> HIDE DEF f, g0
    <3> QED BY <3>1, <3>2, RxByteStored DEF g0
  <2> HIDE DEF f
  <2>4. g.thirdByte = FALSE /\ g.currentHeader = SysExStart /\ g.sysex = <<b>>
        /\ g.storedByte = NoByte /\ g.event.type = "none"
    BY <2>2, <2>3
  <2>5. /\ Read(r1, g, time) \in Receivers /\ Ready(Read(r1, g, time))
        /\ Read(r1, g, time).parser.currentHeader = SysExStart
        /\ Read(r1, g, time).parser.sysex = <<b>>
        /\ Read(r1, g, time).items = r.items /\ Read(r1, g, time).clocks = r.clocks
        /\ Read(r1, g, time).partial = r.partial \o r.parser.sysex
    <3>1. /\ Read(r1, g, time) \in Receivers /\ Ready(Read(r1, g, time))
          /\ Read(r1, g, time).parser.currentHeader = SysExStart
          /\ Read(r1, g, time).parser.sysex = <<b>>
      BY <2>4, ReadParser DEF Ready
    <3>2. r1.partial = r.partial \o r.parser.sysex /\ r1.items = r.items /\ r1.clocks = r.clocks
      BY <2>1, <2>3
    <3> QED BY <2>4, <3>1, <3>2, ReadNone
  <2>6. (r.partial \o r.parser.sysex) \o <<b>> = Append(r.partial \o r.parser.sysex, b)
    BY <1>1, ConcatAppend
  <2> QED BY <2>3, <2>5, <2>6 DEF Collected
<1> QED BY <1>3, <1>4

\* and its end.
LEMMA RxSysExEnd ==
  ASSUME NEW r \in Receivers, NEW time \in Nat, Ready(r),
         r.parser.currentHeader = SysExStart
  PROVE  /\ RxByte(r, SysExEnd, time) \in Receivers /\ Ready(RxByte(r, SysExEnd, time))
         /\ RxByte(r, SysExEnd, time).parser.currentHeader = 0
         /\ RxByte(r, SysExEnd, time).partial = <<>>
         /\ RxByte(r, SysExEnd, time).items = Append(r.items, [bytes |-> Append(Collected(r), SysExEnd),
                                       time |-> time])
         /\ RxByte(r, SysExEnd, time).clocks = r.clocks
<1> DEFINE b == SysExEnd
           f == Feed(r.parser, b)
<1>0. b \in Byte /\ b # NoByte
  BY DEF SysExEnd, Byte, NoByte
<1>1. r.parser \in Parsers /\ r.parser.sysex \in Seq(Byte) /\ r.partial \in Seq(Byte)
      /\ f \in Parsers
  BY <1>0, FeedType DEF Receivers, Parsers
<1>3. CASE HasSysExSpace(r.parser)
  <2>1. f.thirdByte = FALSE /\ f.currentHeader = 0 /\ f.storedByte = NoByte
        /\ f.event.type = "sysex" /\ f.event.bytes = Append(r.parser.sysex, b)
    BY <1>1, <1>3, FeedSysExEnd DEF Ready
  <2>2. RxByte(r, b, time) = Read(r, f, time)
    <3>1. Read(r, f, time).parser.storedByte = NoByte
      BY <1>1, <2>1, ReadParser
    <3> QED BY <1>0, <3>1, RxByteDirect
  <2> HIDE DEF f, b
  <2>3. /\ Read(r, f, time) \in Receivers /\ Ready(Read(r, f, time))
        /\ Read(r, f, time).parser.currentHeader = 0
        /\ Read(r, f, time).items = Append(r.items,
              [bytes |-> r.partial \o Append(r.parser.sysex, b), time |-> time])
        /\ Read(r, f, time).clocks = r.clocks
        /\ Read(r, f, time).partial = <<>>
    <3>1. /\ Read(r, f, time) \in Receivers /\ Ready(Read(r, f, time))
          /\ Read(r, f, time).parser.currentHeader = 0
      BY <1>1, <2>1, ReadParser DEF Ready
    <3>2. /\ Read(r, f, time).items = Append(r.items,
              [bytes |-> r.partial \o f.event.bytes, time |-> time])
          /\ Read(r, f, time).clocks = r.clocks
          /\ Read(r, f, time).partial = <<>>
      BY <1>1, <2>1, ReadSysEx
    <3>3. f.event.bytes = Append(r.parser.sysex, b)
      BY <2>1
    <3> QED BY <3>1, <3>2, <3>3
  <2>4. r.partial \o Append(r.parser.sysex, b) = Append(r.partial \o r.parser.sysex, b)
    BY <1>0, <1>1, ConcatAppend
  <2> QED BY <2>2, <2>3, <2>4 DEF Collected, b
<1>4. CASE ~HasSysExSpace(r.parser)
  <2>1. f.thirdByte = FALSE /\ f.currentHeader = SysExStart
        /\ f.sysex = r.parser.sysex /\ f.storedByte = b /\ f.event.type = "chunk"
        /\ f.event.bytes = r.parser.sysex
    BY <1>1, <1>4, FeedSysExEnd DEF Ready
  <2>2. ASSUME NEW p2 \in Parsers, p2.sysex = <<>>, p2.storedByte = NoByte,
               p2.currentHeader = f.currentHeader, p2.thirdByte = f.thirdByte
        PROVE  /\ Feed(p2, b) \in Parsers
               /\ Feed(p2, b).thirdByte = FALSE
               /\ Feed(p2, b).currentHeader = 0
               /\ Feed(p2, b).storedByte = NoByte
               /\ Feed(p2, b).event.type = "sysex"
               /\ Feed(p2, b).event.bytes = <<b>>
    <3>1. HasSysExSpace(p2) /\ Append(p2.sysex, b) = <<b>>
      BY <2>2, SerialParserAssumption DEF HasSysExSpace
    <3>2. p2.currentHeader = SysExStart /\ p2.thirdByte = FALSE
      BY <2>1, <2>2
    <3> HIDE DEF f
    <3> QED BY <1>0, <2>2, <3>1, <3>2, FeedSysExEnd, FeedType
  <2>3. PICK r1 \in Receivers, p2 \in Parsers, g \in Parsers :
           /\ r1.items = r.items /\ r1.clocks = r.clocks
           /\ r1.partial = r.partial \o f.event.bytes
           /\ p2.sysex = <<>> /\ p2.storedByte = NoByte
           /\ p2.currentHeader = f.currentHeader /\ p2.thirdByte = f.thirdByte
           /\ g = Feed(p2, b)
           /\ RxByte(r, b, time) = Read(r1, g, time)
    <3>1. \A p2 \in Parsers :
            p2.sysex = <<>> /\ p2.storedByte = NoByte
            /\ p2.currentHeader = f.currentHeader /\ p2.thirdByte = f.thirdByte
              => Feed(p2, b).storedByte = NoByte
      BY <2>2
    <3> DEFINE g0 == f
    <3>2. g0 \in Parsers /\ g0 = Feed(r.parser, b) /\ g0.storedByte = b
          /\ g0.currentHeader = SysExStart /\ g0.event.type = "chunk" /\ b \in Byte
          /\ b # NoByte
      BY <1>0, <1>1, <2>1
    <3> HIDE DEF f, g0
    <3> QED BY <3>1, <3>2, RxByteStored DEF g0
  <2> HIDE DEF f, b
  <2>4. g.thirdByte = FALSE /\ g.currentHeader = 0
        /\ g.storedByte = NoByte /\ g.event.type = "sysex" /\ g.event.bytes = <<b>>
    BY <2>2, <2>3
  <2>5. /\ Read(r1, g, time) \in Receivers /\ Ready(Read(r1, g, time))
        /\ Read(r1, g, time).parser.currentHeader = 0
        /\ Read(r1, g, time).items = Append(r.items,
              [bytes |-> (r.partial \o r.parser.sysex) \o <<b>>, time |-> time])
        /\ Read(r1, g, time).clocks = r.clocks
        /\ Read(r1, g, time).partial = <<>>
    <3>1. /\ Read(r1, g, time) \in Receivers /\ Ready(Read(r1, g, time))
          /\ Read(r1, g, time).parser.currentHeader = 0
      BY <2>4, ReadParser DEF Ready
    <3>2. r1.partial = r.partial \o r.parser.sysex /\ r1.items = r.items /\ r1.clocks = r.clocks
      BY <2>1, <2>3
    <3>3. /\ Read(r1, g, time).items = Append(r1.items,
              [bytes |-> r1.partial \o <<b>>, time |-> time])
          /\ Read(r1, g, time).clocks = r1.clocks
          /\ Read(r1, g, time).partial = <<>>
      BY <2>4, ReadSysEx
    <3> QED BY <3>1, <3>2, <3>3
  <2>6. (r.partial \o r.parser.sysex) \o <<b>> = Append(r.partial \o r.parser.sysex, b)
    BY <1>0, <1>1, ConcatAppend
  <2> QED BY <2>3, <2>5, <2>6 DEF Collected, b
<1> QED BY <1>3, <1>4

-------------------------------------------------------------------------------
(***************************************************************************)
(* The bytes of a packet, one after the other                              *)
(***************************************************************************)
\* Induction for a given set of numbers: if 0 is in it and k + 1 whenever k is, all
\* numbers are.
LEMMA NatSetInduction ==
  ASSUME NEW T, 0 \in T, \A n \in Nat : n \in T => n + 1 \in T
  PROVE  Nat \subseteq T
<1> SUFFICES ASSUME NEW n \in Nat, n \notin T PROVE FALSE
  OBVIOUS
<1> DEFINE Initials == {0..m : m \in Nat \ T}
<1>1. Initials \subseteq FiniteSubsetsOf(Nat)
  <2>1. \A m \in Nat : IsFiniteSet(0..m) /\ 0..m \subseteq Nat
    BY FS_Interval
  <2> QED BY <2>1 DEF FiniteSubsetsOf
<1>2. 0..n \in Initials
  OBVIOUS
<1>3. PICK x \in Initials : \A y \in Initials : ~(<<y, x>> \in StrictSubsetOrdering(Nat))
  <2> HIDE DEF Initials
  <2> QED BY <1>1, <1>2, FS_StrictSubsetOrderingWellFounded, WFMin
<1>4. PICK m \in Nat \ T : x = 0..m
  BY <1>3
<1>5. m # 0 /\ m - 1 \in Nat \ T
  BY <1>4
<1>6. 0..(m - 1) \in Initials
  BY <1>5
<1>7. <<0..(m - 1), x>> \in StrictSubsetOrdering(Nat)
  <2>1. m \in x /\ m \notin 0..(m - 1)
    BY <1>4
  <2> QED BY <1>4, <1>5, <2>1 DEF StrictSubsetOrdering
<1> QED BY <1>3, <1>6, <1>7

\* The recursion of RxThrough has a solution.
LEMMA RxThroughEquation ==
  ASSUME NEW r, NEW bytes, Len(bytes) \in Nat
  PROVE  RxThrough(r, bytes) =
           [i \in 0..Len(bytes) |->
              IF i <= Skipped(bytes) THEN [ble |-> OpenPacket(bytes), rx |-> r]
              ELSE RxStep(bytes[i])[RxThrough(r, bytes)[i - 1]]]
<1> DEFINE k == Skipped(bytes)
           start == [ble |-> OpenPacket(bytes), rx |-> r]
           Good(n, f) == f = [i \in 0..n |-> IF i <= k THEN start ELSE RxStep(bytes[i])[f[i - 1]]]
           T == {n \in Nat : \E f : Good(n, f)}
<1>0. k \in Nat
  BY DEF Skipped
<1> HIDE DEF k, start
<1>1. 0 \in T
  <2> DEFINE f == [i \in 0..0 |-> start]
  <2>1. Good(0, f)
    BY <1>0
  <2> QED BY <2>1
<1>2. ASSUME NEW n \in Nat, n \in T PROVE n + 1 \in T
  <2>1. PICK f : Good(n, f)
    BY <1>2
  <2> DEFINE new == IF n + 1 <= k THEN start ELSE RxStep(bytes[n + 1])[f[n]]
             g == [i \in 0..(n + 1) |-> IF i = n + 1 THEN new ELSE f[i]]
  <2>2. ASSUME NEW i \in 0..(n + 1)
        PROVE  g[i] = IF i <= k THEN start ELSE RxStep(bytes[i])[g[i - 1]]
    <3>1. CASE i = n + 1
      <4>1. g[i] = new
        BY <3>1
      <4>2. i - 1 = n /\ g[i - 1] = f[n]
        BY <3>1
      <4> HIDE DEF g
      <4> QED BY <3>1, <4>1, <4>2
    <3>2. CASE i # n + 1
      <4>1. f[i] = IF i <= k THEN start ELSE RxStep(bytes[i])[f[i - 1]]
        BY <2>1, <3>2
      <4>2. g[i] = f[i]
        BY <3>2
      <4>3. i > k => g[i - 1] = f[i - 1]
        BY <1>0, <3>2
      <4> HIDE DEF g
      <4> QED BY <1>0, <4>1, <4>2, <4>3
    <3> QED BY <3>1, <3>2
  <2>3. g = [i \in 0..(n + 1) |-> g[i]]
    OBVIOUS
  <2> HIDE DEF g
  <2>4. Good(n + 1, g)
    BY <2>2, <2>3
  <2> QED BY <2>4
<1>3. Len(bytes) \in T
  <2> HIDE DEF T
  <2> QED BY <1>1, <1>2, NatSetInduction
<1>4. PICK f : Good(Len(bytes), f)
  BY <1>3
<1> QED BY <1>4 DEF RxThrough, k, start

\* A packet in the middle of which no part of a timestamp is read.
LEMMA RxThroughStep ==
  ASSUME NEW r, NEW bytes, Len(bytes) \in Nat, NEW i \in 0..Len(bytes)
  PROVE  RxThrough(r, bytes)[i] =
              IF i <= Skipped(bytes) THEN [ble |-> OpenPacket(bytes), rx |-> r]
              ELSE RxStep(bytes[i])[RxThrough(r, bytes)[i - 1]]
<1> DEFINE f == RxThrough(r, bytes)
<1>1. f = [j \in 0..Len(bytes) |->
              IF j <= Skipped(bytes) THEN [ble |-> OpenPacket(bytes), rx |-> r]
              ELSE RxStep(bytes[j])[f[j - 1]]]
  BY RxThroughEquation
<1> HIDE DEF f
<1> QED BY <1>1 DEF f

\* Bytes are small numbers.
LEMMA ByteFact == \A b \in Byte : b \in Nat /\ b < 256
BY DEF Byte

\* The next time, by its parts.
LEMMA NextTimestampFact ==
  ASSUME NEW t \in Nat, NEW l \in 0..127
  PROVE  /\ NextTimestamp(t, l) \in Nat
         /\ NextTimestamp(t, l) % 128 = l
         /\ NextTimestamp(t, l) < 16384
BY DEF NextTimestamp

\* The low part of a timestamp byte.
LEMMA StampFact ==
  \A b \in Byte : b >= 128 => b % 128 \in 0..127 /\ ~IsData(b) /\ b \in Nat
BY DEF Byte, IsData

\* A time without low bits gets them from the first timestamp.
LEMMA StartFact ==
  \A a \in 0..127, l \in 0..127 : NextTimestamp(a * 128, l) = a * 128 + l
BY DEF NextTimestamp

\* A sequence with an element is not empty.
LEMMA NotEmpty ==
  ASSUME NEW S, NEW s \in Seq(S), Len(s) >= 1
  PROVE  s # <<>>
OBVIOUS

\* A time is a number.
LEMMA NextTimestampType ==
  \A t \in Nat, l \in 0..127 : NextTimestamp(t, l) \in Nat
<1> SUFFICES ASSUME NEW t \in Nat, NEW l \in 0..127 PROVE NextTimestamp(t, l) \in Nat
  OBVIOUS
<1> QED BY DEF NextTimestamp

\* One byte of a packet, by the result of PullByte.
LEMMA RxStepFact ==
  ASSUME NEW q \in Readings, NEW b \in Byte
  PROVE  /\ RxStep(b)[q] \in Readings
         /\ RxStep(b)[q] = [ble |-> PullByte(q.ble, b),
                            rx  |-> IF Returns(q.ble, b) THEN RxByte(q.rx, b, q.ble.timestamp)
                                    ELSE q.rx]
<1>1. q.ble \in [prevWasTimestamp : BOOLEAN, timestamp : Nat] /\ q.rx \in Receivers
      /\ q.ble.timestamp \in Nat
  BY DEF Readings
<1>2. b % 128 \in 0..127
  BY DEF Byte
<1>3. PullByte(q.ble, b) \in [prevWasTimestamp : BOOLEAN, timestamp : Nat]
  <2>1. CASE Returns(q.ble, b)
    BY <1>1, <2>1 DEF PullByte
  <2>2. CASE ~Returns(q.ble, b)
    <3> DEFINE l == b % 128
    <3>1. NextTimestamp(q.ble.timestamp, l) \in Nat
      <4>1. l \in 0..127
        BY <1>2
      <4> HIDE DEF l
      <4> QED BY <1>1, <4>1, NextTimestampType
    <3> QED BY <2>2, <3>1 DEF PullByte
  <2> QED BY <2>1, <2>2
<1>4. RxByte(q.rx, b, q.ble.timestamp) \in Receivers
  BY <1>1, RxByteType
<1> QED BY <1>1, <1>3, <1>4 DEF RxStep, Readings

\* Where the reader of a packet begins.
LEMMA OpenPacketType ==
  ASSUME NEW bytes \in Seq(Byte)
  PROVE  OpenPacket(bytes) \in [prevWasTimestamp : BOOLEAN, timestamp : Nat]
<1>1. CASE Len(bytes) < 2
  BY <1>1 DEF OpenPacket
<1>2. CASE Len(bytes) >= 2
  <2>1. bytes[1] \in Nat /\ bytes[2] \in Nat
    <3>1. bytes[1] \in Byte /\ bytes[2] \in Byte
      BY <1>2
    <3> QED BY <3>1, ByteFact
  <2> QED BY <1>2, <2>1 DEF OpenPacket
<1> QED BY <1>1, <1>2

\* The reader of a packet has a type, however far it is,
LEMMA RxThroughType ==
  ASSUME NEW r \in Receivers, NEW bytes \in Seq(Byte), NEW i \in 0..Len(bytes)
  PROVE  RxThrough(r, bytes)[i] \in Readings
<1> DEFINE f == RxThrough(r, bytes)
           T == {n \in Nat : n <= Len(bytes) => f[n] \in Readings}
<1>1. [ble |-> OpenPacket(bytes), rx |-> r] \in Readings
  BY OpenPacketType DEF Readings
<1>2. Len(bytes) \in Nat /\ Skipped(bytes) \in Nat
  BY DEF Skipped
<1>3. 0 \in T
  BY <1>1, <1>2, RxThroughStep
<1>4. ASSUME NEW n \in Nat, n \in T PROVE n + 1 \in T
  <2> SUFFICES ASSUME n + 1 <= Len(bytes) PROVE f[n + 1] \in Readings
    OBVIOUS
  <2>1. f[n] \in Readings /\ bytes[n + 1] \in Byte /\ n + 1 \in 0..Len(bytes)
    BY <1>2, <1>4
  <2>2. f[n + 1] = IF n + 1 <= Skipped(bytes) THEN [ble |-> OpenPacket(bytes), rx |-> r]
                   ELSE RxStep(bytes[n + 1])[f[n]]
    BY <1>2, <2>1, RxThroughStep
  <2> HIDE DEF f
  <2> QED BY <1>1, <2>1, <2>2, RxStepFact
<1>5. Nat \subseteq T
  <2> HIDE DEF T
  <2> QED BY <1>3, <1>4, NatSetInduction
<1> QED BY <1>2, <1>5

\* and so has the receiver of a packet.
LEMMA RxPacketType ==
  ASSUME NEW r \in Receivers, NEW bytes \in Seq(Byte)
  PROVE  RxPacket(r, bytes) \in Receivers
<1>1. RxThrough(r, bytes)[Len(bytes)] \in Readings
  BY RxThroughType
<1> QED BY <1>1 DEF RxPacket, Readings

\* What comes later in a packet does not change what is read before.
LEMMA RxThroughPrefix ==
  ASSUME NEW r, NEW s \in Seq(Byte), NEW u \in Seq(Byte), Len(s) >= 2, s[1] >= 128,
         Len(u) >= Len(s), \A n \in 1..Len(s) : u[n] = s[n], NEW i \in 0..Len(s)
  PROVE  RxThrough(r, u)[i] = RxThrough(r, s)[i]
<1> DEFINE f == RxThrough(r, s)
           g == RxThrough(r, u)
           T == {n \in Nat : n <= Len(s) => g[n] = f[n]}
<1>1. Len(s) \in Nat /\ Len(u) \in Nat
  OBVIOUS
<1>2. u[1] = s[1] /\ u[2] = s[2]
  BY <1>1
<1>3. s[1] \in Byte /\ s[2] \in Byte
  BY <1>1
<1>4. Skipped(u) = Skipped(s) /\ Skipped(s) \in Nat
  <2>1. s[1] \in Nat /\ s[2] \in Nat
    BY <1>3, ByteFact
  <2>2. ~(Len(s) < 2 \/ IsData(s[1])) /\ ~(Len(u) < 2 \/ IsData(u[1]))
    BY <1>1, <1>2, <2>1 DEF IsData
  <2> QED BY <1>2, <2>2 DEF Skipped
<1>5. OpenPacket(u) = OpenPacket(s)
  <2>1. Len(s) >= 2 /\ Len(u) >= 2
    BY <1>1
  <2>2. (Len(s) < 2) = FALSE /\ (Len(u) < 2) = FALSE
    BY <1>1, <2>1
  <2> QED BY <1>2, <2>2 DEF OpenPacket
<1> DEFINE k == Skipped(s)
           start == [ble |-> OpenPacket(s), rx |-> r]
<1>6. \A n \in 0..Len(s) : f[n] = IF n <= k THEN start ELSE RxStep(s[n])[f[n - 1]]
  BY <1>1, RxThroughStep
<1>7. \A n \in 0..Len(s) : g[n] = IF n <= k THEN start ELSE RxStep(u[n])[g[n - 1]]
  BY <1>1, <1>4, <1>5, RxThroughStep
<1>8. k \in Nat
  BY <1>4
<1> HIDE DEF f, g, k, start
<1>9. 0 \in T
  BY <1>1, <1>6, <1>7, <1>8
<1>10. ASSUME NEW n \in Nat, n \in T PROVE n + 1 \in T
  <2> SUFFICES ASSUME n + 1 <= Len(s) PROVE g[n + 1] = f[n + 1]
    OBVIOUS
  <2>1. g[n] = f[n] /\ u[n + 1] = s[n + 1] /\ n + 1 \in 0..Len(s) /\ (n + 1) - 1 = n
    BY <1>1, <1>10
  <2>2. f[n + 1] = IF n + 1 <= k THEN start ELSE RxStep(s[n + 1])[f[n]]
    BY <1>6, <2>1
  <2>3. g[n + 1] = IF n + 1 <= k THEN start ELSE RxStep(u[n + 1])[g[n]]
    BY <1>7, <2>1
  <2> QED BY <2>1, <2>2, <2>3
<1>11. Nat \subseteq T
  <2> HIDE DEF T
  <2> QED BY <1>9, <1>10, NatSetInduction
<1> QED BY <1>1, <1>11 DEF f, g

-------------------------------------------------------------------------------
\* Where a receiver is when it has read what a packet has so far: with a header alone
\* it has not yet read anything, and the time has no low bits.
Cursor(r, buf) ==
  IF Len(buf) < 2
    THEN [ble |-> [prevWasTimestamp |-> FALSE,
                   timestamp |-> IF buf = <<>> THEN 0 ELSE (buf[1] % 128) * 128],
          rx |-> r]
    ELSE RxThrough(r, buf)[Len(buf)]

\* The type of the cursor.
LEMMA CursorType ==
  ASSUME NEW r \in Receivers, NEW buf \in Seq(Byte)
  PROVE  /\ Cursor(r, buf) \in Readings
         /\ Cursor(r, buf).ble \in [prevWasTimestamp : BOOLEAN, timestamp : Nat]
         /\ Cursor(r, buf).ble.timestamp \in Nat /\ Cursor(r, buf).rx \in Receivers
         /\ Cursor(r, buf).rx = RxPacket(r, buf)
<1>1. CASE Len(buf) >= 2
  <2>1. Cursor(r, buf) \in Readings /\ Cursor(r, buf).rx = RxPacket(r, buf)
    BY <1>1, RxThroughType DEF Cursor, RxPacket
  <2> QED BY <2>1 DEF Readings
<1>2. CASE Len(buf) < 2
  <2>1. buf = <<>> \/ buf[1] \in Nat
    <3>1. buf = <<>> \/ buf[1] \in Byte
      BY <1>2
    <3> QED BY <3>1, ByteFact
  <2>2. Cursor(r, buf) \in Readings /\ Cursor(r, buf).rx = r
    BY <1>2, <2>1 DEF Cursor, Readings
  <2>3. Len(buf) <= Skipped(buf)
    BY <1>2 DEF Skipped
  <2>4. RxThrough(r, buf)[Len(buf)] = [ble |-> OpenPacket(buf), rx |-> r]
    <3>1. Len(buf) \in Nat /\ Len(buf) \in 0..Len(buf)
      OBVIOUS
    <3> QED BY <2>3, <3>1, RxThroughStep
  <2>5. RxPacket(r, buf) = r
    BY <2>4 DEF RxPacket
  <2> QED BY <2>2, <2>5 DEF Readings
<1> QED BY <1>1, <1>2

\* A data byte is added to a packet.
LEMMA CursorData ==
  ASSUME NEW r \in Receivers, NEW buf \in Seq(Byte), Len(buf) >= 1, buf[1] >= 128,
         ~Cursor(r, buf).ble.prevWasTimestamp, NEW d \in Byte, d < 128,
         NEW new \in Seq(Byte), Len(new) = Len(buf) + 1, new[Len(buf) + 1] = d,
         \A i \in 1..Len(buf) : new[i] = buf[i]
  PROVE  Cursor(r, new) =
               [ble |-> Cursor(r, buf).ble,
                rx |-> RxByte(Cursor(r, buf).rx, d, Cursor(r, buf).ble.timestamp)]
<1> DEFINE c == Cursor(r, buf)
           n == Len(buf)
           f == RxThrough(r, new)
<1>0. n \in Nat /\ n >= 1
  OBVIOUS
<1>1. /\ new \in Seq(Byte) /\ Len(new) = n + 1 /\ new[n + 1] = d
      /\ \A i \in 1..n : new[i] = buf[i]
  OBVIOUS
<1>2. c \in Readings /\ c.ble \in [prevWasTimestamp : BOOLEAN, timestamp : Nat]
      /\ c.ble.prevWasTimestamp = FALSE
  BY CursorType
<1>3. buf[1] \in Nat /\ d \in Nat /\ new[1] = buf[1]
  <2>1. buf[1] \in Byte
    BY <1>0
  <2> QED BY <1>0, <1>1, <2>1, ByteFact
<1>4. Cursor(r, new) = f[n + 1]
  BY <1>0, <1>1 DEF Cursor
<1>5. \A i \in 0..(n + 1) : f[i] = IF i <= Skipped(new) THEN [ble |-> OpenPacket(new), rx |-> r]
                                   ELSE RxStep(new[i])[f[i - 1]]
  <2>1. Len(new) \in Nat /\ Len(new) = n + 1
    BY <1>0, <1>1
  <2> QED BY <2>1, RxThroughStep
<1>6. CASE n >= 2
  <2>1. Skipped(new) < n + 1 /\ Skipped(new) \in Nat
    BY <1>0, <1>1, <1>3, <1>6 DEF Skipped, IsData
  <2>3. f[n] = c
    <3>1. f[n] = RxThrough(r, buf)[n]
      <4>1. n \in 0..n /\ Len(new) >= n
        BY <1>0, <1>1
      <4> QED BY <1>0, <1>1, <1>6, <4>1, RxThroughPrefix
    <3> QED BY <1>6, <3>1 DEF Cursor
  <2>4. Returns(c.ble, d) /\ PullByte(c.ble, d) = c.ble
    BY <1>2, <1>3 DEF Returns, IsData, PullByte
  <2> HIDE DEF c, f, n
  <2>2. f[n + 1] = RxStep(d)[f[n]]
    <3>1. n + 1 \in 0..(n + 1) /\ (n + 1) - 1 = n /\ ~(n + 1 <= Skipped(new))
      BY <1>0, <2>1
    <3> QED BY <1>1, <1>5, <3>1
  <2>5. f[n + 1] = [ble |-> c.ble, rx |-> RxByte(c.rx, d, c.ble.timestamp)]
    BY <1>2, <2>2, <2>3, <2>4, RxStepFact
  <2> QED BY <1>4, <2>5 DEF c
<1>7. CASE n = 1
  <2> DEFINE high == (buf[1] % 128) * 128
             open == [prevWasTimestamp |-> TRUE, timestamp |-> high]
  <2>1. high \in Nat
    BY <1>3
  <2>2. new[2] = d /\ Len(new) = 2
    BY <1>1, <1>7
  <2>3. Skipped(new) = 1 /\ OpenPacket(new) = open
    <3>1. Len(new) = 2 /\ ~(Len(new) < 2) /\ ~IsData(new[1]) /\ IsData(new[2])
      BY <1>3, <2>2 DEF IsData
    <3> QED BY <1>3, <3>1 DEF Skipped, OpenPacket
  <2>6. [ble |-> open, rx |-> r] \in Readings
    BY <2>1 DEF Readings
  <2>7. Returns(open, d) /\ PullByte(open, d) = [prevWasTimestamp |-> FALSE, timestamp |-> high]
    BY <1>3, <2>1 DEF Returns, IsData, PullByte
  <2>8. c = [ble |-> [prevWasTimestamp |-> FALSE, timestamp |-> high], rx |-> r]
    <3>1. Len(buf) < 2 /\ buf # <<>>
      <4>1. Len(buf) = 1
        BY <1>7
      <4>2. buf # <<>>
        BY <4>1, NotEmpty
      <4> QED BY <4>1, <4>2
    <3> QED BY <3>1 DEF Cursor
  <2> HIDE DEF high, open, f
  <2>4. f[1] = [ble |-> open, rx |-> r]
    <3>1. 1 \in 0..(n + 1) /\ 1 <= 1
      BY <1>7
    <3> QED BY <1>5, <2>3, <3>1
  <2>5. f[2] = RxStep(d)[f[1]]
    <3>1. 2 \in 0..(n + 1) /\ 2 - 1 = 1 /\ ~(2 <= 1)
      BY <1>7
    <3> QED BY <1>5, <2>2, <2>3, <3>1
  <2>9. f[2] = [ble |-> [prevWasTimestamp |-> FALSE, timestamp |-> high],
                rx |-> RxByte(r, d, high)]
    <3>1. open.timestamp = high
      BY DEF open
    <3> QED BY <2>4, <2>5, <2>6, <2>7, <3>1, RxStepFact
  <2>10. n + 1 = 2
    BY <1>7
  <2> HIDE DEF c, n
  <2>11. Cursor(r, new) = [ble |-> c.ble, rx |-> RxByte(c.rx, d, c.ble.timestamp)]
    BY <1>4, <2>8, <2>9, <2>10
  <2> QED BY <2>11 DEF c
<1>8. n = 1 \/ n >= 2
  <2> HIDE DEF n
  <2> QED BY <1>0
<1> QED BY <1>6, <1>7, <1>8

\* A timestamp and another byte are added to a packet.
LEMMA CursorStamped ==
  ASSUME NEW r \in Receivers, NEW buf \in Seq(Byte), Len(buf) >= 1, buf[1] >= 128,
         ~Cursor(r, buf).ble.prevWasTimestamp, NEW s \in Byte, s >= 128, NEW x \in Byte,
         NEW t, t = NextTimestamp(Cursor(r, buf).ble.timestamp, s % 128),
         NEW new \in Seq(Byte), Len(new) = Len(buf) + 2,
         new[Len(buf) + 1] = s, new[Len(buf) + 2] = x,
         \A i \in 1..Len(buf) : new[i] = buf[i]
  PROVE  Cursor(r, new) =
               [ble |-> [prevWasTimestamp |-> FALSE, timestamp |-> t],
                rx |-> RxByte(Cursor(r, buf).rx, x, t)]
<1> DEFINE c == Cursor(r, buf)
           l == s % 128
           n == Len(buf)
           f == RxThrough(r, new)
<1>0. n \in Nat /\ n >= 1
  OBVIOUS
<1>1. s \in Byte /\ s % 128 = l /\ s >= 128 /\ s \in Nat /\ l \in 0..127 /\ ~IsData(s)
  BY StampFact
<1> HIDE DEF l
<1>2. /\ new \in Seq(Byte) /\ Len(new) = n + 2 /\ new[n + 1] = s /\ new[n + 2] = x
      /\ \A i \in 1..n : new[i] = buf[i]
  OBVIOUS
<1>3. buf[1] \in Nat /\ x \in Nat /\ new[1] = buf[1]
  <2>1. buf[1] \in Byte
    BY <1>0
  <2> QED BY <1>0, <1>2, <2>1, ByteFact
<1>4. c \in Readings /\ c.ble \in [prevWasTimestamp : BOOLEAN, timestamp : Nat]
      /\ c.ble.timestamp \in Nat /\ c.rx \in Receivers /\ c.ble.prevWasTimestamp = FALSE
  BY CursorType
<1>5. t \in Nat /\ t = NextTimestamp(c.ble.timestamp, l)
  <2>1. t = NextTimestamp(c.ble.timestamp, l)
    BY DEF l
  <2> QED BY <1>1, <1>4, <2>1, NextTimestampType
<1>6. Cursor(r, new) = f[n + 2]
  BY <1>0, <1>2 DEF Cursor
<1>7. \A i \in 0..(n + 2) : f[i] = IF i <= Skipped(new) THEN [ble |-> OpenPacket(new), rx |-> r]
                                   ELSE RxStep(new[i])[f[i - 1]]
  <2>1. Len(new) \in Nat /\ Len(new) = n + 2
    BY <1>0, <1>2
  <2> QED BY <2>1, RxThroughStep
<1> DEFINE stamped == [prevWasTimestamp |-> TRUE, timestamp |-> t]
<1>8. f[n + 1] = [ble |-> stamped, rx |-> c.rx] /\ n + 1 >= Skipped(new)
  <2>1. CASE n >= 2
    <3>1. Skipped(new) <= n /\ Skipped(new) \in Nat
      BY <1>0, <1>2, <1>3, <2>1 DEF Skipped, IsData
    <3>2. f[n] = c
      <4>1. f[n] = RxThrough(r, buf)[n]
        <5>1. n \in 0..n /\ Len(new) >= n
          BY <1>0, <1>2
        <5> QED BY <1>0, <1>2, <2>1, <5>1, RxThroughPrefix
      <4> QED BY <2>1, <4>1 DEF Cursor
    <3>3. ~Returns(c.ble, s) /\ PullByte(c.ble, s) = stamped
      <4>1. ~Returns(c.ble, s)
        BY <1>1, <1>4 DEF Returns
      <4> QED BY <1>1, <1>5, <4>1 DEF PullByte
    <3> HIDE DEF c, f, n, stamped
    <3>4. f[n + 1] = RxStep(s)[f[n]]
      <4>1. n + 1 \in 0..(n + 2) /\ (n + 1) - 1 = n /\ ~(n + 1 <= Skipped(new))
        BY <1>0, <3>1
      <4> QED BY <1>2, <1>7, <4>1
    <3>5. f[n + 1] = [ble |-> stamped, rx |-> c.rx]
      BY <1>1, <1>4, <3>2, <3>3, <3>4, RxStepFact
    <3> QED BY <1>0, <3>1, <3>5
  <2>2. CASE n = 1
    <3> DEFINE high == (buf[1] % 128) * 128
    <3>1. high \in Nat
      BY <1>3
    <3>2. c = [ble |-> [prevWasTimestamp |-> FALSE, timestamp |-> high], rx |-> r]
      <4>1. Len(buf) < 2 /\ buf # <<>>
        <5>1. Len(buf) = 1
          BY <2>2
        <5>2. buf # <<>>
          BY <5>1, NotEmpty
        <5> QED BY <5>1, <5>2
      <4> QED BY <4>1 DEF Cursor
    <3>3. t = high + l
      <4>1. t = NextTimestamp(high, l)
        BY <1>5, <3>2
      <4>2. \A b \in Nat : b % 128 \in 0..127
        OBVIOUS
      <4>3. \A a \in 0..127 : NextTimestamp(a * 128, l) = a * 128 + l
        BY <1>1, StartFact, ZenonT(30)
      <4> DEFINE b == buf[1]
                 a == b % 128
      <4>4. a \in 0..127
        <5>1. b \in Nat
          BY <1>3
        <5> HIDE DEF b
        <5> QED BY <4>2, <5>1
      <4> HIDE DEF a
      <4>5. NextTimestamp(a * 128, l) = a * 128 + l
        BY <4>3, <4>4
      <4> QED BY <4>1, <4>5 DEF a
    <3>4. Skipped(new) = 2 /\ OpenPacket(new) = stamped
      <4>1. Len(new) = 3 /\ ~(Len(new) < 2) /\ ~IsData(new[1]) /\ ~IsData(new[2]) /\ new[2] = s
        BY <1>1, <1>2, <1>3, <2>2 DEF IsData
      <4> HIDE DEF n, f, c
      <4> QED BY <1>1, <1>3, <3>3, <4>1 DEF Skipped, OpenPacket
    <3> HIDE DEF stamped, f, c, high
    <3>5. f[2] = [ble |-> stamped, rx |-> r]
      <4>1. 2 \in 0..(n + 2) /\ 2 <= 2
        BY <2>2
      <4> QED BY <1>7, <3>4, <4>1
    <3>6. c.rx = r
      BY <3>2
    <3>7. n + 1 = 2
      BY <2>2
    <3> HIDE DEF n
    <3> QED BY <3>4, <3>5, <3>6, <3>7
  <2>3. n = 1 \/ n >= 2
    <3> HIDE DEF n
    <3> QED BY <1>0
  <2> QED BY <2>1, <2>2, <2>3
<1>9. Skipped(new) \in Nat
  BY <1>0, <1>2 DEF Skipped
<1> HIDE DEF f, n, c
<1>10. f[n + 2] = RxStep(x)[f[n + 1]]
  <2>1. n + 2 \in 0..(n + 2) /\ (n + 2) - 1 = n + 1 /\ ~(n + 2 <= Skipped(new))
    BY <1>0, <1>8, <1>9
  <2> QED BY <1>2, <1>7, <2>1
<1>11. Returns(stamped, x) /\ PullByte(stamped, x) = [prevWasTimestamp |-> FALSE, timestamp |-> t]
  BY DEF Returns, PullByte
<1>12. [ble |-> stamped, rx |-> c.rx] \in Readings /\ stamped.timestamp = t
  BY <1>4, <1>5 DEF Readings
<1> HIDE DEF stamped
<1>13. f[n + 2] = [ble |-> [prevWasTimestamp |-> FALSE, timestamp |-> t],
                   rx |-> RxByte(c.rx, x, t)]
  <2> DEFINE w == [ble |-> stamped, rx |-> c.rx]
  <2>1. w \in Readings /\ w.ble = stamped /\ w.rx = c.rx /\ f[n + 1] = w
    BY <1>8, <1>12
  <2> HIDE DEF w
  <2>2. RxStep(x)[w] = [ble |-> PullByte(w.ble, x),
                        rx  |-> IF Returns(w.ble, x) THEN RxByte(w.rx, x, w.ble.timestamp)
                                ELSE w.rx]
    <3>1. x \in Byte
      BY <1>1
    <3> QED BY <2>1, <3>1, RxStepFact
  <2> QED BY <1>10, <1>11, <1>12, <2>1, <2>2
<1> QED BY <1>6, <1>13 DEF c

\* Short sequences.
LEMMA ShortSequences ==
  ASSUME NEW S, NEW m \in Seq(S)
  PROVE  /\ Len(m) = 1 => m = <<m[1]>>
         /\ Len(m) = 2 => m = <<m[1], m[2]>>
         /\ Len(m) = 3 => m = <<m[1], m[2], m[3]>>
<1>1. Len(m) = 1 => m = <<m[1]>>
  OBVIOUS
<1>2. Len(m) = 2 => m = <<m[1], m[2]>>
  OBVIOUS
<1>3. Len(m) = 3 => m = <<m[1], m[2], m[3]>>
  OBVIOUS
<1> QED BY <1>1, <1>2, <1>3

\* A message with data that is not a system exclusive one.
DataMessages ==
  {m \in Seq(Byte) : /\ Len(m) \in {2, 3} /\ Len(m) = DataBytes(m[1]) + 1 /\ HasData(m[1])
                     /\ \A i \in 2..Len(m) : m[i] < 128}

\* Its data are read.
RxData(r, m, time) ==
  IF Len(m) = 2 THEN RxByte(r, m[2], time) ELSE RxByte(RxByte(r, m[2], time), m[3], time)

\* The parts of a message with data.
LEMMA DataMessageFacts ==
  ASSUME NEW m \in DataMessages
  PROVE  /\ m \in Seq(Byte) /\ m[1] \in Byte /\ m[2] \in Byte /\ m[2] < 128 /\ ~IsStatus(m[2])
         /\ HasData(m[1])
         /\ Len(m) = 2 \/ (Len(m) = 3 /\ m[3] \in Byte /\ m[3] < 128 /\ ~IsStatus(m[3]))
         /\ Len(m) = 2 => m = <<m[1], m[2]>> /\ DataBytes(m[1]) = 1
         /\ Len(m) = 3 => m = <<m[1], m[2], m[3]>>
                          /\ DataBytes(m[1]) = 2
<1>1. m \in Seq(Byte) /\ m[1] \in Byte /\ m[2] \in Byte /\ m[2] < 128 /\ HasData(m[1])
  BY DEF DataMessages
<1>2. Len(m) = 2 \/ (Len(m) = 3 /\ m[3] \in Byte /\ m[3] < 128)
  BY DEF DataMessages
<1>3. \A b \in Byte : b < 128 => ~IsStatus(b)
  BY DEF IsStatus, Byte
<1> DEFINE k == DataBytes(m[1])
<1>4. k \in {0, 1, 2}
  BY DEF DataBytes
<1>5. Len(m) = k + 1
  BY DEF DataMessages
<1> HIDE DEF k
<1>6. (Len(m) = 2 => k = 1) /\ (Len(m) = 3 => k = 2)
  BY <1>4, <1>5
<1> QED BY <1>1, <1>2, <1>3, <1>6, ShortSequences DEF k

\* A receiver that has the header of a message reads its data.
LEMMA GotData ==
  ASSUME NEW r \in Receivers, NEW m \in DataMessages, NEW time \in Nat, Ready(r),
         Header(r.parser) = m[1], SysCommonCancels = FALSE
  PROVE  Got(RxData(r, m, time), r, m, time)
<1>1. CASE Len(m) = 2
  <2>1. Got(RxByte(r, m[2], time), r, <<m[1], m[2]>>, time)
    BY <1>1, DataMessageFacts, RxSingle
  <2>2. m = <<m[1], m[2]>> /\ RxData(r, m, time) = RxByte(r, m[2], time)
    BY <1>1, DataMessageFacts DEF RxData
  <2> QED BY <2>1, <2>2
<1>2. CASE Len(m) = 3
  <2> DEFINE q == RxByte(r, m[2], time)
  <2>1. /\ q \in Receivers
        /\ q.parser.storedByte = NoByte
        /\ q.parser.thirdByte = TRUE /\ q.parser.data1 = m[2]
        /\ q.parser.currentHeader = m[1]
        /\ q.parser.runningHeader = r.parser.runningHeader
        /\ q.items = r.items /\ q.partial = r.partial /\ q.clocks = r.clocks
    <3>1. m[2] \in Byte /\ ~IsStatus(m[2]) /\ HasData(m[1]) /\ DataBytes(m[1]) = 2
      BY <1>2, DataMessageFacts
    <3>2. HasData(Header(r.parser)) /\ DataBytes(Header(r.parser)) = 2
      BY <3>1
    <3>3. HasData(Header(r.parser)) /\ DataBytes(Header(r.parser)) = 2 /\ Header(r.parser) = m[1]
      BY <3>2
    <3> DEFINE b == m[2]
    <3>4. b \in Byte /\ ~IsStatus(b)
      BY <3>1
    <3> HIDE DEF b
    <3>5. /\ RxByte(r, b, time) \in Receivers
          /\ RxByte(r, b, time).parser.storedByte = NoByte
          /\ RxByte(r, b, time).parser.thirdByte = TRUE
          /\ RxByte(r, b, time).parser.data1 = b
          /\ RxByte(r, b, time).parser.currentHeader = Header(r.parser)
          /\ RxByte(r, b, time).parser.runningHeader = r.parser.runningHeader
          /\ RxByte(r, b, time).items = r.items
          /\ RxByte(r, b, time).partial = r.partial
          /\ RxByte(r, b, time).clocks = r.clocks
      BY <3>3, <3>4, RxFirst, ZenonT(30)
    <3> QED BY <3>3, <3>5 DEF b
  <2> HIDE DEF q
  <2>2. Got(RxByte(q, m[3], time), q, <<m[1], m[2], m[3]>>, time)
    BY <1>2, <2>1, DataMessageFacts, RxThird, ZenonT(30)
  <2>3. m = <<m[1], m[2], m[3]>> /\ RxData(r, m, time) = RxByte(q, m[3], time)
    BY <1>2, DataMessageFacts DEF RxData, q
  <2>4. Got(RxByte(q, m[3], time), q, m, time)
    BY <2>2, <2>3
  <2> QED BY <2>1, <2>3, <2>4 DEF Got
<1> QED BY <1>1, <1>2, DataMessageFacts

\* A packet that can be added to, and where its receiver is.
Open(r, buf) ==
  /\ buf \in Seq(Byte) /\ Len(buf) >= 1 /\ buf[1] >= 128
  /\ Cursor(r, buf).ble.prevWasTimestamp = FALSE

\* The packet new is buf and more.
Longer(new, buf, n) ==
  new \in Seq(Byte) /\ Len(new) = Len(buf) + n /\ \A i \in 1..Len(buf) : new[i] = buf[i]

\* A data byte is added to a packet that can be added to.
LEMMA OpenData ==
  ASSUME NEW r \in Receivers, NEW buf, Open(r, buf), NEW new, Longer(new, buf, 1),
         NEW d, d = new[Len(buf) + 1], d < 128
  PROVE  /\ Open(r, new)
         /\ Cursor(r, new).ble = Cursor(r, buf).ble
         /\ Cursor(r, new).rx =
              RxByte(Cursor(r, buf).rx, d, Cursor(r, buf).ble.timestamp)
<1>0. buf \in Seq(Byte) /\ Len(buf) \in Nat /\ Len(buf) >= 1
  BY DEF Open
<1>1. new \in Seq(Byte) /\ Len(new) = Len(buf) + 1 /\ \A i \in 1..Len(buf) : new[i] = buf[i]
  BY DEF Longer
<1>2. d \in Byte
  <2>1. Len(buf) + 1 \in 1..Len(new)
    BY <1>0, <1>1
  <2> QED BY <1>1, <2>1
<1>3. Cursor(r, new) = [ble |-> Cursor(r, buf).ble,
                        rx |-> RxByte(Cursor(r, buf).rx, d, Cursor(r, buf).ble.timestamp)]
  <2>1. buf[1] >= 128 /\ ~Cursor(r, buf).ble.prevWasTimestamp
    BY DEF Open
  <2> QED BY <1>0, <1>1, <1>2, <2>1, CursorData
<1>4. Len(new) >= 1 /\ new[1] = buf[1]
  BY <1>0, <1>1
<1> QED BY <1>1, <1>3, <1>4 DEF Open

\* So are a timestamp and another byte.
LEMMA OpenStamped ==
  ASSUME NEW r \in Receivers, NEW buf, Open(r, buf), NEW new, Longer(new, buf, 2),
         NEW s, s = new[Len(buf) + 1], s >= 128, NEW x, x = new[Len(buf) + 2],
         NEW t, t = NextTimestamp(Cursor(r, buf).ble.timestamp, s % 128)
  PROVE  /\ Open(r, new)
         /\ Cursor(r, new).ble.timestamp = t
         /\ Cursor(r, new).rx = RxByte(Cursor(r, buf).rx, x, t)
<1>0. buf \in Seq(Byte) /\ Len(buf) \in Nat /\ Len(buf) >= 1
  BY DEF Open
<1>1. new \in Seq(Byte) /\ Len(new) = Len(buf) + 2 /\ \A i \in 1..Len(buf) : new[i] = buf[i]
  BY DEF Longer
<1>2. x \in Byte /\ s \in Byte
  <2>1. Len(buf) + 2 \in 1..Len(new) /\ Len(buf) + 1 \in 1..Len(new)
    BY <1>0, <1>1
  <2> QED BY <1>1, <2>1
<1>3. Cursor(r, new) = [ble |-> [prevWasTimestamp |-> FALSE, timestamp |-> t],
                        rx |-> RxByte(Cursor(r, buf).rx, x, t)]
  <2>1. buf[1] >= 128 /\ ~Cursor(r, buf).ble.prevWasTimestamp
    BY DEF Open
  <2>2. Len(new) = Len(buf) + 2 /\ \A i \in 1..Len(buf) : new[i] = buf[i]
    BY <1>1
  <2> QED BY <1>0, <1>1, <1>2, <2>1, <2>2, CursorStamped
<1>4. Len(new) >= 1 /\ new[1] = buf[1]
  BY <1>0, <1>1
<1> QED BY <1>1, <1>3, <1>4 DEF Open

\* The packet new is the packet one and what m has after its first data byte.
EndsWith(new, one, m) ==
  Longer(new, one, Len(m) - 2) /\ (Len(m) = 3 => new[Len(one) + 1] = m[3])

\* So are the data of a message behind the first byte of them.
LEMMA OpenTail ==
  ASSUME NEW r \in Receivers, NEW m \in DataMessages, NEW one, Open(r, one),
         NEW new, EndsWith(new, one, m), NEW q, NEW t \in Nat,
         Cursor(r, one).rx = RxByte(q, m[2], t), Cursor(r, one).ble.timestamp = t
  PROVE  /\ Open(r, new)
         /\ Cursor(r, new).ble = Cursor(r, one).ble
         /\ Cursor(r, new).rx = RxData(q, m, t)
<1>0. one \in Seq(Byte) /\ Len(one) \in Nat /\ Len(one) >= 1
  BY DEF Open
<1>1. CASE Len(m) = 2
  <2>1. new = one
    <3>1. new \in Seq(Byte) /\ Len(new) = Len(one) /\ \A i \in 1..Len(one) : new[i] = one[i]
      BY <1>0, <1>1 DEF Longer, EndsWith
    <3> QED BY <1>0, <3>1, SeqEqual
  <2> QED BY <1>1, <2>1 DEF RxData
<1>2. CASE Len(m) = 3
  <2>1. Longer(new, one, 1) /\ new[Len(one) + 1] = m[3] /\ m[3] < 128
    BY <1>2, DataMessageFacts DEF EndsWith
  <2>2. /\ Open(r, new) /\ Cursor(r, new).ble = Cursor(r, one).ble
        /\ Cursor(r, new).rx = RxByte(Cursor(r, one).rx, m[3], t)
    BY <2>1, OpenData
  <2> QED BY <1>2, <2>2 DEF RxData
<1> QED BY <1>1, <1>2, DataMessageFacts
===============================================================================
