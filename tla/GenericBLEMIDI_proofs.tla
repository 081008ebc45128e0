------------------------ MODULE GenericBLEMIDI_proofs -------------------------
(***************************************************************************)
(* Whatever is sent is read with the same bytes, in the same order and     *)
(* with the time at which it was sent (ReadsWhatWasSent and                *)
(* TimestampsRight of GenericBLEMIDI_Interface), for every size of packets *)
(* and of the receiver's buffer, and for every sequence of messages,       *)
(* however it is split over packets.                                       *)
(*                                                                         *)
(* The inductive invariant is TypeInv and ReadInv: a receiver that read    *)
(* the packet that is being built would have read what was sent (Matches), *)
(* would have the packet's running status (InStep) and know its time       *)
(* (Told), and what is left of a system exclusive message is what its      *)
(* receiver waits for.  Neither property is inductive without these: a     *)
(* message is added with or without its header and its timestamp,          *)
(* according to what the packet says, and is read right only by a receiver *)
(* that has the same header and time.                                      *)
(***************************************************************************)
EXTENDS BLEMIDIReader_proofs

-------------------------------------------------------------------------------
(***************************************************************************)
(* Packets and timestamps                                                  *)
(***************************************************************************)
\* The capacities that a packet can have.
Capacities == {m - 3 : m \in MTUs \cup {DefaultMTU, NoForce}}

\* A packet is empty, or begins with a header and has something in it.
BuilderOK(b) ==
  /\ b \in Builders(Capacities)
  /\ Len(b.buffer) <= b.capacity
  /\ b.buffer = <<>> => b.runningHeader = 0
  /\ b.buffer # <<>> => Len(b.buffer) >= 2 /\ b.buffer[1] >= 128

\* The running status of the packet is that of the receiver.
InStep(b, c) ==
  /\ c.ble.prevWasTimestamp = FALSE
  /\ b.runningHeader # 0 =>
       /\ IsChannel(b.runningHeader)
       /\ c.rx.parser.currentHeader = 0 /\ c.rx.parser.runningHeader = b.runningHeader
       /\ \/ b.runningTimestamp = 0
          \/ (c.ble.timestamp % 128) + 128 = b.runningTimestamp

\* The times that the protocol transmits, in two parts.
Stamps  == 0..8191
High(t) == t \div 128
Low(t)  == t % 128

\* The time that the packet tells before a message sent at time t.
StartTime(b, c, t) == IF b.buffer = <<>> THEN High(t) * 128 ELSE c.ble.timestamp

\* The packet gets a new status byte or timestamp.
Adds(old, new) == \E i \in 2..Len(new) : i > Len(old) /\ IsStatus(new[i])

\* A packet has room for a header, a timestamp and a message.
LEMMA CapacitiesType == \A k \in Capacities : k \in Nat /\ k >= 5
<1>1. \A m \in MTUs \cup {DefaultMTU, NoForce} : m \in Nat /\ m >= 8
  BY GenericBLEAssumption DEF NoForce
<1> QED BY <1>1 DEF Capacities

\* The fields of a packet builder.
LEMMA BuilderFields ==
  ASSUME NEW b \in Builders(Capacities)
  PROVE  /\ b.buffer \in Seq(Byte) /\ Len(b.buffer) \in Nat
         /\ b.capacity \in Capacities /\ b.capacity \in Nat /\ b.capacity >= 5
         /\ b.runningHeader \in Byte /\ b.runningTimestamp \in Byte
<1>1. /\ b.buffer \in Seq(Byte)
      /\ b.capacity \in Capacities
      /\ b.runningHeader \in Byte /\ b.runningTimestamp \in Byte
  BY DEF Builders, Byte
<1> QED BY <1>1, CapacitiesType

\* The high part of a time has 6 bits,
LEMMA HighType ==
  ASSUME NEW t \in Stamps
  PROVE  High(t) \in 0..63
<1>0. t \in 0..8191
  BY DEF Stamps
<1>1. t \div 128 <= 63
  BY <1>0
<1>2. t \div 128 >= 0
  BY <1>0
<1>3. t \div 128 \in Int
  BY <1>0
<1> QED BY <1>1, <1>2, <1>3 DEF High

\* and the low part 7.
LEMMA LowType ==
  ASSUME NEW t \in Stamps
  PROVE  Low(t) \in 0..127
<1>0. t \in 0..8191
  BY DEF Stamps
<1> QED BY <1>0 DEF Low

\* The time by its parts.
LEMMA HighLow ==
  ASSUME NEW t \in Stamps
  PROVE  t = High(t) * 128 + Low(t)
<1>0. t \in 0..8191
  BY DEF Stamps
<1>1. t = (t \div 128) * 128 + (t % 128)
  BY <1>0
<1> QED BY <1>1 DEF High, Low

\* The header byte of a packet.
LEMMA MSBFacts ==
  ASSUME NEW t \in Stamps
  PROVE  /\ TimestampMSB(t) \in Byte /\ TimestampMSB(t) >= 128
         /\ TimestampMSB(t) % 128 = High(t)
<1>1. High(t) \in 0..63
  BY HighType
<1>2. TimestampMSB(t) = 128 + (High(t) % 64)
  BY DEF TimestampMSB, High
<1>3. High(t) % 64 = High(t) /\ (128 + High(t)) % 128 = High(t)
      /\ 128 + High(t) \in Byte /\ 128 + High(t) >= 128
  BY <1>1 DEF Byte
<1> QED BY <1>2, <1>3

\* The timestamp of a message.
LEMMA LSBFacts ==
  ASSUME NEW t \in Stamps
  PROVE  /\ TimestampLSB(t) \in Byte /\ TimestampLSB(t) >= 128
         /\ TimestampLSB(t) % 128 = Low(t)
         /\ TimestampLSB(t) = 128 + Low(t)
<1>1. Low(t) \in 0..127
  BY LowType
<1>2. TimestampLSB(t) = 128 + Low(t)
  BY DEF TimestampLSB, Low
<1>3. (128 + Low(t)) % 128 = Low(t) /\ 128 + Low(t) \in Byte /\ 128 + Low(t) >= 128
  BY <1>1 DEF Byte
<1> QED BY <1>2, <1>3

\* A packet that is prepared for a message sent at time t.
LEMMA InitFacts ==
  ASSUME NEW r \in Receivers, NEW b, BuilderOK(b), NEW c, c = Cursor(r, b.buffer),
         InStep(b, c), NEW t \in Stamps, NEW i, i = InitBuffer(b, t)
  PROVE  /\ Open(r, i.buffer)
         /\ i \in Builders(Capacities) /\ i.capacity = b.capacity
         /\ i.runningHeader = b.runningHeader /\ i.runningTimestamp = b.runningTimestamp
         /\ Len(i.buffer) <= i.capacity
         /\ Cursor(r, i.buffer).rx = c.rx
         /\ Cursor(r, i.buffer).ble.timestamp = StartTime(b, c, t)
         /\ b.buffer # <<>> => i = b /\ Len(i.buffer) >= 2
         /\ b.buffer = <<>> => Len(i.buffer) = 1 /\ i.capacity - Len(i.buffer) >= 4
                               /\ i.runningHeader = 0
         /\ \A j \in Nat : j >= 2 /\ j > Len(b.buffer) <=> j > Len(i.buffer)
<1>0. /\ b \in Builders(Capacities) /\ Len(b.buffer) <= b.capacity
      /\ b.buffer \in Seq(Byte) /\ Len(b.buffer) \in Nat
      /\ b.capacity \in Nat /\ b.capacity >= 5
  BY BuilderFields DEF BuilderOK
<1>1. CASE b.buffer # <<>>
  <2>1. i = b /\ Len(b.buffer) >= 2 /\ b.buffer[1] >= 128
    BY <1>1 DEF InitBuffer, BuilderOK
  <2>2. StartTime(b, c, t) = c.ble.timestamp
    BY <1>1 DEF StartTime
  <2>3. Open(r, b.buffer)
    BY <1>0, <2>1 DEF Open, InStep
  <2> QED BY <1>0, <1>1, <2>1, <2>2, <2>3
<1>2. CASE b.buffer = <<>>
  <2> DEFINE h == TimestampMSB(t)
             s == <<h>>
             d == High(t) * 128
  <2>1. h \in Byte /\ h >= 128 /\ (h % 128) * 128 = d
    BY MSBFacts
  <2>2. i = [b EXCEPT !.buffer = s]
    BY <1>2 DEF InitBuffer
  <2>9. StartTime(b, c, t) = d
    BY <1>2 DEF StartTime
  <2> HIDE DEF h, d
  <2>3. s \in Seq(Byte) /\ Len(s) = 1 /\ s[1] = h /\ s # <<>> /\ Len(b.buffer) = 0
    BY <1>2, <2>1
  <2> HIDE DEF s
  <2>4. /\ i \in Builders(Capacities) /\ i.capacity = b.capacity /\ i.buffer = s
        /\ i.runningHeader = b.runningHeader /\ i.runningTimestamp = b.runningTimestamp
    <3>1. b \in [buffer : Seq(Byte), capacity : Capacities, runningHeader : Byte,
                 runningTimestamp : Byte]
      BY <1>0 DEF Builders, Byte
    <3>2. /\ i \in [buffer : Seq(Byte), capacity : Capacities, runningHeader : Byte,
                 runningTimestamp : Byte]
          /\ i.capacity = b.capacity /\ i.buffer = s
          /\ i.runningHeader = b.runningHeader /\ i.runningTimestamp = b.runningTimestamp
      BY <2>2, <2>3, <3>1
    <3> QED BY <3>2 DEF Builders, Byte
  <2>5. Cursor(r, s) = [ble |-> [prevWasTimestamp |-> FALSE, timestamp |-> d],
                        rx |-> r]
    <3>1. Len(s) < 2 /\ s # <<>> /\ (s[1] % 128) * 128 = d
      BY <2>1, <2>3
    <3>2. Len(s) < 2 /\ s # <<>>
      BY <3>1
    <3>3. Cursor(r, s) = [ble |-> [prevWasTimestamp |-> FALSE,
                                   timestamp |-> (s[1] % 128) * 128], rx |-> r]
      BY <3>2 DEF Cursor
    <3> QED BY <3>1, <3>3
  <2>6. c.rx = r
    BY <1>2, <2>3 DEF Cursor
  <2>7. b.runningHeader = 0
    BY <1>2 DEF BuilderOK
  <2>8. Open(r, s)
    BY <2>1, <2>3, <2>5 DEF Open
  <2>10. \A j \in Nat : j >= 2 /\ j > Len(b.buffer) <=> j > Len(i.buffer)
    <3>1. Len(i.buffer) = 1 /\ Len(b.buffer) = 0
      BY <2>3, <2>4
    <3> QED BY <3>1
  <2> QED BY <1>0, <1>2, <2>3, <2>4, <2>5, <2>6, <2>7, <2>8, <2>9, <2>10
<1> QED BY <1>1, <1>2

-------------------------------------------------------------------------------
(***************************************************************************)
(* Messages that are not system exclusive                                  *)
(***************************************************************************)
\* The part of a packet up to k bytes behind buf.
Part(new, buf, k) == SubSeq(new, 1, Len(buf) + k)

\* The packet is longer than buf and shorter than new.
LEMMA PartFacts ==
  ASSUME NEW buf \in Seq(Byte), NEW n \in Nat, NEW new, Longer(new, buf, n),
         NEW k \in Nat, k <= n
  PROVE  /\ Longer(Part(new, buf, k), buf, k) /\ Longer(new, Part(new, buf, k), n - k)
         /\ Part(new, buf, k) \in Seq(Byte) /\ Len(Part(new, buf, k)) = Len(buf) + k
         /\ \A j \in 1..(Len(buf) + k) : Part(new, buf, k)[j] = new[j]
<1> DEFINE one == Part(new, buf, k)
<1>1. Len(buf) \in Nat /\ new \in Seq(Byte) /\ Len(new) = Len(buf) + n
      /\ \A i \in 1..Len(buf) : new[i] = buf[i]
  BY DEF Longer
<1>2. Len(buf) + k \in Nat /\ Len(buf) + k <= Len(new)
  BY <1>1
<1>3. /\ one \in Seq(Byte) /\ Len(one) = Len(buf) + k
      /\ \A j \in 1..(Len(buf) + k) : one[j] = new[j]
  BY <1>1, <1>2 DEF Part
<1> HIDE DEF one
<1>4. Longer(one, buf, k)
  BY <1>1, <1>3 DEF Longer
<1>5. Longer(new, one, n - k)
  BY <1>1, <1>3 DEF Longer
<1> QED BY <1>3, <1>4, <1>5 DEF one

\* The header of a message with data.
LEMMA HeaderFacts ==
  \A h \in Byte : HasData(h) /\ DataBytes(h) # 0 =>
     /\ IsStatus(h) /\ h < TimingClock /\ h \notin {TuneRequest, SysExStart, SysExEnd}
     /\ h # 0 /\ ~IsStatus(0)
BY DEF IsStatus, TimingClock, TuneRequest, SysExStart, SysExEnd, HasData, Byte,
       IsChannel, IsSysCommon, DataBytes, SongPosition, SongSelect

\* A packet gets the data of a message after what tells its header.
LEMMA TailRead ==
  ASSUME NEW r \in Receivers, NEW m \in DataMessages, NEW one, Open(r, one),
         NEW new, EndsWith(new, one, m),
         NEW q \in Receivers, Ready(q), Header(q.parser) = m[1],
         Cursor(r, one).rx = RxByte(q, m[2], Cursor(r, one).ble.timestamp),
         SysCommonCancels = FALSE
  PROVE  /\ Open(r, new)
         /\ Cursor(r, new).ble.timestamp = Cursor(r, one).ble.timestamp
         /\ Got(Cursor(r, new).rx, q, m, Cursor(r, one).ble.timestamp)
<1> DEFINE t == Cursor(r, one).ble.timestamp
<1>0. t \in Nat
  BY CursorType DEF Open
<1>1. /\ Open(r, new) /\ Cursor(r, new).ble = Cursor(r, one).ble
      /\ Cursor(r, new).rx = RxData(q, m, t)
  BY <1>0, OpenTail
<1>3. Got(RxData(q, m, t), q, m, t)
  <2> HIDE DEF t
  <2> QED BY <1>0, GotData
<1> QED BY <1>1, <1>3

\* The packet new is buf and the data of m.
AddsData(new, buf, m) ==
  /\ Longer(new, buf, Len(m) - 1)
  /\ \A j \in 1..(Len(m) - 1) : new[Len(buf) + j] = m[j + 1]

\* The packet new is buf, a timestamp and the data of m.
AddsStampedData(new, buf, l, m) ==
  /\ Longer(new, buf, Len(m)) /\ new[Len(buf) + 1] = l
  /\ \A j \in 2..Len(m) : new[Len(buf) + j] = m[j]

\* The packet new is buf, a timestamp and m.
AddsStamped(new, buf, l, m) ==
  /\ Longer(new, buf, Len(m) + 1) /\ new[Len(buf) + 1] = l
  /\ \A j \in 1..Len(m) : new[Len(buf) + 1 + j] = m[j]

\* The data of a message are added behind its header, or with the running status.
LEMMA DataAdded ==
  ASSUME NEW r \in Receivers, NEW m \in DataMessages, NEW buf, Open(r, buf),
         NEW new, AddsData(new, buf, m),
         Ready(Cursor(r, buf).rx), Header(Cursor(r, buf).rx.parser) = m[1],
         SysCommonCancels = FALSE
  PROVE  /\ Open(r, new)
         /\ Cursor(r, new).ble.timestamp = Cursor(r, buf).ble.timestamp
         /\ Got(Cursor(r, new).rx, Cursor(r, buf).rx, m, Cursor(r, buf).ble.timestamp)
<1> DEFINE c == Cursor(r, buf)
           n == Len(m) - 1
           one == Part(new, buf, 1)
<1>0. /\ buf \in Seq(Byte) /\ Len(buf) \in Nat /\ Len(buf) >= 1
      /\ Len(m) \in {2, 3} /\ m[2] < 128 /\ c.rx \in Receivers /\ c.ble.timestamp \in Nat
  BY DataMessageFacts, CursorType DEF Open
<1>n. n \in Nat /\ 1 \in Nat /\ 1 <= n /\ Longer(new, buf, n) /\ n - 1 = Len(m) - 2
      /\ new[Len(buf) + 1] = m[2] /\ (Len(m) = 3 => new[Len(buf) + 2] = m[3])
  BY <1>0 DEF AddsData
<1> HIDE DEF n
<1>1. /\ Longer(one, buf, 1) /\ Longer(new, one, n - 1)
      /\ one \in Seq(Byte) /\ Len(one) = Len(buf) + 1
      /\ \A j \in 1..(Len(buf) + 1) : one[j] = new[j]
  BY <1>0, <1>n, PartFacts
<1> HIDE DEF one
<1>2. one[Len(buf) + 1] = m[2]
  BY <1>0, <1>1, <1>n
<1>3. /\ Open(r, one) /\ Cursor(r, one).ble = c.ble
      /\ Cursor(r, one).rx = RxByte(c.rx, m[2], c.ble.timestamp)
  BY <1>0, <1>1, <1>2, OpenData
<1>4. EndsWith(new, one, m)
  BY <1>0, <1>1, <1>n DEF EndsWith
<1> DEFINE q == c.rx
<1>5. q \in Receivers /\ Ready(q) /\ Header(q.parser) = m[1]
      /\ Cursor(r, one).ble.timestamp = c.ble.timestamp
      /\ Cursor(r, one).rx = RxByte(q, m[2], Cursor(r, one).ble.timestamp)
  BY <1>0, <1>3
<1> HIDE DEF c, q
<1>6. /\ Open(r, new) /\ Cursor(r, new).ble.timestamp = c.ble.timestamp
      /\ Got(Cursor(r, new).rx, q, m, c.ble.timestamp)
  BY <1>3, <1>4, <1>5, TailRead
<1> QED BY <1>6 DEF c, q

\* The time after a timestamp byte.
Advanced(c, l) == NextTimestamp(c.ble.timestamp, l % 128)

\* The time after a timestamp byte is a number.
LEMMA AdvancedType ==
  ASSUME NEW r \in Receivers, NEW buf, Open(r, buf), NEW l \in Byte, l >= 128
  PROVE  Advanced(Cursor(r, buf), l) \in Nat
<1> DEFINE t == Cursor(r, buf).ble.timestamp
           low == l % 128
<1>1. t \in Nat /\ low \in 0..127
  BY CursorType, StampFact DEF Open
<1> HIDE DEF t, low
<1>2. NextTimestamp(t, low) \in Nat
  BY <1>1, NextTimestampType
<1> QED BY <1>2 DEF Advanced, t, low

\* A timestamp and another byte.
LEMMA StampedRead ==
  ASSUME NEW r \in Receivers, NEW buf, Open(r, buf), NEW l \in Byte, l >= 128, NEW x,
         NEW new, Longer(new, buf, 2), new[Len(buf) + 1] = l, new[Len(buf) + 2] = x
  PROVE  /\ Open(r, new)
         /\ Cursor(r, new).ble.timestamp = Advanced(Cursor(r, buf), l)
         /\ Cursor(r, new).rx = RxByte(Cursor(r, buf).rx, x, Advanced(Cursor(r, buf), l))
<1> DEFINE t == NextTimestamp(Cursor(r, buf).ble.timestamp, l % 128)
<1>1. t = Advanced(Cursor(r, buf), l)
  BY DEF Advanced
<1>2. /\ Open(r, new) /\ Cursor(r, new).ble.timestamp = t
      /\ Cursor(r, new).rx = RxByte(Cursor(r, buf).rx, x, t)
  BY OpenStamped
<1> QED BY <1>1, <1>2

\* A timestamp and the data of a message are added, with the running status.
LEMMA StampedDataAdded ==
  ASSUME NEW r \in Receivers, NEW m \in DataMessages, NEW buf, Open(r, buf),
         NEW l \in Byte, l >= 128, NEW new, AddsStampedData(new, buf, l, m),
         Ready(Cursor(r, buf).rx), Header(Cursor(r, buf).rx.parser) = m[1],
         SysCommonCancels = FALSE
  PROVE  /\ Open(r, new) /\ Cursor(r, new).ble.timestamp = Advanced(Cursor(r, buf), l)
         /\ Got(Cursor(r, new).rx, Cursor(r, buf).rx, m, Advanced(Cursor(r, buf), l))
<1> DEFINE n == Len(m)
           one == Part(new, buf, 2)
           q == Cursor(r, buf).rx
           t == Advanced(Cursor(r, buf), l)
<1>0. /\ buf \in Seq(Byte) /\ Len(buf) \in Nat /\ Len(buf) >= 1
      /\ Len(m) \in {2, 3} /\ m[2] < 128 /\ q \in Receivers
  BY DataMessageFacts, CursorType DEF Open
<1>n. n \in Nat /\ 2 \in Nat /\ 2 <= n /\ Longer(new, buf, n) /\ n - 2 = Len(m) - 2
      /\ new[Len(buf) + 1] = l /\ new[Len(buf) + 2] = m[2]
      /\ (Len(m) = 3 => new[Len(buf) + 3] = m[3])
  BY <1>0 DEF AddsStampedData
<1> HIDE DEF n
<1>1. /\ Longer(one, buf, 2) /\ Longer(new, one, n - 2)
      /\ one \in Seq(Byte) /\ Len(one) = Len(buf) + 2
      /\ \A j \in 1..(Len(buf) + 2) : one[j] = new[j]
  BY <1>0, <1>n, PartFacts
<1> HIDE DEF one
<1>2. one[Len(buf) + 1] = l /\ one[Len(buf) + 2] = m[2]
  BY <1>0, <1>1, <1>n
<1>3. /\ Open(r, one) /\ Cursor(r, one).ble.timestamp = t
      /\ Cursor(r, one).rx = RxByte(q, m[2], t)
  BY <1>1, <1>2, StampedRead
<1>4. EndsWith(new, one, m)
  BY <1>0, <1>1, <1>n DEF EndsWith
<1> HIDE DEF q, t
<1>5. Ready(q) /\ Header(q.parser) = m[1]
  BY DEF q
<1>6. /\ Open(r, new) /\ Cursor(r, new).ble.timestamp = t /\ Got(Cursor(r, new).rx, q, m, t)
  BY <1>0, <1>3, <1>4, <1>5, TailRead
<1> QED BY <1>6 DEF q, t

\* A timestamp and a whole message are added.
LEMMA MessageAdded ==
  ASSUME NEW r \in Receivers, NEW m \in DataMessages, NEW buf, Open(r, buf),
         NEW l \in Byte, l >= 128, NEW new, AddsStamped(new, buf, l, m),
         Ready(Cursor(r, buf).rx),
         Cursor(r, buf).rx.parser.currentHeader # SysExStart,
         SysCommonCancels = FALSE
  PROVE  /\ Open(r, new) /\ Cursor(r, new).ble.timestamp = Advanced(Cursor(r, buf), l)
         /\ Got(Cursor(r, new).rx, Cursor(r, buf).rx, m, Advanced(Cursor(r, buf), l))
<1> DEFINE n == Len(m) + 1
           h == m[1]
           two == Part(new, buf, 2)
           q == Cursor(r, buf).rx
           t == Advanced(Cursor(r, buf), l)
           p == RxByte(q, h, t)
<1>0. /\ buf \in Seq(Byte) /\ Len(buf) \in Nat /\ Len(buf) >= 1
      /\ Len(m) \in {2, 3} /\ h \in Byte /\ HasData(h) /\ m[2] < 128
  BY DataMessageFacts DEF Open
<1>q. q \in Receivers /\ t \in Nat /\ q.parser.storedByte = NoByte
      /\ q.parser.currentHeader # SysExStart
  BY <1>0, CursorType, AdvancedType DEF Ready
<1>n. n \in Nat /\ 2 \in Nat /\ 2 <= n /\ Longer(new, buf, n) /\ n - 2 = Len(m) - 1
      /\ new[Len(buf) + 1] = l /\ new[Len(buf) + 2] = h
      /\ new[Len(buf) + 3] = m[2] /\ (Len(m) = 3 => new[Len(buf) + 4] = m[3])
  <2>1. /\ Longer(new, buf, n) /\ new[Len(buf) + 1] = l
        /\ \A j \in 1..Len(m) : new[Len(buf) + 1 + j] = m[j]
    BY DEF AddsStamped
  <2>2. new[Len(buf) + 1 + 1] = m[1] /\ new[Len(buf) + 1 + 2] = m[2]
        /\ (Len(m) = 3 => new[Len(buf) + 1 + 3] = m[3])
    BY <1>0, <2>1
  <2>3. Len(buf) + 1 + 1 = Len(buf) + 2 /\ Len(buf) + 1 + 2 = Len(buf) + 3
        /\ Len(buf) + 1 + 3 = Len(buf) + 4
    BY <1>0
  <2> QED BY <1>0, <2>1, <2>2, <2>3
<1> HIDE DEF n
<1>1. /\ Longer(two, buf, 2) /\ Longer(new, two, n - 2)
      /\ two \in Seq(Byte) /\ Len(two) = Len(buf) + 2
      /\ \A j \in 1..(Len(buf) + 2) : two[j] = new[j]
  <2>1. n \in Nat /\ 2 \in Nat /\ 2 <= n /\ Longer(new, buf, n) /\ buf \in Seq(Byte)
    BY <1>0, <1>n
  <2> QED BY <2>1, PartFacts, SMTT(30)
<1> HIDE DEF two
<1>2. two[Len(buf) + 1] = l /\ two[Len(buf) + 2] = h
  BY <1>0, <1>1, <1>n
<1>h. /\ IsStatus(h) /\ h < TimingClock /\ h # TuneRequest /\ h # SysExStart
      /\ h # SysExEnd /\ h # 0
  BY <1>0, DataMessageFacts, HeaderFacts
<1> HIDE DEF h
<1>3. /\ Open(r, two) /\ Cursor(r, two).ble.timestamp = t /\ Cursor(r, two).rx = p
  BY <1>1, <1>2, StampedRead
<1> HIDE DEF q, t
<1>4. /\ p \in Receivers /\ Ready(p) /\ p.parser.currentHeader = h
      /\ p.items = q.items /\ p.clocks = q.clocks /\ p.partial = q.partial
      /\ p.parser.runningHeader = q.parser.runningHeader
  BY <1>0, <1>q, <1>h, RxStatus
<1> HIDE DEF p
<1>5. Header(p.parser) = m[1]
  BY <1>4, <1>h DEF Header, h
<1>6. AddsData(new, two, m)
  <2>1. Longer(new, two, Len(m) - 1)
    BY <1>n, <1>1
  <2>2. ASSUME NEW j \in 1..(Len(m) - 1) PROVE new[Len(two) + j] = m[j + 1]
    <3>1. CASE j = 1
      BY <1>0, <1>1, <1>n, <3>1
    <3>2. CASE j = 2 /\ Len(m) = 3
      BY <1>0, <1>1, <1>n, <3>2
    <3>3. Len(m) = 2 => j = 1
      OBVIOUS
    <3>4. Len(m) = 3 => j = 1 \/ j = 2
      OBVIOUS
    <3> QED BY <1>0, <3>1, <3>2, <3>3, <3>4
  <2> QED BY <2>1, <2>2 DEF AddsData
<1>7. /\ Open(r, new) /\ Cursor(r, new).ble.timestamp = t
      /\ Got(Cursor(r, new).rx, p, m, t)
  <2>1. Ready(Cursor(r, two).rx) /\ Header(Cursor(r, two).rx.parser) = m[1]
    BY <1>3, <1>4, <1>5
  <2> QED BY <1>3, <1>6, <2>1, DataAdded
<1>8. Got(Cursor(r, new).rx, q, m, t)
  BY <1>4, <1>7 DEF Got
<1> QED BY <1>7, <1>8 DEF q, t

\* How the receiver tells the time of what the packet got: from a new timestamp, or from
\* the one that the packet had.
Stamped(b, n, c, c2, t) ==
  IF Adds(b.buffer, n.buffer)
    THEN c2.ble.timestamp = NextTimestamp(StartTime(b, c, t), Low(t))
    ELSE c2.ble.timestamp = StartTime(b, c, t)

\* The next time with a low part has that low part, and 14 bits.
LEMMA NextLow ==
  ASSUME NEW t \in Stamps, NEW time \in Nat
  PROVE  /\ NextTimestamp(time, Low(t)) \in Nat /\ NextTimestamp(time, Low(t)) < 16384
         /\ NextTimestamp(time, Low(t)) % 128 = Low(t)
<1> DEFINE low == Low(t)
<1>1. low \in 0..127
  BY LowType
<1> HIDE DEF low
<1>2. /\ NextTimestamp(time, low) \in Nat /\ NextTimestamp(time, low) < 16384
      /\ NextTimestamp(time, low) % 128 = low
  BY <1>1 DEF NextTimestamp
<1> QED BY <1>2 DEF low

\* The builder b has become n, and the receiver reads the message m in addition.
Accepted(r, b, n, m, t) ==
  /\ BuilderOK(n) /\ n.buffer # <<>> /\ InStep(n, Cursor(r, n.buffer))
  /\ Got(Cursor(r, n.buffer).rx, Cursor(r, b.buffer).rx, m, Cursor(r, n.buffer).ble.timestamp)
  /\ Stamped(b, n, Cursor(r, b.buffer), Cursor(r, n.buffer), t)
  /\ ~Adds(b.buffer, n.buffer) =>
       b.buffer # <<>> /\ Cursor(r, b.buffer).ble.timestamp % 128 = Low(t)

\* A packet to which bytes are added.
LEMMA ConcatLonger ==
  ASSUME NEW buf \in Seq(Byte), NEW bytes \in Seq(Byte)
  PROVE  /\ buf \o bytes \in Seq(Byte)
         /\ Longer(buf \o bytes, buf, Len(bytes))
         /\ \A j \in 1..Len(bytes) : (buf \o bytes)[Len(buf) + j] = bytes[j]
<1>1. buf \o bytes \in Seq(Byte) /\ Len(buf \o bytes) = Len(buf) + Len(bytes)
  OBVIOUS
<1>2. \A j \in 1..Len(buf) : (buf \o bytes)[j] = buf[j]
  OBVIOUS
<1>3. \A j \in 1..Len(bytes) : (buf \o bytes)[Len(buf) + j] = bytes[j]
  OBVIOUS
<1> QED BY <1>1, <1>2, <1>3 DEF Longer

\* A timestamp in front of what is added.
LEMMA WithTimestamp ==
  ASSUME NEW l \in Byte, NEW s \in Seq(Byte)
  PROVE  /\ <<l>> \o s \in Seq(Byte) /\ Len(<<l>> \o s) = Len(s) + 1 /\ (<<l>> \o s)[1] = l
         /\ \A j \in 1..Len(s) : (<<l>> \o s)[j + 1] = s[j]
<1>1. <<l>> \in Seq(Byte) /\ Len(<<l>>) = 1 /\ <<l>>[1] = l
  OBVIOUS
<1> DEFINE u == <<l>>
<1> HIDE DEF u
<1>2. u \o s \in Seq(Byte) /\ Len(u \o s) = Len(s) + 1 /\ (u \o s)[1] = l
      /\ \A j \in 1..Len(s) : (u \o s)[j + 1] = s[j]
  <2>1. u \in Seq(Byte) /\ Len(u) = 1 /\ u[1] = l /\ Len(s) \in Nat
    BY <1>1 DEF u
  <2>2. /\ u \o s \in Seq(Byte) /\ Longer(u \o s, u, Len(s))
        /\ \A j \in 1..Len(s) : (u \o s)[Len(u) + j] = s[j]
    BY <2>1, ConcatLonger
  <2>3. (u \o s)[1] = l /\ Len(u \o s) = Len(s) + 1
    BY <2>1, <2>2 DEF Longer
  <2>4. ASSUME NEW j \in 1..Len(s) PROVE (u \o s)[j + 1] = s[j]
    <3>1. j + 1 = Len(u) + j
      BY <2>1
    <3> QED BY <2>2, <3>1
  <2> QED BY <2>2, <2>3, <2>4
<1> QED BY <1>2 DEF u

\* A message behind its header.
LEMMA TailFacts ==
  ASSUME NEW s \in Seq(Byte), s # <<>>
  PROVE  /\ Tail(s) \in Seq(Byte) /\ Len(Tail(s)) = Len(s) - 1 /\ Head(s) = s[1]
         /\ \A j \in 1..(Len(s) - 1) : Tail(s)[j] = s[j + 1]
OBVIOUS

\* A builder whose packet and running status are replaced.
With(b, new, h, l) == [b EXCEPT !.buffer = new, !.runningHeader = h, !.runningTimestamp = l]

\* It is a builder.
LEMMA BuilderWith ==
  ASSUME NEW b \in Builders(Capacities),
         NEW new \in Seq(Byte), Len(new) <= b.capacity, Len(new) >= 2, new[1] >= 128,
         NEW h \in Byte, NEW l \in Byte
  PROVE  /\ BuilderOK(With(b, new, h, l)) /\ With(b, new, h, l).buffer = new
         /\ With(b, new, h, l).runningHeader = h
         /\ With(b, new, h, l).runningTimestamp = l
         /\ With(b, new, h, l).capacity = b.capacity /\ new # <<>>
<1> DEFINE n == With(b, new, h, l)
<1>1. /\ n \in Builders(Capacities) /\ n.buffer = new /\ n.runningHeader = h
      /\ n.runningTimestamp = l /\ n.capacity = b.capacity
  BY DEF Builders, Byte, With
<1>2. new # <<>>
  OBVIOUS
<1> HIDE DEF n
<1>3. BuilderOK(n)
  BY <1>1, <1>2 DEF BuilderOK
<1> QED BY <1>1, <1>2, <1>3 DEF n

\* The packet of a channel message.
LEMMA AddChannel ==
  ASSUME NEW r \in Receivers, NEW b, BuilderOK(b), InStep(b, Cursor(r, b.buffer)),
         NEW t \in Stamps, NEW m \in DataMessages, IsChannel(m[1]),
         Ready(Cursor(r, b.buffer).rx),
         Cursor(r, b.buffer).rx.parser.currentHeader # SysExStart,
         SysCommonCancels = FALSE
  PROVE  /\ AddImpl(b, m, t).rest = <<>>
         /\ \/ /\ AddImpl(b, m, t).ok = FALSE /\ AddImpl(b, m, t).builder = b
               /\ b.buffer # <<>>
            \/ /\ AddImpl(b, m, t).ok = TRUE
               /\ Accepted(r, b, AddImpl(b, m, t).builder, m, t)
<1> DEFINE c == Cursor(r, b.buffer)
           i == InitBuffer(b, t)
           l == TimestampLSB(t)
           q == c.rx
           d == Cursor(r, i.buffer)
           ts == StartTime(b, c, t)
           bytes == IF Head(m) # i.runningHeader THEN <<l>> \o m
                    ELSE IF l # i.runningTimestamp THEN <<l>> \o Tail(m) ELSE Tail(m)
           new == i.buffer \o bytes
           n == With(i, new, Head(m), l)
           e == Cursor(r, new)
<1>1. AddImpl(b, m, t) = IF Len(bytes) > Room(i) THEN Refused(i) ELSE Added(n)
  BY DEF AddImpl, With
<1>2. /\ Open(r, i.buffer)
      /\ i \in Builders(Capacities) /\ i.capacity = b.capacity
      /\ i.runningHeader = b.runningHeader /\ i.runningTimestamp = b.runningTimestamp
      /\ Len(i.buffer) <= i.capacity
      /\ d.rx = q /\ d.ble.timestamp = ts
      /\ b.buffer # <<>> => i = b /\ Len(i.buffer) >= 2
      /\ b.buffer = <<>> => Len(i.buffer) = 1 /\ i.capacity - Len(i.buffer) >= 4
                            /\ i.runningHeader = 0
      /\ \A j \in Nat : j >= 2 /\ j > Len(b.buffer) <=> j > Len(i.buffer)
  BY InitFacts
<1>3. /\ m \in Seq(Byte) /\ m[1] \in Byte /\ Len(m) \in {2, 3} /\ Head(m) = m[1]
      /\ Tail(m) \in Seq(Byte) /\ Len(Tail(m)) = Len(m) - 1 /\ HasData(m[1])
      /\ \A j \in 1..(Len(m) - 1) : Tail(m)[j] = m[j + 1]
  <2>1. m \in Seq(Byte) /\ m[1] \in Byte /\ Len(m) \in {2, 3} /\ HasData(m[1])
    BY DataMessageFacts
  <2>2. m # <<>>
    BY <2>1
  <2> QED BY <2>1, <2>2, TailFacts
<1>4. l \in Byte /\ l >= 128 /\ l % 128 = Low(t) /\ l = 128 + Low(t) /\ Low(t) \in 0..127
  BY LSBFacts, LowType
<1>5. /\ i.buffer \in Seq(Byte) /\ Len(i.buffer) \in Nat /\ Len(i.buffer) >= 1
      /\ i.buffer[1] >= 128 /\ i.capacity \in Nat /\ q \in Receivers
  <2>1. i.buffer \in Seq(Byte) /\ Len(i.buffer) \in Nat /\ i.capacity \in Nat
    BY <1>2, BuilderFields
  <2>2. Len(i.buffer) >= 1 /\ i.buffer[1] >= 128
    BY <1>2 DEF Open
  <2>3. q \in Receivers
    <3>1. b.buffer \in Seq(Byte)
      BY BuilderFields DEF BuilderOK
    <3> QED BY <3>1, CursorType
  <2> QED BY <2>1, <2>2, <2>3
<1> HIDE DEF i, l, d, ts, q
<1>6. bytes \in Seq(Byte) /\ Len(bytes) \in 1..4
  <2>1. <<l>> \o m \in Seq(Byte) /\ Len(<<l>> \o m) = Len(m) + 1
    BY <1>3, <1>4, WithTimestamp
  <2>2. <<l>> \o Tail(m) \in Seq(Byte) /\ Len(<<l>> \o Tail(m)) = Len(m)
    <3>1. <<l>> \o Tail(m) \in Seq(Byte) /\ Len(<<l>> \o Tail(m)) = Len(Tail(m)) + 1
      BY <1>3, <1>4, WithTimestamp
    <3> QED BY <1>3, <3>1
  <2> DEFINE x == <<l>> \o m  y == <<l>> \o Tail(m)
  <2>3. x \in Seq(Byte) /\ Len(x) = Len(m) + 1 /\ y \in Seq(Byte) /\ Len(y) = Len(m)
    BY <2>1, <2>2
  <2>4. bytes = IF Head(m) # i.runningHeader THEN x
                ELSE IF l # i.runningTimestamp THEN y ELSE Tail(m)
    OBVIOUS
  <2>5. bytes = x \/ bytes = y \/ bytes = Tail(m)
    BY <2>4
  <2>6. x \in Seq(Byte) /\ Len(x) \in 1..4
    <3> HIDE DEF x
    <3> QED BY <1>3, <2>3
  <2>7. y \in Seq(Byte) /\ Len(y) \in 1..4
    <3> HIDE DEF y
    <3> QED BY <1>3, <2>3
  <2>8. Tail(m) \in Seq(Byte) /\ Len(Tail(m)) \in 1..4
    BY <1>3
  <2> HIDE DEF x, y, bytes
  <2> QED BY <2>5, <2>6, <2>7, <2>8
<1>c. Len(bytes) \in Nat /\ Len(bytes) >= 1
  <2> DEFINE x == Len(bytes)
  <2>1. x \in 1..4
    BY <1>6
  <2> HIDE DEF x
  <2>2. x \in Nat /\ x >= 1
    BY <2>1
  <2> QED BY <2>2 DEF x
<1>7. CASE Len(bytes) > Room(i)
  <2>1. b.buffer # <<>>
    <3> SUFFICES ASSUME b.buffer = <<>> PROVE FALSE
      OBVIOUS
    <3>1. i.capacity - Len(i.buffer) >= 4
      BY <1>2
    <3> HIDE DEF bytes
    <3>2. Len(bytes) \in 1..4 /\ i.capacity \in Nat /\ Len(i.buffer) \in Nat
      BY <1>5, <1>6
    <3>3. Len(bytes) > i.capacity - Len(i.buffer)
      BY <1>7 DEF Room
    <3> DEFINE x == Len(bytes)  y == Len(i.buffer)  z == i.capacity
    <3>4. x \in 1..4 /\ y \in Nat /\ z \in Nat /\ z - y >= 4 /\ x > z - y
      BY <3>1, <3>2, <3>3
    <3> HIDE DEF x, y, z
    <3> QED BY <3>4
  <2>2. AddImpl(b, m, t) = Refused(b)
    BY <1>1, <1>2, <1>7, <2>1
  <2> QED BY <2>1, <2>2 DEF Refused
<1>8. CASE ~(Len(bytes) > Room(i))
  <2>1. AddImpl(b, m, t) = Added(n)
    BY <1>1, <1>8
  <2>2. /\ new \in Seq(Byte) /\ Longer(new, i.buffer, Len(bytes))
        /\ \A j \in 1..Len(bytes) : new[Len(i.buffer) + j] = bytes[j]
        /\ Len(new) >= 2 /\ new[1] >= 128 /\ Len(new) <= i.capacity
        /\ Len(new) = Len(i.buffer) + Len(bytes)
    <3> HIDE DEF bytes
    <3>1. /\ new \in Seq(Byte) /\ Longer(new, i.buffer, Len(bytes))
          /\ \A j \in 1..Len(bytes) : new[Len(i.buffer) + j] = bytes[j]
      BY <1>5, <1>6, ConcatLonger
    <3> HIDE DEF new
    <3>2. Len(new) = Len(i.buffer) + Len(bytes) /\ new[1] = i.buffer[1]
      BY <1>5, <3>1 DEF Longer
    <3> DEFINE x == Len(bytes)
               y == Len(i.buffer)
               z == Len(new)
               k == i.capacity
    <3>3. x \in 1..4 /\ y \in Nat /\ y >= 1 /\ z = y + x /\ k \in Nat /\ ~(x > k - y)
      BY <1>5, <1>6, <1>8, <3>2 DEF Room
    <3>4. new[1] >= 128
      BY <1>5, <3>2
    <3> HIDE DEF x, y, z, k
    <3>5. z >= 2 /\ z <= k
      BY <3>3
    <3> QED BY <3>1, <3>2, <3>4, <3>5 DEF z, k
  <2>3. /\ BuilderOK(n) /\ n.buffer = new /\ n.runningHeader = m[1]
        /\ n.runningTimestamp = l /\ n.buffer # <<>>
    <3> HIDE DEF new, bytes
    <3>1. i \in Builders(Capacities) /\ Head(m) \in Byte /\ l \in Byte
      BY <1>2, <1>3, <1>4
    <3>2. new \in Seq(Byte) /\ Len(new) <= i.capacity /\ Len(new) >= 2 /\ new[1] >= 128
      BY <2>2
    <3> QED BY <1>3, <3>1, <3>2, BuilderWith
  <2>4. /\ Open(r, new) /\ Got(e.rx, q, m, e.ble.timestamp)
        /\ IF Adds(b.buffer, new) THEN e.ble.timestamp = NextTimestamp(ts, Low(t))
           ELSE e.ble.timestamp = ts /\ b.buffer # <<>> /\ ts % 128 = Low(t)
    <3>1. Advanced(d, l) = NextTimestamp(ts, Low(t))
      BY <1>2, <1>4 DEF Advanced
    <3>2. Ready(d.rx) /\ d.rx.parser.currentHeader # SysExStart /\ d.rx = q
      BY <1>2 DEF q
    <3>3. new[Len(i.buffer) + 1] = l => Adds(b.buffer, new)
      <4> DEFINE k == Len(i.buffer) + 1
      <4>1. k \in 2..Len(new) /\ k > Len(i.buffer)
        <5> DEFINE x == Len(bytes)  y == Len(i.buffer)  z == Len(new)
        <5>1. x \in 1..4 /\ y \in Nat /\ y >= 1 /\ z = y + x /\ k = y + 1
          BY <1>5, <1>6, <2>2
        <5>2. k \in 2..z /\ k > y
          <6> HIDE DEF x, y, z, k
          <6> QED BY <5>1
        <5> QED BY <5>2
      <4>2. k > Len(b.buffer)
        <5>1. k \in Nat /\ k >= 2
          BY <1>5
        <5>2. \A j \in Nat : j >= 2 /\ j > Len(b.buffer) <=> j > Len(i.buffer)
          BY <1>2
        <5> HIDE DEF k
        <5> QED BY <4>1, <5>1, <5>2
      <4>3. IsStatus(l)
        BY <1>4 DEF IsStatus
      <4> HIDE DEF new, k
      <4>4. k \in 2..Len(new) /\ k > Len(b.buffer) /\ (new[k] = l => IsStatus(new[k]))
        BY <4>1, <4>2, <4>3
      <4> QED BY <4>4 DEF Adds, k
    <3>4. m[1] = i.runningHeader => Header(q.parser) = m[1] /\ b.buffer # <<>>
      <4>1. m[1] # 0
        BY DEF IsChannel
      <4>2. b.runningHeader # 0 => q.parser.currentHeader = 0
                                   /\ q.parser.runningHeader = b.runningHeader
        BY DEF InStep, q
      <4>3. b.buffer = <<>> => b.runningHeader = 0
        BY DEF BuilderOK
      <4>4. i.runningHeader = b.runningHeader
        BY <1>2
      <4> QED BY <4>1, <4>2, <4>3, <4>4 DEF Header
    <3>5. CASE m[1] # i.runningHeader
      <4>1. bytes = <<l>> \o m
        BY <1>3, <3>5
      <4>2. AddsStamped(new, i.buffer, l, m)
        <5>1. /\ Len(bytes) = Len(m) + 1 /\ bytes[1] = l
              /\ \A j \in 1..Len(m) : bytes[j + 1] = m[j]
          BY <1>3, <1>4, <4>1, WithTimestamp
        <5> HIDE DEF new, bytes
        <5>2. new[Len(i.buffer) + 1] = l
          <6>1. 1 \in 1..Len(bytes)
            BY <1>c
          <6> QED BY <2>2, <5>1, <6>1
        <5>3. ASSUME NEW j \in 1..Len(m) PROVE new[Len(i.buffer) + 1 + j] = m[j]
          <6>1. j + 1 \in 1..Len(bytes) /\ Len(i.buffer) + 1 + j = Len(i.buffer) + (j + 1)
            <7> DEFINE x == Len(m)  y == Len(i.buffer)
            <7>1. x \in Nat /\ y \in Nat /\ j \in 1..x /\ Len(bytes) = x + 1
              BY <1>3, <1>5, <5>1
            <7>2. j + 1 \in 1..(x + 1) /\ y + 1 + j = y + (j + 1)
              <8> HIDE DEF x, y
              <8> QED BY <7>1
            <7> QED BY <7>1, <7>2
          <6>2. new[Len(i.buffer) + (j + 1)] = bytes[j + 1]
            BY <2>2, <6>1
          <6> QED BY <5>1, <6>1, <6>2
        <5>4. Longer(new, i.buffer, Len(m) + 1)
          BY <2>2, <5>1
        <5> QED BY <5>2, <5>3, <5>4 DEF AddsStamped
      <4>3. /\ Open(r, new) /\ e.ble.timestamp = Advanced(d, l)
            /\ Got(e.rx, d.rx, m, Advanced(d, l))
        <5>1. Open(r, i.buffer) /\ l \in Byte /\ l >= 128
          BY <1>2, <1>4
        <5>2. Ready(Cursor(r, i.buffer).rx)
              /\ Cursor(r, i.buffer).rx.parser.currentHeader # SysExStart
          BY <3>2 DEF d
        <5> HIDE DEF new, bytes
        <5> QED BY <4>2, <5>1, <5>2, MessageAdded DEF d
      <4>4. Adds(b.buffer, new)
        BY <3>3, <4>2 DEF AddsStamped
      <4> HIDE DEF new, e
      <4> QED BY <3>1, <3>2, <4>3, <4>4
    <3>6. CASE m[1] = i.runningHeader /\ l # i.runningTimestamp
      <4>1. bytes = <<l>> \o Tail(m)
        BY <1>3, <3>6
      <4>2. AddsStampedData(new, i.buffer, l, m)
        <5> DEFINE u == Tail(m)
        <5>0. u \in Seq(Byte) /\ Len(u) = Len(m) - 1 /\ \A j \in 1..(Len(m) - 1) : u[j] = m[j + 1]
              /\ Len(m) \in {2, 3} /\ bytes = <<l>> \o u
          BY <1>3, <4>1
        <5>a. bytes = <<l>> \o u
          BY <4>1
        <5> HIDE DEF u
        <5>1. /\ Len(bytes) = Len(m) /\ bytes[1] = l
              /\ \A j \in 1..Len(u) : bytes[j + 1] = u[j]
          <6> DEFINE v == <<l>> \o u
          <6>1. Len(v) = Len(u) + 1 /\ v[1] = l /\ \A j \in 1..Len(u) : v[j + 1] = u[j]
            BY <1>4, <5>0, WithTimestamp
          <6> HIDE DEF bytes
          <6>2. bytes = v
            BY <5>a
          <6> HIDE DEF v, bytes, new
          <6>3. Len(v) = Len(m)
            BY <5>0, <6>1
          <6> QED BY <6>1, <6>2, <6>3
        <5> HIDE DEF new, bytes
        <5>2. new[Len(i.buffer) + 1] = l
          <6>1. 1 \in 1..Len(bytes)
            BY <1>c
          <6> QED BY <2>2, <5>1, <6>1
        <5>3. ASSUME NEW j \in 2..Len(m) PROVE new[Len(i.buffer) + j] = m[j]
          <6>1. j \in 1..Len(bytes) /\ j - 1 \in 1..(Len(m) - 1) /\ (j - 1) + 1 = j
                /\ j - 1 \in 1..Len(u)
            BY <5>0, <5>1
          <6>2. new[Len(i.buffer) + j] = bytes[j]
            BY <2>2, <6>1
          <6>3. bytes[(j - 1) + 1] = u[j - 1] /\ u[j - 1] = m[(j - 1) + 1]
            BY <5>0, <5>1, <6>1
          <6> QED BY <6>1, <6>2, <6>3
        <5>4. Longer(new, i.buffer, Len(m))
          BY <2>2, <5>1
        <5> QED BY <5>2, <5>3, <5>4 DEF AddsStampedData
      <4>3. /\ Open(r, new) /\ e.ble.timestamp = Advanced(d, l)
            /\ Got(e.rx, d.rx, m, Advanced(d, l))
        <5> HIDE DEF new, bytes
        <5>1. Open(r, i.buffer) /\ l \in Byte /\ l >= 128
          BY <1>2, <1>4
        <5>2. Ready(Cursor(r, i.buffer).rx)
              /\ Header(Cursor(r, i.buffer).rx.parser) = m[1]
          BY <3>2, <3>4, <3>6 DEF d
        <5> QED BY <4>2, <5>1, <5>2, StampedDataAdded DEF d
      <4>4. Adds(b.buffer, new)
        BY <3>3, <4>2 DEF AddsStampedData
      <4> HIDE DEF new, e
      <4> QED BY <3>1, <3>2, <4>3, <4>4
    <3>7. CASE m[1] = i.runningHeader /\ l = i.runningTimestamp
      <4>1. bytes = Tail(m)
        BY <1>3, <3>7
      <4>2. AddsData(new, i.buffer, m)
        <5>1. Len(bytes) = Len(m) - 1 /\ \A j \in 1..(Len(m) - 1) : bytes[j] = m[j + 1]
          BY <1>3, <4>1
        <5> HIDE DEF new, bytes
        <5>2. ASSUME NEW j \in 1..(Len(m) - 1) PROVE new[Len(i.buffer) + j] = m[j + 1]
          BY <2>2, <5>1
        <5>3. Longer(new, i.buffer, Len(m) - 1)
          BY <2>2, <5>1
        <5> QED BY <5>2, <5>3 DEF AddsData
      <4>3. /\ Open(r, new) /\ e.ble.timestamp = ts /\ Got(e.rx, d.rx, m, ts)
        <5> HIDE DEF new, bytes
        <5>1. Header(d.rx.parser) = m[1]
          BY <3>2, <3>4, <3>7
        <5> QED BY <1>2, <3>2, <4>2, <5>1, DataAdded DEF d
      <4>4. ~Adds(b.buffer, new)
        <5> SUFFICES ASSUME NEW k \in 2..Len(new), k > Len(b.buffer), IsStatus(new[k])
                     PROVE FALSE
          BY DEF Adds
        <5> DEFINE x == Len(m)  y == Len(i.buffer)  z == Len(new)
        <5>1. k > y
          BY <1>2
        <5>2. x \in {2, 3} /\ z = y + (x - 1) /\ y \in Nat
          <6>1. Longer(new, i.buffer, Len(m) - 1)
            BY <4>2 DEF AddsData
          <6> HIDE DEF new
          <6> QED BY <1>3, <1>5, <6>1 DEF Longer
        <5>3. k \in 2..z
          OBVIOUS
        <5> DEFINE j == k - y
        <5>4. j \in 1..(x - 1) /\ k = y + j /\ j + 1 \in 2..x
          <6> HIDE DEF x, y, z
          <6> QED BY <5>1, <5>2, <5>3
        <5> HIDE DEF j
        <5>5. new[k] = m[j + 1]
          BY <4>2, <5>4 DEF AddsData
        <5>6. m[j + 1] < 128
          BY <5>4 DEF DataMessages
        <5> HIDE DEF new, x, y, z
        <5>7. m[j + 1] \in Nat
          <6>1. m[j + 1] \in Byte
            BY <1>3, <5>4 DEF x
          <6> QED BY <6>1, ByteFact
        <5> QED BY <5>5, <5>6, <5>7 DEF IsStatus
      <4>5. b.buffer # <<>> /\ ts % 128 = Low(t)
        <5>1. b.buffer # <<>> /\ ts = c.ble.timestamp
          BY <3>4, <3>7 DEF ts, StartTime
        <5>2. b.runningHeader # 0 /\ b.runningTimestamp # 0
          <6>1. b.runningHeader = m[1] /\ b.runningTimestamp = l /\ m[1] # 0
            <7>1. m[1] # 0
              BY DEF IsChannel
            <7>2. m[1] = i.runningHeader /\ l = i.runningTimestamp
                  /\ i.runningHeader = b.runningHeader
                  /\ i.runningTimestamp = b.runningTimestamp
              BY <1>2, <3>7
            <7> QED BY <7>1, <7>2
          <6>2. l # 0
            BY <1>4
          <6> QED BY <6>1, <6>2
        <5>3. (c.ble.timestamp % 128) + 128 = b.runningTimestamp
          BY <5>2 DEF InStep
        <5> DEFINE x == c.ble.timestamp % 128  y == Low(t)
        <5>4. x + 128 = 128 + y /\ y \in 0..127
          BY <1>2, <1>4, <3>7, <5>3
        <5>5. x \in Int
          <6>1. c.ble.timestamp \in Nat
            <7>1. b.buffer \in Seq(Byte)
              BY BuilderFields DEF BuilderOK
            <7> QED BY <7>1, CursorType
          <6> HIDE DEF c
          <6> QED BY <6>1
        <5>6. x = y
          <6> HIDE DEF x, y
          <6> QED BY <5>4, <5>5
        <5> QED BY <5>1, <5>6
      <4> HIDE DEF new, e
      <4> QED BY <3>2, <4>3, <4>4, <4>5
    <3> QED BY <3>5, <3>6, <3>7
  <2>5. (e.ble.timestamp % 128) + 128 = l
    <3>1. e.ble.timestamp % 128 = Low(t)
      <4>1. ts \in Nat
        BY <1>2, CursorType DEF d, Open
      <4>2. NextTimestamp(ts, Low(t)) % 128 = Low(t)
        BY <4>1, NextLow
      <4> HIDE DEF new, e, ts
      <4> QED BY <2>4, <4>2
    <3> DEFINE z == e.ble.timestamp % 128
    <3>2. z = Low(t)
      BY <3>1
    <3> HIDE DEF z
    <3> QED BY <1>4, <3>2 DEF z
  <2>6. InStep(n, Cursor(r, n.buffer))
    <3>1. e.ble.prevWasTimestamp = FALSE
      BY <2>4 DEF Open
    <3>2. e.rx.parser.currentHeader = 0 /\ e.rx.parser.runningHeader = m[1]
      BY <2>4 DEF Got
    <3> HIDE DEF n, new, e
    <3> QED BY <2>3, <2>5, <3>1, <3>2 DEF InStep, e
  <2>7. Accepted(r, b, n, m, t)
    <3> HIDE DEF n, new
    <3>1. ts = c.ble.timestamp \/ b.buffer = <<>>
      BY DEF ts, StartTime
    <3> QED BY <2>3, <2>4, <2>6, <3>1 DEF Accepted, Stamped, ts, q
  <2> HIDE DEF n
  <2> QED BY <2>1, <2>7 DEF Added
<1> QED BY <1>7, <1>8

\* What adding begins with: the packet has a header, and nothing else is new.
LEMMA Begun ==
  ASSUME NEW r \in Receivers, NEW b, BuilderOK(b), InStep(b, Cursor(r, b.buffer)),
         NEW t \in Stamps
  PROVE  /\ Open(r, InitBuffer(b, t).buffer)
         /\ InitBuffer(b, t) \in Builders(Capacities)
         /\ InitBuffer(b, t).capacity = b.capacity
         /\ InitBuffer(b, t).runningHeader = b.runningHeader
         /\ InitBuffer(b, t).runningTimestamp = b.runningTimestamp
         /\ Len(InitBuffer(b, t).buffer) <= b.capacity
         /\ Cursor(r, InitBuffer(b, t).buffer).rx = Cursor(r, b.buffer).rx
         /\ Cursor(r, InitBuffer(b, t).buffer).ble.timestamp
              = StartTime(b, Cursor(r, b.buffer), t)
         /\ b.buffer # <<>> => InitBuffer(b, t) = b /\ Len(b.buffer) >= 2
         /\ b.buffer = <<>> => /\ b.capacity - Len(InitBuffer(b, t).buffer) >= 4
                               /\ Len(InitBuffer(b, t).buffer) = 1
                               /\ b.runningHeader = 0
         /\ \A j \in Nat : j >= 2 /\ j > Len(b.buffer) <=> j > Len(InitBuffer(b, t).buffer)
         /\ InitBuffer(b, t).buffer \in Seq(Byte)
         /\ Len(InitBuffer(b, t).buffer) \in Nat /\ Len(InitBuffer(b, t).buffer) >= 1
         /\ b.capacity \in Nat /\ Cursor(r, b.buffer).rx \in Receivers
         /\ Cursor(r, b.buffer).ble.timestamp \in Nat
         /\ InitBuffer(b, t).buffer[1] >= 128
<1> DEFINE i == InitBuffer(b, t)
           c == Cursor(r, b.buffer)
<1>1. /\ Open(r, i.buffer)
      /\ i \in Builders(Capacities) /\ i.capacity = b.capacity
      /\ i.runningHeader = b.runningHeader /\ i.runningTimestamp = b.runningTimestamp
      /\ Len(i.buffer) <= i.capacity
      /\ Cursor(r, i.buffer).rx = c.rx
      /\ Cursor(r, i.buffer).ble.timestamp = StartTime(b, c, t)
      /\ b.buffer # <<>> => i = b /\ Len(i.buffer) >= 2
      /\ b.buffer = <<>> => Len(i.buffer) = 1 /\ i.capacity - Len(i.buffer) >= 4
                            /\ i.runningHeader = 0
      /\ \A j \in Nat : j >= 2 /\ j > Len(b.buffer) <=> j > Len(i.buffer)
  BY InitFacts
<1>2. b.capacity \in Nat /\ c.rx \in Receivers /\ c.ble.timestamp \in Nat
  <2>1. b.buffer \in Seq(Byte) /\ b.capacity \in Nat
    BY BuilderFields DEF BuilderOK
  <2> QED BY <2>1, CursorType
<1>3. i.buffer \in Seq(Byte) /\ Len(i.buffer) \in Nat
  <2> HIDE DEF i
  <2> QED BY <1>1, BuilderFields
<1>4. Len(i.buffer) >= 1 /\ i.buffer[1] >= 128
  <2> HIDE DEF i
  <2> QED BY <1>1 DEF Open
<1> HIDE DEF i, c
<1>5. Len(i.buffer) <= b.capacity
  BY <1>1
<1>6. b.buffer = <<>> => /\ b.capacity - Len(i.buffer) >= 4 /\ Len(i.buffer) = 1
                         /\ b.runningHeader = 0
  BY <1>1
<1>7. b.buffer # <<>> => i = b /\ Len(b.buffer) >= 2
  BY <1>1
<1> QED BY <1>1, <1>2, <1>3, <1>4, <1>5, <1>6, <1>7 DEF i, c

\* A new timestamp behind the header is an addition.
LEMMA StampAdds ==
  ASSUME NEW r \in Receivers, NEW b, BuilderOK(b), InStep(b, Cursor(r, b.buffer)),
         NEW t \in Stamps, NEW new \in Seq(Byte),
         Len(new) > Len(InitBuffer(b, t).buffer), NEW k \in Nat,
         k > Len(InitBuffer(b, t).buffer), k <= Len(new), new[k] >= 128
  PROVE  Adds(b.buffer, new)
<1> DEFINE y == Len(InitBuffer(b, t).buffer)
<1>1. \A j \in Nat : j >= 2 /\ j > Len(b.buffer) <=> j > y
  BY Begun
<1>2. y \in Nat /\ y >= 1
  BY Begun
<1>3. k > y
  OBVIOUS
<1> HIDE DEF y
<1>4. k >= 2 /\ k > Len(b.buffer)
  BY <1>1, <1>3
<1>5. k \in 2..Len(new)
  BY <1>4
<1>6. IsStatus(new[k])
  BY DEF IsStatus
<1> QED BY <1>4, <1>5, <1>6 DEF Adds

\* A timestamp and other bytes are added.
LEMMA StampedConcat ==
  ASSUME NEW buf \in Seq(Byte), NEW l \in Byte, NEW m \in Seq(Byte)
  PROVE  /\ (buf \o <<l>>) \o m \in Seq(Byte)
         /\ AddsStamped((buf \o <<l>>) \o m, buf, l, m)
<1> DEFINE u == buf \o <<l>>
           new == u \o m
<1>1. u \in Seq(Byte) /\ Len(u) = Len(buf) + 1 /\ u[Len(buf) + 1] = l
      /\ \A j \in 1..Len(buf) : u[j] = buf[j]
  OBVIOUS
<1>2. Len(buf) \in Nat /\ Len(m) \in Nat
  OBVIOUS
<1> HIDE DEF u
<1>3. /\ new \in Seq(Byte) /\ Longer(new, u, Len(m))
      /\ \A j \in 1..Len(m) : new[Len(u) + j] = m[j]
  BY <1>1, ConcatLonger
<1> HIDE DEF new
<1>4. Len(new) = Len(buf) + (Len(m) + 1) /\ \A j \in 1..(Len(buf) + 1) : new[j] = u[j]
  BY <1>1, <1>2, <1>3 DEF Longer
<1>5. new[Len(buf) + 1] = l
  BY <1>1, <1>2, <1>4
<1>6. \A j \in 1..Len(buf) : new[j] = buf[j]
  BY <1>1, <1>2, <1>4
<1>7. Longer(new, buf, Len(m) + 1)
  BY <1>3, <1>4, <1>6 DEF Longer
<1>8. \A j \in 1..Len(m) : new[Len(buf) + 1 + j] = m[j]
  BY <1>1, <1>3
<1>9. AddsStamped(new, buf, l, m)
  BY <1>5, <1>7, <1>8 DEF AddsStamped
<1> QED BY <1>3, <1>9 DEF new, u

\* The packet of a real-time or system common message.
LEMMA SystemAdded ==
  ASSUME NEW r \in Receivers, NEW b, BuilderOK(b), InStep(b, Cursor(r, b.buffer)),
         NEW t \in Stamps, NEW m \in Seq(Byte), Len(m) >= 1, Len(m) <= 3
  PROVE  /\ AddSystem(b, m, t).rest = <<>>
         /\ \/ /\ AddSystem(b, m, t).ok = FALSE /\ AddSystem(b, m, t).builder = b
               /\ b.buffer # <<>>
            \/ /\ AddSystem(b, m, t).ok = TRUE
               /\ BuilderOK(AddSystem(b, m, t).builder)
               /\ AddSystem(b, m, t).builder.runningHeader = b.runningHeader
               /\ AddSystem(b, m, t).builder.runningTimestamp = 0
               /\ AddSystem(b, m, t).builder.buffer # <<>>
               /\ AddsStamped(AddSystem(b, m, t).builder.buffer, InitBuffer(b, t).buffer,
                              TimestampLSB(t), m)
               /\ Adds(b.buffer, AddSystem(b, m, t).builder.buffer)
<1> DEFINE i == InitBuffer(b, t)
           l == TimestampLSB(t)
           new == (i.buffer \o <<l>>) \o m
           n == [i EXCEPT !.buffer = new, !.runningTimestamp = 0]
           buf == i.buffer
<1>1. AddSystem(b, m, t) = IF Len(m) + 1 > Room(i) THEN Refused(i) ELSE Added(n)
  BY DEF AddSystem
<1>2. /\ i \in Builders(Capacities) /\ i.capacity = b.capacity
      /\ i.runningHeader = b.runningHeader
      /\ b.buffer # <<>> => i = b
      /\ b.buffer = <<>> => b.capacity - Len(buf) >= 4
      /\ buf \in Seq(Byte) /\ Len(buf) \in Nat /\ Len(buf) >= 1 /\ buf[1] >= 128
      /\ b.capacity \in Nat
  BY Begun
<1>3. l \in Byte /\ l >= 128
  BY LSBFacts
<1> HIDE DEF l
<1>7. CASE Len(m) + 1 > Room(i)
  <2>1. b.buffer # <<>>
    <3> SUFFICES ASSUME b.buffer = <<>> PROVE FALSE
      OBVIOUS
    <3> DEFINE x == Len(m)  y == Len(buf)  z == b.capacity
    <3>1. x \in Nat /\ x <= 3 /\ y \in Nat /\ z \in Nat /\ z - y >= 4 /\ x + 1 > z - y
      BY <1>2, <1>7 DEF Room
    <3> HIDE DEF x, y, z
    <3> QED BY <3>1
  <2>2. AddSystem(b, m, t) = Refused(b)
    BY <1>1, <1>2, <1>7, <2>1
  <2> QED BY <2>1, <2>2 DEF Refused
<1>8. CASE ~(Len(m) + 1 > Room(i))
  <2>1. AddSystem(b, m, t) = Added(n)
    BY <1>1, <1>8
  <2>2. new \in Seq(Byte) /\ AddsStamped(new, buf, l, m)
    <3> HIDE DEF i
    <3> QED BY <1>2, <1>3, StampedConcat
  <2>3. n.buffer = new /\ n.runningHeader = b.runningHeader /\ n.runningTimestamp = 0
        /\ n.capacity = b.capacity /\ n \in Builders(Capacities)
    <3> HIDE DEF new
    <3>1. new \in Seq(Byte) /\ i \in Builders(Capacities)
          /\ i.runningHeader = b.runningHeader /\ i.capacity = b.capacity
      BY <1>2, <2>2
    <3> HIDE DEF i
    <3>2. i \in [buffer : Seq(Byte), capacity : Capacities, runningHeader : Byte,
                 runningTimestamp : Byte]
      BY <3>1 DEF Builders, Byte
    <3>3. 0 \in Byte
      BY DEF Byte
    <3>4. n.buffer = new /\ n.runningHeader = i.runningHeader /\ n.runningTimestamp = 0
          /\ n.capacity = i.capacity
          /\ n \in [buffer : Seq(Byte), capacity : Capacities, runningHeader : Byte,
                    runningTimestamp : Byte]
      BY <3>1, <3>2, <3>3
    <3> HIDE DEF n
    <3> QED BY <3>1, <3>4 DEF Builders, Byte
  <2> HIDE DEF new
  <2>4. Len(new) = Len(buf) + (Len(m) + 1) /\ new[1] = buf[1] /\ new[Len(buf) + 1] = l
    <3>1. /\ Len(new) = Len(buf) + (Len(m) + 1) /\ \A j \in 1..Len(buf) : new[j] = buf[j]
          /\ new[Len(buf) + 1] = l
      BY <2>2 DEF AddsStamped, Longer
    <3> HIDE DEF i, buf
    <3> QED BY <1>2, <3>1
  <2>5. Len(new) >= 2 /\ Len(new) <= b.capacity /\ new[1] >= 128 /\ new # <<>>
        /\ Len(new) > Len(buf) /\ Len(buf) + 1 <= Len(new)
    <3> DEFINE x == Len(m)  y == Len(buf)  z == b.capacity  u == Len(new)
    <3>1. x \in Nat /\ x >= 1 /\ y \in Nat /\ z \in Nat /\ y >= 1 /\ ~(x + 1 > z - y)
          /\ u = y + (x + 1)
      BY <1>2, <1>8, <2>4 DEF Room
    <3>2. u >= 2 /\ u <= z /\ u > y /\ y + 1 <= u
      <4> HIDE DEF x, y, z, u
      <4> QED BY <3>1
    <3> HIDE DEF x, y, z, i
    <3>3. new # <<>>
      BY <3>2
    <3> QED BY <1>2, <2>4, <3>2, <3>3 DEF y, z
  <2>6. BuilderOK(n) /\ n.buffer # <<>>
    <3> HIDE DEF n
    <3> QED BY <2>3, <2>5 DEF BuilderOK
  <2>7. Adds(b.buffer, new)
    <3> DEFINE k == Len(buf) + 1
    <3>1. k \in Nat /\ k > Len(buf) /\ k <= Len(new) /\ new[k] = l
      <4> HIDE DEF i, buf
      <4> QED BY <1>2, <2>4, <2>5
    <3>2. new[k] >= 128
      BY <1>3, <3>1
    <3> HIDE DEF k
    <3> QED BY <2>2, <2>5, <3>1, <3>2, StampAdds
  <2> HIDE DEF n
  <2>8. Added(n).rest = <<>> /\ Added(n).ok = TRUE /\ Added(n).builder = n
    BY DEF Added
  <2> QED BY <2>1, <2>2, <2>3, <2>6, <2>7, <2>8 DEF l
<1> QED BY <1>7, <1>8

\* The time when the receiver reads it.
LEMMA AdvancedStart ==
  ASSUME NEW r \in Receivers, NEW b, BuilderOK(b), InStep(b, Cursor(r, b.buffer)),
         NEW t \in Stamps
  PROVE  /\ Advanced(Cursor(r, InitBuffer(b, t).buffer), TimestampLSB(t))
              = NextTimestamp(StartTime(b, Cursor(r, b.buffer), t), Low(t))
         /\ StartTime(b, Cursor(r, b.buffer), t) \in Nat
         /\ NextTimestamp(StartTime(b, Cursor(r, b.buffer), t), Low(t)) \in Nat
<1> DEFINE d == Cursor(r, InitBuffer(b, t).buffer)
           s == StartTime(b, Cursor(r, b.buffer), t)
<1>1. d.ble.timestamp = s /\ Open(r, InitBuffer(b, t).buffer)
  BY Begun
<1>2. TimestampLSB(t) % 128 = Low(t)
  BY LSBFacts
<1>3. s \in Nat
  BY <1>1, CursorType DEF Open
<1> HIDE DEF d, s
<1>4. Advanced(d, TimestampLSB(t)) = NextTimestamp(s, Low(t))
  BY <1>1, <1>2 DEF Advanced
<1>5. NextTimestamp(s, Low(t)) \in Nat
  BY <1>3, NextLow
<1> QED BY <1>3, <1>4, <1>5 DEF d, s

\* The builder b has become n, and the receiver reads the real-time message m in addition.
Ticked(r, b, n, m, t) ==
  LET q == Cursor(r, b.buffer).rx
      p == Cursor(r, n.buffer).rx
  IN  /\ BuilderOK(n) /\ n.buffer # <<>> /\ InStep(n, Cursor(r, n.buffer))
      /\ p \in Receivers /\ Ready(p)
      /\ p.parser.currentHeader = q.parser.currentHeader
      /\ p.parser.sysex = q.parser.sysex
      /\ p.items = q.items /\ p.partial = q.partial
      /\ p.clocks = Append(q.clocks, [bytes |-> m, time |-> Cursor(r, n.buffer).ble.timestamp])
      /\ Adds(b.buffer, n.buffer)
      /\ Stamped(b, n, Cursor(r, b.buffer), Cursor(r, n.buffer), t)

\* A timestamp and a message of one byte are added.
LEMMA OneByteRead ==
  ASSUME NEW r \in Receivers, NEW b, BuilderOK(b), InStep(b, Cursor(r, b.buffer)),
         NEW t \in Stamps, NEW m \in Seq(Byte), Len(m) = 1,
         NEW new, AddsStamped(new, InitBuffer(b, t).buffer, TimestampLSB(t), m)
  PROVE  /\ Open(r, new)
         /\ Cursor(r, new).ble.timestamp
              = NextTimestamp(StartTime(b, Cursor(r, b.buffer), t), Low(t))
         /\ Cursor(r, new).rx
              = RxByte(Cursor(r, b.buffer).rx, m[1],
                       NextTimestamp(StartTime(b, Cursor(r, b.buffer), t), Low(t)))
<1> DEFINE buf == InitBuffer(b, t).buffer
           l == TimestampLSB(t)
           x == m[1]
           time == NextTimestamp(StartTime(b, Cursor(r, b.buffer), t), Low(t))
<1>1. Open(r, buf) /\ buf \in Seq(Byte) /\ Len(buf) \in Nat
      /\ Cursor(r, buf).rx = Cursor(r, b.buffer).rx
  BY Begun
<1>2. l \in Byte /\ l >= 128
  BY LSBFacts
<1>3. Longer(new, buf, 2) /\ new[Len(buf) + 1] = l /\ new[Len(buf) + 2] = x
  <2>1. Longer(new, buf, Len(m) + 1) /\ new[Len(buf) + 1] = l
        /\ \A j \in 1..Len(m) : new[Len(buf) + 1 + j] = m[j]
    BY DEF AddsStamped
  <2>2. Longer(new, buf, 2) /\ new[Len(buf) + 1 + 1] = x
    BY <2>1
  <2>3. Len(buf) + 1 + 1 = Len(buf) + 2
    BY <1>1
  <2> QED BY <2>1, <2>2, <2>3
<1>4. Advanced(Cursor(r, buf), l) = time
  BY AdvancedStart
<1> HIDE DEF buf, l, x, time
<1>5. /\ Open(r, new)
      /\ Cursor(r, new).ble.timestamp = Advanced(Cursor(r, buf), l)
      /\ Cursor(r, new).rx = RxByte(Cursor(r, buf).rx, x, Advanced(Cursor(r, buf), l))
  BY <1>1, <1>2, <1>3, StampedRead
<1> QED BY <1>1, <1>4, <1>5 DEF x, time

\* The running status of the receiver is the one that it was.
LEMMA StillInStep ==
  ASSUME NEW b, NEW n, NEW c, NEW c2, InStep(b, c), c2.ble.prevWasTimestamp = FALSE,
         n.runningHeader = b.runningHeader, n.runningTimestamp = 0,
         c.rx.parser.currentHeader = 0 => c2.rx.parser.currentHeader = 0,
         b.runningHeader # 0 => c2.rx.parser.runningHeader = c.rx.parser.runningHeader
  PROVE  InStep(n, c2)
BY DEF InStep

\* A system common message with data.
LEMMA AddSystemData ==
  ASSUME NEW r \in Receivers, NEW b, BuilderOK(b), InStep(b, Cursor(r, b.buffer)),
         NEW t \in Stamps, NEW m \in DataMessages, ~IsChannel(m[1]),
         Ready(Cursor(r, b.buffer).rx),
         Cursor(r, b.buffer).rx.parser.currentHeader # SysExStart,
         SysCommonCancels = FALSE
  PROVE  /\ AddSystem(b, m, t).rest = <<>>
         /\ \/ /\ AddSystem(b, m, t).ok = FALSE /\ AddSystem(b, m, t).builder = b
               /\ b.buffer # <<>>
            \/ /\ AddSystem(b, m, t).ok = TRUE
               /\ Accepted(r, b, AddSystem(b, m, t).builder, m, t)
<1> DEFINE n == AddSystem(b, m, t).builder
           buf == InitBuffer(b, t).buffer
           l == TimestampLSB(t)
           c == Cursor(r, b.buffer)
           e == Cursor(r, n.buffer)
           time == NextTimestamp(StartTime(b, c, t), Low(t))
<1>1. m \in Seq(Byte) /\ Len(m) >= 1 /\ Len(m) <= 3
  <2>1. m \in Seq(Byte) /\ (Len(m) = 2 \/ Len(m) = 3)
    BY DataMessageFacts
  <2> DEFINE k == Len(m)
  <2>2. k = 2 \/ k = 3
    BY <2>1
  <2> HIDE DEF k
  <2>3. k >= 1 /\ k <= 3
    BY <2>2
  <2> QED BY <2>1, <2>3 DEF k
<1>2. /\ AddSystem(b, m, t).rest = <<>>
      /\ \/ /\ AddSystem(b, m, t).ok = FALSE /\ AddSystem(b, m, t).builder = b
            /\ b.buffer # <<>>
         \/ /\ AddSystem(b, m, t).ok = TRUE
            /\ BuilderOK(n)
            /\ n.runningHeader = b.runningHeader
            /\ n.runningTimestamp = 0
            /\ n.buffer # <<>>
            /\ AddsStamped(n.buffer, buf, l, m)
            /\ Adds(b.buffer, n.buffer)
  BY <1>1, SystemAdded
<1> SUFFICES ASSUME BuilderOK(n),
                    n.runningHeader = b.runningHeader,
                    n.runningTimestamp = 0,
                    n.buffer # <<>>,
                    AddsStamped(n.buffer, buf, l, m),
                    Adds(b.buffer, n.buffer)
             PROVE  Accepted(r, b, n, m, t)
  BY <1>2
<1>3. /\ Open(r, buf) /\ Cursor(r, buf).rx = c.rx
  BY Begun
<1>4. l \in Byte /\ l >= 128
  BY LSBFacts
<1>5. Advanced(Cursor(r, buf), l) = time
  BY AdvancedStart
<1> HIDE DEF n, buf, l, time
<1>6. /\ Open(r, n.buffer) /\ e.ble.timestamp = Advanced(Cursor(r, buf), l)
      /\ Got(e.rx, Cursor(r, buf).rx, m, Advanced(Cursor(r, buf), l))
  <2>1. Ready(Cursor(r, buf).rx) /\ Cursor(r, buf).rx.parser.currentHeader # SysExStart
    BY <1>3
  <2> QED BY <1>3, <1>4, <2>1, MessageAdded
<1>7. Got(e.rx, c.rx, m, e.ble.timestamp) /\ e.ble.timestamp = time
  BY <1>3, <1>5, <1>6
<1>8. InStep(n, e)
  <2>1. e.ble.prevWasTimestamp = FALSE
    BY <1>6 DEF Open
  <2>2. e.rx.parser.currentHeader = 0
        /\ e.rx.parser.runningHeader = c.rx.parser.runningHeader
    BY <1>7 DEF Got
  <2> HIDE DEF e, c
  <2> QED BY <2>1, <2>2, StillInStep DEF c
<1> QED BY <1>7, <1>8 DEF Accepted, Stamped, time

\* Tune Request.
LEMMA AddTune ==
  ASSUME NEW r \in Receivers, NEW b, BuilderOK(b), InStep(b, Cursor(r, b.buffer)),
         NEW t \in Stamps, NEW m \in Seq(Byte), Len(m) = 1, m[1] = TuneRequest,
         Ready(Cursor(r, b.buffer).rx),
         Cursor(r, b.buffer).rx.parser.currentHeader # SysExStart,
         SysCommonCancels = FALSE
  PROVE  /\ AddSystem(b, m, t).rest = <<>>
         /\ \/ /\ AddSystem(b, m, t).ok = FALSE /\ AddSystem(b, m, t).builder = b
               /\ b.buffer # <<>>
            \/ /\ AddSystem(b, m, t).ok = TRUE
               /\ Accepted(r, b, AddSystem(b, m, t).builder, m, t)
<1> DEFINE n == AddSystem(b, m, t).builder
           buf == InitBuffer(b, t).buffer
           l == TimestampLSB(t)
           c == Cursor(r, b.buffer)
           e == Cursor(r, n.buffer)
           time == NextTimestamp(StartTime(b, c, t), Low(t))
<1>1. Len(m) >= 1 /\ Len(m) <= 3
  OBVIOUS
<1>2. /\ AddSystem(b, m, t).rest = <<>>
      /\ \/ /\ AddSystem(b, m, t).ok = FALSE /\ AddSystem(b, m, t).builder = b
            /\ b.buffer # <<>>
         \/ /\ AddSystem(b, m, t).ok = TRUE
            /\ BuilderOK(n)
            /\ n.runningHeader = b.runningHeader
            /\ n.runningTimestamp = 0
            /\ n.buffer # <<>>
            /\ AddsStamped(n.buffer, buf, l, m)
            /\ Adds(b.buffer, n.buffer)
  BY <1>1, SystemAdded
<1> SUFFICES ASSUME BuilderOK(n),
                    n.runningHeader = b.runningHeader,
                    n.runningTimestamp = 0,
                    n.buffer # <<>>,
                    AddsStamped(n.buffer, buf, l, m),
                    Adds(b.buffer, n.buffer)
             PROVE  Accepted(r, b, n, m, t)
  BY <1>2
<1> HIDE DEF n
<1>3. Open(r, n.buffer) /\ e.ble.timestamp = time /\ e.rx = RxByte(c.rx, m[1], time)
  BY OneByteRead
<1>4. c.rx \in Receivers /\ time \in Nat
  BY Begun, AdvancedStart
<1> HIDE DEF time, e
<1>5. Got(RxByte(c.rx, TuneRequest, time), c.rx, <<TuneRequest>>, time)
  <2> HIDE DEF c
  <2>1. Ready(c.rx) /\ c.rx.parser.currentHeader # SysExStart
    BY DEF c
  <2> QED BY <1>4, <2>1, RxTune
<1>6. m = <<TuneRequest>>
  BY ShortSequences
<1>7. Got(e.rx, c.rx, m, e.ble.timestamp) /\ e.ble.timestamp = time
  <2> HIDE DEF c
  <2> QED BY <1>3, <1>5, <1>6
<1>8. InStep(n, e)
  <2>1. e.ble.prevWasTimestamp = FALSE
    BY <1>3 DEF Open, e
  <2>2. e.rx.parser.currentHeader = 0
        /\ e.rx.parser.runningHeader = c.rx.parser.runningHeader
    <3>1. ~IsChannel(m[1])
      BY DEF IsChannel, TuneRequest
    <3> QED BY <1>7, <3>1 DEF Got
  <2> HIDE DEF e, c
  <2> QED BY <2>1, <2>2, StillInStep DEF c
<1> QED BY <1>7, <1>8 DEF Accepted, Stamped, time, e

\* A real-time message.
LEMMA AddRealTime ==
  ASSUME NEW r \in Receivers, NEW b, BuilderOK(b), InStep(b, Cursor(r, b.buffer)),
         NEW t \in Stamps, NEW m \in Seq(Byte), Len(m) = 1, m[1] >= TimingClock,
         Ready(Cursor(r, b.buffer).rx)
  PROVE  /\ AddSystem(b, m, t).rest = <<>>
         /\ \/ /\ AddSystem(b, m, t).ok = FALSE /\ AddSystem(b, m, t).builder = b
               /\ b.buffer # <<>>
            \/ /\ AddSystem(b, m, t).ok = TRUE
               /\ Ticked(r, b, AddSystem(b, m, t).builder, m, t)
<1> DEFINE n == AddSystem(b, m, t).builder
           buf == InitBuffer(b, t).buffer
           l == TimestampLSB(t)
           c == Cursor(r, b.buffer)
           e == Cursor(r, n.buffer)
           time == NextTimestamp(StartTime(b, c, t), Low(t))
<1>1. Len(m) >= 1 /\ Len(m) <= 3
  OBVIOUS
<1>2. /\ AddSystem(b, m, t).rest = <<>>
      /\ \/ /\ AddSystem(b, m, t).ok = FALSE /\ AddSystem(b, m, t).builder = b
            /\ b.buffer # <<>>
         \/ /\ AddSystem(b, m, t).ok = TRUE
            /\ BuilderOK(n)
            /\ n.runningHeader = b.runningHeader
            /\ n.runningTimestamp = 0
            /\ n.buffer # <<>>
            /\ AddsStamped(n.buffer, buf, l, m)
            /\ Adds(b.buffer, n.buffer)
  BY <1>1, SystemAdded
<1> SUFFICES ASSUME BuilderOK(n),
                    n.runningHeader = b.runningHeader,
                    n.runningTimestamp = 0,
                    n.buffer # <<>>,
                    AddsStamped(n.buffer, buf, l, m),
                    Adds(b.buffer, n.buffer)
             PROVE  Ticked(r, b, n, m, t)
  BY <1>2
<1> HIDE DEF n
<1>3. Open(r, n.buffer) /\ e.ble.timestamp = time /\ e.rx = RxByte(c.rx, m[1], time)
  BY OneByteRead
<1>4. c.rx \in Receivers /\ time \in Nat
  BY Begun, AdvancedStart
<1> DEFINE x == m[1]  q == c.rx  p == e.rx
<1>5. x \in Byte /\ m = <<x>> /\ x >= TimingClock
  BY ShortSequences
<1>6. p = RxByte(q, x, time) /\ q \in Receivers /\ Ready(q)
  BY <1>3, <1>4
<1> HIDE DEF x, q, p, time
<1>7. /\ p \in Receivers /\ Ready(p)
      /\ p.parser.currentHeader = q.parser.currentHeader
      /\ p.parser.runningHeader = q.parser.runningHeader
      /\ p.parser.sysex = q.parser.sysex
      /\ p.items = q.items /\ p.partial = q.partial
      /\ p.clocks = Append(q.clocks, [bytes |-> <<x>>, time |-> time])
  BY <1>4, <1>5, <1>6, RxRealTime DEF Ready
<1>8. InStep(n, e)
  <2>1. e.ble.prevWasTimestamp = FALSE
    BY <1>3 DEF Open
  <2>2. e.rx.parser.currentHeader = c.rx.parser.currentHeader
        /\ e.rx.parser.runningHeader = c.rx.parser.runningHeader
    BY <1>7 DEF p, q
  <2> HIDE DEF e, c
  <2> QED BY <2>1, <2>2, StillInStep DEF c
<1>9. e.ble.timestamp = time
  BY <1>3
<1> QED BY <1>5, <1>7, <1>8, <1>9 DEF Ticked, Stamped, time, p, q

-------------------------------------------------------------------------------
(***************************************************************************)
(* System exclusive messages, which may be split over packets              *)
(***************************************************************************)
\* The packet new is buf and the first n bytes of data.
AddsRun(new, buf, data, n) ==
  Longer(new, buf, n) /\ \A j \in 1..n : new[Len(buf) + j] = data[j]

\* A receiver in a system exclusive message.
Collecting(q) == q \in Receivers /\ Ready(q) /\ q.parser.currentHeader = SysExStart

\* The receiver reads the data s of a system exclusive message in addition.
Collects(r, buf, new, s) ==
  /\ Open(r, new) /\ Cursor(r, new).ble = Cursor(r, buf).ble
  /\ Collecting(Cursor(r, new).rx)
  /\ Cursor(r, new).rx.items = Cursor(r, buf).rx.items
  /\ Cursor(r, new).rx.clocks = Cursor(r, buf).rx.clocks
  /\ Collected(Cursor(r, new).rx) = Collected(Cursor(r, buf).rx) \o s

\* What has been received of a system exclusive message are bytes.
LEMMA CollectedType ==
  ASSUME NEW q \in Receivers
  PROVE  Collected(q) \in Seq(Byte)
<1>1. q.partial \in Seq(Byte) /\ q.parser.sysex \in Seq(Byte)
  BY DEF Receivers, Parsers
<1> QED BY <1>1 DEF Collected

\* The first n elements of a sequence.
LEMMA PrefixFacts ==
  ASSUME NEW new \in Seq(Byte), NEW k \in Nat, k <= Len(new)
  PROVE  /\ SubSeq(new, 1, k) \in Seq(Byte) /\ Len(SubSeq(new, 1, k)) = k
         /\ \A j \in 1..k : SubSeq(new, 1, k)[j] = new[j]
OBVIOUS

\* And one more.
LEMMA FirstBytes ==
  ASSUME NEW data \in Seq(Byte), NEW k \in Nat, k + 1 <= Len(data)
  PROVE  /\ SubSeq(data, 1, k) \in Seq(Byte)
         /\ SubSeq(data, 1, k + 1) = Append(SubSeq(data, 1, k), data[k + 1])
<1> DEFINE s == SubSeq(data, 1, k)
           u == SubSeq(data, 1, k + 1)
           v == Append(s, data[k + 1])
<1>1. s \in Seq(Byte) /\ Len(s) = k /\ \A j \in 1..k : s[j] = data[j]
  BY PrefixFacts
<1>2. u \in Seq(Byte) /\ Len(u) = k + 1 /\ \A j \in 1..(k + 1) : u[j] = data[j]
  BY PrefixFacts
<1>3. data[k + 1] \in Byte
  OBVIOUS
<1> HIDE DEF s, u
<1>4. v \in Seq(Byte) /\ Len(v) = k + 1 /\ v[k + 1] = data[k + 1]
      /\ \A j \in 1..k : v[j] = s[j]
  BY <1>1, <1>3
<1> HIDE DEF v
<1>5. \A j \in 1..Len(u) : u[j] = v[j]
  BY <1>1, <1>2, <1>4
<1>6. u = v
  BY <1>2, <1>4, <1>5, SeqEqual
<1> QED BY <1>1, <1>6 DEF s, u, v

\* One more byte of a system exclusive message is read.
LEMMA CollectsOne ==
  ASSUME NEW r \in Receivers, NEW buf, Open(r, buf), NEW one, NEW two, Longer(two, one, 1),
         NEW s \in Seq(Byte), Collects(r, buf, one, s), two[Len(one) + 1] < 128,
         Cursor(r, buf).rx \in Receivers
  PROVE  Collects(r, buf, two, Append(s, two[Len(one) + 1]))
<1> DEFINE d == two[Len(one) + 1]
           p == Cursor(r, one).rx
           q == Cursor(r, buf).rx
           time == Cursor(r, one).ble.timestamp
<1>1. Open(r, one) /\ Collecting(p) /\ time \in Nat /\ one \in Seq(Byte) /\ Len(one) \in Nat
  BY CursorType DEF Collects, Open
<1>2. /\ Open(r, two) /\ Cursor(r, two).ble = Cursor(r, one).ble
      /\ Cursor(r, two).rx = RxByte(p, d, time)
  BY <1>1, OpenData
<1>3. d \in Byte /\ ~IsStatus(d)
  <2>1. two \in Seq(Byte) /\ Len(two) = Len(one) + 1
    BY DEF Longer
  <2>2. Len(one) + 1 \in 1..Len(two)
    BY <1>1, <2>1
  <2>3. d \in Byte /\ d < 128
    BY <2>1, <2>2
  <2> HIDE DEF d
  <2> QED BY <2>3 DEF IsStatus, Byte
<1> HIDE DEF d, p, time, q
<1>4. /\ RxByte(p, d, time) \in Receivers /\ Ready(RxByte(p, d, time))
      /\ RxByte(p, d, time).parser.currentHeader = SysExStart
      /\ Collected(RxByte(p, d, time)) = Append(Collected(p), d)
      /\ RxByte(p, d, time).items = p.items /\ RxByte(p, d, time).clocks = p.clocks
  BY <1>1, <1>3, RxSysExData DEF Collecting
<1>5. Collected(p) = Collected(q) \o s /\ p.items = q.items /\ p.clocks = q.clocks
      /\ Cursor(r, one).ble = Cursor(r, buf).ble
  BY DEF Collects, p, q
<1>6. (Collected(q) \o s) \o <<d>> = Append(Collected(q) \o s, d)
      /\ Collected(q) \o Append(s, d) = Append(Collected(q) \o s, d)
  <2>1. Collected(q) \in Seq(Byte)
    BY CollectedType DEF q
  <2>2. Collected(q) \o s \in Seq(Byte)
    BY <2>1
  <2> QED BY <1>3, <2>1, <2>2, ConcatAppend
<1>7. Collected(Cursor(r, two).rx) = Collected(q) \o Append(s, d)
  BY <1>2, <1>4, <1>5, <1>6
<1>8. Collecting(Cursor(r, two).rx) /\ Cursor(r, two).rx.items = q.items
      /\ Cursor(r, two).rx.clocks = q.clocks
  BY <1>2, <1>4, <1>5 DEF Collecting
<1> QED BY <1>2, <1>5, <1>7, <1>8 DEF Collects, d, q

\* Any number of them, by induction.
LEMMA DataRun ==
  ASSUME NEW r \in Receivers, NEW buf, Open(r, buf), Collecting(Cursor(r, buf).rx),
         NEW data \in Seq(Byte), NEW n \in Nat, n <= Len(data),
         \A j \in 1..n : data[j] < 128, NEW new, AddsRun(new, buf, data, n)
  PROVE  Collects(r, buf, new, SubSeq(data, 1, n))
<1> DEFINE T == {k \in Nat : k <= n => Collects(r, buf, Part(new, buf, k), SubSeq(data, 1, k))}
           q == Cursor(r, buf).rx
<1>0. buf \in Seq(Byte) /\ Len(buf) \in Nat /\ Longer(new, buf, n)
      /\ \A j \in 1..n : new[Len(buf) + j] = data[j]
  BY DEF Open, AddsRun
<1>q. q \in Receivers /\ Collected(q) \in Seq(Byte)
  BY CollectedType DEF Collecting
<1>1. 0 \in T
  <2>1. Part(new, buf, 0) = buf
    <3> DEFINE one == Part(new, buf, 0)
    <3>1. one \in Seq(Byte) /\ Len(one) = Len(buf) /\ \A j \in 1..Len(buf) : one[j] = buf[j]
      <4>1. Longer(one, buf, 0) /\ one \in Seq(Byte)
        BY <1>0, PartFacts
      <4> HIDE DEF one
      <4>2. Len(one) = Len(buf) + 0 /\ \A j \in 1..Len(buf) : one[j] = buf[j]
        BY <4>1 DEF Longer
      <4> QED BY <1>0, <4>1, <4>2
    <3> HIDE DEF one
    <3>2. one = buf
      BY <1>0, <3>1, SeqEqual
    <3> QED BY <3>2 DEF one
  <2>2. SubSeq(data, 1, 0) = <<>>
    OBVIOUS
  <2>3. Collected(q) \o <<>> = Collected(q)
    BY <1>q
  <2>4. Collects(r, buf, buf, <<>>)
    BY <2>3 DEF Collects
  <2> QED BY <2>1, <2>2, <2>4
<1>2. ASSUME NEW k \in Nat, k \in T PROVE k + 1 \in T
  <2> SUFFICES ASSUME k + 1 <= n
               PROVE  Collects(r, buf, Part(new, buf, k + 1), SubSeq(data, 1, k + 1))
    OBVIOUS
  <2> DEFINE one == Part(new, buf, k)
             two == Part(new, buf, k + 1)
  <2>1. Collects(r, buf, one, SubSeq(data, 1, k))
    BY <1>2
  <2>a. buf \in Seq(Byte) /\ Longer(new, buf, n) /\ k \in Nat /\ k <= n /\ k + 1 \in Nat
    BY <1>0
  <2>2. one \in Seq(Byte) /\ Len(one) = Len(buf) + k
        /\ \A j \in 1..(Len(buf) + k) : one[j] = new[j]
    BY <2>a, PartFacts, SMTT(30)
  <2>3. two \in Seq(Byte) /\ Len(two) = Len(buf) + (k + 1)
        /\ \A j \in 1..(Len(buf) + (k + 1)) : two[j] = new[j]
    <3> DEFINE h == k + 1
    <3>1. buf \in Seq(Byte) /\ Longer(new, buf, n) /\ h \in Nat /\ h <= n
      BY <2>a
    <3> HIDE DEF h
    <3>2. /\ Part(new, buf, h) \in Seq(Byte) /\ Len(Part(new, buf, h)) = Len(buf) + h
          /\ \A j \in 1..(Len(buf) + h) : Part(new, buf, h)[j] = new[j]
      BY <3>1, PartFacts, SMTT(30)
    <3> QED BY <3>2 DEF h
  <2> HIDE DEF one, two
  <2>4. Longer(two, one, 1)
    BY <1>0, <2>2, <2>3 DEF Longer
  <2>5. two[Len(one) + 1] = data[k + 1]
    <3>1. two[Len(buf) + (k + 1)] = new[Len(buf) + (k + 1)]
      BY <1>0, <2>3
    <3>2. new[Len(buf) + (k + 1)] = data[k + 1]
      BY <1>0
    <3>3. Len(one) + 1 = Len(buf) + (k + 1)
      BY <1>0, <2>2
    <3> QED BY <3>1, <3>2, <3>3
  <2>6. data[k + 1] < 128
    OBVIOUS
  <2>7. SubSeq(data, 1, k) \in Seq(Byte)
        /\ SubSeq(data, 1, k + 1) = Append(SubSeq(data, 1, k), data[k + 1])
    BY FirstBytes
  <2>8. Collects(r, buf, two, Append(SubSeq(data, 1, k), two[Len(one) + 1]))
    BY <1>q, <2>1, <2>4, <2>5, <2>6, <2>7, CollectsOne
  <2> QED BY <2>5, <2>7, <2>8 DEF two
<1>3. n \in T
  <2> HIDE DEF T
  <2> QED BY <1>1, <1>2, NatSetInduction
<1>4. Part(new, buf, n) = new
  <2> DEFINE one == Part(new, buf, n)
  <2>1. one \in Seq(Byte) /\ Len(one) = Len(buf) + n
        /\ \A j \in 1..(Len(buf) + n) : one[j] = new[j]
    BY <1>0, PartFacts
  <2>2. new \in Seq(Byte) /\ Len(new) = Len(buf) + n
    BY <1>0 DEF Longer
  <2> HIDE DEF one
  <2>3. one = new
    BY <2>1, <2>2, SeqEqual
  <2> QED BY <2>3 DEF one
<1> QED BY <1>3, <1>4

\* What is left of a system exclusive message after its first byte.
Chunk(data) ==
  /\ data \in Seq(Byte)
  /\ \A j \in 1..Len(data) : data[j] < 128 \/ (j = Len(data) /\ data[j] = SysExEnd)

\* A packet that is being filled, with a receiver in a system exclusive message.
Filling(r, i) ==
  /\ i \in Builders(Capacities) /\ Len(i.buffer) <= i.capacity /\ i.runningHeader = 0
  /\ Open(r, i.buffer) /\ Collecting(Cursor(r, i.buffer).rx)

\* The receiver reads the data s, and a.rest of data is left.
Continued(r, i, a, data) ==
  /\ \E s \in Seq(Byte) : /\ Collects(r, i.buffer, a.builder.buffer, s)
                          /\ data = s \o a.rest
                          /\ \A j \in 1..Len(s) : s[j] < 128
                          /\ Len(a.builder.buffer) = Len(i.buffer) + Len(s)
                          /\ Len(s) = 0 => Len(i.buffer) >= i.capacity - 1 \/ data = <<>>
  /\ Chunk(a.rest)
  /\ \A j \in 1..Len(a.builder.buffer) : j > Len(i.buffer) => a.builder.buffer[j] < 128

\* The receiver reads the end of the message, at the given time.
Ended(r, i, a, data, time) ==
  LET q == Cursor(r, i.buffer).rx
      p == Cursor(r, a.builder.buffer).rx
  IN  /\ a.rest = <<>> /\ data # <<>> /\ data[Len(data)] = SysExEnd
      /\ Open(r, a.builder.buffer) /\ Cursor(r, a.builder.buffer).ble.timestamp = time
      /\ p \in Receivers /\ Ready(p) /\ p.parser.currentHeader = 0 /\ p.partial = <<>>
      /\ p.items = Append(q.items, [bytes |-> Collected(q) \o data, time |-> time])
      /\ p.clocks = q.clocks
      /\ \E j \in 1..Len(a.builder.buffer) : j > Len(i.buffer) /\ a.builder.buffer[j] >= 128

\* The smaller of two numbers.
LEMMA LeastFacts ==
  ASSUME NEW x \in Nat, NEW y \in Nat
  PROVE  /\ Least(x, y) \in Nat /\ Least(x, y) <= x /\ Least(x, y) <= y
         /\ Least(x, y) = x \/ Least(x, y) = y
BY DEF Least

\* A builder whose packet is replaced.
Filled(c, new) == [c EXCEPT !.buffer = new]

\* It is a builder.
LEMMA FilledFacts ==
  ASSUME NEW c \in Builders(Capacities), NEW new \in Seq(Byte)
  PROVE  /\ Filled(c, new) \in Builders(Capacities) /\ Filled(c, new).buffer = new
         /\ Filled(c, new).capacity = c.capacity
         /\ Filled(c, new).runningHeader = c.runningHeader
         /\ Filled(c, new).runningTimestamp = c.runningTimestamp
BY DEF Filled, Builders, Byte

\* A sequence is its first n elements and the others.
LEMMA SplitSeq ==
  ASSUME NEW data \in Seq(Byte), NEW n \in Nat, n <= Len(data)
  PROVE  /\ SubSeq(data, n + 1, Len(data)) \in Seq(Byte)
         /\ Len(SubSeq(data, n + 1, Len(data))) = Len(data) - n
         /\ \A j \in 1..(Len(data) - n) : SubSeq(data, n + 1, Len(data))[j] = data[n + j]
         /\ data = SubSeq(data, 1, n) \o SubSeq(data, n + 1, Len(data))
<1> DEFINE s == SubSeq(data, 1, n)
           u == SubSeq(data, n + 1, Len(data))
           v == s \o u
<1>1. s \in Seq(Byte) /\ Len(s) = n /\ \A j \in 1..n : s[j] = data[j]
  BY PrefixFacts
<1>2. u \in Seq(Byte) /\ Len(u) = Len(data) - n
      /\ \A j \in 1..(Len(data) - n) : u[j] = data[n + j]
  <2>1. Len(data) \in Nat /\ n + 1 \in Nat
    OBVIOUS
  <2>2. n + 1 \in 1..(Len(data) + 1)
    BY <2>1
  <2> QED BY <2>1, <2>2, SubSeqProperties
<1> HIDE DEF s, u
<1>3. v \in Seq(Byte) /\ Longer(v, s, Len(u)) /\ \A j \in 1..Len(u) : v[Len(s) + j] = u[j]
  BY <1>1, <1>2, ConcatLonger
<1> HIDE DEF v
<1>4. Len(v) = Len(data)
  BY <1>1, <1>2, <1>3 DEF Longer
<1>5. ASSUME NEW j \in 1..Len(data) PROVE v[j] = data[j]
  <2>1. CASE j <= n
    BY <1>1, <1>3, <2>1 DEF Longer
  <2>2. CASE j > n
    <3> DEFINE k == j - n
    <3>1. k \in 1..(Len(data) - n) /\ n + k = j
      BY <2>2
    <3> HIDE DEF k
    <3>2. v[n + k] = u[k] /\ u[k] = data[n + k]
      BY <1>1, <1>2, <1>3, <3>1
    <3> QED BY <3>1, <3>2
  <2> QED BY <2>1, <2>2
<1>6. v = data
  BY <1>3, <1>4, <1>5, SeqEqual
<1> QED BY <1>2, <1>6 DEF s, u, v

\* A packet in which all is data that is sent.
LEMMA RunFilled ==
  ASSUME NEW r \in Receivers, NEW i, Filling(r, i), NEW data, Chunk(data),
         NEW n \in Nat, n <= Len(data), n <= i.capacity - Len(i.buffer),
         \A j \in 1..n : data[j] < 128
  PROVE  /\ Filled(i, i.buffer \o SubSeq(data, 1, n)) \in Builders(Capacities)
         /\ Len(i.buffer \o SubSeq(data, 1, n)) = Len(i.buffer) + n
         /\ AddsRun(i.buffer \o SubSeq(data, 1, n), i.buffer, data, n)
         /\ Collects(r, i.buffer, i.buffer \o SubSeq(data, 1, n), SubSeq(data, 1, n))
         /\ i.buffer \o SubSeq(data, 1, n) \in Seq(Byte)
         /\ \A j \in 1..Len(i.buffer \o SubSeq(data, 1, n)) :
               j > Len(i.buffer) => (i.buffer \o SubSeq(data, 1, n))[j] < 128
<1> DEFINE s == SubSeq(data, 1, n)
           new == i.buffer \o s
<1>0. data \in Seq(Byte) /\ i.buffer \in Seq(Byte) /\ Len(i.buffer) \in Nat
  BY BuilderFields DEF Filling, Chunk
<1>1. s \in Seq(Byte) /\ Len(s) = n /\ \A j \in 1..n : s[j] = data[j]
  BY <1>0, PrefixFacts
<1> HIDE DEF s
<1>2. new \in Seq(Byte) /\ Longer(new, i.buffer, n)
      /\ \A j \in 1..n : new[Len(i.buffer) + j] = s[j]
  BY <1>0, <1>1, ConcatLonger
<1> HIDE DEF new
<1>3. AddsRun(new, i.buffer, data, n)
  BY <1>1, <1>2 DEF AddsRun
<1>4. Collects(r, i.buffer, new, SubSeq(data, 1, n))
  BY <1>0, <1>3, DataRun DEF Filling
<1>5. Len(new) = Len(i.buffer) + n
  BY <1>2 DEF Longer
<1>6. ASSUME NEW j \in 1..Len(new), j > Len(i.buffer) PROVE new[j] < 128
  <2> DEFINE k == j - Len(i.buffer)
  <2>1. k \in 1..n /\ Len(i.buffer) + k = j
    BY <1>0, <1>5, <1>6
  <2> HIDE DEF k
  <2>2. new[Len(i.buffer) + k] = data[k] /\ data[k] < 128
    BY <1>1, <1>2, <2>1
  <2> QED BY <2>1, <2>2
<1>7. Filled(i, new) \in Builders(Capacities)
  BY <1>2, FilledFacts DEF Filling
<1> QED BY <1>2, <1>3, <1>4, <1>5, <1>6, <1>7 DEF s, new

\* The builder n is i with more bytes.
Fuller(i, n) ==
  /\ n \in Builders(Capacities) /\ n.capacity = i.capacity /\ Len(n.buffer) <= n.capacity
  /\ n.runningHeader = i.runningHeader
  /\ n.buffer \in Seq(Byte) /\ Len(n.buffer) >= Len(i.buffer)
  /\ \A j \in 1..Len(i.buffer) : n.buffer[j] = i.buffer[j]

\* As many bytes of data as there is room for.
LEMMA ContinueRun ==
  ASSUME NEW r \in Receivers, NEW i, Filling(r, i), NEW data, Chunk(data),
         NEW n \in Nat, n <= Len(data), n <= i.capacity - Len(i.buffer),
         \A j \in 1..n : data[j] < 128,
         n = 0 => Len(i.buffer) >= i.capacity - 1 \/ data = <<>>,
         NEW a, a.builder = Filled(i, i.buffer \o SubSeq(data, 1, n)),
         a.rest = SubSeq(data, n + 1, Len(data))
  PROVE  Fuller(i, a.builder) /\ Continued(r, i, a, data)
<1> DEFINE s == SubSeq(data, 1, n)
           new == i.buffer \o s
           u == SubSeq(data, n + 1, Len(data))
<1>0. data \in Seq(Byte) /\ i.buffer \in Seq(Byte) /\ Len(i.buffer) \in Nat
      /\ i.capacity \in Nat /\ Len(data) \in Nat
  BY BuilderFields DEF Filling, Chunk
<1>1. /\ Filled(i, new) \in Builders(Capacities) /\ Len(new) = Len(i.buffer) + n
      /\ AddsRun(new, i.buffer, data, n) /\ Collects(r, i.buffer, new, s)
      /\ new \in Seq(Byte)
      /\ \A j \in 1..Len(new) : j > Len(i.buffer) => new[j] < 128
  BY RunFilled, ZenonT(30)
<1>2. s \in Seq(Byte) /\ Len(s) = n /\ \A j \in 1..n : s[j] = data[j]
  BY <1>0, PrefixFacts
<1>a. u \in Seq(Byte) /\ Len(u) = Len(data) - n
  BY <1>0, SplitSeq
<1>b. data = s \o u
  BY <1>0, SplitSeq
<1>c. \A j \in 1..(Len(data) - n) : u[j] = data[n + j]
  BY <1>0, SplitSeq
<1> HIDE DEF s, new, u
<1>3. u \in Seq(Byte) /\ Len(u) = Len(data) - n /\ data = s \o u
      /\ \A j \in 1..(Len(data) - n) : u[j] = data[n + j]
  BY <1>a, <1>b, <1>c
<1>4. Chunk(u)
  <2>1. ASSUME NEW j \in 1..Len(u) PROVE u[j] < 128 \/ (j = Len(u) /\ u[j] = SysExEnd)
    <3>1. n + j \in 1..Len(data) /\ (n + j = Len(data) => j = Len(u)) /\ u[j] = data[n + j]
      BY <1>0, <1>3
    <3>2. data[n + j] < 128 \/ (n + j = Len(data) /\ data[n + j] = SysExEnd)
      BY <3>1 DEF Chunk
    <3> QED BY <3>1, <3>2
  <2> QED BY <1>3, <2>1 DEF Chunk
<1>5. a.builder.buffer = new /\ a.builder.capacity = i.capacity
      /\ a.builder.runningHeader = i.runningHeader /\ a.rest = u
      /\ a.builder \in Builders(Capacities)
  <2>1. a.builder = Filled(i, new) /\ i \in Builders(Capacities)
    BY DEF new, s, Filling
  <2>2. a.rest = u
    BY DEF u
  <2> QED BY <1>1, <2>1, <2>2, FilledFacts
<1>6. Fuller(i, a.builder)
  <2>1. Len(new) <= i.capacity /\ Len(new) >= Len(i.buffer)
    <3> DEFINE x == Len(new)  y == Len(i.buffer)  z == i.capacity
    <3>1. x = y + n /\ n <= z - y /\ y \in Nat /\ z \in Nat
      BY <1>0, <1>1
    <3> HIDE DEF x, y, z
    <3>2. x <= z /\ x >= y
      BY <3>1
    <3> QED BY <3>2 DEF x, y, z
  <2>2. \A j \in 1..Len(i.buffer) : new[j] = i.buffer[j]
    BY <1>1 DEF AddsRun, Longer
  <2> HIDE DEF Filling
  <2> QED BY <1>1, <1>5, <2>1, <2>2 DEF Fuller
<1>7. Continued(r, i, a, data)
  <2>1. \A j \in 1..Len(s) : s[j] < 128
    BY <1>2
  <2>2. Len(s) = 0 => Len(i.buffer) >= i.capacity - 1 \/ data = <<>>
    BY <1>2
  <2>3. Len(new) = Len(i.buffer) + Len(s)
    BY <1>1, <1>2
  <2> QED BY <1>1, <1>2, <1>3, <1>4, <1>5, <2>1, <2>2, <2>3 DEF Continued
<1> QED BY <1>6, <1>7

\* The end of the message, after the rest of it.
LEMMA ContinueEnd ==
  ASSUME NEW r \in Receivers, NEW i, Filling(r, i), NEW data, Chunk(data), data # <<>>,
         data[Len(data)] = SysExEnd, NEW t \in Stamps,
         Len(data) + 1 <= i.capacity - Len(i.buffer),
         NEW a, a.rest = <<>>,
         a.builder = Filled(i, (i.buffer \o SubSeq(data, 1, Len(data) - 1))
                               \o <<TimestampLSB(t), SysExEnd>>)
  PROVE  /\ Fuller(i, a.builder)
         /\ Ended(r, i, a, data,
                  NextTimestamp(Cursor(r, i.buffer).ble.timestamp, Low(t)))
<1> DEFINE n == Len(data) - 1
           s == SubSeq(data, 1, n)
           one == i.buffer \o s
           l == TimestampLSB(t)
           end == <<l, SysExEnd>>
           two == one \o end
           q == Cursor(r, i.buffer).rx
           p == Cursor(r, one).rx
           time == NextTimestamp(Cursor(r, i.buffer).ble.timestamp, Low(t))
           e == Cursor(r, two).rx
<1>0. data \in Seq(Byte) /\ i.buffer \in Seq(Byte) /\ Len(i.buffer) \in Nat
      /\ i.capacity \in Nat /\ Len(data) \in Nat /\ Len(data) >= 1 /\ i \in Builders(Capacities)
  BY BuilderFields DEF Filling, Chunk
<1>n. n \in Nat /\ n <= Len(data) /\ n <= i.capacity - Len(i.buffer) /\ n + 1 = Len(data)
      /\ n + 2 <= i.capacity - Len(i.buffer)
  <2> DEFINE x == Len(data)  y == Len(i.buffer)  z == i.capacity
  <2>1. x \in Nat /\ x >= 1 /\ y \in Nat /\ z \in Nat /\ x + 1 <= z - y /\ n = x - 1
    BY <1>0
  <2> HIDE DEF x, y, z, n
  <2>2. n \in Nat /\ n <= x /\ n <= z - y /\ n + 1 = x /\ n + 2 <= z - y
    BY <2>1
  <2> QED BY <2>2 DEF x, y, z
<1>d. \A j \in 1..n : data[j] < 128
  <2> SUFFICES ASSUME NEW j \in 1..n PROVE data[j] < 128
    OBVIOUS
  <2> DEFINE x == Len(data)
  <2>0. x \in Nat /\ n + 1 = x /\ n \in Nat /\ j \in 1..n
    BY <1>0, <1>n
  <2>1. j \in 1..x /\ j # x
    <3> HIDE DEF x, n
    <3> QED BY <2>0
  <2> QED BY <2>1 DEF Chunk
<1> HIDE DEF n
<1>1. /\ Len(one) = Len(i.buffer) + n /\ AddsRun(one, i.buffer, data, n)
      /\ Collects(r, i.buffer, one, s) /\ one \in Seq(Byte)
  BY <1>n, <1>d, RunFilled, ZenonT(30)
<1>2. s \in Seq(Byte) /\ data = Append(s, SysExEnd)
  <2>1. s \in Seq(Byte) /\ SubSeq(data, 1, n + 1) = Append(s, data[n + 1])
    BY <1>0, <1>n, FirstBytes
  <2>2. SubSeq(data, 1, Len(data)) = data
    BY <1>0
  <2> HIDE DEF s
  <2> QED BY <1>n, <2>1, <2>2
<1> HIDE DEF s, one
<1>3. l \in Byte /\ l >= 128 /\ l % 128 = Low(t) /\ SysExEnd \in Byte
  BY LSBFacts DEF SysExEnd, Byte
<1> HIDE DEF l
<1>4. end \in Seq(Byte) /\ Len(end) = 2 /\ end[1] = l /\ end[2] = SysExEnd
  BY <1>3
<1> HIDE DEF end
<1>5. two \in Seq(Byte) /\ Longer(two, one, 2) /\ two[Len(one) + 1] = l
      /\ two[Len(one) + 2] = SysExEnd
  <2>1. two \in Seq(Byte) /\ Longer(two, one, Len(end))
        /\ \A j \in 1..Len(end) : two[Len(one) + j] = end[j]
    BY <1>1, <1>4, ConcatLonger
  <2> HIDE DEF two
  <2> QED BY <1>4, <2>1
<1>b. a.builder = Filled(i, two)
  BY DEF two, one, s, n, end, l
<1> HIDE DEF two
<1>6. Open(r, one) /\ Cursor(r, one).ble = Cursor(r, i.buffer).ble
      /\ Collecting(p) /\ p.items = q.items /\ p.clocks = q.clocks
      /\ Collected(p) = Collected(q) \o s
  BY <1>1 DEF Collects
<1>7. /\ Open(r, two) /\ Cursor(r, two).ble.timestamp = time
      /\ e = RxByte(p, SysExEnd, time)
  <2>1. Advanced(Cursor(r, one), l) = time
    BY <1>3, <1>6 DEF Advanced
  <2> DEFINE x == SysExEnd
  <2> HIDE DEF time, x
  <2>2. /\ Open(r, two)
        /\ Cursor(r, two).ble.timestamp = Advanced(Cursor(r, one), l)
        /\ Cursor(r, two).rx = RxByte(Cursor(r, one).rx, x, Advanced(Cursor(r, one), l))
    <3>1. two[Len(one) + 2] = x
      BY <1>5 DEF x
    <3> QED BY <1>3, <1>5, <1>6, <3>1, StampedRead
  <2> QED BY <2>1, <2>2 DEF x
<1>8. time \in Nat
  BY <1>7, CursorType DEF Open
<1> HIDE DEF p, q, time, e
<1>9. /\ e \in Receivers /\ Ready(e) /\ e.parser.currentHeader = 0 /\ e.partial = <<>>
      /\ e.items = Append(q.items, [bytes |-> Collected(q) \o data, time |-> time])
      /\ e.clocks = q.clocks
  <2>1. /\ e \in Receivers /\ Ready(e) /\ e.parser.currentHeader = 0 /\ e.partial = <<>>
        /\ e.items = Append(p.items, [bytes |-> Append(Collected(p), SysExEnd), time |-> time])
        /\ e.clocks = p.clocks
    <3>1. p \in Receivers /\ Ready(p) /\ p.parser.currentHeader = SysExStart
      BY <1>6 DEF Collecting
    <3>2. e = RxByte(p, SysExEnd, time)
      BY <1>7
    <3> QED BY <1>8, <3>1, <3>2, RxSysExEnd
  <2>2. Collected(q) \o data = Append(Collected(p), SysExEnd)
    <3>1. Collected(q) \in Seq(Byte)
      <4>1. q \in Receivers
        BY DEF Filling, Collecting, q
      <4> QED BY <4>1, CollectedType
    <3> DEFINE x == SysExEnd
    <3>2. x \in Byte /\ data = Append(s, x)
      BY <1>2, <1>3
    <3> HIDE DEF x
    <3>3. Collected(q) \o Append(s, x) = Append(Collected(q) \o s, x)
      BY <1>2, <3>1, <3>2, ConcatAppend
    <3> QED BY <1>6, <3>2, <3>3 DEF x
  <2> QED BY <1>6, <2>1, <2>2
<1>10. a.builder.buffer = two /\ a.builder.capacity = i.capacity
       /\ a.builder.runningHeader = i.runningHeader /\ a.builder \in Builders(Capacities)
  BY <1>0, <1>5, <1>b, FilledFacts, SMTT(30)
<1>11. Len(two) = Len(i.buffer) + n + 2 /\ \A j \in 1..Len(i.buffer) : two[j] = i.buffer[j]
  <2>1. Longer(one, i.buffer, n)
    BY <1>1 DEF AddsRun
  <2>2. Len(two) = Len(one) + 2 /\ \A j \in 1..Len(one) : two[j] = one[j]
    BY <1>5 DEF Longer
  <2>3. Len(one) = Len(i.buffer) + n /\ \A j \in 1..Len(i.buffer) : one[j] = i.buffer[j]
    BY <2>1 DEF Longer
  <2> QED BY <1>0, <1>n, <2>2, <2>3
<1>12. Fuller(i, a.builder)
  <2>1. Len(two) <= i.capacity /\ Len(two) >= Len(i.buffer)
    <3> DEFINE x == Len(two)  y == Len(i.buffer)  z == i.capacity
    <3>1. x = y + n + 2 /\ n + 2 <= z - y /\ y \in Nat /\ z \in Nat /\ n \in Nat
      BY <1>0, <1>11, <1>n
    <3> HIDE DEF x, y, z
    <3>2. x <= z /\ x >= y
      BY <3>1
    <3> QED BY <3>2 DEF x, y, z
  <2> QED BY <1>5, <1>10, <1>11, <2>1 DEF Fuller
<1>13. \E j \in 1..Len(two) : j > Len(i.buffer) /\ two[j] >= 128
  <2> DEFINE k == Len(one) + 1
  <2>1. k \in 1..Len(two) /\ k > Len(i.buffer)
    BY <1>0, <1>1, <1>11, <1>n
  <2>2. two[k] >= 128
    BY <1>3, <1>5
  <2> QED BY <2>1, <2>2
<1> QED BY <1>7, <1>9, <1>10, <1>12, <1>13 DEF Ended, q, e, time

\* The rest of a chunk is a chunk.
LEMMA ChunkRest ==
  ASSUME NEW data, Chunk(data), NEW n \in Nat, n < Len(data)
  PROVE  \A j \in 1..n : data[j] < 128
<1> SUFFICES ASSUME NEW j \in 1..n PROVE data[j] < 128
  OBVIOUS
<1>1. Len(data) \in Nat
  BY DEF Chunk
<1>2. j \in 1..Len(data) /\ j # Len(data)
  BY <1>1
<1> QED BY <1>2 DEF Chunk

\* ContinueSysEx for a packet that has its header.
LEMMA Continue ==
  ASSUME NEW r \in Receivers, NEW i, Filling(r, i), NEW t \in Stamps, InitBuffer(i, t) = i,
         NEW data, Chunk(data), NEW a, a = ContinueSysEx(i, data, t)
  PROVE  /\ a.ok = TRUE /\ Fuller(i, a.builder)
         /\ \/ Continued(r, i, a, data)
            \/ Ended(r, i, a, data, NextTimestamp(Cursor(r, i.buffer).ble.timestamp, Low(t)))
<1> DEFINE n == Least(Len(data) - 1, Room(i))
           last == data[Len(data)]
           l == TimestampLSB(t)
           end == IF last = 247 THEN <<l, last>> ELSE <<last>>
           more == Filled(i, i.buffer \o SubSeq(data, 1, n))
           full == Filled(more, more.buffer \o end)
           room == i.capacity - Len(i.buffer)
<1>0. data \in Seq(Byte) /\ i.buffer \in Seq(Byte) /\ Len(i.buffer) \in Nat
      /\ i.capacity \in Nat /\ Len(data) \in Nat /\ i \in Builders(Capacities)
      /\ Len(i.buffer) <= i.capacity
  BY BuilderFields DEF Filling, Chunk
<1>r. room \in Nat /\ Room(i) = room
  BY <1>0 DEF Room
<1>1. a = IF data = <<>> THEN Added(i)
          ELSE IF n = Len(data) - 1 /\ Len(end) <= Room(more) THEN Added(full)
          ELSE [ok |-> TRUE, builder |-> more, rest |-> SubSeq(data, n + 1, Len(data))]
  BY DEF ContinueSysEx, Filled
<1>2. CASE data = <<>>
  <2>1. a.ok = TRUE /\ a.builder = i /\ a.rest = <<>>
    BY <1>1, <1>2 DEF Added
  <2>2. i.buffer \o SubSeq(data, 1, 0) = i.buffer /\ SubSeq(data, 0 + 1, Len(data)) = <<>>
    BY <1>0, <1>2
  <2>3. Filled(i, i.buffer) = i
    BY <1>0 DEF Filled, Builders
  <2>4. a.builder = Filled(i, i.buffer \o SubSeq(data, 1, 0))
        /\ a.rest = SubSeq(data, 0 + 1, Len(data))
    BY <2>1, <2>2, <2>3
  <2>5. 0 \in Nat /\ 0 <= Len(data) /\ 0 <= i.capacity - Len(i.buffer)
        /\ \A j \in 1..0 : data[j] < 128
    BY <1>0, <1>r
  <2>6. Fuller(i, a.builder) /\ Continued(r, i, a, data)
    BY <1>2, <2>4, <2>5, ContinueRun
  <2> QED BY <2>1, <2>6
<1>3. CASE data # <<>>
  <2>0. Len(data) >= 1 /\ Len(data) - 1 \in Nat
    BY <1>0, <1>3
  <2>1. n \in Nat /\ n <= Len(data) - 1 /\ n <= room /\ (n = Len(data) - 1 \/ n = room)
    BY <1>r, <2>0, LeastFacts
  <2> HIDE DEF n
  <2>2. n < Len(data) /\ n <= Len(data)
    BY <1>0, <2>1
  <2>3. \A j \in 1..n : data[j] < 128
    BY <2>1, <2>2, ChunkRest
  <2>4. last \in Byte /\ (last < 128 \/ last = SysExEnd)
    <3>1. Len(data) \in 1..Len(data)
      BY <1>0, <2>0
    <3> QED BY <1>0, <3>1 DEF Chunk
  <2>5. more.buffer = i.buffer \o SubSeq(data, 1, n) /\ more.capacity = i.capacity
        /\ Len(more.buffer) = Len(i.buffer) + n /\ Room(more) = room - n
    <3>1. Len(i.buffer \o SubSeq(data, 1, n)) = Len(i.buffer) + n
          /\ i.buffer \o SubSeq(data, 1, n) \in Seq(Byte)
      BY <2>1, <2>2, <2>3, RunFilled
    <3> DEFINE new == i.buffer \o SubSeq(data, 1, n)
    <3>2. new \in Seq(Byte) /\ Len(new) = Len(i.buffer) + n
      BY <3>1
    <3> HIDE DEF new
    <3>3. Filled(i, new).buffer = new /\ Filled(i, new).capacity = i.capacity
      BY <1>0, <3>2, FilledFacts
    <3>4. more = Filled(i, new)
      BY DEF new
    <3> HIDE DEF more
    <3>5. Room(more) = i.capacity - (Len(i.buffer) + n)
      BY <3>2, <3>3, <3>4 DEF Room
    <3>6. i.capacity - (Len(i.buffer) + n) = room - n
      BY <1>0, <2>1
    <3> QED BY <3>2, <3>3, <3>4, <3>5, <3>6 DEF new
  <2> HIDE DEF room, end, last
  <2>6. CASE ~(n = Len(data) - 1 /\ Len(end) <= Room(more))
    <3> DEFINE u == SubSeq(data, n + 1, Len(data))
    <3>1. a.ok = TRUE /\ a.builder = more /\ a.rest = u
      <4> HIDE DEF more, full, u
      <4>1. a = [ok |-> TRUE, builder |-> more, rest |-> u]
        BY <1>1, <1>3, <2>6 DEF u
      <4> QED BY <4>1
    <3>2. n = 0 => Len(i.buffer) >= i.capacity - 1 \/ data = <<>>
      <4> SUFFICES ASSUME n = 0 PROVE Len(i.buffer) >= i.capacity - 1
        OBVIOUS
      <4> DEFINE x == Len(data)  y == Len(i.buffer)  z == i.capacity  e == Len(end)
      <4>1. e <= 2 /\ e \in Nat
        BY DEF end
      <4>2. x \in Nat /\ y \in Nat /\ z \in Nat /\ y <= z /\ room = z - y
        BY <1>0 DEF room
      <4>3. n = x - 1 \/ n = room
        BY <2>1
      <4>4. n = x - 1 => e > room
        <5> SUFFICES ASSUME n = x - 1 PROVE e > room
          OBVIOUS
        <5>1. ~(e <= Room(more)) /\ Room(more) = room - n
          BY <2>5, <2>6
        <5> HIDE DEF x, y, z, e, more
        <5> QED BY <4>1, <4>2, <5>1
      <4> HIDE DEF x, y, z, e
      <4>5. y >= z - 1
        BY <4>1, <4>2, <4>3, <4>4
      <4> QED BY <4>5 DEF y, z
    <3>3. n <= i.capacity - Len(i.buffer)
      BY <2>1 DEF room
    <3>4. a.builder = Filled(i, i.buffer \o SubSeq(data, 1, n))
      BY <3>1 DEF more
    <3>5. Fuller(i, a.builder) /\ Continued(r, i, a, data)
      <4> HIDE DEF more
      <4> QED BY <2>1, <2>2, <2>3, <3>1, <3>2, <3>3, <3>4, ContinueRun DEF u
    <3> QED BY <3>1, <3>5
  <2>7. CASE n = Len(data) - 1 /\ Len(end) <= Room(more) /\ last # SysExEnd
    <3>1. end = <<last>> /\ Len(end) = 1
      BY <2>7 DEF end, SysExEnd
    <3>2. a.ok = TRUE /\ a.builder = full /\ a.rest = <<>>
      <4> HIDE DEF more, full
      <4> QED BY <1>1, <1>3, <2>7 DEF Added
    <3> DEFINE k == Len(data)
    <3>3. full = Filled(i, i.buffer \o SubSeq(data, 1, k))
      <4> DEFINE s == SubSeq(data, 1, n)
      <4>1. s \in Seq(Byte) /\ SubSeq(data, 1, n + 1) = Append(s, data[n + 1])
        BY <1>0, <2>1, <2>2, FirstBytes
      <4>2. n + 1 = k
        BY <2>0, <2>7
      <4>3. SubSeq(data, 1, k) = Append(s, last)
        BY <4>1, <4>2 DEF last
      <4>4. (i.buffer \o s) \o end = i.buffer \o Append(s, last)
        <5>1. end = <<last>> /\ last \in Byte /\ s \in Seq(Byte) /\ i.buffer \in Seq(Byte)
          BY <1>0, <2>4, <3>1, <4>1
        <5> DEFINE v == i.buffer
        <5> HIDE DEF s, v
        <5>2. v \in Seq(Byte)
          BY <1>0 DEF v
        <5>3. v \o s \in Seq(Byte) /\ v \o Append(s, last) = Append(v \o s, last)
          BY <5>1, <5>2, ConcatAppend
        <5>4. (v \o s) \o <<last>> = Append(v \o s, last)
          BY <5>1, <5>3, ConcatAppend
        <5> QED BY <5>1, <5>3, <5>4 DEF v
      <4>5. full = Filled(i, (i.buffer \o s) \o end)
        <5>1. full = Filled(more, (i.buffer \o s) \o end)
          BY <2>5
        <5> QED BY <5>1 DEF Filled
      <4> QED BY <4>3, <4>4, <4>5
    <3>4. SubSeq(data, k + 1, Len(data)) = <<>>
      BY <1>0
    <3>5. k <= i.capacity - Len(i.buffer) /\ k \in Nat /\ k # 0
      <4> DEFINE z == i.capacity - Len(i.buffer)
      <4>1. z \in Nat /\ 1 <= z - n /\ n = k - 1 /\ k \in Nat /\ k >= 1
        BY <1>0, <1>r, <2>0, <2>5, <2>7, <3>1 DEF room
      <4> HIDE DEF z, k
      <4>2. k <= z /\ k # 0
        BY <4>1
      <4> QED BY <4>1, <4>2 DEF z
    <3>6. \A j \in 1..k : data[j] < 128
      BY <1>0, <2>4, <2>7 DEF Chunk, last
    <3>7. k <= Len(data)
      BY <1>0
    <3> HIDE DEF full, k, more
    <3>8. a.builder = Filled(i, i.buffer \o SubSeq(data, 1, k))
          /\ a.rest = SubSeq(data, k + 1, Len(data))
      BY <3>2, <3>3, <3>4
    <3>9. k = 0 => Len(i.buffer) >= i.capacity - 1 \/ data = <<>>
      BY <3>5
    <3>10. Fuller(i, a.builder) /\ Continued(r, i, a, data)
      BY <3>5, <3>6, <3>7, <3>8, <3>9, ContinueRun
    <3> QED BY <3>2, <3>10
  <2>8. CASE n = Len(data) - 1 /\ Len(end) <= Room(more) /\ last = SysExEnd
    <3>1. end = <<l, SysExEnd>> /\ Len(end) = 2
      BY <2>8 DEF end, SysExEnd
    <3>2. a.ok = TRUE /\ a.builder = full /\ a.rest = <<>>
      <4> HIDE DEF more, full
      <4> QED BY <1>1, <1>3, <2>8 DEF Added
    <3>3. full = Filled(i, (i.buffer \o SubSeq(data, 1, Len(data) - 1)) \o <<l, SysExEnd>>)
      <4>1. full = Filled(more, (i.buffer \o SubSeq(data, 1, n)) \o end)
        BY <2>5
      <4>2. full = Filled(i, (i.buffer \o SubSeq(data, 1, n)) \o end)
        BY <4>1 DEF Filled
      <4> QED BY <2>8, <3>1, <4>2
    <3>4. Len(data) + 1 <= i.capacity - Len(i.buffer)
      <4> DEFINE z == i.capacity - Len(i.buffer)  x == Len(data)
      <4>1. z \in Nat /\ 2 <= z - n /\ n = x - 1 /\ x \in Nat /\ x >= 1
        BY <1>0, <1>r, <2>0, <2>5, <2>8, <3>1 DEF room
      <4> HIDE DEF z, x
      <4>2. x + 1 <= z
        BY <4>1
      <4> QED BY <4>2 DEF z, x
    <3>5. a.builder = Filled(i, (i.buffer \o SubSeq(data, 1, Len(data) - 1))
                               \o <<TimestampLSB(t), SysExEnd>>)
      BY <3>2, <3>3
    <3> HIDE DEF full, more
    <3> QED BY <1>3, <2>8, <3>2, <3>5, <3>4, ContinueEnd DEF last
  <2> QED BY <2>6, <2>7, <2>8
<1> QED BY <1>2, <1>3

\* What the receiver has of the system exclusive message that it is in.
Before(q) == IF q.parser.currentHeader = SysExStart THEN Collected(q) ELSE <<>>

\* The receiver reads s in addition, and is in a system exclusive message.
Taken(q, p, m, rest) ==
  /\ Collecting(p) /\ p.items = q.items /\ Chunk(rest)
  /\ \E s \in Seq(Byte) : /\ m = s \o rest /\ Collected(p) = Before(q) \o s
                         /\ \A j \in 1..Len(s) : s[j] # SysExEnd

\* The receiver reads the end of a system exclusive message.
Finished(q, p, m, time) ==
  /\ p \in Receivers /\ Ready(p) /\ p.parser.currentHeader = 0 /\ p.partial = <<>>
  /\ m # <<>> /\ m[Len(m)] = SysExEnd
  /\ p.items = Append(q.items, [bytes |-> Before(q) \o m, time |-> time])

\* The builder b has become a.builder, with m, of which a.rest is left.
SysExAdded(r, b, a, m, t) ==
  LET q == Cursor(r, b.buffer).rx
      c == Cursor(r, a.builder.buffer)
  IN  /\ a.ok = TRUE
      /\ BuilderOK(a.builder) /\ a.builder.buffer # <<>> /\ InStep(a.builder, c)
      /\ Stamped(b, a.builder, Cursor(r, b.buffer), c, t)
      /\ c.rx.clocks = q.clocks
      /\ \/ Taken(q, c.rx, m, a.rest)
         \/ /\ Finished(q, c.rx, m, c.ble.timestamp) /\ a.rest = <<>>
            /\ Adds(b.buffer, a.builder.buffer)

\* The packet b has become i, with the bytes pre of a system exclusive message.
Prepared(r, b, i, t, pre) ==
  LET q == Cursor(r, b.buffer).rx
      p == Cursor(r, i.buffer).rx
  IN  /\ Filling(r, i) /\ InitBuffer(i, t) = i /\ i.capacity = b.capacity
      /\ \A j \in Nat : j > Len(i.buffer) => j >= 2 /\ j > Len(b.buffer)
      /\ Stamped(b, i, Cursor(r, b.buffer), Cursor(r, i.buffer), t)
      /\ p.items = q.items /\ p.clocks = q.clocks
      /\ pre \in Seq(Byte) /\ Collected(p) = Before(q) \o pre
      /\ \A j \in 1..Len(pre) : pre[j] # SysExEnd

\* A number of 14 bits by its halves.
LEMMA TwoParts ==
  ASSUME NEW x \in Nat, x < 16384
  PROVE  x = ((x \div 128) % 128) * 128 + (x % 128)
<1>1. x = (x \div 128) * 128 + (x % 128)
  OBVIOUS
<1> DEFINE y == x \div 128
<1>2. y \in Nat /\ y < 128
  OBVIOUS
<1> HIDE DEF y
<1>3. y % 128 = y
  BY <1>2
<1> QED BY <1>1, <1>3 DEF y

\* A time that is told twice is the same.
LEMMA NextTwice ==
  ASSUME NEW t \in Stamps, NEW time \in Nat
  PROVE  NextTimestamp(NextTimestamp(time, Low(t)), Low(t)) = NextTimestamp(time, Low(t))
<1> DEFINE x == NextTimestamp(time, Low(t))
           l == Low(t)
<1>0. x \in Nat /\ x < 16384
  BY NextLow
<1>1. x % 128 = l
  BY NextLow
<1> HIDE DEF x, l
<1>2. NextTimestamp(x, l) = ((x \div 128) % 128) * 128 + l
  <2>1. ~(l < x % 128)
    BY <1>0, <1>1
  <2> QED BY <2>1 DEF NextTimestamp
<1>3. x = ((x \div 128) % 128) * 128 + (x % 128)
  BY <1>0, TwoParts
<1>4. NextTimestamp(x, l) = x
  BY <1>1, <1>2, <1>3
<1> QED BY <1>4 DEF x, l

\* What is new in a packet that has been filled further.
LEMMA FullerAdds ==
  ASSUME NEW b, NEW i, NEW n, Fuller(i, n), i.buffer \in Seq(Byte),
         Len(b.buffer) \in Nat,
         \A j \in Nat : j > Len(i.buffer) => j >= 2 /\ j > Len(b.buffer)
  PROVE  Adds(b.buffer, n.buffer) <=>
           \/ Adds(b.buffer, i.buffer)
           \/ \E j \in 1..Len(n.buffer) : j > Len(i.buffer) /\ n.buffer[j] >= 128
<1> DEFINE x == Len(b.buffer)  y == Len(i.buffer)  z == Len(n.buffer)
<1>1. y \in Nat /\ z \in Nat /\ z >= y /\ (\A j \in 1..y : n.buffer[j] = i.buffer[j])
      /\ x \in Nat
  BY DEF Fuller
<1>2. \A j \in Nat : j > y => j >= 2 /\ j > x
  OBVIOUS
<1>a. /\ Adds(b.buffer, n.buffer) <=> \E j \in 2..z : j > x /\ n.buffer[j] >= 128
      /\ Adds(b.buffer, i.buffer) <=> \E j \in 2..y : j > x /\ i.buffer[j] >= 128
  BY DEF Adds, IsStatus
<1> HIDE DEF x, y, z
<1>3. ASSUME NEW j \in 2..z, j > x, n.buffer[j] >= 128
      PROVE  \/ \E k \in 2..y : k > x /\ i.buffer[k] >= 128
             \/ \E k \in 1..z : k > y /\ n.buffer[k] >= 128
  <2>1. CASE j <= y
    <3>1. j \in 2..y /\ j \in 1..y
      BY <1>1, <2>1
    <3>2. i.buffer[j] >= 128
      BY <1>1, <1>3, <3>1
    <3> QED BY <1>3, <3>1, <3>2
  <2>2. CASE j > y
    <3>1. j \in 1..z
      BY <1>1
    <3> QED BY <1>3, <2>2, <3>1
  <2> QED BY <1>1, <2>1, <2>2
<1>4. ASSUME NEW j \in 2..y, j > x, i.buffer[j] >= 128
      PROVE  \E k \in 2..z : k > x /\ n.buffer[k] >= 128
  <2>1. j \in 2..z /\ j \in 1..y
    BY <1>1
  <2>2. n.buffer[j] >= 128
    BY <1>1, <1>4, <2>1
  <2> QED BY <1>4, <2>1, <2>2
<1>5. ASSUME NEW j \in 1..z, j > y, n.buffer[j] >= 128
      PROVE  \E k \in 2..z : k > x /\ n.buffer[k] >= 128
  <2>1. j >= 2 /\ j > x
    BY <1>1, <1>2, <1>5
  <2>2. j \in 2..z
    BY <1>1, <2>1
  <2> QED BY <1>5, <2>1, <2>2
<1>6. /\ Adds(b.buffer, n.buffer) =>
           \/ Adds(b.buffer, i.buffer)
           \/ \E j \in 1..z : j > y /\ n.buffer[j] >= 128
      /\ Adds(b.buffer, i.buffer) => Adds(b.buffer, n.buffer)
      /\ (\E j \in 1..z : j > y /\ n.buffer[j] >= 128) => Adds(b.buffer, n.buffer)
  BY <1>a, <1>3, <1>4, <1>5
<1> QED BY <1>6 DEF y, z

\* Concatenation is associative,
LEMMA Assoc ==
  ASSUME NEW s \in Seq(Byte), NEW u \in Seq(Byte), NEW v \in Seq(Byte)
  PROVE  (s \o u) \o v = s \o (u \o v) /\ s \o u \in Seq(Byte)
BY ConcatAssociative

\* the last element is that of the second sequence,
LEMMA ConcatLast ==
  ASSUME NEW s \in Seq(Byte), NEW u \in Seq(Byte), u # <<>>
  PROVE  s \o u # <<>> /\ (s \o u)[Len(s \o u)] = u[Len(u)]
<1> DEFINE v == s \o u
<1>1. Len(v) = Len(s) + Len(u) /\ \A j \in 1..Len(u) : v[Len(s) + j] = u[j]
  BY ConcatLonger DEF Longer
<1>2. Len(u) >= 1 /\ Len(u) \in Nat /\ Len(s) \in Nat
  OBVIOUS
<1> HIDE DEF v
<1>3. v[Len(v)] = u[Len(u)] /\ Len(v) >= 1
  BY <1>1, <1>2
<1>4. v # <<>>
  BY <1>3
<1> QED BY <1>3, <1>4 DEF v

\* and what differs from x in both parts differs from x in the whole.
LEMMA ConcatAll ==
  ASSUME NEW s \in Seq(Byte), NEW u \in Seq(Byte), NEW x,
         \A j \in 1..Len(s) : s[j] # x, \A j \in 1..Len(u) : u[j] # x
  PROVE  \A j \in 1..Len(s \o u) : (s \o u)[j] # x
<1> DEFINE v == s \o u
<1>1. /\ Len(v) = Len(s) + Len(u) /\ \A j \in 1..Len(s) : v[j] = s[j]
      /\ \A j \in 1..Len(u) : v[Len(s) + j] = u[j]
  BY ConcatLonger DEF Longer
<1>2. Len(u) \in Nat /\ Len(s) \in Nat
  OBVIOUS
<1> HIDE DEF v
<1>3. ASSUME NEW j \in 1..Len(v) PROVE v[j] # x
  <2>1. CASE j <= Len(s)
    <3>1. j \in 1..Len(s)
      BY <1>2, <2>1
    <3> QED BY <1>1, <3>1
  <2>2. CASE j > Len(s)
    <3> DEFINE k == j - Len(s)
    <3>1. k \in 1..Len(u) /\ Len(s) + k = j
      BY <1>1, <1>2, <2>2
    <3> HIDE DEF k
    <3>2. v[Len(s) + k] = u[k]
      BY <1>1, <3>1
    <3> QED BY <3>1, <3>2
  <2> QED BY <1>1, <1>2, <2>1, <2>2
<1> QED BY <1>3 DEF v

\* ContinueSysEx for a packet that is prepared for it.
LEMMA ContinuePrepared ==
  ASSUME NEW r \in Receivers, NEW b, BuilderOK(b), InStep(b, Cursor(r, b.buffer)),
         NEW t \in Stamps, NEW i, NEW pre, Prepared(r, b, i, t, pre),
         NEW data, Chunk(data), data = <<>> => Len(i.buffer) >= 2,
         i.buffer[1] >= 128, Len(i.buffer) >= 1
  PROVE  SysExAdded(r, b, ContinueSysEx(i, data, t), pre \o data, t)
<1> DEFINE a == ContinueSysEx(i, data, t)
           n == a.builder
           q == Cursor(r, b.buffer).rx
           c == Cursor(r, i.buffer)
           e == Cursor(r, n.buffer)
           st == StartTime(b, Cursor(r, b.buffer), t)
           time == NextTimestamp(c.ble.timestamp, Low(t))
           m == pre \o data
<1>1. a.ok = TRUE /\ Fuller(i, n) /\ (Continued(r, i, a, data) \/ Ended(r, i, a, data, time))
  BY Continue DEF Prepared
<1> HIDE DEF a
<1>2. /\ i \in Builders(Capacities) /\ i.buffer \in Seq(Byte) /\ Len(i.buffer) \in Nat
      /\ i.runningHeader = 0 /\ Len(b.buffer) \in Nat /\ pre \in Seq(Byte)
      /\ data \in Seq(Byte) /\ i.capacity \in Nat /\ i.capacity >= 5
      /\ st \in Nat /\ q \in Receivers /\ Open(r, i.buffer)
      /\ c.rx.items = q.items /\ c.rx.clocks = q.clocks
      /\ Collected(c.rx) = Before(q) \o pre /\ Before(q) \in Seq(Byte)
  <2>1. i \in Builders(Capacities) /\ i.runningHeader = 0 /\ Open(r, i.buffer)
    BY DEF Prepared, Filling
  <2>2. pre \in Seq(Byte) /\ data \in Seq(Byte) /\ c.rx.items = q.items
        /\ c.rx.clocks = q.clocks /\ Collected(c.rx) = Before(q) \o pre
    BY DEF Prepared, Chunk
  <2>3. b.buffer \in Seq(Byte)
    BY BuilderFields DEF BuilderOK
  <2>4. st \in Nat
    BY AdvancedStart
  <2>5. q \in Receivers
    BY <2>3, CursorType
  <2>6. Before(q) \in Seq(Byte)
    BY <2>5, CollectedType DEF Before
  <2> HIDE DEF q, c, st
  <2> QED BY <2>1, <2>2, <2>3, <2>4, <2>5, <2>6, BuilderFields
<1>3. /\ n \in Builders(Capacities) /\ n.capacity = i.capacity /\ Len(n.buffer) <= n.capacity
      /\ n.runningHeader = 0 /\ n.buffer \in Seq(Byte) /\ Len(n.buffer) \in Nat
      /\ Len(n.buffer) >= Len(i.buffer) /\ n.buffer[1] >= 128
  <2>1. /\ n \in Builders(Capacities) /\ n.capacity = i.capacity /\ Len(n.buffer) <= n.capacity
        /\ n.runningHeader = i.runningHeader /\ n.buffer \in Seq(Byte)
        /\ Len(n.buffer) >= Len(i.buffer)
        /\ \A j \in 1..Len(i.buffer) : n.buffer[j] = i.buffer[j]
    BY <1>1 DEF Fuller
  <2> HIDE DEF n
  <2>2. 1 \in 1..Len(i.buffer) /\ Len(n.buffer) \in Nat
    BY <1>2, <2>1
  <2>3. n.buffer[1] >= 128
    BY <2>1, <2>2
  <2> QED BY <1>2, <2>1, <2>2, <2>3
<1>4. Adds(b.buffer, n.buffer) <=>
           \/ Adds(b.buffer, i.buffer)
           \/ \E j \in 1..Len(n.buffer) : j > Len(i.buffer) /\ n.buffer[j] >= 128
  <2>1. \A j \in Nat : j > Len(i.buffer) => j >= 2 /\ j > Len(b.buffer)
    BY DEF Prepared
  <2> HIDE DEF n
  <2> QED BY <1>1, <1>2, <2>1, FullerAdds, SMTT(30)
<1>5. c.ble.timestamp = IF Adds(b.buffer, i.buffer) THEN NextTimestamp(st, Low(t)) ELSE st
  BY DEF Prepared, Stamped
<1>6. CASE Continued(r, i, a, data)
  <2>1. PICK s \in Seq(Byte) : /\ Collects(r, i.buffer, n.buffer, s) /\ data = s \o a.rest
                               /\ Len(n.buffer) = Len(i.buffer) + Len(s)
                               /\ \A j \in 1..Len(s) : s[j] < 128
                               /\ Len(s) = 0 => Len(i.buffer) >= i.capacity - 1 \/ data = <<>>
    BY <1>6 DEF Continued
  <2>2. Chunk(a.rest)
        /\ \A j \in 1..Len(n.buffer) : j > Len(i.buffer) => n.buffer[j] < 128
    BY <1>6 DEF Continued
  <2>3. /\ Open(r, n.buffer) /\ e.ble = c.ble /\ Collecting(e.rx)
        /\ e.rx.items = c.rx.items /\ e.rx.clocks = c.rx.clocks
        /\ Collected(e.rx) = Collected(c.rx) \o s
    BY <2>1 DEF Collects
  <2> HIDE DEF n, q, c, e, st
  <2>4. Len(n.buffer) >= 2
    <3> DEFINE x == Len(n.buffer)  y == Len(i.buffer)  z == i.capacity  k == Len(s)
    <3>1. x = y + k /\ (k = 0 => y >= z - 1 \/ y >= 2) /\ k \in Nat /\ y \in Nat /\ y >= 1
          /\ z \in Nat /\ z >= 5
      BY <1>2, <2>1
    <3> HIDE DEF x, y, z, k
    <3>2. x >= 2
      BY <3>1
    <3> QED BY <3>2 DEF x
  <2>5. n.buffer # <<>>
    BY <1>3, <2>4
  <2>6. BuilderOK(n) /\ InStep(n, e)
    BY <1>3, <2>3, <2>4, <2>5 DEF BuilderOK, InStep, Open, e
  <2>7. Adds(b.buffer, n.buffer) <=> Adds(b.buffer, i.buffer)
    BY <1>3, <1>4, <2>2, ByteFact
  <2>8. Stamped(b, n, Cursor(r, b.buffer), e, t)
    BY <1>5, <2>3, <2>7 DEF Stamped, st
  <2>9. Taken(q, e.rx, m, a.rest)
    <3>1. a.rest \in Seq(Byte)
      BY <2>2 DEF Chunk
    <3> DEFINE u == a.rest
    <3> HIDE DEF u
    <3>2. pre \o s \in Seq(Byte) /\ pre \o (s \o u) = (pre \o s) \o u
          /\ (Before(q) \o pre) \o s = Before(q) \o (pre \o s)
      <4>1. u \in Seq(Byte)
        BY <3>1 DEF u
      <4>2. pre \o s \in Seq(Byte) /\ (pre \o s) \o u = pre \o (s \o u)
        <5> DEFINE v == pre
        <5>1. v \in Seq(Byte)
          BY <1>2
        <5> HIDE DEF v
        <5>2. v \o s \in Seq(Byte)
          BY <5>1, Assoc
        <5>3. (v \o s) \o u = v \o (s \o u)
          BY <4>1, <5>1, Assoc
        <5> QED BY <5>2, <5>3 DEF v
      <4>3. (Before(q) \o pre) \o s = Before(q) \o (pre \o s)
        <5> DEFINE v == pre
                   w == Before(q)
        <5>1. v \in Seq(Byte) /\ w \in Seq(Byte) /\ s \in Seq(Byte)
          BY <1>2
        <5> HIDE DEF v, w
        <5>2. (w \o v) \o s = w \o (v \o s)
          BY <5>1, Assoc
        <5> QED BY <5>2 DEF v, w
      <4> QED BY <4>2, <4>3
    <3>3. m = (pre \o s) \o a.rest /\ Collected(e.rx) = Before(q) \o (pre \o s)
      BY <1>2, <2>1, <2>3, <3>2 DEF u
    <3>4. \A j \in 1..Len(pre \o s) : (pre \o s)[j] # SysExEnd
      <4>1. \A j \in 1..Len(s) : s[j] # SysExEnd
        BY <2>1, SMTT(30) DEF SysExEnd
      <4>2. \A j \in 1..Len(pre) : pre[j] # SysExEnd
        BY DEF Prepared
      <4> DEFINE x == SysExEnd
      <4> HIDE DEF x
      <4>3. \A j \in 1..Len(pre \o s) : (pre \o s)[j] # x
        BY <1>2, <4>1, <4>2, ConcatAll DEF x
      <4> QED BY <4>3 DEF x
    <3> HIDE DEF m
    <3> QED BY <1>2, <2>2, <2>3, <3>2, <3>3, <3>4 DEF Taken
  <2>10. e.rx.clocks = q.clocks
    BY <1>2, <2>3
  <2> QED BY <1>1, <2>5, <2>6, <2>8, <2>9, <2>10 DEF SysExAdded, a, n, q, e, m
<1>7. CASE Ended(r, i, a, data, time)
  <2>1. /\ a.rest = <<>> /\ data # <<>> /\ data[Len(data)] = SysExEnd
        /\ Open(r, n.buffer) /\ e.ble.timestamp = time
        /\ e.rx \in Receivers /\ Ready(e.rx) /\ e.rx.parser.currentHeader = 0
        /\ e.rx.partial = <<>>
        /\ e.rx.items = Append(c.rx.items, [bytes |-> Collected(c.rx) \o data, time |-> time])
        /\ e.rx.clocks = c.rx.clocks
        /\ \E j \in 1..Len(n.buffer) : j > Len(i.buffer) /\ n.buffer[j] >= 128
    BY <1>7 DEF Ended
  <2>2. time = NextTimestamp(st, Low(t))
    BY <1>2, <1>5, NextTwice
  <2> HIDE DEF n, q, c, e, st, time
  <2>3. Adds(b.buffer, n.buffer)
    BY <1>4, <2>1
  <2>4. Len(n.buffer) >= 2 /\ n.buffer # <<>>
    <3>1. PICK j \in 1..Len(n.buffer) : j > Len(i.buffer)
      BY <2>1
    <3>2. Len(n.buffer) >= 2
      BY <1>2, <1>3, <3>1
    <3> QED BY <1>3, <3>2
  <2>5. BuilderOK(n) /\ InStep(n, e)
    BY <1>3, <2>1, <2>4 DEF BuilderOK, InStep, Open, e
  <2>6. Stamped(b, n, Cursor(r, b.buffer), e, t)
    BY <2>1, <2>2, <2>3 DEF Stamped, st
  <2>7. (Before(q) \o pre) \o data = Before(q) \o m /\ m \in Seq(Byte)
    BY <1>2, Assoc
  <2>8. m # <<>> /\ m[Len(m)] = SysExEnd
    BY <1>2, <2>1, ConcatLast
  <2> HIDE DEF m
  <2>9. Finished(q, e.rx, m, e.ble.timestamp)
    BY <1>2, <2>1, <2>7, <2>8 DEF Finished
  <2>10. e.rx.clocks = q.clocks
    BY <1>2, <2>1
  <2> QED BY <1>1, <2>1, <2>3, <2>4, <2>5, <2>6, <2>9, <2>10 DEF SysExAdded, a, n, q, e, m
<1> QED BY <1>1, <1>6, <1>7

\* A packet with a header keeps it.
LEMMA InitAgain ==
  ASSUME NEW b, b.buffer # <<>>, NEW t
  PROVE  InitBuffer(b, t) = b
BY DEF InitBuffer

\* The rest of a system exclusive message goes behind what the packet has.
LEMMA PrepareChunk ==
  ASSUME NEW r \in Receivers, NEW b, BuilderOK(b), InStep(b, Cursor(r, b.buffer)),
         NEW t \in Stamps, Ready(Cursor(r, b.buffer).rx),
         Cursor(r, b.buffer).rx.parser.currentHeader = SysExStart
  PROVE  Prepared(r, b, InitBuffer(b, t), t, <<>>)
<1> DEFINE i == InitBuffer(b, t)
           c == Cursor(r, b.buffer)
           q == c.rx
           d == Cursor(r, i.buffer)
<1>1. /\ Open(r, i.buffer) /\ i \in Builders(Capacities) /\ i.capacity = b.capacity
      /\ i.runningHeader = b.runningHeader /\ Len(i.buffer) <= b.capacity
      /\ d.rx = q /\ d.ble.timestamp = StartTime(b, c, t)
      /\ \A j \in Nat : j >= 2 /\ j > Len(b.buffer) <=> j > Len(i.buffer)
      /\ Len(i.buffer) \in Nat /\ Len(i.buffer) >= 1 /\ q \in Receivers
      /\ i.buffer \in Seq(Byte)
  BY Begun
<1>2. b.runningHeader = 0
  BY DEF InStep, SysExStart
<1>3. Collecting(q)
  BY <1>1 DEF Collecting
<1> HIDE DEF i, c
<1>4. i.buffer # <<>>
  BY <1>1
<1>5. InitBuffer(i, t) = i
  BY <1>4, InitAgain
<1>6. ~Adds(b.buffer, i.buffer)
  <2> DEFINE x == Len(b.buffer)  y == Len(i.buffer)
  <2>1. \A j \in Nat : j >= 2 /\ j > x <=> j > y
    BY <1>1
  <2>2. y \in Nat
    BY <1>1
  <2> HIDE DEF x, y
  <2>3. ~\E j \in 2..y : j > x
    BY <2>1, <2>2
  <2> QED BY <2>3 DEF Adds, x, y
<1>7. Collected(q) \o <<>> = Before(q) \o <<>> /\ <<>> \in Seq(Byte)
  BY DEF Before, c
<1>8. Collected(q) \o <<>> = Collected(q)
  <2>1. Collected(q) \in Seq(Byte)
    BY <1>1, CollectedType
  <2> QED BY <2>1
<1>9. Stamped(b, i, c, d, t)
  BY <1>1, <1>6 DEF Stamped
<1>10. Filling(r, i)
  BY <1>1, <1>2, <1>3 DEF Filling
<1>11. \A j \in 1..Len(<<>>) : <<>>[j] # SysExEnd
  OBVIOUS
<1> QED BY <1>1, <1>5, <1>7, <1>8, <1>9, <1>10, <1>11 DEF Prepared, i, c

\* The beginning of a system exclusive message.
Started(i, l) == [i EXCEPT !.buffer = @ \o <<l, 240>>, !.runningHeader = 0]

\* Its receiver is in a system exclusive message.
LEMMA StartedFacts ==
  ASSUME NEW i \in Builders(Capacities), NEW l \in Byte, l >= 128,
         i.buffer \in Seq(Byte), Len(i.buffer) >= 1, i.buffer[1] >= 128
  PROVE  /\ Started(i, l) \in Builders(Capacities) /\ Started(i, l).capacity = i.capacity
         /\ Started(i, l).runningHeader = 0
         /\ Longer(Started(i, l).buffer, i.buffer, 2)
         /\ Started(i, l).buffer[Len(i.buffer) + 1] = l
         /\ Started(i, l).buffer[Len(i.buffer) + 2] = SysExStart
         /\ Started(i, l).buffer[1] >= 128 /\ Len(Started(i, l).buffer) = Len(i.buffer) + 2
         /\ Started(i, l).buffer \in Seq(Byte)
<1> DEFINE end == <<l, 240>>
           new == i.buffer \o end
           n == Started(i, l)
<1>1. end \in Seq(Byte) /\ Len(end) = 2 /\ end[1] = l /\ end[2] = 240
  <2>1. 240 \in Byte
    BY DEF Byte
  <2> QED BY <2>1
<1> HIDE DEF end
<1>2. new \in Seq(Byte) /\ Longer(new, i.buffer, 2)
      /\ \A j \in 1..2 : new[Len(i.buffer) + j] = end[j]
  <2>1. new \in Seq(Byte) /\ Longer(new, i.buffer, Len(end))
        /\ \A j \in 1..Len(end) : new[Len(i.buffer) + j] = end[j]
    <3> DEFINE y == i.buffer
    <3> HIDE DEF y
    <3>1. y \in Seq(Byte)
      BY DEF y
    <3>2. y \o end \in Seq(Byte) /\ Longer(y \o end, y, Len(end))
          /\ \A j \in 1..Len(end) : (y \o end)[Len(y) + j] = end[j]
      <4>1. end \in Seq(Byte)
        BY <1>1
      <4> QED BY <4>1, <3>1, ConcatLonger
    <3> QED BY <3>2 DEF y
  <2> HIDE DEF new
  <2> QED BY <1>1, <2>1
<1>3. n = [i EXCEPT !.buffer = new, !.runningHeader = 0]
  BY DEF Started, end
<1> HIDE DEF new, n
<1>4. /\ n \in Builders(Capacities) /\ n.buffer = new /\ n.capacity = i.capacity
      /\ n.runningHeader = 0
  <2>1. i \in [buffer : Seq(Byte), capacity : Capacities, runningHeader : Byte,
               runningTimestamp : Byte] /\ 0 \in Byte
    BY DEF Builders, Byte
  <2>2. /\ n \in [buffer : Seq(Byte), capacity : Capacities, runningHeader : Byte,
                  runningTimestamp : Byte]
        /\ n.buffer = new /\ n.capacity = i.capacity /\ n.runningHeader = 0
    BY <1>2, <1>3, <2>1
  <2> QED BY <2>2 DEF Builders, Byte
<1>5. new[Len(i.buffer) + 1] = l /\ new[Len(i.buffer) + 2] = SysExStart
  BY <1>1, <1>2 DEF SysExStart
<1>6. Len(new) = Len(i.buffer) + 2 /\ new[1] >= 128
  <2>1. Len(i.buffer) \in Nat /\ 1 \in 1..Len(i.buffer)
    OBVIOUS
  <2> QED BY <1>2, <2>1 DEF Longer
<1> QED BY <1>2, <1>4, <1>5, <1>6 DEF n

\* The beginning of a system exclusive message goes behind what the packet has.
LEMMA PrepareStart ==
  ASSUME NEW r \in Receivers, NEW b, BuilderOK(b), InStep(b, Cursor(r, b.buffer)),
         NEW t \in Stamps, Ready(Cursor(r, b.buffer).rx),
         Cursor(r, b.buffer).rx.parser.currentHeader # SysExStart,
         Cursor(r, b.buffer).rx.partial = <<>>,
         Room(InitBuffer(b, t)) >= 2
  PROVE  /\ Prepared(r, b, Started(InitBuffer(b, t), TimestampLSB(t)), t, <<SysExStart>>)
         /\ Started(InitBuffer(b, t), TimestampLSB(t)).buffer[1] >= 128
         /\ Len(Started(InitBuffer(b, t), TimestampLSB(t)).buffer) >= 2
<1> DEFINE i == InitBuffer(b, t)
           l == TimestampLSB(t)
           c == Cursor(r, b.buffer)
           q == c.rx
           d == Cursor(r, i.buffer)
           n == Started(i, l)
           e == Cursor(r, n.buffer)
           time == NextTimestamp(StartTime(b, c, t), Low(t))
           p == e.rx
<1>1. /\ Open(r, i.buffer) /\ i \in Builders(Capacities) /\ i.capacity = b.capacity
      /\ Len(i.buffer) <= b.capacity /\ b.capacity \in Nat
      /\ d.rx = q
      /\ \A j \in Nat : j >= 2 /\ j > Len(b.buffer) <=> j > Len(i.buffer)
      /\ Len(i.buffer) \in Nat /\ Len(i.buffer) >= 1 /\ q \in Receivers
      /\ i.buffer \in Seq(Byte) /\ i.buffer[1] >= 128
  BY Begun
<1>2. Advanced(d, l) = time /\ time \in Nat
  BY AdvancedStart
<1>3. l \in Byte /\ l >= 128
  BY LSBFacts
<1>r. i.capacity - Len(i.buffer) >= 2
  BY DEF Room
<1> HIDE DEF l, i
<1>4. /\ n \in Builders(Capacities) /\ n.capacity = i.capacity /\ n.runningHeader = 0
      /\ Longer(n.buffer, i.buffer, 2) /\ n.buffer[Len(i.buffer) + 1] = l
      /\ n.buffer[Len(i.buffer) + 2] = SysExStart
      /\ n.buffer[1] >= 128 /\ Len(n.buffer) = Len(i.buffer) + 2 /\ n.buffer \in Seq(Byte)
  BY <1>1, <1>3, StartedFacts
<1>5. Len(n.buffer) <= n.capacity /\ Len(n.buffer) >= 2 /\ n.buffer # <<>>
      /\ Len(n.buffer) > Len(i.buffer)
  <2> DEFINE x == Len(n.buffer)  y == Len(i.buffer)  z == i.capacity
  <2>1. x = y + 2 /\ y \in Nat /\ z \in Nat /\ z - y >= 2 /\ y >= 1
    BY <1>1, <1>4, <1>r
  <2> HIDE DEF x, y, z
  <2>2. x <= z /\ x >= 2 /\ x > y
    BY <2>1
  <2> HIDE DEF n
  <2>3. n.buffer # <<>>
    BY <2>2 DEF x
  <2> QED BY <1>4, <2>2, <2>3 DEF x, y, z
<1>6. InitBuffer(n, t) = n
  BY <1>5, InitAgain
<1> HIDE DEF n
<1>7. Open(r, n.buffer) /\ e.ble.timestamp = time
      /\ p = RxByte(q, SysExStart, time)
  <2> DEFINE x == SysExStart
  <2>1. n.buffer[Len(i.buffer) + 2] = x
    BY <1>4
  <2> HIDE DEF x
  <2>2. /\ Open(r, n.buffer)
        /\ Cursor(r, n.buffer).ble.timestamp = Advanced(d, l)
        /\ Cursor(r, n.buffer).rx = RxByte(d.rx, x, Advanced(d, l))
    BY <1>1, <1>3, <1>4, <2>1, StampedRead
  <2> HIDE DEF d, c
  <2> QED BY <1>1, <1>2, <2>2 DEF x
<1>8. /\ p \in Receivers /\ Ready(p) /\ p.parser.currentHeader = SysExStart
      /\ p.parser.sysex = <<SysExStart>>
      /\ p.items = q.items /\ p.clocks = q.clocks /\ p.partial = <<>>
  <2> HIDE DEF time, p, c
  <2>1. Ready(q) /\ q.parser.currentHeader # SysExStart /\ q.partial = <<>>
    BY DEF c
  <2> QED BY <1>1, <1>2, <1>7, <2>1, RxStart
<1>9. Collected(p) = <<SysExStart>> /\ Before(q) = <<>> /\ <<SysExStart>> \in Seq(Byte)
      /\ <<>> \o <<SysExStart>> = <<SysExStart>>
  <2>1. SysExStart \in Byte
    BY DEF SysExStart, Byte
  <2> DEFINE x == SysExStart
  <2> HIDE DEF x
  <2>2. <<x>> \in Seq(Byte) /\ <<>> \o <<x>> = <<x>>
    BY <2>1 DEF x
  <2>3. Before(q) = <<>>
    BY DEF Before
  <2> HIDE DEF p, q
  <2> QED BY <1>8, <2>2, <2>3 DEF Collected, x
<1>10. \A j \in Nat : j > Len(n.buffer) => j >= 2 /\ j > Len(b.buffer)
  <2> DEFINE x == Len(b.buffer)  y == Len(i.buffer)  z == Len(n.buffer)
  <2>1. \A j \in Nat : j >= 2 /\ j > x <=> j > y
    BY <1>1
  <2>2. y \in Nat /\ z = y + 2
    BY <1>1, <1>4
  <2> HIDE DEF x, y, z
  <2>3. \A j \in Nat : j > z => j >= 2 /\ j > x
    BY <2>1, <2>2
  <2> QED BY <2>3 DEF x, y, z
<1>11. Adds(b.buffer, n.buffer)
  <2> DEFINE k == Len(i.buffer) + 1
  <2>1. k \in Nat /\ k > Len(i.buffer) /\ k <= Len(n.buffer) /\ n.buffer[k] >= 128
    BY <1>1, <1>3, <1>4
  <2> HIDE DEF k
  <2> QED BY <1>4, <1>5, <2>1, StampAdds DEF i
<1>12. Stamped(b, n, c, e, t)
  BY <1>7, <1>11 DEF Stamped
<1>13. Filling(r, n)
  BY <1>4, <1>5, <1>7, <1>8 DEF Filling, Collecting
<1>14. n.capacity = b.capacity
  BY <1>1, <1>4
<1>15. \A j \in 1..Len(<<SysExStart>>) : <<SysExStart>>[j] # SysExEnd
  BY DEF SysExStart, SysExEnd
<1> QED BY <1>4, <1>5, <1>6, <1>8, <1>9, <1>10, <1>12, <1>13, <1>14, <1>15
    DEF Prepared, n, i, l

\* A builder that refuses a message is unchanged, and has something to send.
Kept(b, a) == a.ok = FALSE /\ a.builder = b /\ a.rest = <<>> /\ b.buffer # <<>>

\* A packet that is prepared is the same to ContinueSysEx.
LEMMA ContinuePacket ==
  ASSUME NEW b, BuilderOK(b), NEW t \in Stamps, NEW data
  PROVE  ContinueSysEx(InitBuffer(b, t), data, t) = ContinueSysEx(b, data, t)
<1>1. InitBuffer(b, t).buffer # <<>>
  <2>1. InitBuffer(b, t) = IF b.buffer = <<>> THEN [b EXCEPT !.buffer = <<TimestampMSB(t)>>]
                           ELSE b
    BY DEF InitBuffer
  <2>2. b.buffer = <<>> => InitBuffer(b, t).buffer = <<TimestampMSB(t)>>
    BY <2>1 DEF BuilderOK, Builders
  <2> QED BY <2>1, <2>2
<1>2. InitBuffer(InitBuffer(b, t), t) = InitBuffer(b, t)
  BY <1>1, InitAgain
<1> QED BY <1>2 DEF ContinueSysEx

\* The rest of a system exclusive message.
LEMMA ContinueRead ==
  ASSUME NEW r \in Receivers, NEW b, BuilderOK(b), InStep(b, Cursor(r, b.buffer)),
         NEW t \in Stamps, Ready(Cursor(r, b.buffer).rx),
         Cursor(r, b.buffer).rx.parser.currentHeader = SysExStart,
         NEW m, Chunk(m), m # <<>>
  PROVE  SysExAdded(r, b, ContinueSysEx(b, m, t), m, t)
<1> DEFINE i == InitBuffer(b, t)
<1>1. Prepared(r, b, i, t, <<>>)
  BY PrepareChunk
<1>2. i.buffer[1] >= 128 /\ Len(i.buffer) >= 1
  BY Begun
<1> HIDE DEF i
<1>3. SysExAdded(r, b, ContinueSysEx(i, m, t), <<>> \o m, t)
  BY <1>1, <1>2, ContinuePrepared
<1>4. <<>> \o m = m
  BY DEF Chunk
<1>5. ContinueSysEx(i, m, t) = ContinueSysEx(b, m, t)
  BY ContinuePacket DEF i
<1> QED BY <1>3, <1>4, <1>5

\* A system exclusive chunk is added.
LEMMA AddSysExChunk ==
  ASSUME NEW r \in Receivers, NEW b, BuilderOK(b), InStep(b, Cursor(r, b.buffer)),
         NEW t \in Stamps, Ready(Cursor(r, b.buffer).rx),
         Cursor(r, b.buffer).rx.parser.currentHeader = SysExStart,
         NEW m, Chunk(m), m # <<>>
  PROVE  SysExAdded(r, b, AddSysEx(b, m, t), m, t)
<1>1. Head(m) # 240
  <2>1. m \in Seq(Byte) /\ (m[1] < 128 \/ m[1] = 247)
    <3>1. m \in Seq(Byte) /\ Len(m) >= 1
      BY DEF Chunk
    <3>2. 1 \in 1..Len(m)
      BY <3>1
    <3> QED BY <3>1, <3>2 DEF Chunk, SysExEnd
  <2>2. m[1] # 240
    BY <2>1
  <2> QED BY <2>1, <2>2
<1>2. AddSysEx(b, m, t) = ContinueSysEx(InitBuffer(b, t), m, t)
  BY <1>1 DEF AddSysEx
<1> QED BY <1>2, ContinuePacket, ContinueRead

\* A system exclusive message is started.
LEMMA AddSysExStart ==
  ASSUME NEW r \in Receivers, NEW b, BuilderOK(b), InStep(b, Cursor(r, b.buffer)),
         NEW t \in Stamps, Ready(Cursor(r, b.buffer).rx),
         Cursor(r, b.buffer).rx.parser.currentHeader # SysExStart,
         Cursor(r, b.buffer).rx.partial = <<>>,
         NEW m \in Seq(Byte), m # <<>>, m[1] = SysExStart, Chunk(Tail(m))
  PROVE  Kept(b, AddSysEx(b, m, t)) \/ SysExAdded(r, b, AddSysEx(b, m, t), m, t)
<1> DEFINE i == InitBuffer(b, t)
           n == Started(i, TimestampLSB(t))
           data == Tail(m)
<1>1. AddSysEx(b, m, t) = IF Room(i) < 2 THEN Refused(i) ELSE ContinueSysEx(n, data, t)
  <2>1. Head(m) = 240
    BY DEF SysExStart
  <2> QED BY <2>1 DEF AddSysEx, Started
<1>2. /\ i.capacity = b.capacity /\ b.capacity \in Nat
      /\ b.buffer # <<>> => i = b
      /\ b.buffer = <<>> => b.capacity - Len(i.buffer) >= 4
  BY Begun
<1> HIDE DEF i
<1>3. CASE Room(i) < 2
  <2>1. b.buffer # <<>>
    <3> SUFFICES ASSUME b.buffer = <<>> PROVE FALSE
      OBVIOUS
    <3> DEFINE x == b.capacity - Len(i.buffer)
    <3>1. x >= 4 /\ x < 2
      BY <1>2, <1>3 DEF Room
    <3>2. x \in Int
      BY <1>2, Begun DEF i
    <3> HIDE DEF x
    <3> QED BY <3>1, <3>2
  <2>2. AddSysEx(b, m, t) = Refused(b)
    BY <1>1, <1>2, <1>3, <2>1
  <2> QED BY <2>1, <2>2 DEF Refused, Kept
<1>4. CASE ~(Room(i) < 2)
  <2>1. Room(i) >= 2
    <3> DEFINE x == b.capacity - Len(i.buffer)
    <3>1. Room(i) = x
      BY <1>2 DEF Room
    <3>2. x \in Int
      BY <1>2, Begun DEF i
    <3> HIDE DEF x
    <3> QED BY <1>4, <3>1, <3>2
  <2>2. /\ Prepared(r, b, n, t, <<SysExStart>>) /\ n.buffer[1] >= 128 /\ Len(n.buffer) >= 2
    BY <2>1, PrepareStart DEF i
  <2> HIDE DEF n, data
  <2>3. SysExAdded(r, b, ContinueSysEx(n, data, t), <<SysExStart>> \o data, t)
    <3>1. Chunk(data) /\ Len(n.buffer) >= 1
      BY <2>2 DEF data
    <3> QED BY <2>2, <3>1, ContinuePrepared
  <2>4. <<SysExStart>> \o data = m
    <3> DEFINE x == m[1]  v == <<x>> \o data
    <3>1. data \in Seq(Byte) /\ Len(data) = Len(m) - 1 /\ x \in Byte
          /\ \A j \in 1..(Len(m) - 1) : data[j] = m[j + 1]
      BY TailFacts DEF data
    <3> HIDE DEF x
    <3>2. v \in Seq(Byte) /\ Len(v) = Len(data) + 1 /\ v[1] = x
          /\ \A j \in 1..Len(data) : v[j + 1] = data[j]
      BY <3>1, WithTimestamp
    <3> HIDE DEF v
    <3>3. \A j \in 1..Len(m) : v[j] = m[j]
      <4> SUFFICES ASSUME NEW j \in 1..Len(m) PROVE v[j] = m[j]
        OBVIOUS
      <4>1. CASE j = 1
        BY <3>2, <4>1 DEF x
      <4>2. CASE j # 1
        <5> DEFINE k == j - 1
        <5>1. k \in 1..Len(data) /\ k + 1 = j /\ k \in 1..(Len(m) - 1)
          BY <3>1, <4>2
        <5> HIDE DEF k
        <5>2. v[k + 1] = data[k] /\ data[k] = m[k + 1]
          BY <3>1, <3>2, <5>1
        <5> QED BY <5>1, <5>2
      <4> QED BY <4>1, <4>2
    <3>4. Len(v) = Len(m)
      BY <3>1, <3>2
    <3>5. v = m
      BY <3>2, <3>3, <3>4, SeqEqual
    <3> QED BY <3>5 DEF v, x
  <2>5. AddSysEx(b, m, t) = ContinueSysEx(n, data, t)
    BY <1>1, <1>4
  <2> QED BY <2>3, <2>4, <2>5
<1> QED BY <1>3, <1>4

-------------------------------------------------------------------------------
(***************************************************************************)
(* The time of a message                                                   *)
(***************************************************************************)
\* The next time with a low part.
Carried(time, y) ==
  IF y < time % 128 THEN ((time \div 128 + 1) % 128) * 128 + y
                    ELSE ((time \div 128) % 128) * 128 + y

\* The next time is the one with that low part.
LEMMA NextParts ==
  ASSUME NEW time \in Nat, NEW y \in Nat
  PROVE  NextTimestamp(time, y) = Carried(time, y)
<1>1. (time + 128) \div 128 = time \div 128 + 1
  OBVIOUS
<1> QED BY <1>1 DEF NextTimestamp, Carried

\* The carry into the high part, modulo 6 bits.
LEMMA Mod64 ==
  ASSUME NEW h \in Nat, NEW y \in Nat, y < 128
  PROVE  ((h % 128) * 128 + y) % 8192 = (h % 64) * 128 + y
<1> DEFINE k == h \div 128  g == h % 128
<1>1. h = k * 128 + g /\ g \in Nat /\ g < 128 /\ k \in Nat
  OBVIOUS
<1> HIDE DEF k, g
<1>2. h % 64 = g % 64
  BY <1>1
<1>3. CASE g < 64
  <2>1. g % 64 = g
    BY <1>1, <1>3
  <2>2. (g * 128 + y) % 8192 = g * 128 + y
    BY <1>1, <1>3
  <2> QED BY <1>2, <2>1, <2>2 DEF g
<1>4. CASE g >= 64
  <2>1. g % 64 = g - 64
    BY <1>1, <1>4
  <2>2. (g * 128 + y) % 8192 = (g - 64) * 128 + y
    BY <1>1, <1>4
  <2> QED BY <1>2, <2>1, <2>2 DEF g
<1> QED BY <1>1, <1>3, <1>4

\* The time that is recovered, by parts.
LEMMA Recovered ==
  ASSUME NEW h \in Nat, NEW v \in Nat, v < 128,
         NEW x \in Nat, x < 64, NEW y \in Nat, y < 128,
         NEW last, last = (h % 64) * 128 + v,
         ((x * 128 + y) + 8192 - last) % 8192 < 128
  PROVE  /\ y < v => (((h + 1) % 128) * 128 + y) % 8192 = x * 128 + y
         /\ ~(y < v) => ((h % 128) * 128 + y) % 8192 = x * 128 + y
         /\ v = y => last = x * 128 + y
<1> DEFINE u == h % 64
<1>1. u \in Nat /\ u < 64 /\ (h + 1) % 64 = (IF u = 63 THEN 0 ELSE u + 1)
  <2> DEFINE k == h \div 64
  <2>1. h = k * 64 + u /\ u \in Nat /\ u < 64 /\ k \in Nat
    OBVIOUS
  <2> HIDE DEF k, u
  <2>2. (h + 1) % 64 = (IF u = 63 THEN 0 ELSE u + 1)
    BY <2>1
  <2> QED BY <2>1, <2>2
<1>2. ((h % 128) * 128 + y) % 8192 = u * 128 + y
  BY Mod64
<1>3. (((h + 1) % 128) * 128 + y) % 8192 = ((h + 1) % 64) * 128 + y
  <2> DEFINE k == h + 1
  <2>1. k \in Nat
    OBVIOUS
  <2> HIDE DEF k
  <2>2. ((k % 128) * 128 + y) % 8192 = (k % 64) * 128 + y
    BY <2>1, Mod64
  <2> QED BY <2>2 DEF k
<1>4. last = u * 128 + v
  OBVIOUS
<1> HIDE DEF u
<1> DEFINE z == (x * 128 + y) + 8192 - last
<1>5. z \in Nat /\ z < 16384 /\ z = 128 * (x - u) + (y - v) + 8192
  BY <1>1, <1>4
<1>6. z < 128 \/ (z >= 8192 /\ z < 8320)
  <2>1. z % 8192 < 128
    OBVIOUS
  <2> HIDE DEF z
  <2> QED BY <1>5, <2>1
<1> HIDE DEF z
<1>7. y < v => x = (IF u = 63 THEN 0 ELSE u + 1)
  BY <1>1, <1>5, <1>6
<1>8. ~(y < v) => x = u
  BY <1>1, <1>5, <1>6
<1> QED BY <1>1, <1>2, <1>3, <1>4, <1>7, <1>8

\* A time by its parts, modulo 13 bits.
LEMMA Parts ==
  ASSUME NEW time \in Nat
  PROVE  /\ time % 8192 = ((time \div 128) % 64) * 128 + (time % 128)
         /\ time \div 128 \in Nat /\ time % 128 \in Nat /\ time % 128 < 128
<1> DEFINE h == time \div 128  v == time % 128
<1>1. time = h * 128 + v /\ h \in Nat /\ v \in Nat /\ v < 128
  OBVIOUS
<1> HIDE DEF h, v
<1> DEFINE k == h \div 64  u == h % 64
<1>2. h = k * 64 + u /\ u \in Nat /\ u < 64 /\ k \in Nat
  BY <1>1
<1> HIDE DEF k, u
<1>3. time % 8192 = u * 128 + v
  BY <1>1, <1>2
<1> QED BY <1>1, <1>3 DEF h, v, u

\* The time t is at most 127 ms after last.
Near(last, t) == (t + 8192 - last) % 8192 < 128

\* A receiver that knows a time knows every one in the next 128 ms from its low part.
LEMMA TimeRecovered ==
  ASSUME NEW time \in Nat, NEW t \in Stamps, NEW last, last = time % 8192,
         Near(last, t)
  PROVE  /\ NextTimestamp(time, Low(t)) % 8192 = t
         /\ time % 128 = Low(t) => time % 8192 = t
<1> DEFINE h == time \div 128  v == time % 128  x == High(t)  y == Low(t)
<1>1. last = (h % 64) * 128 + v /\ h \in Nat /\ v \in Nat /\ v < 128
  BY Parts
<1>2. x \in Nat /\ x < 64 /\ y \in Nat /\ y < 128
  BY HighType, LowType
<1>3. t = x * 128 + y
  BY HighLow
<1>4. NextTimestamp(time, y) =
           (IF y < v THEN ((h + 1) % 128) * 128 + y ELSE (h % 128) * 128 + y)
  <2>1. NextTimestamp(time, y) = Carried(time, y)
    <3> HIDE DEF h, v, x, y
    <3> QED BY <1>2, NextParts
  <2> HIDE DEF y
  <2> QED BY <2>1 DEF Carried
<1> HIDE DEF h, v, x, y
<1>5. /\ y < v => (((h + 1) % 128) * 128 + y) % 8192 = x * 128 + y
      /\ ~(y < v) => ((h % 128) * 128 + y) % 8192 = x * 128 + y
      /\ v = y => last = x * 128 + y
  BY <1>1, <1>2, <1>3, Recovered DEF Near
<1> QED BY <1>3, <1>4, <1>5 DEF v, y

\* The packet tells the time last, unless it is skewed.
Told(b, c, last, skew) == b.buffer # <<>> /\ ~skew => c.ble.timestamp % 8192 = last

\* The packet has a gap before a message sent at time t.
Gap(b, last, t) == b.buffer # <<>> /\ (t + 8192 - last) % 8192 >= 128

\* The time that a packet tells after a message sent at time t was put in it.
NewLast(before, after, last, t) ==
  IF Adds(before, after) THEN t ELSE IF before = <<>> THEN High(t) * 128 ELSE last

\* A time modulo 13 bits is a number.
LEMMA StampMod ==
  ASSUME NEW t \in Stamps
  PROVE  /\ t % 8192 = t /\ t \in Nat
         /\ High(t) * 128 \in Nat /\ (High(t) * 128) % 8192 = High(t) * 128
         /\ High(t) * 128 \in Stamps
<1>1. t \in Nat /\ t <= 8191
  <2>1. t \in 0..8191
    BY DEF Stamps
  <2> QED BY <2>1
<1>2. t % 8192 = t
  BY <1>1
<1> DEFINE h == High(t)
<1>3. h \in 0..63
  BY HighType
<1> HIDE DEF h
<1>4. h \in Nat /\ h < 64
  BY <1>3
<1>5. h * 128 \in Nat /\ (h * 128) % 8192 = h * 128 /\ h * 128 <= 8191 /\ h * 128 >= 0
  BY <1>4
<1>6. h * 128 \in Stamps
  <2> DEFINE x == h * 128
  <2>1. x \in Nat /\ x <= 8191
    BY <1>5
  <2> HIDE DEF x
  <2>2. x \in 0..8191
    BY <2>1
  <2> QED BY <2>2 DEF Stamps, x
<1> QED BY <1>1, <1>2, <1>5, <1>6 DEF h

\* The first timestamp of a packet gives the time.
LEMMA FirstTime ==
  ASSUME NEW t \in Stamps
  PROVE  NextTimestamp(High(t) * 128, Low(t)) = t
<1> DEFINE h == High(t)  y == Low(t)
<1>1. h \in 0..127 /\ y \in 0..127
  <2>1. h \in 0..63
    BY HighType
  <2> HIDE DEF h
  <2>2. h \in 0..127
    BY <2>1
  <2> QED BY <2>2, LowType DEF h
<1>2. t = h * 128 + y
  BY HighLow
<1> HIDE DEF h, y
<1>3. NextTimestamp(h * 128, y) = h * 128 + y
  BY <1>1, StartFact
<1> QED BY <1>2, <1>3 DEF h, y

\* The time of a message that is read is that at which it was sent, unless skewed.
LEMMA TimeTold ==
  ASSUME NEW b, NEW n, NEW c, NEW c2, NEW t \in Stamps, NEW last, NEW skew \in BOOLEAN,
         NEW skew2 \in BOOLEAN, c.ble.timestamp \in Nat,
         Stamped(b, n, c, c2, t), Told(b, c, last, skew),
         ~skew2 => ~skew /\ ~Gap(b, last, t), last \in Stamps
  PROVE  /\ Told(n, c2, NewLast(b.buffer, n.buffer, last, t), skew2)
         /\ (\/ Adds(b.buffer, n.buffer)
             \/ b.buffer # <<>> /\ c.ble.timestamp % 128 = Low(t))
              => (~skew2 => c2.ble.timestamp % 8192 = t)
<1> DEFINE time == c.ble.timestamp  next == c2.ble.timestamp
<1>0. t % 8192 = t /\ (High(t) * 128) % 8192 = High(t) * 128
  BY StampMod
<1>1. CASE b.buffer = <<>>
  <2>1. StartTime(b, c, t) = High(t) * 128
    BY <1>1 DEF StartTime
  <2>2. CASE Adds(b.buffer, n.buffer)
    <3>1. next = t
      BY <2>1, <2>2, FirstTime DEF Stamped
    <3> HIDE DEF next
    <3>2. next % 8192 = t
      BY <1>0, <3>1
    <3>3. NewLast(b.buffer, n.buffer, last, t) = t
      BY <2>2 DEF NewLast
    <3> QED BY <3>2, <3>3 DEF Told, next
  <2>3. CASE ~Adds(b.buffer, n.buffer)
    <3>1. next = High(t) * 128
      BY <2>1, <2>3 DEF Stamped
    <3>2. NewLast(b.buffer, n.buffer, last, t) = High(t) * 128
      BY <1>1, <2>3 DEF NewLast
    <3> HIDE DEF next
    <3>3. next % 8192 = NewLast(b.buffer, n.buffer, last, t)
      BY <1>0, <3>1, <3>2
    <3> QED BY <1>1, <2>3, <3>3 DEF Told, next
  <2> QED BY <2>2, <2>3
<1>2. CASE b.buffer # <<>>
  <2>1. StartTime(b, c, t) = time
    BY <1>2 DEF StartTime
  <2>2. CASE skew2
    BY <2>2 DEF Told
  <2>3. CASE ~skew2
    <3>1. time % 8192 = last
      BY <1>2, <2>3 DEF Told
    <3>2. Near(last, t)
      <4>1. ~((t + 8192 - last) % 8192 >= 128)
        BY <1>2, <2>3 DEF Gap
      <4>2. t \in Nat /\ last \in Nat
        BY StampMod
      <4> DEFINE z == (t + 8192 - last) % 8192
      <4>3. z \in Int
        BY <4>2
      <4> HIDE DEF z
      <4>4. ~(z >= 128)
        BY <4>1 DEF z
      <4>5. z < 128
        BY <4>3, <4>4
      <4>6. (t + 8192 - last) % 8192 < 128
        BY <4>5 DEF z
      <4> QED BY <4>6 DEF Near
    <3>3. /\ NextTimestamp(time, Low(t)) % 8192 = t
          /\ time % 128 = Low(t) => time % 8192 = t
      <4>1. time \in Nat
        OBVIOUS
      <4> HIDE DEF time
      <4>2. last = time % 8192
        BY <3>1
      <4> QED BY <3>2, <4>1, <4>2, TimeRecovered, SMTT(30)
    <3>4. CASE Adds(b.buffer, n.buffer)
      <4>1. next = NextTimestamp(time, Low(t))
        BY <2>1, <3>4 DEF Stamped
      <4>2. NewLast(b.buffer, n.buffer, last, t) = t
        BY <3>4 DEF NewLast
      <4>3. next % 8192 = t
        BY <3>3, <4>1
      <4> QED BY <4>2, <4>3 DEF Told
    <3>5. CASE ~Adds(b.buffer, n.buffer)
      <4>1. next = time
        BY <2>1, <3>5 DEF Stamped
      <4>2. NewLast(b.buffer, n.buffer, last, t) = last
        BY <1>2, <3>5 DEF NewLast
      <4> QED BY <3>1, <3>3, <3>5, <4>1, <4>2 DEF Told
    <3> QED BY <3>4, <3>5
  <2> QED BY <2>2, <2>3
<1> QED BY <1>1, <1>2

-------------------------------------------------------------------------------
(***************************************************************************)
(* What was sent is what is read: adding any message to a packet           *)
(***************************************************************************)
\* What has been sent.
SentItems == [bytes : Seq(Byte), time : Nat, skewed : BOOLEAN]
Histories == [items : Seq(SentItems), clocks : Seq(SentItems), partial : Seq(Byte)]

\* Messages are read with their bytes, and with their times unless a packet was skewed.
AsSent(read, meant) ==
  /\ Len(read) = Len(meant)
  /\ \A i \in 1..Len(meant) :
       /\ read[i].bytes = meant[i].bytes
       /\ ~meant[i].skewed => read[i].time % 8192 = meant[i].time

\* The receiver r has read what s says, and waits for the rest of its partial message.
Matches(r, s) ==
  /\ Ready(r)
  /\ AsSent(r.items, s.items) /\ AsSent(r.clocks, s.clocks)
  /\ IF s.partial = <<>> THEN r.parser.currentHeader = 0 /\ r.partial = <<>>
     ELSE r.parser.currentHeader = SysExStart /\ Collected(r) = s.partial

\* A sequence with one more element.
LEMMA AppendFacts ==
  ASSUME NEW S, NEW s \in Seq(S), NEW x \in S
  PROVE  /\ Append(s, x) \in Seq(S) /\ Len(Append(s, x)) = Len(s) + 1
         /\ Append(s, x)[Len(s) + 1] = x
         /\ \A j \in 1..Len(s) : Append(s, x)[j] = s[j]
OBVIOUS

\* One more message is sent and read.
LEMMA AppendAsSent ==
  ASSUME NEW read \in Seq(Items), NEW meant \in Seq(SentItems), AsSent(read, meant),
         NEW x \in Items, NEW y \in SentItems, x.bytes = y.bytes,
         ~y.skewed => x.time % 8192 = y.time
  PROVE  AsSent(Append(read, x), Append(meant, y))
<1> DEFINE u == Append(read, x)  v == Append(meant, y)
<1>1. /\ Len(u) = Len(read) + 1 /\ u[Len(read) + 1] = x /\ \A j \in 1..Len(read) : u[j] = read[j]
      /\ Len(v) = Len(meant) + 1 /\ v[Len(meant) + 1] = y
      /\ \A j \in 1..Len(meant) : v[j] = meant[j]
  BY AppendFacts
<1>2. Len(read) = Len(meant) /\ Len(meant) \in Nat
  BY DEF AsSent
<1> HIDE DEF u, v
<1>3. ASSUME NEW i \in 1..Len(v)
      PROVE  u[i].bytes = v[i].bytes /\ (~v[i].skewed => u[i].time % 8192 = v[i].time)
  <2>1. CASE i = Len(meant) + 1
    <3>1. u[i] = x /\ v[i] = y
      BY <1>1, <1>2, <2>1
    <3> QED BY <3>1
  <2>2. CASE i # Len(meant) + 1
    <3>1. i \in 1..Len(meant)
      BY <1>1, <1>2, <2>2
    <3>2. u[i] = read[i] /\ v[i] = meant[i]
      BY <1>1, <1>2, <3>1
    <3> QED BY <3>1, <3>2 DEF AsSent
  <2> QED BY <2>1, <2>2
<1> QED BY <1>1, <1>2, <1>3 DEF AsSent, u, v

\* A message that is sent.
SentItem(m, t, k) == [bytes |-> m, time |-> t, skewed |-> k]

\* What a message adds to the history.
LEMMA RecordedFacts ==
  ASSUME NEW s \in Histories, NEW m \in Seq(Byte), m # <<>>,
         NEW t \in Nat, NEW k \in BOOLEAN
  PROVE  /\ Recorded(s, m, SentItem(m, t, k)) \in Histories
         /\ m[1] >= TimingClock =>
              /\ Recorded(s, m, SentItem(m, t, k)).items = s.items
              /\ Recorded(s, m, SentItem(m, t, k)).partial = s.partial
              /\ Recorded(s, m, SentItem(m, t, k)).clocks = Append(s.clocks, SentItem(m, t, k))
         /\ m[1] < TimingClock /\ IsSysEx(m) /\ m[Len(m)] # SysExEnd =>
              /\ Recorded(s, m, SentItem(m, t, k)).items = s.items
              /\ Recorded(s, m, SentItem(m, t, k)).clocks = s.clocks
              /\ Recorded(s, m, SentItem(m, t, k)).partial = s.partial \o m
         /\ m[1] < TimingClock /\ (IsSysEx(m) => m[Len(m)] = SysExEnd) =>
              /\ Recorded(s, m, SentItem(m, t, k)).clocks = s.clocks
              /\ Recorded(s, m, SentItem(m, t, k)).partial = <<>>
              /\ Recorded(s, m, SentItem(m, t, k)).items = Append(s.items, SentItem(s.partial \o m, t, k))
<1> DEFINE z == Recorded(s, m, SentItem(m, t, k))
<1> DEFINE item == [bytes |-> m, time |-> t, skewed |-> k]
           full == [item EXCEPT !.bytes = s.partial \o m]
           whole == [bytes |-> s.partial \o m, time |-> t, skewed |-> k]
<1>1. s.items \in Seq(SentItems) /\ s.clocks \in Seq(SentItems) /\ s.partial \in Seq(Byte)
  BY DEF Histories
<1>2. s.partial \o m \in Seq(Byte)
  BY <1>1, Assoc
<1>3. full = whole /\ whole \in SentItems /\ item \in SentItems
  <2>1. item \in SentItems
    BY DEF SentItems
  <2> DEFINE p == s.partial \o m
  <2>2. p \in Seq(Byte)
    BY <1>2
  <2>3. full = [item EXCEPT !.bytes = p] /\ whole = [bytes |-> p, time |-> t, skewed |-> k]
    OBVIOUS
  <2> HIDE DEF p, full, whole
  <2>4. whole \in SentItems
    BY <2>2, <2>3 DEF SentItems
  <2>5. full = whole
    BY <2>3
  <2> QED BY <2>1, <2>4, <2>5
<1>m. /\ m[1] \in Byte /\ (m[1] >= TimingClock <=> ~(m[1] < TimingClock))
      /\ m[1] >= TimingClock => ~IsSysEx(m)
  <2> DEFINE x == m[1]
  <2>1. x \in Byte
    OBVIOUS
  <2>2. IsSysEx(m) <=> x < 128 \/ x = 247 \/ x = 240
    <3>1. IsStatus(x) <=> ~(x < 128)
      BY <2>1, ByteFact DEF IsStatus
    <3> QED BY <3>1 DEF IsSysEx, Continues, SysExEnd, SysExStart
  <2> HIDE DEF x
  <2> QED BY <2>1, <2>2, ByteFact DEF TimingClock, x
<1>4. z = CASE m[1] >= TimingClock -> [s EXCEPT !.clocks = Append(@, item)]
            [] IsSysEx(m) /\ m[Len(m)] # SysExEnd -> [s EXCEPT !.partial = @ \o m]
            [] OTHER -> [s EXCEPT !.items = Append(@, full), !.partial = <<>>]
  BY DEF Recorded, SentItem
<1> HIDE DEF item, full, whole, z
<1>5. CASE m[1] >= TimingClock
  <2> DEFINE w == Append(s.clocks, item)
  <2>1. w \in Seq(SentItems)
    BY <1>1, <1>3
  <2> HIDE DEF w
  <2>2. z = [s EXCEPT !.clocks = w]
    <3>1. z = [s EXCEPT !.clocks = Append(@, item)]
      BY <1>m, <1>4, <1>5
    <3> QED BY <3>1 DEF w
  <2>3. z \in Histories /\ z.items = s.items /\ z.partial = s.partial /\ z.clocks = w
    BY <2>1, <2>2 DEF Histories
  <2> QED BY <1>m, <1>5, <2>3 DEF w, item, z, SentItem
<1>6. CASE m[1] < TimingClock /\ IsSysEx(m) /\ m[Len(m)] # SysExEnd
  <2> DEFINE w == s.partial \o m
  <2>1. w \in Seq(Byte)
    BY <1>2
  <2> HIDE DEF w
  <2>2. z = [s EXCEPT !.partial = w]
    BY <1>m, <1>4, <1>6 DEF w
  <2>3. z \in Histories /\ z.items = s.items /\ z.clocks = s.clocks /\ z.partial = w
    BY <2>1, <2>2 DEF Histories
  <2> QED BY <1>m, <1>6, <2>3 DEF w, z
<1>7. CASE m[1] < TimingClock /\ (IsSysEx(m) => m[Len(m)] = SysExEnd)
  <2> DEFINE w == Append(s.items, whole)
  <2>1. w \in Seq(SentItems)
    BY <1>1, <1>3
  <2> HIDE DEF w
  <2>2. z = [s EXCEPT !.items = w, !.partial = <<>>]
    <3>1. z = [s EXCEPT !.items = Append(@, full), !.partial = <<>>]
      BY <1>m, <1>4, <1>7
    <3> QED BY <1>3, <3>1 DEF w
  <2>3. z \in Histories /\ z.items = w /\ z.clocks = s.clocks /\ z.partial = <<>>
    <3>1. <<>> \in Seq(Byte)
      OBVIOUS
    <3> DEFINE e == <<>>
    <3> HIDE DEF e
    <3>2. z = [s EXCEPT !.items = w, !.partial = e] /\ e \in Seq(Byte)
      BY <2>2, <3>1 DEF e
    <3>3. z \in Histories /\ z.items = w /\ z.clocks = s.clocks /\ z.partial = e
      BY <2>1, <3>2 DEF Histories
    <3> QED BY <3>3 DEF e
  <2> QED BY <1>m, <1>7, <2>3 DEF w, whole, z, SentItem
<1> QED BY <1>m, <1>5, <1>6, <1>7 DEF z

\* The builder b has become a.builder, and the receiver reads what it has of m in addition
\* to the history s.  The rest of m is a message that may follow.
Progress(r, b, a, m, t, s, k, last, skew) ==
  LET n == a.builder
      c == Cursor(r, n.buffer)
  IN  /\ a.ok = TRUE
      /\ BuilderOK(n) /\ n.buffer # <<>> /\ InStep(n, c)
      /\ Told(n, c, NewLast(b.buffer, n.buffer, last, t), skew)
      /\ a.rest \in Seq(Byte)
      /\ a.rest = <<>> => Matches(c.rx, Recorded(s, m, SentItem(m, t, k)))
      /\ a.rest # <<>> =>
           /\ Continues(a.rest) /\ WellFormed(a.rest)
           /\ \E s2 \in Histories :
                /\ MayFollow(s2, a.rest) /\ Matches(c.rx, s2)
                /\ Recorded(s2, a.rest, SentItem(a.rest, t, k))
                     = Recorded(s, m, SentItem(m, t, k))

\* The bytes of a chunk.
LEMMA ChunkFacts ==
  ASSUME NEW m, Chunk(m), m # <<>>
  PROVE  m \in Seq(Byte) /\ Continues(m) /\ WellFormed(m) /\ m[1] < TimingClock
         /\ m[1] # SysExStart
<1>1. m \in Seq(Byte) /\ Len(m) \in Nat /\ Len(m) >= 1
  BY DEF Chunk
<1>2. m[1] < 128 \/ m[1] = SysExEnd
  BY <1>1 DEF Chunk
<1>3. m[1] \in Byte
  BY <1>1
<1> DEFINE x == m[1]
<1>4. Continues(m) /\ x < TimingClock /\ x # SysExStart
  <2>1. Continues(m) <=> ~IsStatus(x) \/ x = SysExEnd
    BY DEF Continues
  <2>2. x < 128 \/ x = SysExEnd
    BY <1>2
  <2>3. x \in Byte
    BY <1>3
  <2> HIDE DEF x
  <2> QED BY <2>1, <2>2, <2>3, ByteFact DEF IsStatus, SysExEnd, TimingClock, SysExStart
<1>5. ASSUME NEW i \in DOMAIN m
      PROVE  ~IsStatus(m[i]) \/ (i = 1 /\ m[i] = SysExStart) \/ (i = Len(m) /\ m[i] = SysExEnd)
  <2>1. i \in 1..Len(m)
    BY <1>1
  <2>2. m[i] < 128 \/ (i = Len(m) /\ m[i] = SysExEnd)
    BY <2>1 DEF Chunk
  <2>3. m[i] \in Byte
    BY <1>1
  <2>4. m[i] < 128 => ~IsStatus(m[i])
    BY <2>3, ByteFact DEF IsStatus
  <2> QED BY <2>2, <2>4
<1>6. WellFormed(m)
  BY <1>4, <1>5 DEF WellFormed, IsSysEx
<1> QED BY <1>1, <1>4, <1>6

\* A history is its fields.
LEMMA SameFields ==
  ASSUME NEW z \in Histories, NEW z2 \in Histories,
         z2.items = z.items, z2.clocks = z.clocks, z2.partial = z.partial
  PROVE  z2 = z
<1>1. /\ z = [items |-> z.items, clocks |-> z.clocks, partial |-> z.partial]
      /\ z2 = [items |-> z2.items, clocks |-> z2.clocks, partial |-> z2.partial]
  BY DEF Histories
<1> QED BY <1>1

\* A system exclusive message, or a chunk of one.
SysExPart(m) == m \in Seq(Byte) /\ m # <<>> /\ m[1] < TimingClock /\ IsSysEx(m)

\* The history after a chunk.
LEMMA RecordedChunk ==
  ASSUME NEW s \in Histories, NEW m, SysExPart(m), m[Len(m)] # SysExEnd, NEW t \in Nat,
         NEW k \in BOOLEAN
  PROVE  /\ Recorded(s, m, SentItem(m, t, k)) \in Histories
         /\ Recorded(s, m, SentItem(m, t, k)).items = s.items
         /\ Recorded(s, m, SentItem(m, t, k)).clocks = s.clocks
         /\ Recorded(s, m, SentItem(m, t, k)).partial = s.partial \o m
<1>1. m \in Seq(Byte) /\ m # <<>> /\ m[1] < TimingClock /\ IsSysEx(m)
  BY DEF SysExPart
<1> QED BY <1>1, RecordedFacts

\* A message that is complete, and is not a real-time message.
Whole(m) ==
  /\ m \in Seq(Byte) /\ m # <<>> /\ m[1] < TimingClock
  /\ IsSysEx(m) => m[Len(m)] = SysExEnd

\* The history after a complete message.
LEMMA RecordedWhole ==
  ASSUME NEW s \in Histories, NEW m, Whole(m), NEW t \in Nat, NEW k \in BOOLEAN
  PROVE  /\ Recorded(s, m, SentItem(m, t, k)) \in Histories
         /\ Recorded(s, m, SentItem(m, t, k)).items = Append(s.items, SentItem(s.partial \o m, t, k))
         /\ Recorded(s, m, SentItem(m, t, k)).clocks = s.clocks
         /\ Recorded(s, m, SentItem(m, t, k)).partial = <<>>
<1>1. m \in Seq(Byte) /\ m # <<>> /\ m[1] < TimingClock /\ (IsSysEx(m) => m[Len(m)] = SysExEnd)
  BY DEF Whole
<1> QED BY <1>1, RecordedFacts

\* Two ways to record the same message.
Resumes(s, m, s2, rest) ==
  /\ s \in Histories /\ SysExPart(m)
  /\ s2 \in Histories /\ SysExPart(rest)
  /\ s2.items = s.items /\ s2.clocks = s.clocks
  /\ m[Len(m)] = rest[Len(rest)]
  /\ s2.partial \o rest = s.partial \o m

\* They give the same history.
LEMMA SameHistory ==
  ASSUME NEW s, NEW m, NEW s2, NEW rest, Resumes(s, m, s2, rest), NEW t \in Nat,
         NEW k \in BOOLEAN
  PROVE  Recorded(s2, rest, SentItem(rest, t, k)) = Recorded(s, m, SentItem(m, t, k))
<1>0. /\ s \in Histories /\ SysExPart(m) /\ s2 \in Histories /\ SysExPart(rest)
      /\ s2.items = s.items /\ s2.clocks = s.clocks
      /\ m[Len(m)] = rest[Len(rest)]
      /\ s2.partial \o rest = s.partial \o m
  BY DEF Resumes
<1> DEFINE z == Recorded(s, m, SentItem(m, t, k))
           z2 == Recorded(s2, rest, SentItem(rest, t, k))
<1>2. CASE m[Len(m)] # SysExEnd
  <2>1. z \in Histories /\ z.items = s.items /\ z.clocks = s.clocks /\ z.partial = s.partial \o m
    BY <1>0, <1>2, RecordedChunk
  <2>2. z2 \in Histories /\ z2.items = s2.items /\ z2.clocks = s2.clocks /\ z2.partial = s2.partial \o rest
    BY <1>0, <1>2, RecordedChunk
  <2>3. z2.items = z.items /\ z2.clocks = z.clocks /\ z2.partial = z.partial
    <3> HIDE DEF z, z2
    <3> QED BY <1>0, <2>1, <2>2
  <2>4. z2 = z
    <3> HIDE DEF z, z2
    <3> QED BY <2>1, <2>2, <2>3, SameFields
  <2> QED BY <2>4
<1>3. CASE m[Len(m)] = SysExEnd
  <2>0. Whole(m) /\ Whole(rest)
    BY <1>0, <1>3 DEF SysExPart, Whole
  <2>1. /\ z \in Histories /\ z.clocks = s.clocks /\ z.partial = <<>>
        /\ z.items = Append(s.items, SentItem(s.partial \o m, t, k))
    BY <1>0, <2>0, RecordedWhole
  <2>2. /\ z2 \in Histories /\ z2.clocks = s2.clocks /\ z2.partial = <<>>
        /\ z2.items = Append(s2.items, SentItem(s2.partial \o rest, t, k))
    BY <1>0, <2>0, RecordedWhole
  <2>3. z2.items = z.items /\ z2.clocks = z.clocks /\ z2.partial = z.partial
    <3> HIDE DEF z, z2
    <3> QED BY <1>0, <2>1, <2>2
  <2>4. z2 = z
    <3> HIDE DEF z, z2
    <3> QED BY <2>1, <2>2, <2>3, SameFields
  <2> QED BY <2>4
<1> QED BY <1>2, <1>3

\* What a receiver that matches a history is.
LEMMA MatchesFacts ==
  ASSUME NEW q, NEW s, Matches(q, s)
  PROVE  /\ Ready(q) /\ AsSent(q.items, s.items) /\ AsSent(q.clocks, s.clocks)
         /\ s.partial = <<>> => q.parser.currentHeader = 0 /\ q.partial = <<>>
         /\ s.partial # <<>> => q.parser.currentHeader = SysExStart
         /\ Before(q) = s.partial
BY DEF Matches, Before, SysExStart

\* The fields of a receiver.
LEMMA ReceiverFields ==
  ASSUME NEW q \in Receivers
  PROVE  /\ q.items \in Seq(Items) /\ q.clocks \in Seq(Items) /\ q.partial \in Seq(Byte)
         /\ q.parser \in Parsers
BY DEF Receivers

\* The fields of a history.
LEMMA HistoryFields ==
  ASSUME NEW s \in Histories
  PROVE  /\ s.items \in Seq(SentItems) /\ s.clocks \in Seq(SentItems)
         /\ s.partial \in Seq(Byte)
BY DEF Histories

\* A message is complete, and read with its bytes.
LEMMA ItemRead ==
  ASSUME NEW read \in Seq(Items), NEW meant \in Seq(SentItems), AsSent(read, meant),
         NEW m \in Seq(Byte), NEW time \in Nat, NEW t \in Nat, NEW k \in BOOLEAN,
         ~k => time % 8192 = t
  PROVE  AsSent(Append(read, [bytes |-> m, time |-> time]), Append(meant, SentItem(m, t, k)))
<1> DEFINE x == [bytes |-> m, time |-> time]
           y == SentItem(m, t, k)
<1>1. x \in Items /\ y \in SentItems
  BY DEF Items, SentItems, SentItem
<1>2. x.bytes = y.bytes /\ (~y.skewed => x.time % 8192 = y.time)
  BY DEF SentItem
<1> HIDE DEF x, y
<1>3. AsSent(Append(read, x), Append(meant, y))
  BY <1>1, <1>2, AppendAsSent
<1> QED BY <1>3 DEF x, y

\* A system exclusive message of which a rest is left.
LEMMA TakenRest ==
  ASSUME NEW q \in Receivers, NEW p, NEW m \in Seq(Byte), m # <<>>, NEW rest, rest # <<>>,
         Taken(q, p, m, rest), p.clocks = q.clocks,
         IsSysEx(m), m[1] < TimingClock,
         NEW s \in Histories, Matches(q, s), s.partial = <<>> => ~Continues(m),
         NEW t \in Nat, NEW k \in BOOLEAN
  PROVE  /\ rest \in Seq(Byte) /\ Continues(rest) /\ WellFormed(rest)
         /\ \E s2 \in Histories :
                /\ MayFollow(s2, rest) /\ Matches(p, s2)
                /\ Recorded(s2, rest, SentItem(rest, t, k)) = Recorded(s, m, SentItem(m, t, k))
<1>1. rest \in Seq(Byte) /\ Continues(rest) /\ WellFormed(rest) /\ rest[1] < TimingClock
  BY ChunkFacts DEF Taken
<1>2. PICK x \in Seq(Byte) : m = x \o rest /\ Collected(p) = Before(q) \o x
  BY DEF Taken
<1> DEFINE w == s.partial \o x
           s2 == [s EXCEPT !.partial = w]
<1>3. s.partial \in Seq(Byte) /\ Before(q) = s.partial
  BY HistoryFields, MatchesFacts
<1>4. w \in Seq(Byte) /\ w \o rest = s.partial \o m
  BY <1>1, <1>2, <1>3, Assoc
<1>5. w # <<>>
  <2> SUFFICES ASSUME w = <<>> PROVE FALSE
    OBVIOUS
  <2>1. s.partial = <<>> /\ x = <<>>
    BY <1>3, ConcatEqualIffEmpty
  <2>2. m = rest
    BY <1>1, <1>2, <2>1
  <2> QED BY <1>1, <2>1, <2>2
<1> HIDE DEF w
<1>6. s2 \in Histories /\ s2.items = s.items /\ s2.clocks = s.clocks /\ s2.partial = w
  BY <1>4 DEF Histories
<1> HIDE DEF s2
<1>7. MayFollow(s2, rest)
  BY <1>1, <1>5, <1>6 DEF MayFollow
<1>8. Matches(p, s2)
  <2>1. Ready(p) /\ p.parser.currentHeader = SysExStart /\ p.items = q.items
    BY DEF Taken, Collecting
  <2>2. Collected(p) = w
    BY <1>2, <1>3 DEF w
  <2>3. AsSent(p.items, s2.items) /\ AsSent(p.clocks, s2.clocks)
    BY <1>6, <2>1, MatchesFacts
  <2> QED BY <1>5, <1>6, <2>1, <2>2, <2>3 DEF Matches
<1>9. Recorded(s2, rest, SentItem(rest, t, k)) = Recorded(s, m, SentItem(m, t, k))
  <2>1. m[Len(m)] = rest[Len(rest)]
    BY <1>1, <1>2, ConcatLast
  <2>2. SysExPart(rest) /\ SysExPart(m)
    BY <1>1 DEF IsSysEx, SysExPart
  <2>3. s2.partial \o rest = s.partial \o m
    BY <1>4, <1>6
  <2>4. Resumes(s, m, s2, rest)
    BY <1>6, <2>1, <2>2, <2>3 DEF Resumes
  <2> QED BY <2>4, SameHistory
<1> QED BY <1>1, <1>6, <1>7, <1>8, <1>9

\* A system exclusive message, or a chunk of one, that is in the packet.
LEMMA TakenAll ==
  ASSUME NEW q \in Receivers, NEW p, NEW m \in Seq(Byte), m # <<>>,
         Taken(q, p, m, <<>>), p.clocks = q.clocks,
         IsSysEx(m), m[1] < TimingClock,
         NEW s \in Histories, Matches(q, s),
         NEW t \in Nat, NEW k \in BOOLEAN
  PROVE  Matches(p, Recorded(s, m, SentItem(m, t, k)))
<1>1. PICK x \in Seq(Byte) : /\ m = x \o <<>> /\ Collected(p) = Before(q) \o x
                             /\ \A j \in 1..Len(x) : x[j] # SysExEnd
  BY DEF Taken
<1>2. x = m
  BY <1>1
<1>3. m[Len(m)] # SysExEnd
  <2>1. Len(m) \in 1..Len(m)
    OBVIOUS
  <2> QED BY <1>1, <1>2, <2>1
<1> DEFINE z == Recorded(s, m, SentItem(m, t, k))
<1>4. z.items = s.items /\ z.clocks = s.clocks /\ z.partial = s.partial \o m
  BY <1>3, RecordedFacts
<1> HIDE DEF z
<1>5. s.partial \o m # <<>>
  BY HistoryFields, ConcatEqualIffEmpty
<1>6. Collected(p) = s.partial \o m
  BY <1>1, <1>2, MatchesFacts
<1>7. Ready(p) /\ p.parser.currentHeader = SysExStart /\ p.items = q.items
  BY DEF Taken, Collecting
<1>8. AsSent(p.items, z.items) /\ AsSent(p.clocks, z.clocks)
  BY <1>4, <1>7, MatchesFacts
<1>9. Matches(p, z)
  BY <1>4, <1>5, <1>6, <1>7, <1>8 DEF Matches
<1> QED BY <1>9 DEF z

\* The end of a system exclusive message that is in the packet.
LEMMA FinishedRead ==
  ASSUME NEW q \in Receivers, NEW p, NEW m \in Seq(Byte), NEW time \in Nat,
         Finished(q, p, m, time), p.clocks = q.clocks,
         m[1] < TimingClock,
         NEW s \in Histories, Matches(q, s),
         NEW t \in Nat, NEW k \in BOOLEAN, ~k => time % 8192 = t
  PROVE  Matches(p, Recorded(s, m, SentItem(m, t, k)))
<1> DEFINE z == Recorded(s, m, SentItem(m, t, k))
           w == s.partial \o m
<1>1. m # <<>> /\ m[Len(m)] = SysExEnd /\ Ready(p) /\ p.parser.currentHeader = 0
      /\ p.partial = <<>>
      /\ p.items = Append(q.items, [bytes |-> Before(q) \o m, time |-> time])
  BY DEF Finished
<1>2. z.clocks = s.clocks /\ z.partial = <<>> /\ z.items = Append(s.items, SentItem(w, t, k))
  <2>1. Whole(m)
    BY <1>1 DEF Whole
  <2> QED BY <2>1, RecordedWhole
<1>3. Before(q) = s.partial
  BY MatchesFacts
<1>4. w \in Seq(Byte)
  BY HistoryFields, Assoc
<1>5. p.items = Append(q.items, [bytes |-> w, time |-> time])
  BY <1>1, <1>3
<1> HIDE DEF z, w
<1>6. AsSent(p.items, z.items)
  <2>1. AsSent(Append(q.items, [bytes |-> w, time |-> time]),
               Append(s.items, SentItem(w, t, k)))
    BY <1>4, MatchesFacts, HistoryFields, ReceiverFields, ItemRead
  <2> QED BY <1>2, <1>5, <2>1
<1>7. AsSent(p.clocks, z.clocks)
  BY <1>2, MatchesFacts
<1>8. Matches(p, z)
  BY <1>1, <1>2, <1>6, <1>7 DEF Matches
<1> QED BY <1>8 DEF z

\* The time of a message sent at time t, and what the packet tells.
Timed(r, b, t, s, k, last, skew, skew2) ==
  /\ s \in Histories /\ Matches(Cursor(r, b.buffer).rx, s)
  /\ k \in BOOLEAN /\ skew \in BOOLEAN /\ skew2 \in BOOLEAN
  /\ t \in Stamps /\ last \in Stamps
  /\ Told(b, Cursor(r, b.buffer), last, skew)
  /\ ~skew2 => ~skew /\ ~Gap(b, last, t)
  /\ ~k => ~skew2

\* The parts of Timed.
LEMMA TimedFacts ==
  ASSUME NEW r \in Receivers, NEW b, BuilderOK(b), NEW n, NEW t, NEW s, NEW k, NEW last,
         NEW skew, NEW skew2, Timed(r, b, t, s, k, last, skew, skew2),
         Stamped(b, n, Cursor(r, b.buffer), Cursor(r, n.buffer), t)
  PROVE  /\ Told(n, Cursor(r, n.buffer), NewLast(b.buffer, n.buffer, last, t), skew2)
         /\ (\/ Adds(b.buffer, n.buffer)
             \/ b.buffer # <<>> /\ Cursor(r, b.buffer).ble.timestamp % 128 = Low(t))
              => (~k => Cursor(r, n.buffer).ble.timestamp % 8192 = t)
<1> DEFINE c == Cursor(r, b.buffer)
           d == Cursor(r, n.buffer)
<1>1. b.buffer \in Seq(Byte)
  BY BuilderFields DEF BuilderOK
<1>2. c.ble.timestamp \in Nat
  BY <1>1, CursorType
<1>3. /\ t \in Stamps /\ last \in Stamps /\ skew \in BOOLEAN /\ skew2 \in BOOLEAN
      /\ Told(b, c, last, skew) /\ (~skew2 => ~skew /\ ~Gap(b, last, t)) /\ (~k => ~skew2)
  BY DEF Timed
<1> HIDE DEF c, d
<1>4. Stamped(b, n, c, d, t)
  BY DEF c, d
<1>5. /\ Told(n, d, NewLast(b.buffer, n.buffer, last, t), skew2)
      /\ (\/ Adds(b.buffer, n.buffer)
          \/ b.buffer # <<>> /\ c.ble.timestamp % 128 = Low(t))
           => (~skew2 => d.ble.timestamp % 8192 = t)
  BY <1>2, <1>3, <1>4, TimeTold
<1> QED BY <1>3, <1>5 DEF c, d

\* A system exclusive message, or a chunk of one, is read.
LEMMA SysExRead ==
  ASSUME NEW r \in Receivers, NEW b, BuilderOK(b), NEW a, NEW t, NEW m, SysExPart(m),
         NEW s, NEW k, NEW last, NEW skew, NEW skew2,
         SysExAdded(r, b, a, m, t), Timed(r, b, t, s, k, last, skew, skew2), MayFollow(s, m)
  PROVE  Progress(r, b, a, m, t, s, k, last, skew2)
<1> DEFINE n == a.builder
           q == Cursor(r, b.buffer).rx
           c == Cursor(r, n.buffer)
           p == c.rx
           time == c.ble.timestamp
<1>1. /\ a.ok = TRUE /\ BuilderOK(n) /\ n.buffer # <<>> /\ InStep(n, c)
      /\ Stamped(b, n, Cursor(r, b.buffer), c, t) /\ p.clocks = q.clocks
      /\ \/ Taken(q, p, m, a.rest)
         \/ /\ Finished(q, p, m, time) /\ a.rest = <<>> /\ Adds(b.buffer, n.buffer)
  BY DEF SysExAdded
<1>2. /\ Told(n, c, NewLast(b.buffer, n.buffer, last, t), skew2)
      /\ Adds(b.buffer, n.buffer) => (~k => time % 8192 = t)
  <2> HIDE DEF n
  <2> QED BY <1>1, TimedFacts
<1>3. q \in Receivers /\ time \in Nat
  <2>1. b.buffer \in Seq(Byte) /\ n.buffer \in Seq(Byte)
    BY <1>1, BuilderFields DEF BuilderOK
  <2> QED BY <2>1, CursorType
<1>4. s \in Histories /\ Matches(q, s) /\ k \in BOOLEAN /\ t \in Nat
  <2>1. s \in Histories /\ Matches(q, s) /\ k \in BOOLEAN /\ t \in Stamps
    BY DEF Timed
  <2>2. t \in Nat
    BY <2>1 DEF Stamps
  <2> QED BY <2>1, <2>2
<1>5. m \in Seq(Byte) /\ m # <<>> /\ m[1] < TimingClock /\ IsSysEx(m)
  BY DEF SysExPart
<1>6. s.partial = <<>> => ~Continues(m)
  BY <1>5 DEF MayFollow
<1> HIDE DEF n, q, c, p, time
<1>7. a.rest \in Seq(Byte)
  <2>1. CASE Taken(q, p, m, a.rest)
    BY <2>1 DEF Taken, Chunk
  <2>2. CASE a.rest = <<>>
    BY <2>2
  <2> QED BY <1>1, <2>1, <2>2
<1>8. CASE Taken(q, p, m, a.rest) /\ a.rest # <<>>
  <2> DEFINE rest == a.rest
  <2> HIDE DEF rest
  <2>1. Taken(q, p, m, rest) /\ rest # <<>>
    BY <1>8 DEF rest
  <2>2. /\ rest \in Seq(Byte) /\ Continues(rest) /\ WellFormed(rest)
        /\ \E s2 \in Histories :
             /\ MayFollow(s2, rest) /\ Matches(p, s2)
             /\ Recorded(s2, rest, SentItem(rest, t, k)) = Recorded(s, m, SentItem(m, t, k))
    BY <1>1, <1>3, <1>4, <1>5, <1>6, <2>1, TakenRest
  <2> QED BY <1>1, <1>2, <2>1, <2>2 DEF Progress, rest, n, c, p
<1>9. CASE a.rest = <<>>
  <2>1. Matches(p, Recorded(s, m, SentItem(m, t, k)))
    <3>1. CASE Taken(q, p, m, <<>>)
      BY <1>1, <1>3, <1>4, <1>5, <3>1, TakenAll
    <3>2. CASE Finished(q, p, m, time) /\ Adds(b.buffer, n.buffer)
      BY <1>1, <1>2, <1>3, <1>4, <1>5, <3>2, FinishedRead
    <3> QED BY <1>1, <1>9, <3>1, <3>2
  <2> QED BY <1>1, <1>2, <1>7, <1>9, <2>1 DEF Progress, n, c, p
<1> QED BY <1>1, <1>8, <1>9

\* A message that is neither a real-time nor a system exclusive one is read.
LEMMA AcceptedRead ==
  ASSUME NEW r \in Receivers, NEW b, BuilderOK(b), NEW a, a.ok = TRUE, a.rest = <<>>,
         NEW t, NEW m \in Seq(Byte),
         m # <<>>, m[1] < TimingClock, ~IsSysEx(m),
         NEW s, NEW k, NEW last, NEW skew, NEW skew2,
         Accepted(r, b, a.builder, m, t), Timed(r, b, t, s, k, last, skew, skew2), s.partial = <<>>
  PROVE  Progress(r, b, a, m, t, s, k, last, skew2)
<1> DEFINE n == a.builder
           q == Cursor(r, b.buffer).rx
           c == Cursor(r, n.buffer)
           p == c.rx
           time == c.ble.timestamp
           z == Recorded(s, m, SentItem(m, t, k))
           w == s.partial \o m
<1>1. /\ BuilderOK(n) /\ n.buffer # <<>> /\ InStep(n, c)
      /\ Stamped(b, n, Cursor(r, b.buffer), c, t)
      /\ p \in Receivers /\ Ready(p) /\ p.parser.currentHeader = 0
      /\ p.items = Append(q.items, [bytes |-> m, time |-> time])
      /\ p.clocks = q.clocks /\ p.partial = q.partial
      /\ (\/ Adds(b.buffer, n.buffer)
          \/ b.buffer # <<>> /\ Cursor(r, b.buffer).ble.timestamp % 128 = Low(t))
  BY DEF Accepted, Got
<1>2. /\ Told(n, c, NewLast(b.buffer, n.buffer, last, t), skew2)
      /\ ~k => time % 8192 = t
  <2> HIDE DEF n, q, p, z, w
  <2> QED BY <1>1, TimedFacts
<1>3. q \in Receivers /\ time \in Nat
  <2>1. b.buffer \in Seq(Byte) /\ n.buffer \in Seq(Byte)
    BY <1>1, BuilderFields DEF BuilderOK
  <2> QED BY <2>1, CursorType
<1>4. s \in Histories /\ Matches(q, s) /\ k \in BOOLEAN /\ t \in Nat
  <2>1. s \in Histories /\ Matches(q, s) /\ k \in BOOLEAN /\ t \in Stamps
    BY DEF Timed
  <2>2. t \in Nat
    BY <2>1 DEF Stamps
  <2> QED BY <2>1, <2>2
<1>5. w = m
  <2>1. s.partial \o m = m
    OBVIOUS
  <2> QED BY <2>1
<1> HIDE DEF n, q, c, p, time, z, w
<1>6. z.clocks = s.clocks /\ z.partial = <<>> /\ z.items = Append(s.items, SentItem(m, t, k))
  <2>1. Whole(m)
    BY DEF Whole
  <2>2. z.clocks = s.clocks /\ z.partial = <<>> /\ z.items = Append(s.items, SentItem(w, t, k))
    BY <1>4, <2>1, RecordedWhole DEF z, w
  <2> QED BY <1>5, <2>2
<1>7. AsSent(q.items, s.items) /\ AsSent(q.clocks, s.clocks) /\ q.partial = <<>>
  BY <1>4, MatchesFacts
<1>8. AsSent(p.items, z.items)
  <2>1. AsSent(Append(q.items, [bytes |-> m, time |-> time]), Append(s.items, SentItem(m, t, k)))
    BY <1>2, <1>3, <1>4, <1>7, HistoryFields, ReceiverFields, ItemRead
  <2> QED BY <1>1, <1>6, <2>1
<1>9. Matches(p, z)
  BY <1>1, <1>6, <1>7, <1>8 DEF Matches
<1>10. a.rest \in Seq(Byte)
  OBVIOUS
<1> QED BY <1>1, <1>2, <1>9, <1>10 DEF Progress, n, c, p, z

\* A real-time message is read.
LEMMA TickedRead ==
  ASSUME NEW r \in Receivers, NEW b, BuilderOK(b), NEW a, a.ok = TRUE, a.rest = <<>>,
         NEW t, NEW m \in Seq(Byte),
         m # <<>>, m[1] >= TimingClock,
         NEW s, NEW k, NEW last, NEW skew, NEW skew2,
         Ticked(r, b, a.builder, m, t), Timed(r, b, t, s, k, last, skew, skew2)
  PROVE  Progress(r, b, a, m, t, s, k, last, skew2)
<1> DEFINE n == a.builder
           q == Cursor(r, b.buffer).rx
           c == Cursor(r, n.buffer)
           p == c.rx
           time == c.ble.timestamp
           z == Recorded(s, m, SentItem(m, t, k))
<1>1. /\ BuilderOK(n) /\ n.buffer # <<>> /\ InStep(n, c)
      /\ Stamped(b, n, Cursor(r, b.buffer), c, t)
      /\ p \in Receivers /\ Ready(p) /\ p.parser.currentHeader = q.parser.currentHeader
      /\ p.parser.sysex = q.parser.sysex
      /\ p.items = q.items /\ p.partial = q.partial
      /\ p.clocks = Append(q.clocks, [bytes |-> m, time |-> time])
      /\ Adds(b.buffer, n.buffer)
  BY DEF Ticked
<1>2. /\ Told(n, c, NewLast(b.buffer, n.buffer, last, t), skew2)
      /\ ~k => time % 8192 = t
  <2> HIDE DEF n, q, p, z
  <2> QED BY <1>1, TimedFacts
<1>3. q \in Receivers /\ time \in Nat
  <2>1. b.buffer \in Seq(Byte) /\ n.buffer \in Seq(Byte)
    BY <1>1, BuilderFields DEF BuilderOK
  <2> QED BY <2>1, CursorType
<1>4. s \in Histories /\ Matches(q, s) /\ k \in BOOLEAN /\ t \in Nat
  <2>1. s \in Histories /\ Matches(q, s) /\ k \in BOOLEAN /\ t \in Stamps
    BY DEF Timed
  <2>2. t \in Nat
    BY <2>1 DEF Stamps
  <2> QED BY <2>1, <2>2
<1> HIDE DEF n, q, c, p, time, z
<1>6. z.items = s.items /\ z.partial = s.partial /\ z.clocks = Append(s.clocks, SentItem(m, t, k))
  BY <1>4, RecordedFacts DEF z
<1>7. AsSent(q.items, s.items) /\ AsSent(q.clocks, s.clocks)
  BY <1>4, MatchesFacts
<1>8. AsSent(p.clocks, z.clocks)
  <2>1. AsSent(Append(q.clocks, [bytes |-> m, time |-> time]), Append(s.clocks, SentItem(m, t, k)))
    BY <1>2, <1>3, <1>4, <1>7, HistoryFields, ReceiverFields, ItemRead
  <2> QED BY <1>1, <1>6, <2>1
<1>9. Matches(p, z)
  <2>1. Collected(p) = Collected(q)
    BY <1>1 DEF Collected
  <2> QED BY <1>1, <1>4, <1>6, <1>7, <1>8, <2>1 DEF Matches
<1>10. a.rest \in Seq(Byte)
  OBVIOUS
<1> QED BY <1>1, <1>2, <1>9, <1>10 DEF Progress, n, c, p, z

\* The kinds of messages.
Single(m) == m \in Seq(Byte) /\ m # <<>> /\ Len(m) = 1

\* A message is of one of these kinds, and Add handles each of them.
LEMMA Kinds ==
  ASSUME NEW m \in Seq(Byte), m # <<>>, WellFormed(m)
  PROVE  \/ Single(m) /\ m[1] >= TimingClock /\ ~IsSysEx(m) /\ ~IsChannel(m[1])
         \/ /\ Single(m) /\ m[1] = TuneRequest /\ ~IsSysEx(m) /\ ~IsChannel(m[1])
            /\ m[1] < TimingClock /\ ~Continues(m)
         \/ m \in DataMessages /\ ~IsSysEx(m) /\ m[1] < TimingClock /\ ~Continues(m)
         \/ SysExPart(m) /\ Continues(m) /\ Chunk(m)
         \/ SysExPart(m) /\ ~Continues(m) /\ m[1] = SysExStart /\ Chunk(Tail(m))
<1> DEFINE x == m[1]
<1>1. x \in Byte /\ Len(m) \in Nat /\ Len(m) >= 1
  OBVIOUS
<1>2. /\ IsSysEx(m) <=> Continues(m) \/ x = SysExStart
      /\ Continues(m) <=> ~IsStatus(x) \/ x = SysExEnd
  BY DEF IsSysEx, Continues
<1>3. CASE IsSysEx(m)
  <2>1. \A i \in 1..Len(m) : \/ ~IsStatus(m[i])
                             \/ i = 1 /\ m[i] = SysExStart
                             \/ i = Len(m) /\ m[i] = SysExEnd
    BY <1>3 DEF WellFormed
  <2>2. x < TimingClock
    <3> HIDE DEF x
    <3> QED BY <1>1, <1>2, <1>3, ByteFact DEF IsStatus, SysExEnd, SysExStart, TimingClock
  <2>3. SysExPart(m)
    BY <1>3, <2>2 DEF SysExPart
  <2>4. \A i \in 1..Len(m) : ~IsStatus(m[i]) => m[i] < 128
    <3>1. \A y \in Byte : ~IsStatus(y) => y < 128
      BY ByteFact DEF IsStatus
    <3> QED BY <3>1
  <2>5. CASE Continues(m)
    <3>1. x # SysExStart
      <4> HIDE DEF x
      <4> QED BY <1>1, <1>2, <2>5, ByteFact DEF IsStatus, SysExEnd, SysExStart
    <3>2. ASSUME NEW j \in 1..Len(m)
          PROVE  m[j] < 128 \/ (j = Len(m) /\ m[j] = SysExEnd)
      <4>1. ~(j = 1 /\ m[j] = SysExStart)
        BY <3>1
      <4> QED BY <2>1, <2>4, <4>1
    <3> QED BY <2>3, <2>5, <3>2 DEF Chunk
  <2>6. CASE ~Continues(m)
    <3>1. x = SysExStart
      BY <1>2, <1>3, <2>6
    <3> DEFINE s == Tail(m)
    <3>2. s \in Seq(Byte) /\ Len(s) = Len(m) - 1 /\ \A j \in 1..Len(s) : s[j] = m[j + 1]
      BY <1>1
    <3> HIDE DEF s
    <3>3. ASSUME NEW j \in 1..Len(s)
          PROVE  s[j] < 128 \/ (j = Len(s) /\ s[j] = SysExEnd)
      <4>1. j + 1 \in 1..Len(m) /\ j + 1 # 1 /\ (j + 1 = Len(m) => j = Len(s))
        BY <1>1, <3>2
      <4>2. ~IsStatus(m[j + 1]) \/ (j + 1 = Len(m) /\ m[j + 1] = SysExEnd)
        BY <2>1, <4>1
      <4>3. ~IsStatus(m[j + 1]) => m[j + 1] < 128
        BY <2>4, <4>1
      <4>4. s[j] = m[j + 1]
        BY <3>2
      <4> QED BY <4>1, <4>2, <4>3, <4>4
    <3>4. Chunk(s)
      BY <3>2, <3>3 DEF Chunk
    <3> QED BY <2>3, <2>6, <3>1, <3>4 DEF s
  <2> QED BY <2>5, <2>6
<1>4. CASE ~IsSysEx(m)
  <2>1. /\ x \notin {244, 245} /\ Len(m) = DataBytes(x) + 1
        /\ \A i \in 2..Len(m) : ~IsStatus(m[i])
    BY <1>4 DEF WellFormed
  <2>2. ~Continues(m) /\ IsStatus(x) /\ x # SysExEnd /\ x # SysExStart
    BY <1>2, <1>4
  <2> DEFINE len == Len(m)
  <2> HIDE DEF x, len
  <2>3. \/ x >= TimingClock /\ len = 1 /\ ~IsChannel(x)
        \/ x = TuneRequest /\ len = 1 /\ ~IsChannel(x) /\ x < TimingClock
        \/ HasData(x) /\ len \in {2, 3} /\ x < TimingClock
    <3>1. x \in Nat /\ x >= 128 /\ x < 256 /\ x # 247 /\ x # 240 /\ x # 244 /\ x # 245
      BY <1>1, <2>1, <2>2, ByteFact DEF IsStatus, SysExEnd, SysExStart
    <3>2. len = DataBytes(x) + 1
      BY <2>1 DEF len
    <3>3. CASE x < 240
      <4>1. IsChannel(x)
        BY <3>1, <3>3 DEF IsChannel
      <4>2. len \in {2, 3}
        BY <3>2, <4>1 DEF DataBytes
      <4> QED BY <1>1, <3>1, <3>3, <4>1, <4>2 DEF HasData, TimingClock
    <3>4. CASE x >= 248
      <4>1. ~IsChannel(x) /\ ~(x <= SongSelect) /\ x # SongPosition
        BY <3>1, <3>4 DEF IsChannel, SongSelect, SongPosition
      <4>2. len = 1
        BY <3>2, <4>1 DEF DataBytes
      <4> QED BY <3>4, <4>1, <4>2 DEF TimingClock
    <3>5. CASE x = 246
      <4>1. ~IsChannel(x) /\ ~(x <= SongSelect) /\ x # SongPosition
        BY <3>5 DEF IsChannel, SongSelect, SongPosition
      <4>2. len = 1
        BY <3>2, <4>1 DEF DataBytes
      <4> QED BY <3>5, <4>1, <4>2 DEF TimingClock, TuneRequest
    <3>6. CASE x > 240 /\ x < 244
      <4>1. ~IsChannel(x) /\ x <= SongSelect /\ IsSysCommon(x)
        BY <3>1, <3>6 DEF IsChannel, SongSelect, IsSysCommon
      <4>2. len \in {2, 3}
        BY <3>2, <4>1 DEF DataBytes
      <4> QED BY <1>1, <3>1, <3>6, <4>1, <4>2 DEF HasData, TimingClock
    <3> QED BY <3>1, <3>3, <3>4, <3>5, <3>6
  <2>4. \A i \in 2..Len(m) : m[i] < 128
    <3>1. \A y \in Byte : ~IsStatus(y) => y < 128
      BY ByteFact DEF IsStatus
    <3> QED BY <2>1, <3>1
  <2>5. HasData(x) /\ len \in {2, 3} => m \in DataMessages
    BY <2>1, <2>4 DEF DataMessages, x, len
  <2> QED BY <1>4, <2>2, <2>3, <2>5 DEF Single, x, len
<1> QED BY <1>3, <1>4

\* A message is added to a packet and read, or it is refused.
LEMMA AddRead ==
  ASSUME NEW r \in Receivers, NEW b, BuilderOK(b), InStep(b, Cursor(r, b.buffer)),
         NEW t, NEW m \in Seq(Byte), m # <<>>, WellFormed(m),
         NEW s, NEW k, NEW last, NEW skew, NEW skew2,
         Timed(r, b, t, s, k, last, skew, skew2), MayFollow(s, m), SysCommonCancels = FALSE
  PROVE  \/ Kept(b, Add(b, m, t))
         \/ Progress(r, b, Add(b, m, t), m, t, s, k, last, skew2)
<1> DEFINE q == Cursor(r, b.buffer).rx
           a == Add(b, m, t)
<1>1. t \in Stamps /\ s \in Histories /\ Matches(q, s)
  BY DEF Timed
<1>2. Ready(q) /\ (s.partial = <<>> => q.parser.currentHeader = 0 /\ q.partial = <<>>)
      /\ (s.partial # <<>> => q.parser.currentHeader = SysExStart)
  <2> HIDE DEF q
  <2> QED BY <1>1, MatchesFacts
<1>3. 0 # SysExStart
  BY DEF SysExStart
<1>4. m[1] < TimingClock => (s.partial = <<>> <=> ~Continues(m))
  BY DEF MayFollow
<1>5. CASE Single(m) /\ m[1] >= TimingClock /\ ~IsSysEx(m) /\ ~IsChannel(m[1])
  <2>1. a = AddSystem(b, m, t)
    BY <1>5 DEF Add
  <2>2. /\ a.rest = <<>>
        /\ \/ a.ok = FALSE /\ a.builder = b /\ b.buffer # <<>>
           \/ a.ok = TRUE /\ Ticked(r, b, a.builder, m, t)
    <3>1. Len(m) = 1
      BY <1>5 DEF Single
    <3> HIDE DEF a
    <3> QED BY <1>1, <1>2, <1>5, <2>1, <3>1, AddRealTime
  <2> HIDE DEF a
  <2>3. a.ok = TRUE /\ Ticked(r, b, a.builder, m, t)
           => Progress(r, b, a, m, t, s, k, last, skew2)
    BY <1>5, <2>2, TickedRead
  <2> QED BY <2>2, <2>3 DEF Kept, a
<1>6. CASE /\ Single(m) /\ m[1] = TuneRequest /\ ~IsSysEx(m) /\ ~IsChannel(m[1])
           /\ m[1] < TimingClock /\ ~Continues(m)
  <2>1. a = AddSystem(b, m, t)
    BY <1>6 DEF Add
  <2>2. s.partial = <<>> /\ q.parser.currentHeader # SysExStart
    BY <1>2, <1>3, <1>4, <1>6
  <2>3. /\ a.rest = <<>>
        /\ \/ a.ok = FALSE /\ a.builder = b /\ b.buffer # <<>>
           \/ a.ok = TRUE /\ Accepted(r, b, a.builder, m, t)
    <3>1. Len(m) = 1
      BY <1>6 DEF Single
    <3> HIDE DEF a
    <3> QED BY <1>1, <1>2, <1>6, <2>1, <2>2, <3>1, AddTune
  <2> HIDE DEF a
  <2>4. a.ok = TRUE /\ Accepted(r, b, a.builder, m, t)
           => Progress(r, b, a, m, t, s, k, last, skew2)
    BY <1>6, <2>2, <2>3, AcceptedRead
  <2> QED BY <2>3, <2>4 DEF Kept, a
<1>7. CASE m \in DataMessages /\ ~IsSysEx(m) /\ m[1] < TimingClock /\ ~Continues(m)
  <2>2. s.partial = <<>> /\ q.parser.currentHeader # SysExStart
    BY <1>2, <1>3, <1>4, <1>7
  <2>3. /\ a.rest = <<>>
        /\ \/ a.ok = FALSE /\ a.builder = b /\ b.buffer # <<>>
           \/ a.ok = TRUE /\ Accepted(r, b, a.builder, m, t)
    <3>1. CASE IsChannel(m[1])
      <4>1. a = AddImpl(b, m, t)
        BY <1>7, <3>1 DEF Add
      <4> HIDE DEF a
      <4> QED BY <1>1, <1>2, <1>7, <2>2, <3>1, <4>1, AddChannel
    <3>2. CASE ~IsChannel(m[1])
      <4>1. a = AddSystem(b, m, t)
        BY <1>7, <3>2 DEF Add
      <4> HIDE DEF a
      <4> QED BY <1>1, <1>2, <1>7, <2>2, <3>2, <4>1, AddSystemData
    <3> QED BY <3>1, <3>2
  <2> HIDE DEF a
  <2>4. a.ok = TRUE /\ Accepted(r, b, a.builder, m, t)
           => Progress(r, b, a, m, t, s, k, last, skew2)
    BY <1>7, <2>2, <2>3, AcceptedRead
  <2> QED BY <2>3, <2>4 DEF Kept, a
<1>8. CASE SysExPart(m) /\ Continues(m) /\ Chunk(m)
  <2>1. m[1] < TimingClock /\ IsSysEx(m)
    BY <1>8 DEF SysExPart
  <2>2. a = AddSysEx(b, m, t)
    BY <2>1 DEF Add
  <2>3. q.parser.currentHeader = SysExStart
    BY <1>2, <1>4, <1>8, <2>1
  <2>4. SysExAdded(r, b, a, m, t)
    <3> HIDE DEF a
    <3> QED BY <1>1, <1>2, <1>8, <2>2, <2>3, AddSysExChunk
  <2> HIDE DEF a
  <2>5. Progress(r, b, a, m, t, s, k, last, skew2)
    BY <1>8, <2>4, SysExRead
  <2> QED BY <2>5 DEF a
<1>9. CASE SysExPart(m) /\ ~Continues(m) /\ m[1] = SysExStart /\ Chunk(Tail(m))
  <2>1. m[1] < TimingClock /\ IsSysEx(m)
    BY <1>9 DEF SysExPart
  <2>2. a = AddSysEx(b, m, t)
    BY <2>1 DEF Add
  <2>3. q.parser.currentHeader # SysExStart /\ q.partial = <<>>
    BY <1>2, <1>3, <1>4, <1>9, <2>1
  <2>4. Kept(b, a) \/ SysExAdded(r, b, a, m, t)
    <3> HIDE DEF a
    <3> QED BY <1>1, <1>2, <1>9, <2>2, <2>3, AddSysExStart
  <2> HIDE DEF a
  <2>5. SysExAdded(r, b, a, m, t) => Progress(r, b, a, m, t, s, k, last, skew2)
    BY <1>9, SysExRead
  <2> QED BY <2>4, <2>5 DEF a
<1> QED BY <1>5, <1>6, <1>7, <1>8, <1>9, Kinds

\* The rest of a system exclusive message is added to a packet and read.
LEMMA RestRead ==
  ASSUME NEW r \in Receivers, NEW b, BuilderOK(b), InStep(b, Cursor(r, b.buffer)),
         NEW t, NEW m \in Seq(Byte), m # <<>>, WellFormed(m), Continues(m),
         NEW s, NEW k, NEW last, NEW skew, NEW skew2,
         Timed(r, b, t, s, k, last, skew, skew2), MayFollow(s, m)
  PROVE  Progress(r, b, ContinueSysEx(b, m, t), m, t, s, k, last, skew2)
<1> DEFINE q == Cursor(r, b.buffer).rx
           a == ContinueSysEx(b, m, t)
<1>1. t \in Stamps /\ s \in Histories /\ Matches(q, s)
  BY DEF Timed
<1>2. Ready(q) /\ (s.partial # <<>> => q.parser.currentHeader = SysExStart)
  <2> HIDE DEF q
  <2> QED BY <1>1, MatchesFacts
<1>3. SysExPart(m) /\ Chunk(m)
  <2>1. IsSysEx(m)
    BY DEF IsSysEx
  <2> QED BY <2>1, Kinds
<1>4. m[1] < TimingClock
  BY <1>3 DEF SysExPart
<1>5. q.parser.currentHeader = SysExStart
  BY <1>2, <1>4 DEF MayFollow
<1>6. SysExAdded(r, b, a, m, t)
  BY <1>1, <1>2, <1>3, <1>5, ContinueRead
<1> HIDE DEF a
<1>7. Progress(r, b, a, m, t, s, k, last, skew2)
  BY <1>3, <1>6, SysExRead
<1> QED BY <1>7 DEF a

-------------------------------------------------------------------------------
(***************************************************************************)
(* Types: TypeInv is inductive                                             *)
(***************************************************************************)
\* No packet is longer than its capacity.
Sized(b) == b \in Builders(Capacities) /\ Len(b.buffer) <= b.capacity

\* A record that is sized.
LEMMA SizedRecord ==
  ASSUME NEW x, x \in [buffer : Seq(Byte), capacity : Capacities, runningHeader : Byte,
                       runningTimestamp : Byte],
         Len(x.buffer) <= x.capacity
  PROVE  Sized(x)
BY DEF Sized, Builders, Byte

\* A packet that gets no more than it has room for is sized,
LEMMA Enlarged ==
  ASSUME NEW b, Sized(b), NEW s \in Seq(Byte), Len(s) <= Room(b)
  PROVE  /\ b.buffer \o s \in Seq(Byte) /\ Len(b.buffer \o s) <= b.capacity
         /\ Len(b.buffer \o s) = Len(b.buffer) + Len(s)
<1>1. b.buffer \in Seq(Byte) /\ b.capacity \in Nat /\ Len(b.buffer) <= b.capacity
  BY BuilderFields DEF Sized
<1> DEFINE u == b.buffer  new == u \o s  room == b.capacity
<1>2. Len(s) <= room - Len(u)
  BY DEF Room
<1> HIDE DEF u, room
<1>3. new \in Seq(Byte) /\ Len(new) = Len(u) + Len(s) /\ Len(u) \in Nat /\ Len(s) \in Nat
  BY <1>1 DEF u
<1> HIDE DEF new
<1>4. Len(new) <= room
  BY <1>1, <1>2, <1>3 DEF room
<1> QED BY <1>3, <1>4 DEF new, u, room

\* whatever its running status becomes.
LEMMA Rebuilt ==
  ASSUME NEW b, Sized(b), NEW s \in Seq(Byte), Len(s) <= Room(b),
         NEW h \in Byte, NEW l \in Byte
  PROVE  /\ Sized([b EXCEPT !.buffer = @ \o s])
         /\ Sized([b EXCEPT !.buffer = @ \o s, !.runningHeader = h])
         /\ Sized([b EXCEPT !.buffer = @ \o s, !.runningTimestamp = l])
         /\ Sized([b EXCEPT !.buffer = @ \o s, !.runningHeader = h, !.runningTimestamp = l])
         /\ Room([b EXCEPT !.buffer = @ \o s]) = Room(b) - Len(s)
<1> DEFINE new == b.buffer \o s
<1>1. new \in Seq(Byte) /\ Len(new) <= b.capacity /\ Len(new) = Len(b.buffer) + Len(s)
  BY Enlarged
<1>2. b \in [buffer : Seq(Byte), capacity : Capacities, runningHeader : Byte,
             runningTimestamp : Byte]
  BY DEF Sized, Builders, Byte
<1>3. /\ [b EXCEPT !.buffer = @ \o s] = [b EXCEPT !.buffer = new]
      /\ [b EXCEPT !.buffer = @ \o s, !.runningHeader = h]
           = [b EXCEPT !.buffer = new, !.runningHeader = h]
      /\ [b EXCEPT !.buffer = @ \o s, !.runningTimestamp = l]
           = [b EXCEPT !.buffer = new, !.runningTimestamp = l]
      /\ [b EXCEPT !.buffer = @ \o s, !.runningHeader = h, !.runningTimestamp = l]
           = [b EXCEPT !.buffer = new, !.runningHeader = h, !.runningTimestamp = l]
  OBVIOUS
<1>4. Len(b.buffer) \in Nat /\ Len(s) \in Nat /\ b.capacity \in Nat
  BY BuilderFields DEF Sized
<1> HIDE DEF new
<1>5. \A x \in {[b EXCEPT !.buffer = new], [b EXCEPT !.buffer = new, !.runningHeader = h],
                [b EXCEPT !.buffer = new, !.runningTimestamp = l],
                [b EXCEPT !.buffer = new, !.runningHeader = h, !.runningTimestamp = l]} :
        /\ x \in [buffer : Seq(Byte), capacity : Capacities, runningHeader : Byte,
                  runningTimestamp : Byte]
        /\ x.buffer = new /\ x.capacity = b.capacity
  BY <1>1, <1>2
<1>6. \A x \in {[b EXCEPT !.buffer = new], [b EXCEPT !.buffer = new, !.runningHeader = h],
                [b EXCEPT !.buffer = new, !.runningTimestamp = l],
                [b EXCEPT !.buffer = new, !.runningHeader = h, !.runningTimestamp = l]} :
        Sized(x)
  BY <1>1, <1>5, SizedRecord
<1>7. Room([b EXCEPT !.buffer = new]) = Room(b) - Len(s)
  <2> DEFINE y == [b EXCEPT !.buffer = new]
  <2>1. y.buffer = new /\ y.capacity = b.capacity
    BY <1>5
  <2> HIDE DEF y
  <2>2. Room(y) = b.capacity - Len(new) /\ Room(b) = b.capacity - Len(b.buffer)
    BY <2>1 DEF Room
  <2>3. Room(y) = Room(b) - Len(s)
    BY <1>1, <1>4, <2>2
  <2> QED BY <2>3 DEF y
<1> QED BY <1>3, <1>6, <1>7

\* What adding to a packet gives.
AddType(a) == Sized(a.builder) /\ a.ok \in BOOLEAN /\ a.rest \in Seq(Byte)

\* The header of a packet fits.
LEMMA InitSized ==
  ASSUME NEW b, Sized(b), NEW t \in Stamps
  PROVE  Sized(InitBuffer(b, t))
<1>1. CASE b.buffer # <<>>
  BY <1>1 DEF InitBuffer
<1>2. CASE b.buffer = <<>>
  <2> DEFINE s == <<TimestampMSB(t)>>
  <2>1. TimestampMSB(t) \in Byte
    BY MSBFacts
  <2>2. s \in Seq(Byte) /\ Len(s) = 1
    BY <2>1
  <2>3. InitBuffer(b, t) = [b EXCEPT !.buffer = s]
    BY <1>2 DEF InitBuffer
  <2> HIDE DEF s
  <2>4. b \in [buffer : Seq(Byte), capacity : Capacities, runningHeader : Byte,
               runningTimestamp : Byte] /\ b.capacity >= 5
    BY BuilderFields DEF Sized, Builders, Byte
  <2> DEFINE x == [b EXCEPT !.buffer = s]
  <2>5. x \in [buffer : Seq(Byte), capacity : Capacities, runningHeader : Byte,
               runningTimestamp : Byte] /\ x.buffer = s /\ x.capacity = b.capacity
    BY <2>2, <2>4
  <2> HIDE DEF x
  <2>6. Len(x.buffer) <= x.capacity
    <3>1. x.capacity \in Nat /\ x.capacity >= 5
      <4>1. x.capacity \in Capacities
        BY <2>5
      <4> QED BY <4>1, CapacitiesType
    <3>2. Len(x.buffer) = 1
      BY <2>2, <2>5
    <3> QED BY <3>1, <3>2
  <2>7. Sized(x)
    BY <2>5, <2>6, SizedRecord
  <2> QED BY <2>3, <2>7 DEF x
<1> QED BY <1>1, <1>2

\* What is added has the type,
LEMMA AddedType ==
  ASSUME NEW b, Sized(b)
  PROVE  AddType(Added(b)) /\ AddType(Refused(b))
<1>1. /\ Added(b).ok = TRUE /\ Added(b).builder = b /\ Added(b).rest = <<>>
      /\ Refused(b).ok = FALSE /\ Refused(b).builder = b /\ Refused(b).rest = <<>>
  BY DEF Added, Refused
<1>2. <<>> \in Seq(Byte)
  OBVIOUS
<1>3. Added(b).rest \in Seq(Byte) /\ Refused(b).rest \in Seq(Byte)
  BY <1>1, <1>2
<1> QED BY <1>1, <1>3 DEF AddType

\* a channel message,
LEMMA AddImplType ==
  ASSUME NEW b, Sized(b), NEW t \in Stamps, NEW m \in Seq(Byte), m # <<>>
  PROVE  AddType(AddImpl(b, m, t))
<1> DEFINE c == InitBuffer(b, t)
           l == TimestampLSB(t)
           bytes == IF Head(m) # c.runningHeader THEN <<l>> \o m
                    ELSE IF l # c.runningTimestamp THEN <<l>> \o Tail(m)
                    ELSE Tail(m)
           n == [c EXCEPT !.buffer = @ \o bytes, !.runningHeader = Head(m),
                          !.runningTimestamp = l]
<1>1. Sized(c) /\ l \in Byte /\ Head(m) \in Byte
  BY InitSized, LSBFacts
<1>2. bytes \in Seq(Byte)
  <2>1. Tail(m) \in Seq(Byte) /\ <<l>> \in Seq(Byte)
    BY <1>1
  <2> HIDE DEF l
  <2>2. <<l>> \o m \in Seq(Byte) /\ <<l>> \o Tail(m) \in Seq(Byte)
    BY <2>1, Assoc
  <2> QED BY <2>1, <2>2
<1>3. AddImpl(b, m, t) = IF Len(bytes) > Room(c) THEN Refused(c) ELSE Added(n)
  BY DEF AddImpl
<1> HIDE DEF c, l, bytes
<1>4. Len(bytes) > Room(c) \/ Len(bytes) <= Room(c)
  <2>1. Len(bytes) \in Nat /\ Room(c) \in Int
    BY <1>1, <1>2, BuilderFields DEF Room, Sized
  <2> QED BY <2>1
<1>5. CASE Len(bytes) <= Room(c)
  <2>1. Sized(n)
    BY <1>1, <1>2, <1>5, Rebuilt
  <2> QED BY <1>1, <1>3, <2>1, AddedType
<1>6. CASE Len(bytes) > Room(c)
  BY <1>1, <1>3, <1>6, AddedType
<1> QED BY <1>4, <1>5, <1>6

\* a system common or real-time message,
LEMMA AddSystemType ==
  ASSUME NEW b, Sized(b), NEW t \in Stamps, NEW m \in Seq(Byte), m # <<>>
  PROVE  AddType(AddSystem(b, m, t))
<1> DEFINE c == InitBuffer(b, t)
           l == TimestampLSB(t)
           bytes == <<l>> \o m
           n == [c EXCEPT !.buffer = (@ \o <<l>>) \o m, !.runningTimestamp = 0]
           n2 == [c EXCEPT !.buffer = @ \o bytes, !.runningTimestamp = 0]
<1>1. Sized(c) /\ l \in Byte /\ c.buffer \in Seq(Byte)
  BY InitSized, LSBFacts, BuilderFields DEF Sized
<1>2. bytes \in Seq(Byte) /\ Len(bytes) = Len(m) + 1 /\ (c.buffer \o <<l>>) \o m = c.buffer \o bytes
  <2> HIDE DEF c, l
  <2>1. <<l>> \in Seq(Byte) /\ Len(<<l>>) = 1
    BY <1>1
  <2>2. bytes \in Seq(Byte) /\ Len(bytes) = 1 + Len(m)
    BY <2>1, Assoc
  <2> DEFINE one == <<l>>
  <2>3. one \in Seq(Byte)
    BY <2>1
  <2> HIDE DEF one
  <2>4. (c.buffer \o one) \o m = c.buffer \o (one \o m)
    BY <1>1, <2>3, Assoc, ZenonT(30)
  <2>5. (c.buffer \o <<l>>) \o m = c.buffer \o bytes
    BY <2>4 DEF one
  <2> DEFINE len == Len(bytes)
  <2>6. len = 1 + Len(m) /\ Len(m) \in Nat
    BY <2>2
  <2> HIDE DEF len
  <2>7. len = Len(m) + 1
    BY <2>6
  <2> QED BY <2>2, <2>5, <2>7 DEF len
<1>3. AddSystem(b, m, t) = IF Len(m) + 1 > Room(c) THEN Refused(c) ELSE Added(n)
  BY DEF AddSystem
<1>4. n = n2
  <2> HIDE DEF c, l, bytes
  <2> QED BY <1>2
<1> HIDE DEF c, l, bytes, n
<1>5. Len(bytes) > Room(c) \/ Len(bytes) <= Room(c)
  <2>1. Len(bytes) \in Nat /\ Room(c) \in Int
    BY <1>1, <1>2, BuilderFields DEF Room, Sized
  <2> QED BY <2>1
<1>6. CASE Len(bytes) <= Room(c)
  <2>0. 0 \in Byte
    BY DEF Byte
  <2>1. Sized(n2)
    BY <1>1, <1>2, <1>6, <2>0, Rebuilt
  <2> QED BY <1>1, <1>3, <1>4, <2>1, AddedType
<1>7. CASE Len(bytes) > Room(c)
  BY <1>1, <1>2, <1>3, <1>7, AddedType
<1> QED BY <1>5, <1>6, <1>7

\* ContinueSysEx adds the first n bytes, or all of them.
LEMMA ContinueType ==
  ASSUME NEW b, Sized(b), NEW t \in Stamps, NEW data \in Seq(Byte)
  PROVE  AddType(ContinueSysEx(b, data, t))
<1> DEFINE c == InitBuffer(b, t)
           n == Least(Len(data) - 1, Room(c))
           last == data[Len(data)]
           end == IF last = 247 THEN <<TimestampLSB(t), last>> ELSE <<last>>
           s == SubSeq(data, 1, n)
           more == [c EXCEPT !.buffer = @ \o s]
           all == [more EXCEPT !.buffer = @ \o end]
           rest == SubSeq(data, n + 1, Len(data))
           part == [ok |-> TRUE, builder |-> more, rest |-> rest]
<1>1. Sized(c)
  BY InitSized
<1>2. CASE data = <<>>
  <2>1. ContinueSysEx(b, data, t) = Added(c)
    BY <1>2 DEF ContinueSysEx
  <2> QED BY <1>1, <2>1, AddedType
<1>3. CASE data # <<>>
  <2>1. ContinueSysEx(b, data, t) =
          IF n = Len(data) - 1 /\ Len(end) <= Room(more) THEN Added(all) ELSE part
    BY <1>3 DEF ContinueSysEx
  <2>2. TimestampLSB(t) \in Byte /\ last \in Byte
    BY <1>3, LSBFacts
  <2>3. end \in Seq(Byte)
    <3> HIDE DEF last
    <3> QED BY <2>2
  <2>4. Len(data) - 1 \in Nat /\ Room(c) \in Nat /\ Len(data) \in Nat
    <3>1. Len(data) - 1 \in Nat /\ Len(data) \in Nat
      BY <1>3
    <3>2. c.capacity \in Nat /\ Len(c.buffer) \in Nat /\ Len(c.buffer) <= c.capacity
      BY <1>1, BuilderFields DEF Sized
    <3> HIDE DEF c
    <3>3. Room(c) \in Nat
      BY <3>2 DEF Room
    <3> QED BY <3>1, <3>3
  <2>5. n \in Nat /\ n <= Len(data) - 1 /\ n <= Room(c)
    <3> DEFINE x == Len(data) - 1  y == Room(c)
    <3> HIDE DEF x, y
    <3>1. x \in Nat /\ y \in Nat
      BY <2>4 DEF x, y
    <3>2. Least(x, y) \in Nat /\ Least(x, y) <= x /\ Least(x, y) <= y
      BY <3>1, LeastFacts
    <3> QED BY <3>2 DEF x, y
  <2> HIDE DEF c, last, end, n
  <2>6. s \in Seq(Byte) /\ Len(s) <= Room(c) /\ rest \in Seq(Byte)
    <3>1. n <= Len(data)
      BY <2>4, <2>5
    <3>2. s \in Seq(Byte) /\ Len(s) = n
      BY <2>5, <3>1
    <3>3. rest \in Seq(Byte)
      BY <2>5, <3>1, SplitSeq
    <3> QED BY <2>5, <3>2, <3>3
  <2> HIDE DEF s, rest
  <2>0. 0 \in Byte
    BY DEF Byte
  <2>7. Sized(more)
    BY <1>1, <2>0, <2>6, Rebuilt
  <2>8. CASE n = Len(data) - 1 /\ Len(end) <= Room(more)
    <3>1. ContinueSysEx(b, data, t) = Added(all)
      BY <2>1, <2>8
    <3> HIDE DEF more
    <3>2. Sized(all)
      BY <2>0, <2>3, <2>7, <2>8, Rebuilt
    <3> QED BY <3>1, <3>2, AddedType
  <2>9. CASE ~(n = Len(data) - 1 /\ Len(end) <= Room(more))
    <3>1. ContinueSysEx(b, data, t) = part
      BY <2>1, <2>9
    <3>2. part.ok = TRUE /\ part.builder = more /\ part.rest = rest
      OBVIOUS
    <3> HIDE DEF part, more
    <3>3. AddType(part)
      BY <2>6, <2>7, <3>2 DEF AddType
    <3> QED BY <3>1, <3>3
  <2> QED BY <2>8, <2>9
<1> QED BY <1>2, <1>3

\* and a system exclusive one.
LEMMA AddSysExType ==
  ASSUME NEW b, Sized(b), NEW t \in Stamps, NEW m \in Seq(Byte), m # <<>>
  PROVE  AddType(AddSysEx(b, m, t))
<1> DEFINE c == InitBuffer(b, t)
           two == <<TimestampLSB(t), 240>>
           start == [c EXCEPT !.buffer = @ \o two, !.runningHeader = 0]
<1>1. Sized(c)
  BY InitSized
<1>2. AddSysEx(b, m, t) = IF Head(m) # 240 THEN ContinueSysEx(c, m, t)
                          ELSE IF Room(c) < 2 THEN Refused(c)
                          ELSE ContinueSysEx(start, Tail(m), t)
  BY DEF AddSysEx
<1>3. CASE Room(c) >= 2
  <2>1. two \in Seq(Byte) /\ Len(two) = 2
    <3>1. TimestampLSB(t) \in Byte /\ 240 \in Byte
      BY LSBFacts DEF Byte
    <3> QED BY <3>1
  <2>2. 0 \in Byte
    BY DEF Byte
  <2>3. Len(two) <= Room(c)
    <3> HIDE DEF c, two
    <3>1. c.capacity \in Nat /\ Len(c.buffer) \in Nat
      BY <1>1, BuilderFields DEF Sized
    <3>2. Room(c) \in Int
      BY <3>1 DEF Room
    <3> QED BY <1>3, <2>1, <3>2
  <2> HIDE DEF c, two
  <2>4. Sized(start)
    BY <1>1, <2>1, <2>2, <2>3, Rebuilt
  <2>5. Tail(m) \in Seq(Byte)
    OBVIOUS
  <2> HIDE DEF start
  <2>6. AddType(ContinueSysEx(c, m, t)) /\ AddType(ContinueSysEx(start, Tail(m), t))
        /\ AddType(Refused(c))
    BY <1>1, <2>4, <2>5, ContinueType, AddedType
  <2> QED BY <1>2, <2>6
<1>4. CASE ~(Room(c) >= 2)
  <2> HIDE DEF c, start
  <2>1. c.capacity \in Nat /\ Len(c.buffer) \in Nat
    BY <1>1, BuilderFields DEF Sized
  <2>2. Room(c) < 2
    BY <1>4, <2>1 DEF Room
  <2>3. AddType(ContinueSysEx(c, m, t)) /\ AddType(Refused(c))
    BY <1>1, ContinueType, AddedType
  <2> QED BY <1>2, <2>2, <2>3
<1> QED BY <1>3, <1>4

\* Any message can be added to any packet.
LEMMA AddOfType ==
  ASSUME NEW b, Sized(b), NEW t \in Stamps, NEW m \in Seq(Byte), m # <<>>
  PROVE  AddType(Add(b, m, t))
BY AddImplType, AddSystemType, AddSysExType DEF Add

\* The packet sizes that backends can announce, or force.
Sizes == MTUs \cup {DefaultMTU, NoForce}

\* The call that is under way.
CallOK(c) ==
  /\ c.do \in {"nothing", "retry", "continue", "release"}
  /\ c.bytes \in Seq(Byte) /\ c.time \in Stamps
  /\ c.do \in {"retry", "continue"} => c.bytes # <<>>

\* Types, and no packet longer than its capacity: what makes TypeOK inductive.
TypeInv ==
  /\ now \in Stamps /\ age \in 0..(Timeout + 1)
  /\ minMTU \in Sizes /\ forceMinMTU \in Sizes
  /\ Sized(packet) /\ CallOK(call)
  /\ sent \in Histories /\ rx \in Receivers /\ lastStamp \in Stamps
  /\ skewed \in BOOLEAN /\ lost \in BOOLEAN

\* Sizes give capacities.
LEMMA SizesType == \A m \in Sizes : m - 3 \in Capacities
BY DEF Sizes, Capacities

\* The timeout is a number.
LEMMA TimeoutType == Timeout \in Nat /\ Timeout + 1 \in Nat
BY GenericBLEAssumption

\* Small numbers are times.
LEMMA InStamps ==
  ASSUME NEW y \in Nat, y <= 8191
  PROVE  y \in Stamps
<1>1. y \in 0..8191
  OBVIOUS
<1> QED BY <1>1 DEF Stamps

\* A later time is a time.
LEMMA LaterType ==
  ASSUME NEW d \in Nat, now \in Stamps
  PROVE  Later(d) \in Stamps
<1>1. now \in Nat
  BY DEF Stamps
<1> DEFINE x == now + d
<1>2. x \in Nat
  BY <1>1
<1> HIDE DEF x
<1>3. x % 8192 \in Nat /\ x % 8192 <= 8191
  BY <1>2
<1> DEFINE y == x % 8192
<1>4. y \in Nat /\ y <= 8191
  BY <1>3
<1> HIDE DEF y
<1>5. y \in Stamps
  BY <1>4, InStamps
<1> QED BY <1>5 DEF Later, x, y

\* An older packet has an age.
LEMMA AgedType ==
  ASSUME NEW d \in Nat, age \in 0..(Timeout + 1)
  PROVE  Acquired(d) \in 0..(Timeout + 1)
<1>1. age \in Nat /\ Timeout + 1 \in Nat
  BY TimeoutType
<1> DEFINE x == age + d  y == Timeout + 1
<1>2. x \in Nat /\ y \in Nat
  BY <1>1
<1> HIDE DEF x, y
<1> DEFINE z == Least(x, y)
<1>3. z \in Nat /\ z <= y
  BY <1>2, LeastFacts
<1> HIDE DEF z
<1>4. z \in 0..y /\ 0 \in 0..y
  BY <1>2, <1>3
<1> QED BY <1>4 DEF Acquired, Aged, x, y, z

\* The timestamp that a message gets is a time.
LEMMA StampType ==
  ASSUME NEW m, NEW t \in Stamps
  PROVE  Stamp(m, t) \in Stamps
<1>1. t \in Nat /\ t <= 8191
  <2>1. t \in 0..8191
    BY DEF Stamps
  <2> QED BY <2>1
<1>2. t % 128 \in {119, 127} => t - 1 \in Nat /\ t - 1 <= 8191
  BY <1>1
<1>3. Stamp(m, t) \in Nat /\ Stamp(m, t) <= 8191
  BY <1>1, <1>2 DEF Stamp
<1> QED BY <1>3, InStamps

\* So is the one that a packet tells.
LEMMA StampInType ==
  ASSUME NEW before, NEW after, NEW t \in Stamps, lastStamp \in Stamps
  PROVE  StampIn(before, after, t) \in Stamps
<1>1. High(t) * 128 \in Stamps
  BY StampMod
<1>2. (t \div 128) * 128 \in Stamps
  BY <1>1 DEF High
<1> QED BY <1>2 DEF StampIn

\* The next packet is sized.
LEMMA NextPacketType ==
  ASSUME TypeInv
  PROVE  Sized(NextPacket) /\ NextPacket.buffer = <<>> /\ NextPacket.runningHeader = 0
<1>1. packet \in Builders(Capacities) /\ minMTU - 3 \in Capacities
  BY SizesType DEF TypeInv, Sized
<1> DEFINE k == minMTU - 3  e == <<>>
<1>2. k \in Capacities /\ k \in Nat /\ k >= 5
  BY <1>1, CapacitiesType
<1>3. e \in Seq(Byte) /\ Len(e) = 0 /\ 0 \in Byte
  BY DEF Byte
<1>4. packet \in [buffer : Seq(Byte), capacity : Capacities, runningHeader : Byte,
                  runningTimestamp : Byte]
  BY <1>1 DEF Builders, Byte
<1>5. NextPacket = [[packet EXCEPT !.buffer = e, !.runningHeader = 0] EXCEPT !.capacity = k]
  BY DEF NextPacket, Reset
<1> HIDE DEF k, e
<1>6. /\ NextPacket \in [buffer : Seq(Byte), capacity : Capacities, runningHeader : Byte,
                         runningTimestamp : Byte]
      /\ NextPacket.buffer = e /\ NextPacket.capacity = k /\ NextPacket.runningHeader = 0
  BY <1>2, <1>3, <1>4, <1>5
<1>7. Len(NextPacket.buffer) <= NextPacket.capacity
  BY <1>2, <1>3, <1>6
<1> QED BY <1>6, <1>7, SizedRecord DEF e

\* Sending a packet keeps the types of its receiver.
LEMMA SendNowType ==
  ASSUME TypeInv, SendNow
  PROVE  rx' \in Receivers /\ lost' \in BOOLEAN /\ skewed' \in BOOLEAN
<1>1. packet.buffer \in Seq(Byte) /\ rx \in Receivers /\ lost \in BOOLEAN
  BY BuilderFields DEF TypeInv, Sized
<1>2. \A s \in Seq(Byte) : RxPacket(rx, s) \in Receivers
  BY <1>1, CursorType
<1>3. \A n \in Cuts : n < Len(packet.buffer) => SubSeq(packet.buffer, 1, n) \in Seq(Byte)
  <2>1. \A n \in Cuts : n \in Nat
    BY GenericBLEAssumption
  <2> DEFINE s == packet.buffer
  <2>2. s \in Seq(Byte)
    BY <1>1
  <2> HIDE DEF s
  <2>3. \A n \in Nat : n < Len(s) => SubSeq(s, 1, n) \in Seq(Byte)
    BY <2>2
  <2> QED BY <2>1, <2>3 DEF s
<1> QED BY <1>1, <1>2, <1>3 DEF SendNow

\* The call that is left after a message is added.
LEMMA AfterType ==
  ASSUME NEW a, AddType(a), NEW m \in Seq(Byte), m # <<>>, NEW t \in Stamps, NEW x
  PROVE  CallOK(After(a, m, t, x))
<1>0. 0 \in Stamps /\ <<>> \in Seq(Byte)
  BY DEF Stamps
<1>1. CASE ~a.ok
  BY <1>1 DEF After, CallOK
<1>2. CASE a.ok /\ a.rest # <<>>
  BY <1>2 DEF After, CallOK, AddType
<1>3. CASE a.ok /\ a.rest = <<>>
  <2>1. After(a, m, t, x) = [Idle EXCEPT !.do = "release"] \/ After(a, m, t, x) = Idle
    BY <1>3 DEF After
  <2>2. CallOK(Idle) /\ CallOK([Idle EXCEPT !.do = "release"])
    BY <1>0 DEF Idle, CallOK
  <2> QED BY <2>1, <2>2
<1> QED BY <1>1, <1>2, <1>3

\* The initial state.
LEMMA TypeInit == Init => TypeInv
<1> SUFFICES ASSUME Init PROVE TypeInv
  OBVIOUS
<1>1. /\ now = Start /\ packet = NewBuilder(DefaultMTU - 3) /\ age = 0
      /\ minMTU = DefaultMTU /\ forceMinMTU = NoForce /\ call = Idle
      /\ sent = Nothing /\ rx = NewRx /\ lastStamp = 0 /\ skewed = FALSE /\ lost = FALSE
  BY DEF Init
<1>2. now \in Stamps /\ lastStamp \in Stamps /\ 0 \in Stamps
  <2>1. Start \in Stamps
    BY GenericBLEAssumption DEF Stamps
  <2>2. 0 \in Stamps
    BY InStamps
  <2> QED BY <1>1, <2>1, <2>2
<1>3. age \in 0..(Timeout + 1)
  BY <1>1, TimeoutType
<1>4. minMTU \in Sizes /\ forceMinMTU \in Sizes
  BY <1>1 DEF Sizes
<1>5. <<>> \in Seq(Byte) /\ 0 \in Byte /\ NoByte \in Byte
  BY DEF Byte, NoByte
<1>6. Sized(packet)
  <2> DEFINE k == DefaultMTU - 3  e == <<>>
  <2>1. k \in Capacities
    BY SizesType DEF Sizes
  <2>2. k \in Nat /\ k >= 5
    BY <2>1, CapacitiesType
  <2>3. packet = [buffer |-> e, capacity |-> k, runningHeader |-> 0, runningTimestamp |-> 0]
    BY <1>1 DEF NewBuilder
  <2>4. e \in Seq(Byte) /\ Len(e) = 0
    OBVIOUS
  <2> HIDE DEF k, e
  <2>5. packet \in [buffer : Seq(Byte), capacity : Capacities, runningHeader : Byte,
                    runningTimestamp : Byte]
    BY <1>5, <2>1, <2>3, <2>4
  <2>6. Len(packet.buffer) = 0 /\ packet.capacity = k
    BY <2>3, <2>4
  <2>7. Len(packet.buffer) <= packet.capacity
    BY <2>2, <2>6
  <2> QED BY <2>5, <2>7, SizedRecord
<1>7. CallOK(call)
  BY <1>1, <1>2, <1>5 DEF Idle, CallOK
<1>8. sent \in Histories
  <2>1. <<>> \in Seq(SentItems)
    OBVIOUS
  <2> QED BY <1>1, <1>5, <2>1 DEF Nothing, Histories
<1>9. rx \in Receivers
  <2>1. <<>> \in Seq(Items)
    OBVIOUS
  <2>2. NoMessage \in [type : {"none", "channel", "syscommon", "realtime", "chunk", "sysex"},
                       bytes : Seq(Byte)]
    BY <1>5 DEF NoMessage
  <2>3. NewParser \in Parsers
    BY <1>5, <2>2 DEF NewParser, Parsers
  <2> QED BY <1>1, <1>5, <2>1, <2>3 DEF NewRx, Receivers
<1> QED BY <1>1, <1>2, <1>3, <1>4, <1>6, <1>7, <1>8, <1>9 DEF TypeInv

\* Messages are sequences of bytes, and not empty.
LEMMA MessageType ==
  ASSUME NEW m \in Messages
  PROVE  m \in Seq(Byte) /\ m # <<>>
BY GenericBLEAssumption

\* Delays are numbers.
LEMMA DelayType == Period \in Nat /\ \A d \in Delays : d \in Nat
BY GenericBLEAssumption

\* Each operation keeps the types: send,
LEMMA TypeSend ==
  ASSUME TypeInv, NEW m \in Messages, NEW d \in Delays, Send(m, d)
  PROVE  TypeInv'
<1> DEFINE t == Stamp(m, Later(d))
           a == Add(packet, m, t)
           k == a.ok /\ skewed'
<1>1. /\ now' = Later(d) /\ age' = Acquired(d) /\ packet' = a.builder
      /\ call' = After(a, m, t, age')
      /\ lastStamp' = StampIn(packet.buffer, packet'.buffer, t)
      /\ sent' = Recorded(sent, m, SentItem(m, t, k))
      /\ skewed' \in BOOLEAN
      /\ minMTU' = minMTU /\ forceMinMTU' = forceMinMTU /\ rx' = rx /\ lost' = lost
  BY DEF Send, SentItem
<1>2. m \in Seq(Byte) /\ m # <<>> /\ d \in Nat
  BY MessageType, DelayType
<1>3. Later(d) \in Stamps /\ Acquired(d) \in 0..(Timeout + 1)
  BY <1>2, LaterType, AgedType DEF TypeInv
<1>4. t \in Stamps
  BY <1>3, StampType
<1> HIDE DEF t
<1>5. AddType(a)
  BY <1>2, <1>4, AddOfType DEF TypeInv
<1> HIDE DEF a
<1>6. k \in BOOLEAN /\ t \in Nat
  BY <1>4 DEF Stamps
<1> HIDE DEF k
<1>7. sent' \in Histories
  BY <1>1, <1>2, <1>6, RecordedFacts DEF TypeInv
<1>8. CallOK(call)'
  <2>1. CallOK(After(a, m, t, age'))
    BY <1>2, <1>4, <1>5, AfterType
  <2> QED BY <1>1, <2>1 DEF CallOK
<1>9. Sized(packet')
  BY <1>1, <1>5 DEF AddType
<1>10. lastStamp' \in Stamps
  BY <1>1, <1>4, StampInType DEF TypeInv
<1> QED BY <1>1, <1>3, <1>7, <1>8, <1>9, <1>10 DEF TypeInv

\* sendNow,
LEMMA TypeFlush ==
  ASSUME TypeInv, Flush
  PROVE  TypeInv'
<1> DEFINE m == call.bytes
           t == call.time
           a == IF call.do = "retry" THEN Add(NextPacket, m, t)
                ELSE ContinueSysEx(NextPacket, m, t)
<1>1. /\ call.do \in {"retry", "continue"} /\ SendNow
      /\ packet' = a.builder /\ call' = After(a, m, t, age)
      /\ lastStamp' = StampIn(<<>>, packet'.buffer, t)
      /\ now' = now /\ age' = age /\ minMTU' = minMTU /\ forceMinMTU' = forceMinMTU
      /\ sent' = sent
  BY DEF Flush
<1>2. m \in Seq(Byte) /\ m # <<>> /\ t \in Stamps
  BY <1>1 DEF TypeInv, CallOK
<1> HIDE DEF m, t
<1>3. AddType(a)
  BY <1>2, NextPacketType, AddOfType, ContinueType
<1> HIDE DEF a
<1>4. CallOK(call)'
  <2>1. CallOK(After(a, m, t, age))
    BY <1>2, <1>3, AfterType
  <2> QED BY <1>1, <2>1 DEF CallOK
<1>5. Sized(packet')
  BY <1>1, <1>3 DEF AddType
<1>6. lastStamp' \in Stamps
  BY <1>1, <1>2, StampInType DEF TypeInv
<1>7. rx' \in Receivers /\ lost' \in BOOLEAN /\ skewed' \in BOOLEAN
  BY <1>1, SendNowType
<1> QED BY <1>1, <1>4, <1>5, <1>6, <1>7 DEF TypeInv

\* releasing the packet,
LEMMA TypeRelease ==
  ASSUME TypeInv, Release
  PROVE  TypeInv'
<1>1. CallOK(Idle)
  BY InStamps DEF Idle, CallOK
<1>2. rx' \in Receivers /\ lost' \in BOOLEAN /\ skewed' \in BOOLEAN
  BY SendNowType DEF Release
<1> QED BY <1>1, <1>2, NextPacketType DEF Release, TypeInv, CallOK

\* the packet that a message had no room in,
LEMMA TypeSendPacket ==
  ASSUME TypeInv, SendPacket
  PROVE  TypeInv'
<1>2. rx' \in Receivers /\ lost' \in BOOLEAN /\ skewed' \in BOOLEAN
  BY SendNowType DEF SendPacket
<1> QED BY <1>2, NextPacketType DEF SendPacket, TypeInv, CallOK

\* the polling loop,
LEMMA TypePoll ==
  ASSUME TypeInv, Poll
  PROVE  TypeInv'
<1>1. now' \in Stamps /\ age' \in 0..(Timeout + 1)
  BY DelayType, LaterType, AgedType DEF Poll, TypeInv
<1>2. CASE age' > Timeout
  <2>1. rx' \in Receivers /\ lost' \in BOOLEAN /\ skewed' \in BOOLEAN
    BY <1>2, SendNowType DEF Poll
  <2>2. /\ packet' = NextPacket
        /\ minMTU' = minMTU /\ forceMinMTU' = forceMinMTU /\ call' = call /\ sent' = sent
        /\ lastStamp' = lastStamp
    BY <1>2 DEF Poll
  <2> QED BY <1>1, <2>1, <2>2, NextPacketType DEF TypeInv, CallOK
<1>3. CASE ~(age' > Timeout)
  <2>1. /\ packet' = packet /\ rx' = rx /\ lost' = lost /\ skewed' = skewed
        /\ minMTU' = minMTU /\ forceMinMTU' = forceMinMTU /\ call' = call /\ sent' = sent
        /\ lastStamp' = lastStamp
    BY <1>3 DEF Poll
  <2> QED BY <1>1, <2>1 DEF TypeInv, CallOK, Sized
<1> QED BY <1>2, <1>3

\* The smaller of two sizes is a size.
LEMMA LeastSize ==
  ASSUME NEW x \in Sizes, NEW y \in Sizes
  PROVE  Least(x, y) \in Sizes
BY DEF Least

\* and a new MTU.
LEMMA TypeUpdateMTU ==
  ASSUME TypeInv, NEW mtu \in Sizes, NEW force \in Sizes, UpdateMTU(mtu, force)
  PROVE  TypeInv'
<1> DEFINE least == IF force = 0 THEN mtu ELSE Least(force, mtu)
<1>1. least \in Sizes
  BY LeastSize
<1> HIDE DEF least
<1>2. /\ minMTU' = least /\ forceMinMTU' = force
      /\ packet' = IF packet.buffer = <<>> THEN [packet EXCEPT !.capacity = least - 3]
                   ELSE packet
      /\ age' = Acquired(0)
      /\ now' = now /\ call' = call /\ sent' = sent /\ rx' = rx /\ lastStamp' = lastStamp
      /\ skewed' = skewed /\ lost' = lost
  BY DEF UpdateMTU, Resize, least
<1>3. Sized(packet')
  <2>1. CASE packet.buffer # <<>>
    BY <1>2, <2>1 DEF TypeInv
  <2>2. CASE packet.buffer = <<>>
    <3> DEFINE k == least - 3  n == [packet EXCEPT !.capacity = k]
    <3>1. k \in Capacities
      BY <1>1, SizesType
    <3>2. k \in Nat /\ k >= 5
      BY <3>1, CapacitiesType
    <3> HIDE DEF k
    <3>3. packet \in [buffer : Seq(Byte), capacity : Capacities, runningHeader : Byte,
                      runningTimestamp : Byte]
      BY DEF TypeInv, Sized, Builders, Byte
    <3>4. /\ n \in [buffer : Seq(Byte), capacity : Capacities, runningHeader : Byte,
                    runningTimestamp : Byte]
          /\ n.buffer = packet.buffer /\ n.capacity = k
      BY <3>1, <3>3
    <3>5. Len(n.buffer) = 0
      BY <2>2, <3>4
    <3> HIDE DEF n
    <3>6. Len(n.buffer) <= n.capacity
      BY <3>2, <3>4, <3>5
    <3>7. Sized(n)
      BY <3>4, <3>6, SizedRecord
    <3> QED BY <1>2, <2>2, <3>7 DEF n, k
  <2> QED BY <2>1, <2>2
<1>4. age' \in 0..(Timeout + 1)
  BY <1>2, AgedType DEF TypeInv
<1> QED BY <1>1, <1>2, <1>3, <1>4 DEF TypeInv, CallOK

\* TypeInv is preserved by every step,
LEMMA TypeNext == TypeInv /\ [Next]_vars => TypeInv'
<1> SUFFICES ASSUME TypeInv, [Next]_vars PROVE TypeInv'
  OBVIOUS
<1>1. ASSUME NEW m \in Messages, NEW d \in Delays, Send(m, d)
      PROVE  TypeInv'
  BY <1>1, TypeSend
<1>2. CASE Flush
  BY <1>2, TypeFlush
<1>3. CASE Release
  BY <1>3, TypeRelease
<1>4. CASE SendPacket
  BY <1>4, TypeSendPacket
<1>5. CASE Poll
  BY <1>5, TypePoll
<1>6. ASSUME NEW mtu \in MTUs, HandleMTU(mtu) \/ ForceMinMTU(mtu)
      PROVE  TypeInv'
  <2>1. mtu \in Sizes /\ minMTU \in Sizes /\ forceMinMTU \in Sizes
    BY DEF TypeInv, Sizes
  <2>2. UpdateMTU(mtu, forceMinMTU) \/ UpdateMTU(minMTU, mtu)
    BY <1>6 DEF HandleMTU, ForceMinMTU
  <2> QED BY <2>1, <2>2, TypeUpdateMTU
<1>7. CASE UNCHANGED vars
  BY <1>7 DEF vars, TypeInv, CallOK, Sized
<1> QED BY <1>1, <1>2, <1>3, <1>4, <1>5, <1>6, <1>7 DEF Next

\* and implies TypeOK.
LEMMA TypeImplies == TypeInv => TypeOK
<1> SUFFICES ASSUME TypeInv PROVE TypeOK
  OBVIOUS
<1>1. Sized(packet) /\ packet.buffer \in Seq(Byte) /\ packet.capacity \in Nat
      /\ Len(packet.buffer) \in Nat /\ Len(packet.buffer) <= packet.capacity
  BY BuilderFields DEF TypeInv, Sized
<1>2. RxThen \in Receivers
  BY <1>1, CursorType DEF TypeInv, RxThen
<1>3. Room(packet) >= 0
  BY <1>1 DEF Room
<1>4. RxThen.parser \in Parsers
  BY <1>2 DEF Receivers
<1>5. packet \in Builders({m - 3 : m \in MTUs \cup {DefaultMTU, NoForce}})
  BY DEF TypeInv, Sized, Capacities
<1>6. now \in 0..8191 /\ age \in 0..(Timeout + 1)
  BY DEF TypeInv, Stamps
<1>7. call.do \in {"nothing", "retry", "continue", "release"}
  BY DEF TypeInv, CallOK
<1> QED BY <1>3, <1>4, <1>5, <1>6, <1>7 DEF TypeOK

\* Every variable keeps its type, and no packet is longer than the capacity that it got
\* from the MTU: what the unchecked copies of BLEMIDIPacketBuilder rely on.
THEOREM TypeCorrect == Spec => []TypeOK
<1>1. Spec => []TypeInv
  BY TypeInit, TypeNext, PTL DEF Spec
<1> QED BY <1>1, TypeImplies, PTL

-------------------------------------------------------------------------------
(***************************************************************************)
(* The invariant ReadInv is inductive                                      *)
(***************************************************************************)
\* No message of the call is left that has not been added to a packet.
QuietCall(c) == c.do \in {"nothing", "release"}

\* The receiver r has read the packets before b, and will read with b what h says except
\* for the bytes with which the call c goes on.
InReach(r, b, last, skew, c, h) ==
  /\ BuilderOK(b) /\ InStep(b, Cursor(r, b.buffer)) /\ Told(b, Cursor(r, b.buffer), last, skew)
  /\ QuietCall(c) => Matches(Cursor(r, b.buffer).rx, h)
  /\ ~QuietCall(c) =>
       /\ b.buffer # <<>> /\ WellFormed(c.bytes)
       /\ c.do = "continue" => Continues(c.bytes)
       /\ \E s \in Histories, k \in BOOLEAN :
            /\ MayFollow(s, c.bytes) /\ Matches(Cursor(r, b.buffer).rx, s)
            /\ h = Recorded(s, c.bytes, SentItem(c.bytes, c.time, k))

\* The inductive invariant: unless something was lost, the receiver of the packet that
\* is being built is a reader of what was sent.
ReadInv == ~lost => InReach(rx, packet, lastStamp, skewed, call, sent)

\* When a message has been added, its rest is what the call goes on with.
LEMMA ProgressReach ==
  ASSUME NEW r, NEW b, NEW a, NEW m, NEW t, NEW s, NEW k \in BOOLEAN, NEW last, NEW skew,
         Progress(r, b, a, m, t, s, k, last, skew), NEW x
  PROVE  InReach(r, a.builder, NewLast(b.buffer, a.builder.buffer, last, t), skew,
                 After(a, m, t, x), Recorded(s, m, SentItem(m, t, k)))
<1> DEFINE n == a.builder
           q == Cursor(r, n.buffer)
           c == After(a, m, t, x)
           h == Recorded(s, m, SentItem(m, t, k))
           l == NewLast(b.buffer, n.buffer, last, t)
<1>1. /\ a.ok = TRUE /\ BuilderOK(n) /\ n.buffer # <<>> /\ InStep(n, q)
      /\ Told(n, q, l, skew)
      /\ a.rest = <<>> => Matches(q.rx, h)
      /\ a.rest # <<>> =>
           /\ Continues(a.rest) /\ WellFormed(a.rest)
           /\ \E s2 \in Histories :
                /\ MayFollow(s2, a.rest) /\ Matches(q.rx, s2)
                /\ Recorded(s2, a.rest, SentItem(a.rest, t, k)) = h
  BY DEF Progress
<1>2. a.rest = <<>> => QuietCall(c)
  BY <1>1 DEF After, QuietCall, Idle
<1>3. a.rest # <<>> => c.do = "continue" /\ c.bytes = a.rest /\ c.time = t /\ ~QuietCall(c)
  BY <1>1 DEF After, QuietCall
<1> HIDE DEF n, q, c, h, l
<1>4. CASE a.rest = <<>>
  <2>1. InReach(r, n, l, skew, c, h)
    BY <1>1, <1>2, <1>4 DEF InReach, q
  <2> QED BY <2>1 DEF n, l, c, h
<1>5. CASE a.rest # <<>>
  <2>1. PICK s2 \in Histories :
          /\ MayFollow(s2, a.rest) /\ Matches(q.rx, s2)
          /\ Recorded(s2, a.rest, SentItem(a.rest, t, k)) = h
    BY <1>1, <1>5
  <2>2. /\ MayFollow(s2, c.bytes) /\ Matches(q.rx, s2)
        /\ h = Recorded(s2, c.bytes, SentItem(c.bytes, c.time, k))
    BY <1>3, <1>5, <2>1
  <2>3. WellFormed(c.bytes) /\ Continues(c.bytes)
    BY <1>1, <1>3, <1>5
  <2>4. InReach(r, n, l, skew, c, h)
    BY <1>1, <1>3, <1>5, <2>2, <2>3 DEF InReach, q
  <2> QED BY <2>4 DEF n, l, c, h
<1> QED BY <1>4, <1>5

\* The beginning of a packet.
LEMMA Fresh ==
  ASSUME NEW r \in Receivers, NEW b, Sized(b), b.buffer = <<>>, b.runningHeader = 0
  PROVE  /\ BuilderOK(b) /\ InStep(b, Cursor(r, b.buffer)) /\ Cursor(r, b.buffer).rx = r
         /\ \A last, skew : Told(b, Cursor(r, b.buffer), last, skew)
<1> DEFINE c == Cursor(r, b.buffer)
<1>1. c = [ble |-> [prevWasTimestamp |-> FALSE, timestamp |-> 0], rx |-> r]
  <2>1. Len(<<>>) < 2
    OBVIOUS
  <2> QED BY <2>1 DEF Cursor
<1>2. c.rx = r /\ c.ble.prevWasTimestamp = FALSE
  BY <1>1
<1> HIDE DEF c
<1> QED BY <1>2 DEF BuilderOK, InStep, Told, Sized, c

\* The invariant when a packet begins.
LEMMA FreshReach ==
  ASSUME NEW r \in Receivers, NEW b, Sized(b), b.buffer = <<>>, b.runningHeader = 0,
         NEW c, QuietCall(c), NEW h, Matches(r, h), NEW last, NEW skew
  PROVE  InReach(r, b, last, skew, c, h)
BY Fresh DEF InReach

\* A packet is sent, and nothing is lost.
LEMMA SentAll ==
  ASSUME TypeInv, SendNow, ~lost'
  PROVE  /\ ~lost /\ rx' = Cursor(rx, packet.buffer).rx /\ skewed' = FALSE
         /\ rx' \in Receivers
<1>1. packet.buffer \in Seq(Byte) /\ rx \in Receivers
  BY BuilderFields DEF TypeInv, Sized
<1>2. Cursor(rx, packet.buffer).rx = RxPacket(rx, packet.buffer)
  BY <1>1, CursorType
<1>3. rx' = RxPacket(rx, packet.buffer) /\ lost' = lost /\ skewed' = FALSE
  BY DEF SendNow
<1>4. rx' \in Receivers
  BY SendNowType
<1> QED BY <1>2, <1>3, <1>4

\* The invariant when a packet is sent.
LEMMA SentReach ==
  ASSUME TypeInv, ReadInv, SendNow, ~lost', Quiet, NEW c, QuietCall(c)
  PROVE  InReach(rx', NextPacket, lastStamp, FALSE, c, sent)
<1>1. ~lost /\ rx' = Cursor(rx, packet.buffer).rx /\ rx' \in Receivers
  BY SentAll
<1>2. Matches(rx', sent)
  BY <1>1 DEF ReadInv, InReach, Quiet, QuietCall
<1> QED BY <1>1, <1>2, NextPacketType, FreshReach

\* The timestamp that the model keeps is the one that a packet tells.
LEMMA SameLast ==
  ASSUME NEW before, NEW after, NEW t
  PROVE  StampIn(before, after, t) = NewLast(before, after, lastStamp, t)
BY DEF StampIn, NewLast, Adds, High

\* A packet to which nothing is added tells the same time.
LEMMA NothingAdded ==
  ASSUME NEW buf \in Seq(Byte), buf # <<>>, NEW last, NEW t
  PROVE  NewLast(buf, buf, last, t) = last
<1>1. \A i \in 2..Len(buf) : ~(i > Len(buf))
  <2>1. Len(buf) \in Nat
    OBVIOUS
  <2> QED BY <2>1
<1>2. ~Adds(buf, buf)
  BY <1>1 DEF Adds
<1> QED BY <1>2 DEF NewLast

\* The invariant holds at first.  The proofs below assume that a system common message
\* does not cancel the receiver's running status (the BLE interfaces construct their
\* parser so), and that the application sends no undefined status bytes.
LEMMA ReadInit == Init => ReadInv
<1> SUFFICES ASSUME Init PROVE ReadInv
  OBVIOUS
<1>1. TypeInv
  BY TypeInit
<1>2. packet.buffer = <<>> /\ packet.runningHeader = 0 /\ call = Idle
  BY DEF Init, NewBuilder
<1>3. rx \in Receivers /\ Sized(packet)
  BY <1>1 DEF TypeInv
<1>4. QuietCall(call)
  BY <1>2 DEF QuietCall, Idle
<1>5. Matches(rx, sent)
  <2>1. rx = NewRx /\ sent = Nothing
    BY DEF Init
  <2>2. AsSent(<<>>, <<>>)
    BY DEF AsSent
  <2> QED BY <2>1, <2>2 DEF NewRx, Nothing, Matches, Ready, NewParser
<1> QED BY <1>2, <1>3, <1>4, <1>5, FreshReach DEF ReadInv

\* Each operation preserves ReadInv: send,
LEMMA ReadSend ==
  ASSUME SysCommonCancels = FALSE, TypeInv, ReadInv,
         NEW m \in Messages, WellFormed(m), NEW d \in Delays, Send(m, d)
  PROVE  ReadInv'
<1> SUFFICES ASSUME ~lost' PROVE InReach(rx, packet, lastStamp, skewed, call, sent)'
  BY DEF ReadInv
<1> DEFINE t == Stamp(m, Later(d))
           a == Add(packet, m, t)
           k == a.ok /\ skewed'
           skew == skewed \/ Gap(packet, lastStamp, t)
<1>1. /\ call.do = "nothing" /\ MayFollow(sent, m) /\ packet' = a.builder
      /\ call' = After(a, m, t, age')
      /\ lastStamp' = StampIn(packet.buffer, packet'.buffer, t)
      /\ sent' = Recorded(sent, m, SentItem(m, t, k))
      /\ skewed' = (skewed \/ (a.ok /\ Gap(packet, lastStamp, t)))
      /\ rx' = rx /\ ~lost
  BY DEF Send, SentItem, Gap
<1>2. m \in Seq(Byte) /\ m # <<>>
  BY MessageType
<1>3. t \in Stamps
  <2>1. Later(d) \in Stamps
    BY DelayType, LaterType DEF TypeInv
  <2> QED BY <2>1, StampType
<1> HIDE DEF t
<1>4. /\ BuilderOK(packet) /\ InStep(packet, Cursor(rx, packet.buffer))
      /\ Told(packet, Cursor(rx, packet.buffer), lastStamp, skewed)
      /\ Matches(Cursor(rx, packet.buffer).rx, sent)
  BY <1>1 DEF ReadInv, InReach, QuietCall
<1>5. sent \in Histories /\ rx \in Receivers /\ lastStamp \in Stamps /\ skewed \in BOOLEAN
  BY DEF TypeInv
<1>6. skew \in BOOLEAN
  BY DEF Gap
<1>7. ~skew => ~skewed /\ ~Gap(packet, lastStamp, t)
  OBVIOUS
<1>8. Timed(rx, packet, t, sent, skew, lastStamp, skewed, skew)
  <2> HIDE DEF skew
  <2> QED BY <1>3, <1>4, <1>5, <1>6, <1>7 DEF Timed
<1>9. Kept(packet, a) \/ Progress(rx, packet, a, m, t, sent, skew, lastStamp, skew)
  <2> HIDE DEF skew
  <2> QED BY <1>1, <1>2, <1>4, <1>5, <1>8, AddRead
<1> HIDE DEF a
<1>10. lastStamp' = NewLast(packet.buffer, packet'.buffer, lastStamp, t)
  BY <1>1, SameLast
<1>11. CASE Progress(rx, packet, a, m, t, sent, skew, lastStamp, skew)
  <2>1. a.ok = TRUE
    BY <1>11 DEF Progress
  <2>2. skewed' = skew /\ k = skew
    BY <1>1, <2>1
  <2> HIDE DEF skew, k
  <2>3. InReach(rx, a.builder, NewLast(packet.buffer, a.builder.buffer, lastStamp, t), skew,
                After(a, m, t, age'), Recorded(sent, m, SentItem(m, t, skew)))
    BY <1>6, <1>11, ProgressReach
  <2>4. InReach(rx', packet', lastStamp', skewed', call', sent')
    BY <1>1, <1>10, <2>2, <2>3
  <2> QED BY <2>4
<1>12. CASE Kept(packet, a)
  <2>1. a.ok = FALSE /\ a.builder = packet /\ packet.buffer # <<>>
    BY <1>12 DEF Kept
  <2>2. call' = [do |-> "retry", bytes |-> m, time |-> t] /\ k = FALSE
    BY <1>1, <2>1 DEF After
  <2>3. skewed' = skewed
    BY <1>1, <1>5, <2>1
  <2>4. lastStamp' = lastStamp
    <3>1. packet.buffer \in Seq(Byte)
      BY BuilderFields DEF TypeInv, Sized
    <3> QED BY <1>1, <1>10, <2>1, <3>1, NothingAdded
  <2>5. sent' = Recorded(sent, m, SentItem(m, t, FALSE))
    BY <1>1, <2>2
  <2> DEFINE c == [do |-> "retry", bytes |-> m, time |-> t]
  <2>6. c.bytes = m /\ c.time = t /\ ~QuietCall(c) /\ c.do # "continue"
    BY DEF QuietCall
  <2> HIDE DEF c
  <2>7. InReach(rx, packet, lastStamp, skewed, c, Recorded(sent, m, SentItem(m, t, FALSE)))
    BY <1>1, <1>4, <1>5, <2>1, <2>6 DEF InReach
  <2>8. InReach(rx', packet', lastStamp', skewed', call', sent')
    BY <1>1, <2>1, <2>2, <2>3, <2>4, <2>5, <2>7 DEF c
  <2> QED BY <2>8
<1> QED BY <1>9, <1>11, <1>12

\* sendNow,
LEMMA ReadFlush ==
  ASSUME SysCommonCancels = FALSE, TypeInv, ReadInv, Flush
  PROVE  ReadInv'
<1> SUFFICES ASSUME ~lost' PROVE InReach(rx, packet, lastStamp, skewed, call, sent)'
  BY DEF ReadInv
<1> DEFINE m == call.bytes
           t == call.time
           b == NextPacket
           r == rx'
           a == IF call.do = "retry" THEN Add(b, m, t) ELSE ContinueSysEx(b, m, t)
<1>1. /\ call.do \in {"retry", "continue"} /\ SendNow
      /\ packet' = a.builder /\ call' = After(a, m, t, age)
      /\ lastStamp' = StampIn(<<>>, packet'.buffer, t)
      /\ sent' = sent
  BY DEF Flush
<1>2. m \in Seq(Byte) /\ m # <<>> /\ t \in Stamps /\ lastStamp \in Stamps
  BY <1>1 DEF TypeInv, CallOK
<1>3. ~lost /\ r = Cursor(rx, packet.buffer).rx /\ r \in Receivers /\ skewed' = FALSE
  BY <1>1, SentAll
<1>4. ~QuietCall(call)
  BY <1>1 DEF QuietCall
<1>5. /\ WellFormed(m) /\ (call.do = "continue" => Continues(m))
      /\ \E s \in Histories, k \in BOOLEAN :
            /\ MayFollow(s, m) /\ Matches(Cursor(rx, packet.buffer).rx, s)
            /\ sent = Recorded(s, m, SentItem(m, t, k))
  BY <1>3, <1>4 DEF ReadInv, InReach
<1>6. Sized(b) /\ b.buffer = <<>> /\ b.runningHeader = 0
  BY NextPacketType
<1> HIDE DEF m, t, b, r
<1>7. /\ BuilderOK(b) /\ InStep(b, Cursor(r, b.buffer)) /\ Cursor(r, b.buffer).rx = r
      /\ Told(b, Cursor(r, b.buffer), lastStamp, FALSE)
  BY <1>3, <1>6, Fresh
<1>8. PICK s \in Histories, k \in BOOLEAN :
         /\ MayFollow(s, m) /\ Matches(r, s)
         /\ sent = Recorded(s, m, SentItem(m, t, k))
  BY <1>3, <1>5
<1>9. Timed(r, b, t, s, k, lastStamp, FALSE, FALSE)
  <2>1. ~Gap(b, lastStamp, t)
    BY <1>6 DEF Gap
  <2> QED BY <1>2, <1>7, <1>8, <2>1 DEF Timed
<1>10. Progress(r, b, a, m, t, s, k, lastStamp, FALSE)
  <2>1. CASE call.do = "retry"
    <3>1. a = Add(b, m, t)
      BY <2>1
    <3> HIDE DEF a
    <3>2. Kept(b, a) \/ Progress(r, b, a, m, t, s, k, lastStamp, FALSE)
      BY <1>2, <1>3, <1>5, <1>7, <1>8, <1>9, <3>1, AddRead
    <3>3. ~Kept(b, a)
      BY <1>6 DEF Kept
    <3> QED BY <3>2, <3>3
  <2>2. CASE call.do = "continue"
    <3>1. a = ContinueSysEx(b, m, t) /\ Continues(m)
      BY <1>5, <2>2
    <3> HIDE DEF a
    <3> QED BY <1>2, <1>3, <1>5, <1>7, <1>8, <1>9, <3>1, RestRead
  <2> QED BY <1>1, <2>1, <2>2
<1> HIDE DEF a
<1>11. InReach(r, a.builder, NewLast(b.buffer, a.builder.buffer, lastStamp, t), FALSE,
               After(a, m, t, age), Recorded(s, m, SentItem(m, t, k)))
  BY <1>10, ProgressReach
<1>12. lastStamp' = NewLast(b.buffer, a.builder.buffer, lastStamp, t)
  BY <1>1, <1>6, SameLast
<1>13. InReach(rx', packet', lastStamp', skewed', call', sent')
  BY <1>1, <1>3, <1>8, <1>11, <1>12 DEF r
<1> QED BY <1>13

\* releasing the packet,
LEMMA ReadRelease ==
  ASSUME TypeInv, ReadInv, Release
  PROVE  ReadInv'
<1> SUFFICES ASSUME ~lost' PROVE InReach(rx, packet, lastStamp, skewed, call, sent)'
  BY DEF ReadInv
<1>1. /\ Quiet /\ SendNow /\ call' = Idle /\ packet' = NextPacket /\ sent' = sent
      /\ lastStamp' = lastStamp
  BY DEF Release, Quiet
<1>2. skewed' = FALSE /\ QuietCall(Idle)
  BY <1>1, SentAll DEF QuietCall, Idle
<1>3. InReach(rx', packet', lastStamp', skewed', call', sent')
  BY <1>1, <1>2, SentReach
<1> QED BY <1>3

\* the packet that a message had no room in,
LEMMA ReadSendPacket ==
  ASSUME TypeInv, ReadInv, SendPacket
  PROVE  ReadInv'
<1> SUFFICES ASSUME ~lost' PROVE InReach(rx, packet, lastStamp, skewed, call, sent)'
  BY DEF ReadInv
<1>1. /\ Quiet /\ SendNow /\ call' = call /\ packet' = NextPacket /\ sent' = sent
      /\ lastStamp' = lastStamp /\ QuietCall(call)
  BY DEF SendPacket, Quiet, QuietCall
<1>2. skewed' = FALSE
  BY <1>1, SentAll
<1>3. InReach(rx', packet', lastStamp', skewed', call', sent')
  BY <1>1, <1>2, SentReach
<1> QED BY <1>3

\* the polling loop,
LEMMA ReadPoll ==
  ASSUME TypeInv, ReadInv, Poll
  PROVE  ReadInv'
<1> SUFFICES ASSUME ~lost' PROVE InReach(rx, packet, lastStamp, skewed, call, sent)'
  BY DEF ReadInv
<1>0. /\ Quiet /\ call' = call /\ sent' = sent /\ lastStamp' = lastStamp /\ QuietCall(call)
  BY DEF Poll, Quiet, QuietCall
<1>1. CASE age' > Timeout
  <2>1. SendNow /\ packet' = NextPacket
    BY <1>1 DEF Poll
  <2>2. skewed' = FALSE
    BY <2>1, SentAll
  <2>3. InReach(rx', packet', lastStamp', skewed', call', sent')
    BY <1>0, <2>1, <2>2, SentReach
  <2> QED BY <2>3
<1>2. CASE ~(age' > Timeout)
  <2>1. packet' = packet /\ rx' = rx /\ lost' = lost /\ skewed' = skewed
    BY <1>2 DEF Poll
  <2>2. InReach(rx', packet', lastStamp', skewed', call', sent')
    BY <1>0, <2>1 DEF ReadInv
  <2> QED BY <2>2
<1> QED BY <1>1, <1>2

\* and a new MTU.
LEMMA ReadUpdateMTU ==
  ASSUME TypeInv, TypeInv', ReadInv, NEW mtu, NEW force, UpdateMTU(mtu, force)
  PROVE  ReadInv'
<1> SUFFICES ASSUME ~lost' PROVE InReach(rx, packet, lastStamp, skewed, call, sent)'
  BY DEF ReadInv
<1> DEFINE least == IF force = 0 THEN mtu ELSE Least(force, mtu)
<1>1. /\ Quiet /\ QuietCall(call) /\ call' = call /\ sent' = sent /\ rx' = rx
      /\ lastStamp' = lastStamp /\ skewed' = skewed /\ lost' = lost
      /\ packet' = IF packet.buffer = <<>> THEN [packet EXCEPT !.capacity = least - 3]
                   ELSE packet
  BY DEF UpdateMTU, Resize, Quiet, QuietCall
<1>2. InReach(rx, packet, lastStamp, skewed, call, sent)
  BY <1>1 DEF ReadInv
<1>3. CASE packet.buffer # <<>>
  <2>1. InReach(rx', packet', lastStamp', skewed', call', sent')
    BY <1>1, <1>2, <1>3
  <2> QED BY <2>1
<1>4. CASE packet.buffer = <<>>
  <2>1. packet \in Builders(Capacities) /\ rx \in Receivers
    BY DEF TypeInv, Sized
  <2> DEFINE k == least - 3
  <2>2. packet' = [packet EXCEPT !.capacity = k]
    BY <1>1, <1>4
  <2> HIDE DEF k
  <2>3. packet'.buffer = <<>> /\ packet'.runningHeader = packet.runningHeader
    BY <1>4, <2>1, <2>2 DEF Builders
  <2>4. packet.runningHeader = 0 /\ Matches(Cursor(rx, packet.buffer).rx, sent)
    BY <1>1, <1>2, <1>4 DEF InReach, BuilderOK
  <2>5. Cursor(rx, packet.buffer).rx = rx
    <3>1. Len(<<>>) < 2
      OBVIOUS
    <3> QED BY <1>4, <3>1 DEF Cursor
  <2>6. Sized(packet')
    BY DEF TypeInv
  <2>7. InReach(rx', packet', lastStamp', skewed', call', sent')
    BY <1>1, <2>1, <2>3, <2>4, <2>5, <2>6, FreshReach
  <2> QED BY <2>7
<1> QED BY <1>3, <1>4

\* ReadInv is preserved by every step,
LEMMA ReadNext ==
  ASSUME SysCommonCancels = FALSE, WellFormedMessages, TypeInv, ReadInv, [Next]_vars
  PROVE  ReadInv'
<1>0. TypeInv'
  BY TypeNext
<1>1. ASSUME NEW m \in Messages, NEW d \in Delays, Send(m, d)
      PROVE  ReadInv'
  <2>1. WellFormed(m)
    BY DEF WellFormedMessages
  <2> QED BY <1>1, <2>1, ReadSend
<1>2. CASE Flush
  BY <1>2, ReadFlush
<1>3. CASE Release
  BY <1>3, ReadRelease
<1>4. CASE SendPacket
  BY <1>4, ReadSendPacket
<1>5. CASE Poll
  BY <1>5, ReadPoll
<1>6. ASSUME NEW mtu \in MTUs, HandleMTU(mtu) \/ ForceMinMTU(mtu)
      PROVE  ReadInv'
  <2>1. UpdateMTU(mtu, forceMinMTU) \/ UpdateMTU(minMTU, mtu)
    BY <1>6 DEF HandleMTU, ForceMinMTU
  <2> QED BY <1>0, <2>1, ReadUpdateMTU
<1>7. CASE UNCHANGED vars
  <2>1. InReach(rx, packet, lastStamp, skewed, call, sent)
          => InReach(rx', packet', lastStamp', skewed', call', sent')
    BY <1>7 DEF vars
  <2> QED BY <1>7, <2>1 DEF vars, ReadInv
<1> QED BY <1>1, <1>2, <1>3, <1>4, <1>5, <1>6, <1>7 DEF Next

\* and so it always holds.
LEMMA ReadAlways ==
  ASSUME ~SysCommonCancels, WellFormedMessages
  PROVE  Spec => [](TypeInv /\ ReadInv)
<1>1. SysCommonCancels = FALSE
  BY SerialParserAssumption
<1>2. Init => TypeInv /\ ReadInv
  BY TypeInit, ReadInit
<1>3. TypeInv /\ ReadInv /\ [Next]_vars => (TypeInv /\ ReadInv)'
  BY <1>1, TypeNext, ReadNext
<1> QED BY <1>2, <1>3, PTL DEF Spec

\* With nothing lost, what the receiver has read is what was sent.
LEMMA AllRead ==
  ASSUME TypeInv, ReadInv, Quiet, ~lost
  PROVE  /\ RxThen.items \in Seq(Items) /\ RxThen.clocks \in Seq(Items)
         /\ sent.items \in Seq(SentItems) /\ sent.clocks \in Seq(SentItems)
         /\ AsSent(RxThen.items, sent.items) /\ AsSent(RxThen.clocks, sent.clocks)
<1>1. packet.buffer \in Seq(Byte) /\ rx \in Receivers /\ sent \in Histories
  BY BuilderFields DEF TypeInv, Sized
<1>2. RxThen = Cursor(rx, packet.buffer).rx /\ RxThen \in Receivers
  BY <1>1, CursorType DEF RxThen
<1>3. Matches(RxThen, sent)
  BY <1>2 DEF ReadInv, InReach, Quiet, QuietCall
<1>4. AsSent(RxThen.items, sent.items) /\ AsSent(RxThen.clocks, sent.clocks)
  BY <1>3, MatchesFacts
<1>5. RxThen.items \in Seq(Items) /\ RxThen.clocks \in Seq(Items)
  BY <1>2, ReceiverFields
<1> QED BY <1>1, <1>4, <1>5, HistoryFields

\* What is read as it was sent has the same bytes.
LEMMA SameBytes ==
  ASSUME NEW read \in Seq(Items), NEW meant \in Seq(SentItems), AsSent(read, meant)
  PROVE  /\ Bytes(read) = Bytes(meant)
         /\ \A i \in DOMAIN meant : ~meant[i].skewed => read[i].time % 8192 = meant[i].time
<1>1. DOMAIN read = 1..Len(read) /\ DOMAIN meant = 1..Len(meant)
  OBVIOUS
<1>2. DOMAIN read = DOMAIN meant
  BY <1>1 DEF AsSent
<1>3. \A i \in DOMAIN meant : read[i].bytes = meant[i].bytes
  BY <1>1 DEF AsSent
<1>4. \A i \in DOMAIN meant : ~meant[i].skewed => read[i].time % 8192 = meant[i].time
  BY <1>1 DEF AsSent
<1>5. Bytes(read) = Bytes(meant)
  BY <1>2, <1>3 DEF Bytes
<1> QED BY <1>4, <1>5

\* The properties, from the invariant.
LEMMA ReadImplies ==
  ASSUME TypeInv, ReadInv
  PROVE  ReadsWhatWasSent /\ TimestampsRight
<1>1. ASSUME Quiet, ~lost
      PROVE  /\ Bytes(RxThen.items) = Bytes(sent.items)
             /\ Bytes(RxThen.clocks) = Bytes(sent.clocks)
             /\ \A i \in DOMAIN sent.items :
                  ~sent.items[i].skewed => RxThen.items[i].time % 8192 = sent.items[i].time
             /\ \A i \in DOMAIN sent.clocks :
                  ~sent.clocks[i].skewed => RxThen.clocks[i].time % 8192 = sent.clocks[i].time
  <2> DEFINE x == RxThen.items  y == RxThen.clocks  u == sent.items  v == sent.clocks
  <2>1. x \in Seq(Items) /\ y \in Seq(Items) /\ u \in Seq(SentItems) /\ v \in Seq(SentItems)
        /\ AsSent(x, u) /\ AsSent(y, v)
    BY <1>1, AllRead
  <2> HIDE DEF x, y, u, v
  <2>2. /\ Bytes(x) = Bytes(u)
        /\ \A i \in DOMAIN u : ~u[i].skewed => x[i].time % 8192 = u[i].time
    BY <2>1, SameBytes
  <2>3. /\ Bytes(y) = Bytes(v)
        /\ \A i \in DOMAIN v : ~v[i].skewed => y[i].time % 8192 = v[i].time
    BY <2>1, SameBytes
  <2> QED BY <2>2, <2>3 DEF x, y, u, v
<1> QED BY <1>1 DEF ReadsWhatWasSent, TimestampsRight

\* Unless a packet is lost or cut off, whatever is sent is read with the same bytes and in
\* the same order, real-time messages among themselves and all others among themselves:
\* however the messages are split over packets, and whatever the sizes of packets are.
THEOREM ReadCorrect ==
  ASSUME ~SysCommonCancels, WellFormedMessages
  PROVE  Spec => []ReadsWhatWasSent
<1>1. TypeInv /\ ReadInv => ReadsWhatWasSent
  BY ReadImplies
<1> QED BY <1>1, ReadAlways, PTL

\* And it is read with the time at which it was sent, modulo the 13 bits of a timestamp,
\* unless the packet has a gap of 128 ms, or goes back in time, before the message.
THEOREM TimestampsCorrect ==
  ASSUME ~SysCommonCancels, WellFormedMessages
  PROVE  Spec => []TimestampsRight
<1>1. TypeInv /\ ReadInv => TimestampsRight
  BY ReadImplies
<1> QED BY <1>1, ReadAlways, PTL
===============================================================================
