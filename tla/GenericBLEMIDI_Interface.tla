------------------------ MODULE GenericBLEMIDI_Interface ------------------------
(***************************************************************************)
(* MIDI over Bluetooth LE from the send functions of one device to the     *)
(* messages that another one reads: GenericBLEMIDI_Interface with a        *)
(* PollingBLEMIDISender (as in ArduinoBLEBackend, whose callbacks run in   *)
(* popMessage) fills and sends packets, a BLEMIDIParser and a              *)
(* SerialMIDI_Parser read them.  A packet may be lost, or lose its last    *)
(* chunks: without a connection sendData drops it, and a receiver whose    *)
(* BLERingBuf is full drops what does not fit.                             *)
(*                                                                         *)
(* Time is millis(), of which the protocol transmits 13 bits.              *)
(***************************************************************************)
EXTENDS SerialMIDI_Parser, BLEMIDIParser, BLEMIDIPacketBuilder
Ext == INSTANCE SequencesExt

CONSTANTS
  Messages,       \* what the application sends, sequences of bytes; a system
                  \* exclusive message may come in chunks
  Timeout,        \* of the sender, 10 ms
  Delays,         \* milliseconds that can pass before a message is sent
  Period,         \* milliseconds between two polls of the main loop
  Start,          \* millis() in the beginning
  Cuts,           \* after how many bytes a packet can lose the rest
  DefaultMTU,     \* 23
  MTUs,           \* what a client negotiates
  MaxEvents       \* bound of the model: messages sent, packets that lose bytes
                  \* and changes of the MTU, all together

ASSUME GenericBLEAssumption ==
  /\ Messages \subseteq Seq(Byte) /\ <<>> \notin Messages
  /\ Timeout \in Nat /\ Delays \subseteq Nat /\ Period \in Nat
  /\ Start \in 0..8191 /\ Cuts \subseteq Nat
  /\ DefaultMTU \in Nat /\ MTUs \subseteq Nat /\ \A m \in MTUs \cup {DefaultMTU} : m >= 8
  /\ MaxEvents \in Nat

VARIABLES
  now,            \* millis(), 13 bits of it
  packet,         \* the BLEMIDIPacketBuilder
  age,            \* millis() - packet_start_time, counted to Timeout + 1
  minMTU, forceMinMTU,
  call,           \* the call in progress: what to do next, and with what
  sent,           \* history: what was sent, as the receiver should see it
  rx,             \* the receiver: its SerialMIDI_Parser, and what it has read
  lastStamp,      \* history: the last time that the packet tells, and
  skewed,         \* whether the packet has a gap that one byte cannot tell
  lost,           \* history: whether a packet lost bytes
  events          \* history: messages, losses and changes of the MTU so far

vars == <<now, packet, age, minMTU, forceMinMTU, call, sent, rx, lastStamp, skewed,
          lost, events>>

NoForce == 515
Idle == [do |-> "nothing", bytes |-> <<>>, time |-> 0]

Nothing == [items |-> <<>>, clocks |-> <<>>, partial |-> <<>>]
NewRx == [parser |-> NewParser, items |-> <<>>, clocks |-> <<>>, partial |-> <<>>]

\* What has been read, each message with its time.
Items == [bytes : Seq(Byte), time : Nat]
Receivers ==
  [parser : Parsers, items : Seq(Items), clocks : Seq(Items), partial : Seq(Byte)]

\* A receiver in the middle of a packet.
Readings == [ble : [prevWasTimestamp : BOOLEAN, timestamp : Nat], rx : Receivers]

Init ==
  /\ now = Start
  /\ packet = NewBuilder(DefaultMTU - 3)
  /\ age = 0
  /\ minMTU = DefaultMTU /\ forceMinMTU = NoForce
  /\ call = Idle
  /\ sent = Nothing /\ rx = NewRx
  /\ lastStamp = 0 /\ skewed = FALSE
  /\ lost = FALSE /\ events = 0

-------------------------------------------------------------------------------
(***************************************************************************)
(* The messages                                                            *)
(***************************************************************************)
\* A system exclusive message, or a chunk of one.
Continues(bytes) == ~IsStatus(bytes[1]) \/ bytes[1] = SysExEnd
IsSysEx(bytes)   == Continues(bytes) \/ bytes[1] = SysExStart

\* What an application that uses no undefined status bytes sends.
WellFormed(m) ==
  IF IsSysEx(m)
    THEN \A i \in DOMAIN m : \/ ~IsStatus(m[i])
                             \/ i = 1 /\ m[i] = SysExStart
                             \/ i = Len(m) /\ m[i] = SysExEnd
    ELSE /\ m[1] \notin {244, 245} /\ Len(m) = DataBytes(m[1]) + 1
         /\ \A i \in 2..Len(m) : ~IsStatus(m[i])

WellFormedMessages == \A m \in Messages : WellFormed(m)

\* What the application may send after s: the next chunk of the message it has begun
\* or, in between, a real-time message.
MayFollow(s, m) == m[1] < TimingClock => (s.partial = <<>> <=> ~Continues(m))

-------------------------------------------------------------------------------
(***************************************************************************)
(* The receiver                                                            *)
(***************************************************************************)
\* An event of the parser is read: the message, or a part of one.
Read(r, p, time) ==
  LET e    == p.event
      item == [bytes |-> r.partial \o e.bytes, time |-> time]
      q    == [r EXCEPT !.parser = [p EXCEPT !.event = NoMessage]]
  IN  CASE e.type = "none"     -> q
        [] e.type = "realtime" -> [q EXCEPT !.clocks = Append(@, [item EXCEPT !.bytes = e.bytes])]
        [] e.type = "chunk"    -> [q EXCEPT !.partial = @ \o e.bytes]
        [] e.type = "sysex"    -> [q EXCEPT !.items = Append(@, item), !.partial = <<>>]
        [] OTHER -> [q EXCEPT !.items = Append(@, [item EXCEPT !.bytes = e.bytes])]

\* A byte that was stored is read again.
ReadStored(time) == [r \in Receivers |-> Read(r, Resume(r.parser), time)]

\* popMessage for one byte that the BLEMIDIParser returns; what was stored may be
\* stored once more.
RxByte(r, b, time) ==
  ReadStored(time)[ReadStored(time)[Read(r, Feed(r.parser, b), time)]]

\* popMessage for one byte of a packet.
RxStep(b) ==
  [q \in Readings |->
     [ble |-> PullByte(q.ble, b),
      rx  |-> IF Returns(q.ble, b) THEN RxByte(q.rx, b, q.ble.timestamp) ELSE q.rx]]

\* popMessage for a packet, after each number of bytes of it.
RxThrough(r, bytes) ==
  LET after[i \in 0..Len(bytes)] ==
        IF i <= Skipped(bytes) THEN [ble |-> OpenPacket(bytes), rx |-> r]
        ELSE RxStep(bytes[i])[after[i - 1]]
  IN  after

\* The receiver after a packet.
RxPacket(r, bytes) == RxThrough(r, bytes)[Len(bytes)].rx

\* What will have been read with the packet that is being filled.
RxThen == RxPacket(rx, packet.buffer)

-------------------------------------------------------------------------------
(***************************************************************************)
(* The sender                                                              *)
(***************************************************************************)
Happens == events < MaxEvents /\ events' = events + 1

\* Time passes before a call.
Later(d) == (now + d) % 8192
Aged(d)  == Least(age + d, Timeout + 1)

\* acquirePacket: the packet starts when it is empty.
Acquired(d) == IF packet.buffer = <<>> THEN 0 ELSE Aged(d)

\* The packet after it has been sent has the capacity of the current MTU.
NextPacket == [Reset(packet) EXCEPT !.capacity = minMTU - 3]

\* sendNow: the packet is sent, and all or the first part of it arrives. (The
\* packet itself becomes NextPacket, to which the caller may add.)
SendNow ==
  /\ packet.buffer # <<>>
  /\ \/ rx' = RxPacket(rx, packet.buffer) /\ UNCHANGED <<lost, events>>
     \/ /\ Happens /\ lost' = TRUE
        /\ \E n \in Cuts : /\ n < Len(packet.buffer)
                          /\ rx' = RxPacket(rx, SubSeq(packet.buffer, 1, n))
  /\ skewed' = FALSE

\* add3B and add2B, addRealTime and addSysCommon, or addSysEx
Add(b, bytes, t) ==
  IF IsSysEx(bytes) THEN AddSysEx(b, bytes, t)
  ELSE IF IsChannel(bytes[1]) THEN AddImpl(b, bytes, t)
  ELSE AddSystem(b, bytes, t)

\* The timestamp of a message: for a system exclusive one, 0x77 and 0x7F are
\* avoided.
Stamp(bytes, t) == IF IsSysEx(bytes) /\ t % 128 \in {119, 127} THEN t - 1 ELSE t

\* History: a message is complete with its last byte.
Recorded(s, bytes, item) ==
  CASE bytes[1] >= TimingClock -> [s EXCEPT !.clocks = Append(@, item)]
    [] IsSysEx(bytes) /\ bytes[Len(bytes)] # SysExEnd -> [s EXCEPT !.partial = @ \o bytes]
    [] OTHER -> [s EXCEPT !.items = Append(@, [item EXCEPT !.bytes = s.partial \o bytes]),
                          !.partial = <<>>]

\* The last time that a packet tells, when bytes sent at time t have been added: a
\* continuation without a timestamp begins with the high bits of it, and adds nothing
\* to what the packet tells.
StampIn(before, after, t) ==
  IF \E i \in 2..Len(after) : i > Len(before) /\ IsStatus(after[i]) THEN t
  ELSE IF before = <<>> THEN (t \div 128) * 128 ELSE lastStamp

\* What comes after an attempt to add bytes: another attempt, the rest of a
\* system exclusive message, or releasePacketAndNotify, which sends a packet
\* that is too old and does nothing else.
After(added, bytes, t, packetAge) ==
  IF ~added.ok THEN [do |-> "retry", bytes |-> bytes, time |-> t]
  ELSE IF added.rest # <<>> THEN [do |-> "continue", bytes |-> added.rest, time |-> t]
  ELSE IF packetAge > Timeout THEN [Idle EXCEPT !.do = "release"]
  ELSE Idle

\* A send function, until the packet must be sent or the message has been added.
Send(m, d) ==
  LET t     == Stamp(m, Later(d))
      added == Add(packet, m, t)
      gap   == packet.buffer # <<>> /\ (t + 8192 - lastStamp) % 8192 >= 128
  IN  /\ call.do = "nothing" /\ Happens
      /\ MayFollow(sent, m)
      /\ now' = Later(d) /\ age' = Acquired(d)
      /\ packet' = added.builder
      /\ call' = After(added, m, t, age')
      /\ skewed' = (skewed \/ (added.ok /\ gap))
      /\ lastStamp' = StampIn(packet.buffer, packet'.buffer, t)
      /\ sent' = Recorded(sent, m, [bytes |-> m, time |-> t, skewed |-> added.ok /\ skewed'])
      /\ UNCHANGED <<minMTU, forceMinMTU, rx, lost>>

\* The packet is sent and the call goes on with the next one.
Flush ==
  /\ call.do \in {"retry", "continue"}
  /\ SendNow
  /\ LET added == IF call.do = "retry" THEN Add(NextPacket, call.bytes, call.time)
                  ELSE ContinueSysEx(NextPacket, call.bytes, call.time)
     IN  /\ packet' = added.builder
         /\ call' = After(added, call.bytes, call.time, age)
  /\ lastStamp' = StampIn(<<>>, packet'.buffer, call.time)
  /\ UNCHANGED <<now, age, minMTU, forceMinMTU, sent>>

\* The packet is too old when the call ends, and is sent.
Release ==
  /\ call.do = "release"
  /\ call' = Idle
  /\ SendNow /\ packet' = NextPacket
  /\ UNCHANGED <<now, age, minMTU, forceMinMTU, sent, lastStamp>>

\* Mutant: popMessage only reads.
PollReads ==
  call.do = "nothing" /\ packet.buffer # <<>> /\ UNCHANGED vars

\* popMessage sends a packet that is too old.
Poll ==
  /\ call.do = "nothing" /\ packet.buffer # <<>>
  /\ now' = Later(Period) /\ age' = Acquired(Period)
  /\ IF age' > Timeout THEN SendNow /\ packet' = NextPacket
                       ELSE UNCHANGED <<packet, rx, lost, events, skewed>>
  /\ UNCHANGED <<minMTU, forceMinMTU, call, sent, lastStamp>>

\* sendNowImpl
SendPacket ==
  /\ call.do = "nothing"
  /\ SendNow /\ packet' = NextPacket
  /\ UNCHANGED <<now, age, minMTU, forceMinMTU, call, sent, lastStamp>>

-------------------------------------------------------------------------------
(***************************************************************************)
(* The MTU                                                                 *)
(***************************************************************************)
\* Mutant: the capacity of a packet that is being filled changes too.
ResizeAlways(mtu) == packet' = [packet EXCEPT !.capacity = mtu - 3]

\* Only an empty packet gets the new capacity at once.
Resize(mtu) ==
  packet' = IF packet.buffer = <<>> THEN [packet EXCEPT !.capacity = mtu - 3] ELSE packet

UpdateMTU(mtu, force) ==
  LET least == IF force = 0 THEN mtu ELSE Least(force, mtu)
  IN  /\ call.do = "nothing" /\ Happens
      /\ minMTU' = least /\ forceMinMTU' = force
      /\ Resize(least)
      /\ age' = Acquired(0)
      /\ UNCHANGED <<now, call, sent, rx, lastStamp, skewed, lost>>

HandleMTU(mtu)   == UpdateMTU(mtu, forceMinMTU)
ForceMinMTU(mtu) == UpdateMTU(minMTU, mtu)

-------------------------------------------------------------------------------
Next ==
  \/ \E m \in Messages, d \in Delays : Send(m, d)
  \/ Flush \/ Release \/ SendPacket
  \/ Poll
  \/ \E mtu \in MTUs : HandleMTU(mtu) \/ ForceMinMTU(mtu)

Spec == Init /\ [][Next]_vars

\* Calls return, and the main loop polls the back end while time passes.
FairSpec ==
  /\ Spec
  /\ WF_vars(Flush) /\ WF_vars(Release)
  /\ WF_vars(Poll)

-------------------------------------------------------------------------------
(***************************************************************************)
(* Properties                                                              *)
(***************************************************************************)
Bytes(items) == [i \in DOMAIN items |-> items[i].bytes]
Quiet == call.do \in {"nothing", "release"}

\* Every variable has its type, and no packet is longer than its capacity.
TypeOK ==
  /\ now \in 0..8191 /\ age \in 0..(Timeout + 1)
  /\ packet \in Builders({m - 3 : m \in MTUs \cup {DefaultMTU, NoForce}})
  /\ Room(packet) >= 0
  /\ RxThen.parser \in Parsers
  /\ call.do \in {"nothing", "retry", "continue", "release"}

\* Whatever is sent, in whatever order and however it is split over packets, is
\* read with the same bytes and in the same order, real-time messages among
\* themselves and all others among themselves.
ReadsWhatWasSent ==
  Quiet /\ ~lost =>
    /\ Bytes(RxThen.items) = Bytes(sent.items)
    /\ Bytes(RxThen.clocks) = Bytes(sent.clocks)

\* Messages are read with the time at which they were sent, modulo 13 bits,
\* unless a packet has a gap of 128 ms or goes back in time.
TimestampsRight ==
  LET right(read, meant) ==
        \A i \in DOMAIN meant : ~meant[i].skewed => read[i].time % 8192 = meant[i].time
  IN  Quiet /\ ~lost => /\ right(RxThen.items, sent.items)
                           /\ right(RxThen.clocks, sent.clocks)

\* The messages in a packet other than system exclusive ones are all read, as
\* the last of the packet, whatever became of the packets before it.
Resynchronises ==
  LET alone    == RxPacket(NewRx, packet.buffer)
      plain(s) == SelectSeq(Bytes(s), LAMBDA m : m[1] # SysExStart)
  IN  /\ Ext!IsSuffix(plain(alone.items), plain(RxThen.items))
      /\ Ext!IsSuffix(Bytes(alone.clocks), Bytes(RxThen.clocks))

\* No message waits in the packet forever.
EverythingSent == []<>(packet.buffer = <<>>)

\* "If the second byte is a data byte, this is a SysEx continuation packet"
\* (BLEMIDIParser.hpp:32): no other message is read from the data in front of
\* the first timestamp of a packet.
ContinuationIsSysEx ==
  LET data == LET ends == {i \in 2..Len(packet.buffer) : IsStatus(packet.buffer[i])}
              IN  IF ends = {} THEN packet.buffer ELSE SubSeq(packet.buffer, 1, Ext!Min(ends) - 1)
      plain(r) == Len(SelectSeq(r.items, LAMBDA m : m.bytes[1] # SysExStart))
  IN  plain(RxPacket(rx, data)) = plain(rx)
===============================================================================
