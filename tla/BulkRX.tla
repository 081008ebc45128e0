-------------------------------- MODULE BulkRX --------------------------------
(***************************************************************************)
(* The lock-free receiver of the USB-MIDI bulk backends (BulkRX.hpp,       *)
(* BulkRX.ipp): a ring of packet buffers.  The USB interrupt handler fills *)
(* them, read() takes one message at a time out of the oldest.  The flag   *)
(* `reading` is held by whoever is to start the next transfer: the handler *)
(* while there are free buffers, read() once it has freed one.             *)
(*                                                                         *)
(* The handler runs to its end before the main program resumes, and only   *)
(* the main program is interrupted, so the handler is one action and       *)
(* read() is a step per access to shared state.                            *)
(*                                                                         *)
(* Messages are numbered 1, 2, ... in the order in which they arrive;      *)
(* index and size of a buffer are counted in messages.                     *)
(*                                                                         *)
(* read() decrements `available` and then exchanges `reading`.  If two or  *)
(* more packets arrive in between, the ring can be full again when it      *)
(* finds `reading` false.  MaxLate bounds their number.                    *)
(***************************************************************************)
EXTENDS Naturals, Sequences

CONSTANTS
  None,             \* no transfer
  NumRxPackets,     \* number of buffers in the ring
  PacketSize,       \* capacity of a buffer, in messages
  MsgSize,          \* sizeof(MessageType)
  Lengths,          \* packet lengths of the host, in bytes
  Modulus,          \* `available` is counted modulo this (2^32)
  MaxMsgs,          \* bound: number of messages the host sends
  MaxDisconnects,   \* bound: number of times the host goes away
  MaxLate,          \* timing: packets that arrive between fetch_sub and exchange
  ResetPoints       \* where the main program may be when reset() is called

Slots  == 0..(NumRxPackets - 1)
Labels == {"idle", "copy", "advance", "release", "resume", "start"}

\* Whole messages in a packet: num_bytes_read without the remainder.
Messages(bytes) == bytes \div MsgSize

ASSUME ConstantsAssumption ==
  /\ NumRxPackets \in Nat \ {0, 1} /\ PacketSize \in Nat \ {0}
  /\ MsgSize \in Nat \ {0} /\ Lengths \subseteq Nat
  /\ \A bytes \in Lengths : Messages(bytes) \in 0..PacketSize
  /\ Modulus \in Nat /\ Modulus > NumRxPackets
  /\ MaxMsgs \in Nat /\ MaxDisconnects \in Nat /\ MaxLate \in Nat
  /\ None \notin Slots
  /\ ResetPoints \subseteq Labels

VARIABLES
  available,   \* reading.available: number of buffers with unread messages
  readIdx,     \* reading.read_idx: the oldest of them
  writeIdx,    \* reading.write_idx: the buffer to receive into next
  reading,     \* reading.reading: somebody starts or has started a transfer
  size,        \* size[b]: number of messages in reading.buffers[b]
  index,       \* index[b]: how many of them have been read
  data,        \* data[b][i]: message i of buffer b, whatever was there last
  pc,          \* next statement of read(), "idle" outside
  rx,          \* hardware: the buffer it is receiving into, or None
  late,        \* how many packets arrived since read() decremented available
  connected,   \* hardware: the host has configured the device
  drops,       \* how many times the host went away
  accepted, settled, wire   \* history, see MIDIFifo: received, read, returned

idxs == <<available, readIdx, writeIdx, reading>>
bufs == <<size, index, data>>
link == <<connected, drops>>
hist == <<accepted, settled, wire>>
vars == <<idxs, bufs, pc, rx, late, link, hist>>

\* Before the host configures the device nothing is received.
Init ==
  /\ available = 0 /\ readIdx = 0 /\ writeIdx = 0 /\ reading = FALSE
  /\ size = [b \in Slots |-> 0] /\ index = [b \in Slots |-> 0]
  /\ data = [b \in Slots |-> [i \in 1..PacketSize |-> 0]]
  /\ pc = "idle" /\ rx = None /\ late = 0
  /\ connected = FALSE /\ drops = 0
  /\ accepted = 0 /\ settled = 0 /\ wire = <<>>

-------------------------------------------------------------------------------
NextSlot(b) == IF b + 1 = NumRxPackets THEN 0 ELSE b + 1

(***************************************************************************)
(* read                                                                    *)
(***************************************************************************)
\* With nothing available read() returns false.
Load ==
  /\ pc = "idle"
  /\ pc' = IF available = 0 THEN "idle" ELSE "copy"
  /\ UNCHANGED <<idxs, bufs, rx, late, link, hist>>

\* The message at the index of the oldest buffer is returned to the caller.
\* (Behind the end of the buffer there is nothing to return.)
Copy ==
  /\ pc = "copy"
  /\ index[readIdx] < PacketSize
  /\ wire' = Append(wire, data[readIdx][index[readIdx] + 1])
  /\ settled' = settled + 1
  /\ pc' = "advance"
  /\ UNCHANGED <<idxs, bufs, rx, late, link, accepted>>

\* Mutant: a buffer is given up although messages in it are unread.
AdvanceAlways ==
  /\ pc = "advance"
  /\ index' = [index EXCEPT ![readIdx] = @ + 1]
  /\ readIdx' = NextSlot(readIdx) /\ pc' = "release"
  /\ UNCHANGED <<available, writeIdx, reading, size, data, rx, late, link, hist>>

\* When that was the last message of the buffer, go on to the next buffer.
Advance ==
  /\ pc = "advance"
  /\ index' = [index EXCEPT ![readIdx] = @ + 1]
  /\ IF index[readIdx] + 1 = size[readIdx]
       THEN readIdx' = NextSlot(readIdx) /\ pc' = "release"
       ELSE UNCHANGED readIdx /\ pc' = "idle"
  /\ UNCHANGED <<available, writeIdx, reading, size, data, rx, late, link, hist>>

\* available.fetch_sub(1)
Release ==
  /\ pc = "release"
  /\ available' = IF available = 0 THEN Modulus - 1 ELSE available - 1
  /\ pc' = "resume"
  /\ late' = 0
  /\ UNCHANGED <<readIdx, writeIdx, reading, bufs, rx, link, hist>>

\* Mutant: read() never takes over.
ResumeNever ==
  /\ pc = "resume"
  /\ pc' = "idle"
  /\ UNCHANGED <<idxs, bufs, rx, late, link, hist>>

\* reading.exchange(true): if the handler found the ring full, start over.
Resume ==
  /\ pc = "resume"
  /\ reading' = TRUE
  /\ pc' = IF reading THEN "idle" ELSE "start"
  /\ UNCHANGED <<available, readIdx, writeIdx, bufs, rx, late, link, hist>>

\* rx_start: without a host nothing is queued.
Receive(b) == rx' = IF connected THEN b ELSE rx

Start ==
  /\ pc = "start"
  /\ Receive(writeIdx)
  /\ pc' = "idle"
  /\ UNCHANGED <<idxs, bufs, late, link, hist>>

-------------------------------------------------------------------------------
(***************************************************************************)
(* rx_callback: the hardware received a packet of so many bytes            *)
(***************************************************************************)
\* Fewer bytes than a message: receive into the same buffer again.
ReceiveNothing(bytes) ==
  /\ rx # None
  /\ Messages(bytes) = 0
  /\ rx' = writeIdx
  /\ UNCHANGED <<idxs, bufs, pc, late, link, hist>>

\* Store a packet and start the next transfer if the ring has space left.
StorePacket(bytes, space) ==
  LET n == Messages(bytes)
      w == NextSlot(writeIdx)
      a == IF available + 1 = Modulus THEN 0 ELSE available + 1
  IN /\ rx # None
     /\ n > 0
     /\ accepted + n <= MaxMsgs
     /\ IF pc = "resume" THEN late < MaxLate /\ late' = late + 1
                         ELSE UNCHANGED late
     /\ data' = [data EXCEPT ![rx] =
                   [i \in 1..PacketSize |-> IF i <= n THEN accepted + i ELSE @[i]]]
     /\ accepted' = accepted + n
     /\ index' = [index EXCEPT ![writeIdx] = 0]
     /\ size' = [size EXCEPT ![writeIdx] = n]
     /\ writeIdx' = w
     /\ available' = a
     /\ IF a < space THEN rx' = w /\ UNCHANGED reading
                     ELSE rx' = None /\ reading' = FALSE
     /\ UNCHANGED <<readIdx, pc, link, settled, wire>>

\* Mutant: the handler thinks there is one free buffer more.
RxCallbackOverfull(bytes) ==
  StorePacket(bytes, NumRxPackets + 1) \/ ReceiveNothing(bytes)

RxCallback(bytes) == StorePacket(bytes, NumRxPackets) \/ ReceiveNothing(bytes)

-------------------------------------------------------------------------------
(***************************************************************************)
(* The host goes away; when it is back its interrupt resets the receiver.  *)
(***************************************************************************)
Disconnect ==
  /\ connected
  /\ drops < MaxDisconnects
  /\ connected' = FALSE
  /\ rx' = None
  /\ drops' = drops + 1
  /\ UNCHANGED <<idxs, bufs, pc, late, hist>>

\* Mutant: the packets of the previous connection stay in the ring.
ResetKeepsAvailable ==
  /\ readIdx' = 0 /\ writeIdx' = 0 /\ reading' = TRUE
  /\ UNCHANGED available


Reset ==
  /\ available' = 0
  /\ readIdx' = 0
  /\ writeIdx' = 0
  /\ reading' = TRUE

Connect ==
  /\ ~connected
  /\ pc \in ResetPoints
  /\ Reset
  /\ rx' = 0
  /\ connected' = TRUE
  /\ settled' = accepted
  /\ UNCHANGED <<bufs, pc, late, drops, accepted, wire>>

-------------------------------------------------------------------------------
Read == Load \/ Copy \/ Advance \/ Release \/ Resume \/ Start

Next ==
  \/ Read
  \/ \E bytes \in Lengths : RxCallback(bytes)
  \/ Disconnect \/ Connect

Spec == Init /\ [][Next]_vars

\* The application keeps calling read(), as MIDI_Interface::update does.
FairSpec == Spec /\ WF_vars(Read)

-------------------------------------------------------------------------------
(***************************************************************************)
(* Properties                                                              *)
(***************************************************************************)
\* Every variable has its type; indices stay inside the ring and the counter
\* never exceeds the number of buffers.
TypeOK ==
  /\ available \in 0..NumRxPackets
  /\ readIdx \in Slots /\ writeIdx \in Slots
  /\ reading \in BOOLEAN
  /\ size \in [Slots -> 0..PacketSize] /\ index \in [Slots -> 0..PacketSize]
  /\ data \in [Slots -> [1..PacketSize -> Nat]]
  /\ pc \in Labels /\ rx \in Slots \cup {None}
  /\ late \in 0..MaxLate /\ connected \in BOOLEAN /\ drops \in 0..MaxDisconnects
  /\ accepted \in Nat /\ settled \in Nat /\ wire \in Seq(Nat)

\* The i-th buffer from the oldest on.
Slot(i) == IF readIdx + i < NumRxPackets THEN readIdx + i
                                         ELSE readIdx + i - NumRxPackets

\* The buffers that hold unread messages.  Between moving read_idx and
\* decrementing available, one fewer than available says.
NumUnread == IF pc = "release" THEN available - 1 ELSE available
Unread == {Slot(i) : i \in 0..(NumUnread - 1)}

\* The hardware never receives into a buffer with unread messages, and so never
\* into the one read() is copying from.
ReceivesIntoFree == rx # None => rx = writeIdx /\ rx \notin Unread

\* Reception never stops while there is space: without a transfer under way
\* either the ring is full, or read() is about to start one.
ReceptionContinues ==
  connected /\ rx = None => \/ available = NumRxPackets
                            \/ pc = "resume" /\ ~reading
                            \/ pc = "start"

\* `reading` has one holder: no transfer is started while one is under way, and
\* the assertion of rx_callback holds.
OneTransfer ==
  /\ pc = "start" => rx = None
  /\ rx # None => reading

\* read() returns the messages in the order in which they arrived, each once,
\* and none is overwritten.
Fifo == INSTANCE MIDIFifo WITH Batch <- 1, Capacity <- NumRxPackets * PacketSize
FifoSpec == Fifo!Spec

\* Every message the device received is read eventually, or dropped by a reset.
EveryMessageRead == \A m \in 1..MaxMsgs : accepted >= m ~> settled >= m
===============================================================================
