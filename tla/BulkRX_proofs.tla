---------------------------- MODULE BulkRX_proofs ----------------------------
(***************************************************************************)
(* The ring of BulkRX, for every number and size of the buffers: the       *)
(* hardware receives into the free buffer behind the unread ones, one      *)
(* transfer at a time, and never stops while there is space; and messages  *)
(* are read in the order in which they came, none twice.  Assumed is       *)
(* that at most one packet arrives between read()'s decrement of available *)
(* and its exchange of reading, and that reset() does not interrupt read() *)
(* while it uses a buffer.                                                 *)
(***************************************************************************)
EXTENDS BulkRX, TLAPS

Timely == MaxLate <= 1 /\ ResetPoints \subseteq {"idle", "resume"}

\* The write index is the one behind the unread buffers, and read() owns the
\* oldest one, which has room for the index it is about to increment.
RingOK ==
  /\ writeIdx = Slot(NumUnread)
  /\ pc \in {"copy", "advance", "release"} => available > 0
  /\ pc = "advance" => index[readIdx] < PacketSize

\* Who holds `reading`: the transfer, or read() about to start one; nobody when
\* the ring is full, or was until read() freed the one buffer it now owes.
ReadingOK ==
  /\ rx # None => /\ reading /\ connected /\ rx = writeIdx
                  /\ available < NumRxPackets
                  /\ pc = "resume" => available - late <= NumRxPackets - 2
  /\ connected /\ reading /\ rx = None => pc = "start"
  /\ connected /\ ~reading => \/ available = NumRxPackets /\ pc # "resume"
                              \/ available = NumRxPackets - 1 /\ pc = "resume"
  /\ pc = "start" => rx = None /\ available < NumRxPackets
  /\ pc = "resume" => available < NumRxPackets

Inv == TypeOK /\ RingOK /\ ReadingOK

-------------------------------------------------------------------------------
\* What the proofs need of the constants.
LEMMA Constants ==
  /\ NumRxPackets \in Nat /\ NumRxPackets >= 2 /\ PacketSize \in Nat /\ PacketSize >= 1
  /\ Modulus \in Nat /\ Modulus > NumRxPackets
  /\ MaxDisconnects \in Nat /\ MaxLate \in Nat /\ None \notin Slots
<1> QED BY ConstantsAssumption

\* Nothing has been received before the device is configured.
LEMMA InitInv == Init => Inv
<1> SUFFICES ASSUME Init PROVE Inv
  OBVIOUS
<1> USE Constants DEF Init
<1>1. 0 \in Slots /\ 0 \in 0..PacketSize /\ <<>> \in Seq(Nat)
  BY DEF Slots
<1>2. data \in [Slots -> [1..PacketSize -> Nat]]
  OBVIOUS
<1>3. size \in [Slots -> 0..PacketSize] /\ index \in [Slots -> 0..PacketSize]
  BY <1>1
<1>4. available \in 0..NumRxPackets /\ late \in 0..MaxLate /\ drops \in 0..MaxDisconnects
  OBVIOUS
<1> HIDE DEF Slots
<1>5. TypeOK
  BY <1>1, <1>2, <1>3, <1>4 DEF TypeOK, Labels
<1> QED BY <1>1, <1>5 DEF Inv, RingOK, ReadingOK, Slot, NumUnread, Slots

\* The ring arithmetic: behind the i-th slot comes the next one, and the slots
\* of fewer than NumRxPackets buffers are different from the one behind them.
LEMMA RingSlots ==
  ASSUME readIdx \in Slots, NEW n \in 0..NumRxPackets
  PROVE  /\ Slot(n) \in Slots
         /\ n < NumRxPackets => NextSlot(Slot(n)) = Slot(n + 1)
         /\ \A i \in 0..(n - 1) : n < NumRxPackets => Slot(i) # Slot(n)
<1> QED BY Constants DEF Slot, NextSlot, Slots

\* read() moves on to the next buffer: the others keep their order.
LEMMA NextOldest ==
  ASSUME readIdx \in Slots, readIdx' = NextSlot(readIdx), NEW n \in 1..NumRxPackets
  PROVE  readIdx' \in Slots /\ Slot(n - 1)' = Slot(n)
<1> QED BY Constants DEF Slot, NextSlot, Slots

\* The types of the variables that the ring arithmetic is about.
Scalars ==
  /\ available \in 0..NumRxPackets /\ late \in 0..MaxLate
  /\ readIdx \in Slots /\ writeIdx \in Slots /\ rx \in Slots \cup {None}
  /\ reading \in BOOLEAN /\ connected \in BOOLEAN /\ pc \in Labels

\* Types of the variables without the contents of the buffers.
LEMMA ScalarTypes == Inv => Scalars
<1> QED BY DEF Inv, TypeOK, Scalars

\* The message read() is about to return is a number.
LEMMA OldestMessage ==
  ASSUME Inv, Copy
  PROVE  data[readIdx][index[readIdx] + 1] \in Nat
<1>1. readIdx \in Slots /\ data \in [Slots -> [1..PacketSize -> Nat]]
  BY DEF Inv, TypeOK
<1>2. index[readIdx] \in Nat /\ PacketSize \in Nat /\ index[readIdx] < PacketSize
  BY Constants DEF Inv, TypeOK, Copy
<1>3. index[readIdx] + 1 \in 1..PacketSize
  BY <1>2
<1> QED BY <1>1, <1>3

\* The size of the buffer that a packet of n messages is stored in.
LEMMA StoredSize ==
  ASSUME Inv, NEW n \in 1..PacketSize, NEW b \in Slots,
         size' = [size EXCEPT ![b] = n]
  PROVE  size' \in [Slots -> 0..PacketSize]
<1>1. size \in [Slots -> 0..PacketSize] /\ n \in 0..PacketSize
  BY Constants DEF Inv, TypeOK
<1> QED BY <1>1

\* The steps of read().
LEMMA ReadInv ==
  ASSUME Timely, Inv, Read
  PROVE  Inv'
<1> USE Constants, ScalarTypes DEF Timely, Inv, RingOK, ReadingOK, idxs, bufs, link,
        hist
<1>1. CASE Load
  <2>1. TypeOK'
    BY <1>1 DEF Load, TypeOK, Labels
  <2> QED BY <1>1, <2>1 DEF Load, Slot, NumUnread, Scalars
<1>2. CASE Copy
  <2>1. data[readIdx][index[readIdx] + 1] \in Nat
    BY <1>2, OldestMessage
  <2>2. Append(wire, data[readIdx][index[readIdx] + 1]) \in Seq(Nat)
    BY <2>1 DEF TypeOK
  <2> HIDE DEF RingOK, ReadingOK
  <2>3. TypeOK'
    <3> USE DEF Copy, TypeOK
    <3>1. settled' \in Nat /\ wire' \in Seq(Nat) /\ accepted' \in Nat
      BY <1>2, <2>2
    <3>2. pc' \in Labels
      BY <1>2 DEF Labels
    <3>3. UNCHANGED <<idxs, bufs, rx, late, link>>
      BY <1>2
    <3> QED BY <3>1, <3>2, <3>3
  <2>4. RingOK'
    BY <1>2 DEF Copy, RingOK, Slot, NumUnread
  <2>5. ReadingOK'
    BY <1>2 DEF Copy, ReadingOK
  <2> QED BY <2>3, <2>4, <2>5
<1>3. CASE Advance
  <2>1. index' \in [Slots -> 0..PacketSize]
    BY <1>3 DEF Advance, TypeOK
  <2>2. CASE index[readIdx] + 1 = size[readIdx]
    <3>1. /\ readIdx' = NextSlot(readIdx) /\ pc' = "release" /\ pc = "advance"
          /\ UNCHANGED <<available, writeIdx, reading, size, data, rx, late, link, hist>>
      BY <1>3, <2>2 DEF Advance
    <3>2. readIdx' \in Slots /\ Slot(available - 1)' = Slot(available)
      BY <3>1, NextOldest DEF Scalars
    <3>3. Slot(NumUnread)' = writeIdx
      BY <3>1, <3>2 DEF NumUnread, Slot
    <3>4. TypeOK'
      BY <2>1, <3>1, <3>2 DEF TypeOK, Labels
    <3> QED BY <3>1, <3>3, <3>4
  <2>3. CASE index[readIdx] + 1 # size[readIdx]
    <3>1. TypeOK'
      BY <1>3, <2>1, <2>3 DEF Advance, TypeOK, Labels
    <3> QED BY <1>3, <2>3, <3>1 DEF Advance, Slot, NumUnread
  <2> QED BY <2>2, <2>3
<1>4. CASE Release
  <2>1. /\ pc = "release" /\ pc' = "resume" /\ late' = 0 /\ available' = available - 1
        /\ UNCHANGED <<readIdx, writeIdx, reading, bufs, rx, link, hist>>
    BY <1>4 DEF Release, Scalars
  <2>2. TypeOK'
    <3>1. available' \in 0..NumRxPackets /\ late' \in 0..MaxLate /\ pc' \in Labels
      BY <2>1 DEF Labels, Scalars
    <3> QED BY <2>1, <3>1 DEF TypeOK
  <2>3. RingOK'
    BY <2>1 DEF Slot, NumUnread
  <2>4. ReadingOK'
    BY <2>1 DEF Scalars
  <2> QED BY <2>2, <2>3, <2>4
<1>5. CASE Resume
  <2>1. TypeOK'
    BY <1>5 DEF Resume, TypeOK, Labels
  <2> QED BY <1>5, <2>1 DEF Resume, Slot, NumUnread, Scalars
<1>6. CASE Start
  <2>1. /\ pc = "start" /\ pc' = "idle" /\ rx' = IF connected THEN writeIdx ELSE rx
        /\ UNCHANGED <<idxs, bufs, late, link, hist>>
    BY <1>6 DEF Start, Receive
  <2>2. TypeOK'
    <3>1. available' \in 0..NumRxPackets /\ late' \in 0..MaxLate /\ pc' \in Labels
      BY <2>1 DEF Labels, Scalars
    <3> QED BY <2>1, <3>1 DEF TypeOK
  <2>3. RingOK'
    BY <2>1 DEF Slot, NumUnread
  <2>4. ReadingOK'
    BY <2>1 DEF Scalars
  <2> QED BY <2>2, <2>3, <2>4
<1> QED BY <1>1, <1>2, <1>3, <1>4, <1>5, <1>6 DEF Read

\* The interrupt handler.
LEMMA CallbackInv ==
  ASSUME Timely, Inv, NEW bytes \in Lengths, RxCallback(bytes)
  PROVE  Inv'
<1> USE Constants, ScalarTypes DEF Timely, Inv, RingOK, ReadingOK, idxs, bufs, link,
        hist
<1>1. CASE ReceiveNothing(bytes)
  <2>1. rx' = rx /\ UNCHANGED <<idxs, bufs, pc, late, link, hist>>
    BY <1>1 DEF ReceiveNothing
  <2> QED BY <2>1 DEF TypeOK, Slot, NumUnread
<1>2. CASE StorePacket(bytes, NumRxPackets)
  <2> DEFINE n == Messages(bytes)
  <2>1. n \in 1..PacketSize /\ rx \in Slots /\ rx = writeIdx
    BY <1>2, ConstantsAssumption DEF StorePacket, TypeOK
  <2> DEFINE a == IF available + 1 = Modulus THEN 0 ELSE available + 1
  <2>a. a = available + 1
    BY <2>1 DEF Scalars
  <2>2. /\ writeIdx' = NextSlot(writeIdx)
        /\ available' = available + 1
        /\ IF available + 1 < NumRxPackets
             THEN rx' = NextSlot(writeIdx) /\ UNCHANGED reading
             ELSE rx' = None /\ reading' = FALSE
        /\ IF pc = "resume" THEN late < MaxLate /\ late' = late + 1
                            ELSE UNCHANGED late
        /\ index' = [index EXCEPT ![writeIdx] = 0]
        /\ UNCHANGED <<readIdx, pc, link, settled, wire>>
    BY <1>2, <2>a DEF StorePacket
  <2>3. /\ size' = [size EXCEPT ![writeIdx] = n] /\ accepted' = accepted + n
        /\ data' = [data EXCEPT ![rx] =
             [i \in 1..PacketSize |-> IF i <= n THEN accepted + i ELSE data[rx][i]]]
    BY <1>2 DEF StorePacket
  <2>4. NumUnread \in 0..(NumRxPackets - 1) /\ NumUnread' = NumUnread + 1
    BY <2>1, <2>2 DEF NumUnread, Scalars
  <2>5. writeIdx' = Slot(NumUnread)' /\ writeIdx' \in Slots
    <3>1. NextSlot(writeIdx) = Slot(NumUnread + 1) /\ Slot(NumUnread + 1) \in Slots
      BY <2>4, RingSlots DEF Scalars
    <3> QED BY <2>2, <2>4, <3>1 DEF Slot
  <2>6. pc = "advance" => writeIdx # readIdx
    <3> SUFFICES ASSUME pc = "advance" PROVE writeIdx # readIdx
      OBVIOUS
    <3>1. available \in 1..(NumRxPackets - 1) /\ NumUnread = available
      BY <2>1 DEF NumUnread, Scalars
    <3>2. Slot(0) # Slot(available)
      BY <3>1, RingSlots DEF Scalars
    <3> QED BY <3>1, <3>2 DEF Slot, Slots, Scalars
  <2>7. data' \in [Slots -> [1..PacketSize -> Nat]]
    <3>1. data[rx] \in [1..PacketSize -> Nat]
      BY <2>1 DEF TypeOK
    <3>2. [i \in 1..PacketSize |-> IF i <= n THEN accepted + i ELSE data[rx][i]]
            \in [1..PacketSize -> Nat]
      BY <3>1, <2>1 DEF TypeOK
    <3> QED BY <2>3, <3>2 DEF TypeOK
  <2>8. TypeOK'
    <3>1. index' \in [Slots -> 0..PacketSize]
      BY <2>1, <2>2 DEF TypeOK
    <3>2. size' \in [Slots -> 0..PacketSize]
      <4> HIDE DEF n
      <4> QED BY <2>1, <2>3, StoredSize
    <3>6. accepted' \in Nat
      <4>1. accepted \in Nat /\ n \in Nat
        BY <2>1 DEF TypeOK
      <4> HIDE DEF n
      <4> QED BY <2>3, <4>1
    <3>3. available' \in 0..NumRxPackets /\ late' \in 0..MaxLate
      BY <2>1, <2>2 DEF Scalars
    <3>4. rx' \in Slots \cup {None}
      BY <2>2, <2>5
    <3>5. reading' \in BOOLEAN
      BY <2>2 DEF Scalars
    <3> QED BY <2>2, <2>5, <2>7, <3>1, <3>2, <3>3, <3>4, <3>5, <3>6
             DEF TypeOK
  <2>9. RingOK'
    BY <2>1, <2>2, <2>5, <2>6 DEF TypeOK
  <2>10. ReadingOK'
    BY <2>1, <2>2, <2>5 DEF Scalars
  <2> QED BY <2>8, <2>9, <2>10
<1> QED BY <1>1, <1>2 DEF RxCallback

\* The host goes away and comes back.
LEMMA LinkInv ==
  ASSUME Timely, Inv, Disconnect \/ Connect
  PROVE  Inv'
<1> USE Constants, ScalarTypes DEF Timely, Inv, RingOK, ReadingOK, idxs, bufs, link,
        hist
<1>1. CASE Disconnect
  <2>1. TypeOK'
    <3> USE DEF Disconnect, TypeOK
    <3>1. drops' \in 0..MaxDisconnects
      BY <1>1
    <3>2. connected' \in BOOLEAN
      BY <1>1
    <3>3. rx' \in Slots \cup {None}
      BY <1>1
    <3> QED BY <1>1, <3>1, <3>2, <3>3
  <2> QED BY <1>1, <2>1 DEF Disconnect, Slot, NumUnread
<1>2. CASE Connect
  <2>1. 0 \in Slots /\ pc \in {"idle", "resume"}
    BY <1>2 DEF Connect, Slots
  <2>2. TypeOK'
    <3> USE DEF Connect, Reset, TypeOK
    <3>1. connected' \in BOOLEAN /\ rx' \in Slots \cup {None}
      BY <1>2, <2>1
    <3>2. pc' \in {"idle", "resume"} /\ drops' = drops
      BY <1>2, <2>1
    <3>3. available' = 0 /\ readIdx' = 0 /\ writeIdx' = 0 /\ reading' = TRUE
      BY <1>2
    <3>4. UNCHANGED <<bufs, late, accepted, wire>> /\ settled' = accepted
      BY <1>2
    <3>5. available' \in 0..NumRxPackets /\ pc' \in Labels
      BY <3>2, <3>3 DEF Labels
    <3>6. /\ size' \in [Slots -> 0..PacketSize] /\ index' \in [Slots -> 0..PacketSize]
          /\ data' \in [Slots -> [1..PacketSize -> Nat]]
      BY <3>4
    <3> HIDE DEF Connect, Reset
    <3> QED BY <2>1, <3>1, <3>2, <3>3, <3>4, <3>5, <3>6
  <2> QED BY <1>2, <2>1, <2>2 DEF Connect, Reset, Slot, NumUnread, Scalars
<1> QED BY <1>1, <1>2

\* The invariant holds throughout.
LEMMA Invariant ==
  ASSUME Timely
  PROVE  Spec => []Inv
<1>1. Inv /\ [Next]_vars => Inv'
  <2> SUFFICES ASSUME Inv, [Next]_vars PROVE Inv'
    OBVIOUS
  <2>1. CASE UNCHANGED vars
    BY <2>1 DEF vars, idxs, bufs, link, hist, Inv, TypeOK, RingOK, ReadingOK, Slot,
                NumUnread
  <2> QED BY <2>1, ReadInv, CallbackInv, LinkInv DEF Next
<1> QED BY <1>1, InitInv, PTL DEF Spec

-------------------------------------------------------------------------------
\* The indices stay inside the ring and the counter of unread packets neither
\* exceeds the number of buffers nor wraps around.
THEOREM TypeCorrect ==
  ASSUME Timely
  PROVE  Spec => []TypeOK
<1> QED BY Invariant, PTL DEF Inv

\* The hardware never receives into a buffer with unread messages.
THEOREM OwnershipCorrect ==
  ASSUME Timely
  PROVE  Spec => []ReceivesIntoFree
<1>1. Inv => ReceivesIntoFree
  <2> SUFFICES ASSUME Inv, rx # None
               PROVE  rx = writeIdx /\ rx \notin Unread
    BY DEF ReceivesIntoFree
  <2>1. rx = writeIdx /\ rx = Slot(NumUnread) /\ available < NumRxPackets
    BY DEF Inv, RingOK, ReadingOK
  <2> SUFFICES ASSUME NEW i \in 0..(NumUnread - 1)
               PROVE  rx # Slot(i)
    BY <2>1 DEF Unread
  <2>2. NumUnread \in 0..(NumRxPackets - 1) /\ readIdx \in Slots
    BY <2>1, Constants, ScalarTypes DEF Inv, RingOK, NumUnread, Scalars
  <2> QED BY <2>1, <2>2, RingSlots, Constants
<1> QED BY <1>1, Invariant, PTL

\* Reception goes on while there is space, and transfers do not overlap.
THEOREM ReceptionCorrect ==
  ASSUME Timely
  PROVE  Spec => [](ReceptionContinues /\ OneTransfer)
<1>1. Inv => ReceptionContinues /\ OneTransfer
  BY DEF Inv, TypeOK, ReadingOK, ReceptionContinues, OneTransfer
<1> QED BY <1>1, Invariant, PTL

-------------------------------------------------------------------------------
(***************************************************************************)
(* What the ring holds: the unread messages, in order and without a gap.   *)
(***************************************************************************)
\* The first message of the i-th unread packet.
Front(i) == data[Slot(i)][1]

\* The next message to return is the one after those returned so far.
OldestOK ==
  IF NumUnread = 0
    THEN settled = accepted
    ELSE /\ index[readIdx] < size[readIdx]
         /\ Front(0) + index[readIdx] = IF pc = "advance" THEN settled ELSE settled + 1

\* A packet holds consecutive messages, the next packet continues them and the
\* newest one ends with the last message received.
PacketOK(i) ==
  /\ size[Slot(i)] >= 1
  /\ i > 0 => index[Slot(i)] = 0
  /\ \A j \in 1..size[Slot(i)] : data[Slot(i)][j] = Front(i) + j - 1
  /\ Front(i) + size[Slot(i)] = IF i + 1 = NumUnread THEN accepted + 1 ELSE Front(i + 1)
  /\ Front(i) + size[Slot(i)] <= accepted + 1
  /\ accepted < Front(i) + (NumUnread - i) * PacketSize

PacketsOK == \A i \in 0..(NumUnread - 1) : PacketOK(i)

ContentInv == Inv /\ OldestOK /\ PacketsOK

\* Types of the contents, and of the ring positions they are at.
LEMMA ContentTypes ==
  ASSUME Inv
  PROVE  /\ NumUnread \in 0..NumRxPackets /\ readIdx \in Slots /\ Slot(0) = readIdx
         /\ accepted \in Nat /\ settled \in Nat /\ wire \in Seq(Nat)
         /\ size \in [Slots -> 0..PacketSize] /\ index \in [Slots -> 0..PacketSize]
         /\ data \in [Slots -> [1..PacketSize -> Nat]]
         /\ \A i \in 0..(NumUnread - 1) :
              /\ Slot(i) \in Slots /\ Front(i) \in Nat
              /\ size[Slot(i)] \in 0..PacketSize /\ index[Slot(i)] \in 0..PacketSize
              /\ i > 0 => Slot(i) # readIdx
<1>a. NumUnread \in 0..NumRxPackets
  BY Constants, ScalarTypes DEF Inv, RingOK, NumUnread, Scalars
<1>1. /\ NumUnread \in 0..NumRxPackets /\ readIdx \in Slots
      /\ accepted \in Nat /\ settled \in Nat /\ wire \in Seq(Nat)
      /\ size \in [Slots -> 0..PacketSize] /\ index \in [Slots -> 0..PacketSize]
      /\ data \in [Slots -> [1..PacketSize -> Nat]]
  BY <1>a DEF Inv, TypeOK
<1>2. Slot(0) = readIdx
  BY <1>1, Constants DEF Slot, Slots
<1>3. ASSUME NEW i \in 0..(NumUnread - 1)
      PROVE  Slot(i) \in Slots /\ (i > 0 => Slot(i) # readIdx)
  BY <1>1, Constants DEF Slot, Slots
<1>4. ASSUME NEW i \in 0..(NumUnread - 1)
      PROVE  /\ Front(i) \in Nat
             /\ size[Slot(i)] \in 0..PacketSize /\ index[Slot(i)] \in 0..PacketSize
  BY <1>1, <1>3, Constants DEF Front
<1> QED BY <1>1, <1>2, <1>3, <1>4

\* Nothing has been received: there are no unread packets.
LEMMA InitContent == Init => ContentInv
<1> SUFFICES ASSUME Init PROVE ContentInv
  OBVIOUS
<1>1. NumUnread = 0 /\ settled = accepted
  BY DEF Init, NumUnread
<1> QED BY <1>1, InitInv DEF ContentInv, OldestOK, PacketsOK

\* A step that moves no packet, and no index behind the oldest one.
LEMMA PacketsKept ==
  ASSUME Inv, PacketsOK, NumUnread' = NumUnread,
         UNCHANGED <<readIdx, size, data, accepted>>,
         \A i \in 1..(NumUnread - 1) : index'[Slot(i)] = index[Slot(i)]
  PROVE  PacketsOK'
<1> SUFFICES ASSUME NEW i \in 0..(NumUnread - 1) PROVE PacketOK(i)'
  BY DEF PacketsOK
<1>1. PacketOK(i) /\ Slot(i)' = Slot(i) /\ Slot(i + 1)' = Slot(i + 1)
  BY DEF PacketsOK, Slot
<1>2. Front(i)' = Front(i) /\ Front(i + 1)' = Front(i + 1)
  BY <1>1 DEF Front
<1>3. NumUnread \in Nat
  BY ContentTypes
<1>4. i > 0 => index'[Slot(i)] = index[Slot(i)]
  BY <1>3
<1> QED BY <1>1, <1>2, <1>4 DEF PacketOK

\* Everything under way fits into the unread packets.
BacklogOK == settled <= accepted /\ accepted - settled <= NumRxPackets * PacketSize

LEMMA Backlog == ContentInv => BacklogOK
<1> SUFFICES ASSUME ContentInv PROVE BacklogOK
  OBVIOUS
<1> USE DEF ContentInv
<1>1. accepted \in Nat /\ settled \in Nat /\ NumUnread \in 0..NumRxPackets
  BY ContentTypes
<1>2. PacketSize \in Nat /\ NumRxPackets \in Nat
  BY Constants
<1>3. settled <= accepted /\ accepted - settled <= NumUnread * PacketSize
  <2>1. CASE NumUnread = 0
    BY <1>1, <1>2, <2>1 DEF OldestOK
  <2>2. CASE NumUnread > 0
    <3>1. PacketOK(0) /\ Front(0) \in Nat /\ Slot(0) = readIdx
      BY <1>1, <2>2, ContentTypes DEF PacketsOK
    <3>2. index[readIdx] \in Nat /\ size[readIdx] \in Nat
      BY <1>1, <2>2, <3>1, ContentTypes, Constants
    <3>3. NumUnread * PacketSize \in Nat /\ NumUnread - 0 = NumUnread
      BY <1>1, <1>2
    <3> QED BY <1>1, <2>2, <3>1, <3>2, <3>3 DEF OldestOK, PacketOK
  <2> QED BY <1>1, <2>1, <2>2
<1>4. NumUnread * PacketSize <= NumRxPackets * PacketSize
  BY <1>1, <1>2
<1>5. NumUnread * PacketSize \in Nat /\ NumRxPackets * PacketSize \in Nat
  BY <1>1, <1>2
<1> QED BY <1>1, <1>3, <1>4, <1>5 DEF BacklogOK

\* The steps of read() return the oldest message and move on to the next one.
LEMMA ReadContent ==
  ASSUME Timely, ContentInv, Read
  PROVE  OldestOK' /\ PacketsOK'
<1> USE DEF ContentInv, idxs, bufs, link, hist
<1>a. Inv'
  BY ReadInv
<1>1. CASE Load \/ Resume \/ Start
  <2>1. /\ NumUnread' = NumUnread /\ pc # "advance" /\ pc' # "advance"
        /\ UNCHANGED <<readIdx, size, index, data, accepted, settled>>
    BY <1>1 DEF Load, Resume, Start, NumUnread
  <2>2. Slot(0)' = Slot(0) /\ Front(0)' = Front(0)
    BY <2>1 DEF Slot, Front
  <2>3. OldestOK'
    BY <2>1, <2>2 DEF OldestOK
  <2> QED BY <2>1, <2>3, PacketsKept
<1>2. CASE Copy
  <2>1. /\ NumUnread' = NumUnread /\ pc = "copy" /\ pc' = "advance"
        /\ settled' = settled + 1 /\ NumUnread > 0
        /\ UNCHANGED <<readIdx, size, index, data, accepted>>
    BY <1>2 DEF Copy, NumUnread, Inv, RingOK
  <2>2. Slot(0)' = Slot(0) /\ Front(0)' = Front(0)
    BY <2>1 DEF Slot, Front
  <2>3. OldestOK'
    BY <2>1, <2>2 DEF OldestOK
  <2> QED BY <2>1, <2>3, PacketsKept
<1>3. CASE Release
  <2>1. /\ NumUnread' = NumUnread /\ pc # "advance" /\ pc' # "advance"
        /\ UNCHANGED <<readIdx, size, index, data, accepted, settled>>
    BY <1>3 DEF Release, NumUnread, Inv, RingOK
  <2>2. Slot(0)' = Slot(0) /\ Front(0)' = Front(0)
    BY <2>1 DEF Slot, Front
  <2>3. OldestOK'
    BY <2>1, <2>2 DEF OldestOK
  <2> QED BY <2>1, <2>3, PacketsKept
<1>4. CASE Advance
  <2>1. /\ pc = "advance" /\ NumUnread = available /\ NumUnread > 0
        /\ index' = [index EXCEPT ![readIdx] = index[readIdx] + 1]
        /\ UNCHANGED <<available, size, data, accepted, settled>>
    BY <1>4 DEF Advance, NumUnread, Inv, RingOK
  <2>2. NumUnread \in 1..NumRxPackets /\ NumRxPackets \in Nat
    BY <2>1, ContentTypes, Constants
  <2>3. index'[readIdx] = index[readIdx] + 1
    BY <2>1, ContentTypes
  <2>4. \A i \in 1..(NumUnread - 1) :
           /\ index'[Slot(i)] = index[Slot(i)]
           /\ Front(i) \in Nat /\ size[Slot(i)] \in Nat
    BY <2>1, <2>2, ContentTypes, Constants
  <2>5. /\ index[readIdx] \in Nat /\ size[readIdx] \in Nat
        /\ accepted \in Nat /\ settled \in Nat /\ Front(0) \in Nat
        /\ Slot(0) = readIdx
    BY <2>2, ContentTypes, Constants
  <2>6. /\ Front(0) + index[readIdx] = settled /\ index[readIdx] < size[readIdx]
        /\ Front(0) + size[readIdx] =
             IF NumUnread = 1 THEN accepted + 1 ELSE Front(1)
    <3>1. PacketOK(0)
      BY <2>1, <2>2 DEF PacketsOK
    <3>2. 0 + 1 = NumUnread <=> NumUnread = 1
      BY <2>2
    <3>3. Front(0) + index[readIdx] = settled /\ index[readIdx] < size[readIdx]
      BY <2>1 DEF OldestOK
    <3> QED BY <3>1, <3>2, <3>3, <2>5 DEF PacketOK
  <2>7. CASE index[readIdx] + 1 = size[readIdx]
    <3>1. readIdx' = NextSlot(readIdx) /\ pc' = "release" /\ NumUnread' = NumUnread - 1
      BY <1>4, <2>1, <2>7 DEF Advance, NumUnread
    <3>2. \A i \in 0..(NumUnread - 1) : Slot(i)' = Slot(i + 1)
      <4> SUFFICES ASSUME NEW i \in 0..(NumUnread - 1) PROVE Slot(i)' = Slot(i + 1)
        OBVIOUS
      <4> DEFINE n == i + 1
      <4>1. n \in 1..NumRxPackets /\ n - 1 = i
        BY <2>2
      <4> HIDE DEF n
      <4>2. Slot(n - 1)' = Slot(n)
        BY <4>1, <3>1, ContentTypes, NextOldest
      <4> QED BY <4>1, <4>2 DEF n
    <3>3. Front(0) + size[readIdx] = settled + 1
      BY <2>5, <2>6, <2>7
    <3>4. OldestOK'
      <4>1. CASE NumUnread = 1
        BY <2>1, <2>5, <2>6, <3>1, <3>3, <4>1 DEF OldestOK
      <4>2. CASE NumUnread # 1
        <5>1. PacketOK(1) /\ Slot(0)' = Slot(1)
          BY <2>2, <3>2, <4>2 DEF PacketsOK
        <5>2. readIdx' = Slot(0)'
          <6>1. \A r \in Slots : r + 0 = r /\ r < NumRxPackets
            BY Constants DEF Slots
          <6>2. NextSlot(readIdx) \in Slots
            <7>1. readIdx \in 0..(NumRxPackets - 1)
              BY ContentTypes DEF Slots
            <7> QED BY <7>1, Constants DEF NextSlot, Slots
          <6> QED BY <3>1, <6>1, <6>2 DEF Slot
        <5>3. Front(0)' = Front(1)
          BY <5>1, <2>1 DEF Front
        <5>4. size[Slot(1)] >= 1 /\ index[Slot(1)] = 0
          BY <5>1 DEF PacketOK
        <5>5. index'[Slot(1)] = 0 /\ Front(1) \in Nat /\ size[Slot(1)] \in Nat
          BY <2>2, <2>4, <4>2, <5>4
        <5>6. Front(1) = settled + 1
          BY <2>6, <3>3, <4>2
        <5> QED BY <2>1, <2>2, <3>1, <4>2, <5>1, <5>2, <5>3, <5>4, <5>5, <5>6
                DEF OldestOK
      <4> QED BY <4>1, <4>2
    <3>5. PacketsOK'
      <4> SUFFICES ASSUME NEW i \in 0..(NumUnread - 2) PROVE PacketOK(i)'
        <5>1. (NumUnread - 1) - 1 = NumUnread - 2
          BY <2>2
        <5> QED BY <3>1, <5>1 DEF PacketsOK
      <4> DEFINE k == i + 1
      <4>1. k \in 1..(NumUnread - 1) /\ k + 1 = i + 2 /\ k > 0
        BY <2>2
      <4>2. PacketOK(k) /\ index'[Slot(k)] = 0
        <5>1. PacketOK(k)
          BY <4>1, <2>2 DEF PacketsOK
        <5> QED BY <5>1, <4>1, <2>4 DEF PacketOK
      <4>3. Slot(i)' = Slot(k) /\ Slot(i + 1)' = Slot(k + 1)
        BY <2>2, <3>2
      <4>4. Front(i)' = Front(k) /\ Front(i + 1)' = Front(k + 1)
        BY <4>3, <2>1 DEF Front
      <4>5. NumUnread' - i = NumUnread - k /\ (i + 1 = NumUnread' <=> k + 1 = NumUnread)
        BY <2>2, <3>1
      <4> HIDE DEF k
      <4> QED BY <2>1, <4>1, <4>2, <4>3, <4>4, <4>5 DEF PacketOK
    <3> QED BY <3>4, <3>5
  <2>8. CASE index[readIdx] + 1 # size[readIdx]
    <3>1. UNCHANGED readIdx /\ pc' = "idle" /\ NumUnread' = NumUnread
      BY <1>4, <2>1, <2>8 DEF Advance, NumUnread
    <3>2. Slot(0)' = Slot(0) /\ Front(0)' = Front(0)
      BY <2>1, <3>1 DEF Slot, Front
    <3>3. OldestOK'
      BY <2>1, <2>3, <2>5, <2>6, <2>8, <3>1, <3>2 DEF OldestOK
    <3> QED BY <2>1, <2>4, <3>1, <3>3, PacketsKept
  <2> QED BY <2>7, <2>8
<1> QED BY <1>1, <1>2, <1>3, <1>4 DEF Read

\* The interrupt handler adds a packet behind the newest one.
LEMMA CallbackContent ==
  ASSUME Timely, ContentInv, NEW bytes \in Lengths, RxCallback(bytes)
  PROVE  OldestOK' /\ PacketsOK'
<1> USE DEF ContentInv, idxs, bufs, link, hist
<1>1. CASE ReceiveNothing(bytes)
  <2>1. /\ NumUnread' = NumUnread
        /\ UNCHANGED <<readIdx, size, index, data, accepted, settled, pc>>
    BY <1>1 DEF ReceiveNothing, NumUnread
  <2>2. Slot(0)' = Slot(0) /\ Front(0)' = Front(0)
    BY <2>1 DEF Slot, Front
  <2>3. OldestOK'
    BY <2>1, <2>2 DEF OldestOK
  <2> QED BY <2>1, <2>3, PacketsKept
<1>2. CASE StorePacket(bytes, NumRxPackets)
  <2>n. PICK n \in 1..PacketSize : n = Messages(bytes)
    BY <1>2, ConstantsAssumption, Constants DEF StorePacket
  <2>w. PICK w \in Slots : w = writeIdx
    BY DEF Inv, TypeOK
  <2>r. rx = w /\ available < NumRxPackets
    BY <1>2, <2>w DEF StorePacket, Inv, ReadingOK
  <2>u. PICK u \in 0..(NumRxPackets - 1) : u = NumUnread
    BY <2>r, ScalarTypes, Constants DEF NumUnread, Scalars, Inv, RingOK
  <2>1. n \in 1..PacketSize /\ PacketSize \in Nat /\ NumRxPackets \in Nat
    BY Constants
  <2>2. rx = w /\ w = Slot(u)
    BY <2>r, <2>w, <2>u DEF Inv, RingOK
  <2>3. u \in 0..(NumRxPackets - 1)
    OBVIOUS
  <2>4. NumUnread' = u + 1
    <3>1. available' = available + 1 /\ pc' = pc
      BY <1>2, <2>r, ScalarTypes, Constants DEF StorePacket, Scalars
    <3> QED BY <3>1, <2>u, ScalarTypes, Constants DEF NumUnread, Scalars
  <2>5. w \in Slots /\ accepted \in Nat /\ settled \in Nat
    BY ContentTypes
  <2>6. /\ index' = [index EXCEPT ![w] = 0] /\ size' = [size EXCEPT ![w] = n]
        /\ data' = [data EXCEPT ![w] =
              [i \in 1..PacketSize |-> IF i <= n THEN accepted + i ELSE data[w][i]]]
        /\ accepted' = accepted + n /\ UNCHANGED <<readIdx, pc, settled>>
    BY <1>2, <2>2, <2>n, <2>w DEF StorePacket
  <2>7. /\ index'[w] = 0 /\ size'[w] = n
        /\ \A i \in 1..n : data'[w][i] = accepted + i
    <3>1. index'[w] = 0 /\ size'[w] = n
      BY <2>5, <2>6, ContentTypes
    <3>2. data'[w] =
            [i \in 1..PacketSize |-> IF i <= n THEN accepted + i ELSE data[w][i]]
      BY <2>5, <2>6, ContentTypes
    <3> QED BY <3>1, <3>2, <2>1
  <2>8. ASSUME NEW i \in 0..(u - 1)
        PROVE  /\ Slot(i) # w /\ Slot(i) \in Slots
               /\ index'[Slot(i)] = index[Slot(i)]
               /\ size'[Slot(i)] = size[Slot(i)]
               /\ data'[Slot(i)] = data[Slot(i)]
    <3>1. Slot(i) # w /\ Slot(i) \in Slots
      <4>1. readIdx \in 0..(NumRxPackets - 1)
        BY ContentTypes DEF Slots
      <4> QED BY <4>1, <2>1, <2>2, <2>3 DEF Slot, Slots
    <3> QED BY <3>1, <2>6, ContentTypes
  <2>9. \A i \in 0..u : Slot(i)' = Slot(i)
    BY <2>6 DEF Slot
  <2>10. Front(u)' = accepted + 1 /\ \A i \in 0..(u - 1) : Front(i)' = Front(i)
    <3>1. Front(u)' = data'[w][1]
      BY <2>2, <2>3, <2>9, <2>u DEF Front
    <3>2. \A i \in 0..(u - 1) : Front(i)' = Front(i)
      BY <2>3, <2>8, <2>9 DEF Front
    <3> QED BY <3>1, <3>2, <2>1, <2>7
  <2>11. OldestOK'
    <3>1. CASE u = 0
      <4>1. w = readIdx /\ readIdx' = readIdx /\ pc # "advance" /\ pc' # "advance"
        BY <3>1, <2>2, <2>6, <2>u, ContentTypes DEF Inv, RingOK, NumUnread
      <4>2. settled = accepted
        BY <3>1, <2>u DEF OldestOK
      <4> QED BY <3>1, <4>1, <4>2, <2>1, <2>4, <2>5, <2>6, <2>7, <2>10, <2>u DEF OldestOK
    <3>2. CASE u # 0
      <4>1. Slot(0) = readIdx /\ 0 \in 0..(u - 1)
        BY <3>2, <2>3, ContentTypes
      <4>2. /\ index'[readIdx] = index[readIdx] /\ size'[readIdx] = size[readIdx]
            /\ Front(0)' = Front(0)
        BY <4>1, <2>8, <2>10
      <4>3. NumUnread' # 0
        BY <2>3, <2>4
      <4> QED BY <3>2, <4>2, <4>3, <2>6, <2>u DEF OldestOK
    <3> QED BY <3>1, <3>2
  <2>12. ASSUME NEW i \in 0..u PROVE PacketOK(i)'
    <3>1. CASE i = u
      <4>1. NumUnread' - i = 1 /\ i + 1 = NumUnread'
        BY <3>1, <2>3, <2>4
      <4>2. Slot(i)' = w /\ Front(i)' = accepted + 1
        BY <3>1, <2>2, <2>3, <2>9, <2>10, <2>u
      <4>3. 1 * PacketSize = PacketSize
        BY <2>1
      <4>4. size'[w] >= 1 /\ index'[w] = 0 /\ accepted' = accepted + n
        BY <2>6, <2>7
      <4>5. \A j \in 1..size'[w] : data'[w][j] = (accepted + 1) + j - 1
        BY <2>5, <2>7
      <4>6. /\ (accepted + 1) + size'[w] = accepted' + 1
            /\ accepted' < (accepted + 1) + (NumUnread' - i) * PacketSize
        BY <4>1, <4>3, <4>4, <2>1, <2>5, <2>7
      <4>7. accepted' + 1 <= accepted' + 1
        BY <2>5, <4>4
      <4> QED BY <4>1, <4>2, <4>4, <4>5, <4>6, <4>7 DEF PacketOK
    <3>2. CASE i # u
      <4>1. i \in 0..(u - 1)
        BY <3>2, <2>3
      <4>2. /\ PacketOK(i) /\ Front(i) \in Nat /\ size[Slot(i)] \in Nat
        BY <4>1, ContentTypes, Constants, <2>u DEF PacketsOK
      <4>3. /\ Slot(i)' = Slot(i) /\ Front(i)' = Front(i)
            /\ index'[Slot(i)] = index[Slot(i)] /\ size'[Slot(i)] = size[Slot(i)]
            /\ data'[Slot(i)] = data[Slot(i)]
        BY <4>1, <2>3, <2>8, <2>9, <2>10
      <4>4. i + 1 # NumUnread' /\ Front(i + 1)' = IF i + 1 = u THEN accepted + 1 ELSE Front(i + 1)
        BY <4>1, <2>3, <2>4, <2>10
      <4>5. Front(i) + size[Slot(i)] = Front(i + 1)'
        BY <4>2, <4>4, <2>u DEF PacketOK
      <4>6. Front(i) + size[Slot(i)] <= accepted' + 1
        BY <4>2, <2>1, <2>5, <2>6 DEF PacketOK
      <4>7. accepted' < Front(i) + (NumUnread' - i) * PacketSize
        <5>1. accepted < Front(i) + (u - i) * PacketSize
          BY <4>2, <2>u DEF PacketOK
        <5> DEFINE d == u - i
        <5>2. d \in Nat /\ NumUnread' - i = d + 1
          BY <4>1, <2>3, <2>4
        <5> HIDE DEF d
        <5>3. (d + 1) * PacketSize = d * PacketSize + PacketSize /\ d * PacketSize \in Nat
          BY <5>2, <2>1
        <5> QED BY <5>1, <5>2, <5>3, <4>2, <2>1, <2>5, <2>6 DEF d
      <4> QED BY <4>2, <4>3, <4>4, <4>5, <4>6, <4>7, <2>u DEF PacketOK
    <3> QED BY <3>1, <3>2
  <2>13. PacketsOK'
    <3>1. NumUnread' - 1 = u
      BY <2>3, <2>4
    <3> QED BY <2>12, <3>1, <2>u DEF PacketsOK
  <2> QED BY <2>11, <2>13
<1> QED BY <1>1, <1>2 DEF RxCallback

\* Going away leaves the ring alone, and coming back empties it.
LEMMA LinkContent ==
  ASSUME Timely, ContentInv, Disconnect \/ Connect
  PROVE  OldestOK' /\ PacketsOK'
<1> USE DEF ContentInv, idxs, bufs, link, hist
<1>1. CASE Disconnect
  <2>1. /\ NumUnread' = NumUnread
        /\ UNCHANGED <<readIdx, size, index, data, accepted, settled, pc>>
    BY <1>1 DEF Disconnect, NumUnread
  <2>2. Slot(0)' = Slot(0) /\ Front(0)' = Front(0)
    BY <2>1 DEF Slot, Front
  <2>3. OldestOK'
    BY <2>1, <2>2 DEF OldestOK
  <2> QED BY <2>1, <2>3, PacketsKept
<1>2. CASE Connect
  <2>1. NumUnread' = 0 /\ settled' = accepted'
    BY <1>2 DEF Connect, Reset, NumUnread, Timely
  <2> QED BY <2>1 DEF OldestOK, PacketsOK
<1> QED BY <1>1, <1>2

\* The ring holds what has been received and not been returned, throughout.
LEMMA ContentInvariant ==
  ASSUME Timely
  PROVE  Spec => []ContentInv
<1>1. ContentInv /\ [Next]_vars => ContentInv'
  <2> SUFFICES ASSUME ContentInv, [Next]_vars PROVE ContentInv'
    OBVIOUS
  <2>1. Inv'
    <3>1. CASE UNCHANGED vars
      BY <3>1 DEF vars, idxs, bufs, link, hist, ContentInv, Inv, TypeOK, RingOK,
                  ReadingOK, Slot, NumUnread
    <3> QED BY <3>1, ReadInv, CallbackInv, LinkInv DEF Next, ContentInv
  <2>2. CASE UNCHANGED vars
    <3>1. NumUnread' = NumUnread /\ \A i : Slot(i)' = Slot(i) /\ Front(i)' = Front(i)
      BY <2>2 DEF vars, idxs, bufs, Slot, Front, NumUnread
    <3> QED BY <2>1, <2>2, <3>1 DEF vars, idxs, bufs, hist, ContentInv, OldestOK,
                                    PacketsOK, PacketOK
  <2> QED BY <2>1, <2>2, ReadContent, CallbackContent, LinkContent DEF Next, ContentInv
<1> QED BY <1>1, InitContent, PTL DEF Spec

\* One message more on the wire, as MIDIFifo delivers it.
LEMMA OneMore ==
  ASSUME NEW s \in Seq(Nat), NEW k \in Nat
  PROVE  Append(s, k + 1) = s \o [i \in 1..((k + 1) - k) |-> k + i]
<1>1. (k + 1) - k = 1
  OBVIOUS
<1>2. [i \in 1..1 |-> k + i] = <<k + 1>>
  OBVIOUS
<1>3. s \o <<k + 1>> = Append(s, k + 1)
  OBVIOUS
<1> QED BY <1>1, <1>2, <1>3

\* What a step of the receiver is to the application: a packet enters, one
\* message is returned, or everything under way is dropped.
LEMMA FifoStep ==
  ASSUME Timely, ContentInv, ContentInv', BacklogOK', [Next]_vars
  PROVE  [Fifo!Next]_(Fifo!vars)
<1> USE DEF idxs, bufs, link, hist, Fifo!Next, Fifo!vars
<1>0. /\ accepted \in Nat /\ settled \in Nat /\ wire \in Seq(Nat)
      /\ settled <= accepted
  BY ContentTypes, Backlog DEF ContentInv, BacklogOK
<1>1. CASE UNCHANGED vars
  BY <1>1 DEF vars
<1>2. CASE Load \/ Advance \/ Release \/ Resume \/ Start \/ Disconnect
  BY <1>2 DEF Load, Advance, Release, Resume, Start, Disconnect
<1>3. CASE Copy
  <2>1. data[readIdx][index[readIdx] + 1] = settled + 1 /\ settled < accepted
    <3>1. pc = "copy" /\ NumUnread > 0
      BY <1>3, ContentTypes DEF Copy, NumUnread, ContentInv, Inv, RingOK
    <3>2. PacketOK(0) /\ Slot(0) = readIdx /\ NumUnread \in Nat
      BY <3>1, ContentTypes DEF ContentInv, PacketsOK
    <3>3. index[readIdx] \in Nat /\ size[readIdx] \in Nat /\ Front(0) \in Nat
      BY <3>1, <3>2, ContentTypes, Constants DEF ContentInv
    <3>4. index[readIdx] < size[readIdx] /\ Front(0) + index[readIdx] = settled + 1
      BY <3>1 DEF ContentInv, OldestOK
    <3>5. index[readIdx] + 1 \in 1..size[readIdx]
      BY <3>3, <3>4
    <3>6. data[readIdx][index[readIdx] + 1] = Front(0) + (index[readIdx] + 1) - 1
      BY <3>2, <3>5 DEF PacketOK
    <3>7. Front(0) + size[readIdx] <= accepted + 1
      BY <3>2 DEF PacketOK
    <3> QED BY <3>3, <3>4, <3>6, <3>7, <1>0
  <2>2. /\ settled' = settled + 1 /\ accepted' = accepted
        /\ wire' = Append(wire, settled + 1)
    BY <1>3, <2>1 DEF Copy
  <2>3. wire' = wire \o [i \in 1..(settled' - settled) |-> settled + i]
    BY <2>2, <1>0, OneMore
  <2> QED BY <2>1, <2>2, <2>3, <1>0 DEF Fifo!Deliver
<1>4. ASSUME NEW bytes \in Lengths, StorePacket(bytes, NumRxPackets)
      PROVE  Fifo!Accept
  <2>1. accepted' > accepted /\ UNCHANGED <<settled, wire>>
    BY <1>0, <1>4, ConstantsAssumption DEF StorePacket
  <2> QED BY <2>1 DEF Fifo!Accept, BacklogOK
<1>5. ASSUME NEW bytes \in Lengths, ReceiveNothing(bytes)
      PROVE  UNCHANGED Fifo!vars
  BY <1>5 DEF ReceiveNothing
<1>6. CASE Connect
  BY <1>0, <1>6 DEF Connect, Fifo!Drop
<1> QED BY <1>1, <1>2, <1>3, <1>4, <1>5, <1>6 DEF Next, Read, RxCallback

\* read() returns the messages in the order in which they arrived, each once,
\* and none is overwritten in the ring: the receiver implements MIDIFifo.
THEOREM FifoCorrect ==
  ASSUME Timely
  PROVE  Spec => FifoSpec
<1>1. Init => Fifo!Init
  BY DEF Init, Fifo!Init
<1>2. ContentInv /\ ContentInv' /\ BacklogOK' /\ [Next]_vars => [Fifo!Next]_(Fifo!vars)
  BY FifoStep
<1> QED BY <1>1, <1>2, Backlog, ContentInvariant, PTL DEF Spec, FifoSpec, Fifo!Spec
===============================================================================
