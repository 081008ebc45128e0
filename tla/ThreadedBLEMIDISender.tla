------------------------- MODULE ThreadedBLEMIDISender -------------------------
(***************************************************************************)
(* The Bluetooth MIDI sender with a background thread                      *)
(* (ThreadedBLEMIDISender.hpp, .ipp), driven by the main program through   *)
(* GenericBLEMIDI_Interface and by the MTU callback of the Bluetooth task. *)
(*                                                                         *)
(* The main program adds messages to a packet; the sender thread sends the *)
(* packet some time after its first message, or at once when it is full    *)
(* (`flush`).  One mutex guards the shared data, and one condition         *)
(* variable is used both by the sender, to wait for data, and by the main  *)
(* program, to wait for the end of a flush.  A waiting thread may wake up  *)
(* without being notified.                                                 *)
(*                                                                         *)
(* A message is a number, with a size in bytes chosen at random: running   *)
(* status and timestamps can be left out or not.  A SysEx message that     *)
(* does not fit is added piece by piece, one to a packet; each piece is a  *)
(* message here.                                                           *)
(***************************************************************************)
EXTENDS Integers, Sequences, FiniteSetsExt

CONSTANTS
  None,        \* no thread
  MTUs,        \* what clients negotiate
  ForcedMTUs,  \* arguments of forceMinMTU
  MaxMsgs,     \* bound: messages and pieces of SysEx messages
  MaxPieces,   \* bound: pieces of one SysEx message
  MaxUpdates   \* bound: changes of the MTU

Threads == {"main", "sender", "ble"}

\* A message with status byte and timestamp, what is left of it with running
\* status and the timestamp of the message before, the packet header, the bytes
\* that notify adds to a packet, and the MTU before a client's.
FullSize   == 4
Sizes      == 1..FullSize
HeaderSize == 1
NotifySize == 3
DefaultMTU == 23

\* An MTU is a uint16_t, and setCapacity demands at least five bytes.
ASSUME ConstantsAssumption ==
  /\ None \notin Threads
  /\ MTUs \subseteq Nat /\ (\A m \in MTUs : m < 65536) /\ ForcedMTUs \subseteq Nat
  /\ \A m \in MTUs \cup (ForcedMTUs \ {0}) : m >= NotifySize + HeaderSize + FullSize
  /\ MaxMsgs \in Nat /\ MaxPieces \in Nat /\ MaxUpdates \in Nat

VARIABLES
  owner,         \* the thread that holds shared.mtx
  waiters,       \* the threads that wait on cv
  pc,            \* next statement of each thread
  flush, stop,   \* shared.flush, shared.stop
  packet,        \* shared.packet: the messages in it,
  used,          \* ... its size and
  capacity,      \* ... its capacity in bytes
  minMTU,        \* min_mtu
  forceMinMTU,   \* force_min_mtu
  mtu, forceC,   \* updateMTU: argument and force_min_mtu_c of each thread
  updates,       \* how often the MTU was changed
  todo,          \* messages or pieces the main program has yet to add
  accepted, settled, wire   \* history, see MIDIFifo

sync   == <<owner, waiters>>
shared == <<flush, stop, packet, used, capacity>>
mtus   == <<minMTU, forceMinMTU, mtu, forceC, updates>>
hist   == <<accepted, settled, wire>>
vars   == <<sync, pc, shared, mtus, todo, hist>>

\* begin() has started the sender thread.
Init ==
  /\ owner = None /\ waiters = {}
  /\ pc = [t \in Threads |-> IF t = "sender" THEN "lock" ELSE "idle"]
  /\ flush = FALSE /\ stop = FALSE
  /\ packet = <<>> /\ used = 0 /\ capacity = DefaultMTU - NotifySize
  /\ minMTU = DefaultMTU /\ forceMinMTU = 515
  /\ mtu = [t \in Threads |-> 0] /\ forceC = [t \in Threads |-> 0]
  /\ updates = 0 /\ todo = 0
  /\ accepted = 0 /\ settled = 0 /\ wire = <<>>

-------------------------------------------------------------------------------
(***************************************************************************)
(* Threads, mutex and condition variable                                   *)
(***************************************************************************)
At(t, l)       == pc[t] = l
Goto(t, l)     == pc' = [pc EXCEPT ![t] = l]
Step(t, l, l2) == At(t, l) /\ Goto(t, l2)

Acquire(t, l, l2) ==
  /\ Step(t, l, l2)
  /\ owner = None /\ owner' = t
  /\ UNCHANGED <<waiters, shared, mtus, todo, hist>>

Release(t, l, l2) ==
  /\ Step(t, l, l2)
  /\ owner' = None
  /\ UNCHANGED <<waiters, shared, mtus, todo, hist>>

\* cv.wait: give up the mutex and wait, in one step.
Block(t, l) ==
  /\ owner' = None
  /\ waiters' = waiters \cup {t}
  /\ Goto(t, l)

\* A thread that was woken takes the mutex again and looks at its condition.
Relock(t, l, l2) == t \notin waiters /\ Acquire(t, l, l2)

\* cv.notify_one
Notify(t, l, l2) ==
  /\ Step(t, l, l2)
  /\ IF waiters = {} THEN UNCHANGED waiters
                     ELSE \E w \in waiters : waiters' = waiters \ {w}
  /\ UNCHANGED <<owner, shared, mtus, todo, hist>>

\* Nobody notified it.
WakeSpuriously(t) ==
  /\ t \in waiters
  /\ waiters' = waiters \ {t}
  /\ UNCHANGED <<owner, pc, shared, mtus, todo, hist>>

-------------------------------------------------------------------------------
(***************************************************************************)
(* The main program sends: sendImpl, sendSysExImpl, sendNowImpl            *)
(***************************************************************************)
\* A message (n = 1), or a SysEx message in n pieces.
Send(n) ==
  /\ Step("main", "idle", "acquire") /\ ~stop
  /\ accepted + n <= MaxMsgs
  /\ todo' = n
  /\ UNCHANGED <<sync, shared, mtus, hist>>

SendNowImpl ==
  /\ Step("main", "idle", "acquire_now") /\ ~stop
  /\ UNCHANGED <<sync, shared, mtus, todo, hist>>

\* The first message of a packet has a timestamp, and cannot use running status.
Additions == IF used = 0 THEN Sizes \ {1} ELSE Sizes

\* The size of the packet with so many bytes more.
Grown(size) == IF used = 0 THEN HeaderSize + size ELSE used + size

\* All but the last piece of a SysEx message need space for two bytes, and fill
\* the packet.
FitsIn(size) == (IF todo > 1 THEN Grown(2) ELSE Grown(size)) <= capacity

AddMessage(size) ==
  /\ packet' = Append(packet, accepted + 1)
  /\ used' = IF todo > 1 THEN capacity ELSE Grown(size)
  /\ accepted' = accepted + 1
  /\ todo' = todo - 1
  /\ Goto("main", IF todo = 1 THEN "release" ELSE "send_now")

\* The first attempt; when the message does not fit the packet is sent.
Add ==
  /\ At("main", "add")
  /\ \E size \in Additions :
       IF FitsIn(size)
         THEN AddMessage(size)
         ELSE Goto("main", "send_now") /\ UNCHANGED <<packet, used, accepted, todo>>
  /\ UNCHANGED <<sync, flush, stop, capacity, mtus, settled, wire>>

\* The second attempt; when the message does not fit now it is dropped.
AddAgain ==
  /\ At("main", "add_again")
  /\ \E size \in Additions :
       IF FitsIn(size)
         THEN AddMessage(size)
         ELSE /\ todo' = 0
              /\ Goto("main", "release") /\ UNCHANGED <<packet, used, accepted>>
  /\ UNCHANGED <<sync, flush, stop, capacity, mtus, settled, wire>>

\* Where sendNow returns to, with the mutex.
AfterFlush == IF todo > 0 THEN "add_again" ELSE "unlock"

\* sendNow: no need to send an empty packet.
SendNow ==
  /\ At("main", "send_now")
  /\ IF used = 0
       THEN Goto("main", AfterFlush) /\ UNCHANGED <<owner, flush>>
       ELSE Goto("main", "notify_flush") /\ owner' = None /\ flush' = TRUE
  /\ UNCHANGED <<waiters, stop, packet, used, capacity, mtus, todo, hist>>

\* Mutant: the end of the flush is not awaited.
WaitFlushNever ==
  /\ Step("main", "wait_flush", AfterFlush)
  /\ UNCHANGED <<sync, shared, mtus, todo, hist>>

\* Wait until the sender has cleared `flush`.
WaitFlush ==
  /\ At("main", "wait_flush")
  /\ IF flush THEN Block("main", "blocked")
              ELSE Goto("main", AfterFlush) /\ UNCHANGED sync
  /\ UNCHANGED <<shared, mtus, todo, hist>>

-------------------------------------------------------------------------------
(***************************************************************************)
(* updateMTU                                                               *)
(***************************************************************************)
\* The Bluetooth task reports the MTU of a client.
HandleMTU(m) ==
  /\ Step("ble", "idle", "mtu_load") /\ ~stop
  /\ updates < MaxUpdates /\ updates' = updates + 1
  /\ mtu' = [mtu EXCEPT !["ble"] = m]
  /\ UNCHANGED <<sync, shared, minMTU, forceMinMTU, forceC, todo, hist>>

\* The main program overrides it ...
ForceMinMTU(f) ==
  /\ Step("main", "idle", "mtu_arg") /\ ~stop
  /\ updates < MaxUpdates /\ updates' = updates + 1
  /\ forceMinMTU' = f
  /\ UNCHANGED <<sync, shared, minMTU, mtu, forceC, todo, hist>>

\* ... and then calls updateMTU(min_mtu).
LoadMinMTU ==
  /\ Step("main", "mtu_arg", "mtu_load")
  /\ mtu' = [mtu EXCEPT !["main"] = minMTU]
  /\ UNCHANGED <<sync, shared, minMTU, forceMinMTU, forceC, updates, todo, hist>>

LoadForce(t) ==
  /\ Step(t, "mtu_load", "mtu_store")
  /\ forceC' = [forceC EXCEPT ![t] = forceMinMTU]
  /\ UNCHANGED <<sync, shared, minMTU, forceMinMTU, mtu, updates, todo, hist>>

\* What a thread makes of the MTU it was given.
OwnMTU(t) == IF forceC[t] # 0 /\ forceC[t] < mtu[t] THEN forceC[t] ELSE mtu[t]

StoreMinMTU(t) ==
  /\ Step(t, "mtu_store", "mtu_lock")
  /\ minMTU' = OwnMTU(t)
  /\ UNCHANGED <<sync, shared, forceMinMTU, mtu, forceC, updates, todo, hist>>

\* Local variables end with the call.
Forget(t) == mtu' = [mtu EXCEPT ![t] = 0] /\ forceC' = [forceC EXCEPT ![t] = 0]

\* Mutant: the value that was stored, which another thread may have replaced.
SetOwnCapacity(t) ==
  /\ Step(t, "mtu_set", "idle")
  /\ capacity' = IF used = 0 THEN OwnMTU(t) - NotifySize ELSE capacity
  /\ owner' = None
  /\ Forget(t)
  /\ UNCHANGED <<waiters, flush, stop, packet, used, minMTU, forceMinMTU, updates, todo, hist>>

\* An empty packet gets the new capacity now, another one when it has been sent.
SetCapacity(t) ==
  /\ Step(t, "mtu_set", "idle")
  /\ capacity' = IF used = 0 THEN minMTU - NotifySize ELSE capacity
  /\ owner' = None
  /\ Forget(t)
  /\ UNCHANGED <<waiters, flush, stop, packet, used, minMTU, forceMinMTU, updates, todo, hist>>

-------------------------------------------------------------------------------
(***************************************************************************)
(* The destructor                                                          *)
(***************************************************************************)
Destroy ==
  /\ Step("main", "idle", "d_lock") /\ At("ble", "idle") /\ ~stop
  /\ UNCHANGED <<sync, shared, mtus, todo, hist>>

SetStop ==
  /\ Step("main", "d_stop", "d_notify")
  /\ stop' = TRUE /\ flush' = TRUE
  /\ owner' = None
  /\ UNCHANGED <<waiters, packet, used, capacity, mtus, todo, hist>>

Join ==
  /\ Step("main", "d_join", "dead") /\ At("sender", "done")
  /\ UNCHANGED <<sync, shared, mtus, todo, hist>>

-------------------------------------------------------------------------------
(***************************************************************************)
(* The sender thread: handleSendEvents                                     *)
(***************************************************************************)
\* Mutant: wait for the flush signal already here.
WaitDataFlush ==
  /\ At("sender", "wait")
  /\ IF flush \/ stop THEN Goto("sender", "timed") /\ UNCHANGED sync
                      ELSE Block("sender", "blocked")
  /\ UNCHANGED <<shared, mtus, todo, hist>>

\* Wait for a packet to be started, or for the stop signal.
WaitData ==
  /\ At("sender", "wait")
  /\ IF used > 0 \/ stop THEN Goto("sender", "timed") /\ UNCHANGED sync
                         ELSE Block("sender", "blocked")
  /\ UNCHANGED <<shared, mtus, todo, hist>>

\* Wait for the flush signal or the timeout.
WaitTimed ==
  /\ At("sender", "timed")
  /\ IF flush THEN Goto("sender", "send") /\ UNCHANGED sync
              ELSE Block("sender", "timed_blocked")
  /\ UNCHANGED <<shared, mtus, todo, hist>>

Timeout ==
  /\ Step("sender", "timed_blocked", "timed_out")
  /\ "sender" \in waiters /\ waiters' = waiters \ {"sender"}
  /\ UNCHANGED <<owner, shared, mtus, todo, hist>>

\* Mutant: the mutex is not held during sendData.
SendDataUnlocked ==
  /\ At("sender", "send")
  /\ IF stop
       THEN Goto("sender", "done") /\ UNCHANGED <<settled, wire>>
       ELSE /\ Goto("sender", "reset")
            /\ wire' = wire \o packet
            /\ settled' = settled + Len(packet)
  /\ owner' = None
  /\ UNCHANGED <<waiters, shared, mtus, todo, accepted>>

\* On the stop signal the thread ends without sending.
SendData ==
  /\ At("sender", "send")
  /\ IF stop
       THEN Goto("sender", "done") /\ owner' = None /\ UNCHANGED <<settled, wire>>
       ELSE /\ Goto("sender", "reset")
            /\ wire' = wire \o packet
            /\ settled' = settled + Len(packet)
            /\ UNCHANGED owner
  /\ UNCHANGED <<waiters, shared, mtus, todo, accepted>>

\* Mutant: the flag is cleared and nobody is told.
ResetSilently ==
  /\ Step("sender", "reset", "lock")
  /\ packet' = <<>> /\ used' = 0 /\ capacity' = minMTU - NotifySize
  /\ flush' = FALSE
  /\ owner' = None
  /\ UNCHANGED <<waiters, stop, mtus, todo, hist>>

\* Empty the packet; whoever waits for the flush is notified.
Reset ==
  /\ Step("sender", "reset", IF flush THEN "notify" ELSE "lock")
  /\ packet' = <<>> /\ used' = 0 /\ capacity' = minMTU - NotifySize
  /\ flush' = FALSE
  /\ owner' = None
  /\ UNCHANGED <<waiters, stop, mtus, todo, hist>>

-------------------------------------------------------------------------------
MainLocks ==
  \/ Acquire("main", "acquire", "add") \/ Acquire("main", "acquire_now", "send_now")
  \/ Acquire("main", "relock", "wait_flush") \/ Relock("main", "blocked", "wait_flush")
  \/ Acquire("main", "mtu_lock", "mtu_set") \/ Acquire("main", "d_lock", "d_stop")

MainRuns ==
  \/ Add \/ AddAgain \/ SendNow \/ Notify("main", "notify_flush", "relock") \/ WaitFlush
  \/ Release("main", "release", "notify") \/ Notify("main", "notify", "idle")
  \/ Release("main", "unlock", "idle")
  \/ LoadMinMTU \/ LoadForce("main") \/ StoreMinMTU("main") \/ SetCapacity("main")
  \/ SetStop \/ Notify("main", "d_notify", "d_join") \/ Join

BleLocks == Acquire("ble", "mtu_lock", "mtu_set")
BleRuns  == LoadForce("ble") \/ StoreMinMTU("ble") \/ SetCapacity("ble")

SenderLocks ==
  \/ Acquire("sender", "lock", "wait") \/ Relock("sender", "blocked", "wait")
  \/ Relock("sender", "timed_blocked", "timed") \/ Acquire("sender", "timed_out", "send")

SenderRuns ==
  \/ WaitData \/ WaitTimed \/ Timeout \/ SendData \/ Reset
  \/ Notify("sender", "notify", "lock")

Environment ==
  \/ \E n \in 1..MaxPieces : Send(n)
  \/ SendNowImpl \/ Destroy
  \/ \E m \in MTUs : HandleMTU(m)
  \/ \E f \in ForcedMTUs : ForceMinMTU(f)
  \/ \E t \in {"main", "sender"} : WakeSpuriously(t)

Next ==
  \/ Environment \/ MainLocks \/ MainRuns
  \/ BleLocks \/ BleRuns \/ SenderLocks \/ SenderRuns

Spec == Init /\ [][Next]_vars

\* Threads are scheduled, the timeout expires, and the mutex goes to a thread
\* that keeps asking for it.  Waking up early does not postpone the timeout.
Fairness ==
  /\ WF_vars(MainRuns) /\ WF_vars(BleRuns) /\ WF_vars(SenderRuns)
  /\ SF_vars(Timeout)
  /\ SF_vars(MainLocks) /\ SF_vars(BleLocks) /\ SF_vars(SenderLocks)

FairSpec == Spec /\ Fairness

-------------------------------------------------------------------------------
\* Where a thread holds the mutex, and where it does not.
Holds(t) ==
  IF t = "sender" THEN {"wait", "timed", "send", "reset"}
                  ELSE {"add", "send_now", "wait_flush", "add_again", "release", "unlock",
                        "mtu_set", "d_stop"}
Free(t) ==
  IF t = "sender" THEN {"lock", "blocked", "timed_blocked", "timed_out", "notify", "done"}
                  ELSE {"idle", "acquire", "acquire_now", "notify_flush", "relock", "blocked",
                        "notify", "mtu_arg", "mtu_load", "mtu_store", "mtu_lock", "d_lock",
                        "d_notify", "d_join", "dead"}

Labels == UNION {Holds(t) \cup Free(t) : t \in Threads}

\* The types of the variables, the statement of each thread included.
TypeOK ==
  /\ owner \in Threads \cup {None} /\ waiters \subseteq {"main", "sender"}
  /\ pc \in [Threads -> Labels] /\ \A t \in Threads : pc[t] \in Holds(t) \cup Free(t)
  /\ flush \in BOOLEAN /\ stop \in BOOLEAN
  /\ packet \in Seq(1..MaxMsgs) /\ used \in Nat /\ capacity \in Nat
  /\ minMTU \in Nat /\ forceMinMTU \in Nat
  /\ mtu \in [Threads -> Nat] /\ forceC \in [Threads -> Nat]
  /\ updates \in 0..MaxUpdates /\ todo \in 0..MaxPieces
  /\ accepted \in 0..MaxMsgs /\ settled \in 0..MaxMsgs /\ wire \in Seq(1..MaxMsgs)

\* Nobody sleeps through what it waits for, although both sides wait on the one
\* condition variable and notify_one wakes only one of them: when the condition
\* of a waiting thread holds, the other thread is on its way to notifying it.
SenderIsWoken ==
  At("sender", "blocked") /\ "sender" \in waiters /\ (used > 0 \/ stop)
    => pc["main"] \in {"send_now", "release", "notify", "notify_flush", "d_notify"}
FlushIsSeen ==
  At("sender", "timed_blocked") /\ "sender" \in waiters /\ flush
    => pc["main"] \in {"notify_flush", "d_notify"}
FlushEndIsSeen ==
  "main" \in waiters /\ ~flush => At("sender", "notify")

NoLostWakeup == SenderIsWoken /\ FlushIsSeen /\ FlushEndIsSeen

\* "And then add it to the (now emtpy) buffer" (GenericBLEMIDI_Interface.ipp:21):
\* when sendNow returns to add the message that did not fit, the packet is empty
\* and a message of any size fits, whatever the MTU has become in the meantime.
SecondAttemptFits ==
  At("main", "add_again") => used = 0 /\ \A size \in Sizes : FitsIn(size)

\* When no update is under way, an empty packet has the capacity that the
\* current minimum MTU allows, however the updates of two threads and the
\* sender's own one after a transmission were interleaved.
CapacityFollowsMTU ==
  used = 0 /\ (\A t \in Threads : pc[t] \notin {"mtu_lock", "mtu_set"})
    => capacity = minMTU - NotifySize

\* Messages are sent in order and once; none is lost between being added and
\* the packet being emptied.  (No packet is larger than the largest MTU allows;
\* its first message has two bytes or more.)
MaxPacket == Max(MTUs \cup {DefaultMTU}) - NotifySize - HeaderSize - 1
Fifo      == INSTANCE MIDIFifo WITH Batch <- MaxPacket, Capacity <- MaxPacket
FifoSpec  == Fifo!Spec

\* Every message in the packet is sent, by the timeout at the latest, unless the
\* sender is destroyed.
EveryMessageSent ==
  \A n \in 1..MaxMsgs : accepted >= n ~> settled >= n \/ stop

\* Every call ends: sending, waiting for a flush, changing the MTU from either
\* thread, and joining the sender thread.
CallsReturn ==
  \A t \in {"main", "ble"} : ~At(t, "idle") ~> pc[t] \in {"idle", "dead"}
===============================================================================
