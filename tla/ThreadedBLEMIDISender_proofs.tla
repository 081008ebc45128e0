--------------------- MODULE ThreadedBLEMIDISender_proofs ----------------------
(***************************************************************************)
(* The synchronisation of ThreadedBLEMIDISender is correct for all MTUs    *)
(* and any number of messages: the mutex excludes, no notification is      *)
(* lost, a message that did not fit fits after the flush, an empty packet  *)
(* has the capacity of the current MTU, and messages are sent in order,    *)
(* once, with none missing.                                                *)
(*                                                                         *)
(* The inductive invariant comes in layers, each of which uses the ones    *)
(* before it: who holds the mutex (LockInv), the MTUs (MTUInv) and the     *)
(* number of messages (CountInv) that the mutex guards, who waits for what *)
(* (WakeInv), CapacityFollowsMTU, the bytes in the packet (SizeOK) and the *)
(* order of the messages in it (NumberedOK).                               *)
(***************************************************************************)
EXTENDS ThreadedBLEMIDISender, TLAPS

-------------------------------------------------------------------------------
(***************************************************************************)
(* The mutex                                                               *)
(***************************************************************************)
\* Exactly the owner of the mutex is where it is held.
MutexOK == \A t \in Threads : owner = t <=> pc[t] \in Holds(t)

LockInv ==
  /\ pc \in [Threads -> Labels] /\ \A t \in Threads : pc[t] \in Holds(t) \cup Free(t)
  /\ owner \in Threads \cup {None}
  /\ MutexOK

LEMMA Disjoint == \A t \in Threads : Holds(t) \cap Free(t) = {}
BY DEF Holds, Free

\* The statements of each thread, with and without the mutex.
LEMMA MainLabels ==
  /\ "main" \in Threads
  /\ Holds("main") = {"add", "send_now", "wait_flush", "add_again", "release", "unlock",
                      "mtu_set", "d_stop"}
  /\ Free("main") = {"idle", "acquire", "acquire_now", "notify_flush", "relock", "blocked",
                     "notify", "mtu_arg", "mtu_load", "mtu_store", "mtu_lock", "d_lock",
                     "d_notify", "d_join", "dead"}
BY DEF Threads, Holds, Free

LEMMA BleLabels ==
  /\ "ble" \in Threads
  /\ "mtu_set" \in Holds("ble")
  /\ {"idle", "mtu_load", "mtu_store", "mtu_lock"} \subseteq Free("ble")
BY DEF Threads, Holds, Free

LEMMA SenderLabels ==
  /\ "sender" \in Threads
  /\ Holds("sender") = {"wait", "timed", "send", "reset"}
  /\ Free("sender") = {"lock", "blocked", "timed_blocked", "timed_out", "notify", "done"}
BY DEF Threads, Holds, Free

\* A thread goes on to another statement; the others stay where they are.
LEMMA Goes ==
  ASSUME pc \in [Threads -> Labels], NEW t \in Threads, NEW l \in Holds(t) \cup Free(t),
         Goto(t, l)
  PROVE  /\ pc' \in [Threads -> Labels]
         /\ pc'[t] = l /\ \A u \in Threads \ {t} : pc'[u] = pc[u]
<1>1. l \in Labels
  BY DEF Labels
<1> QED BY <1>1 DEF Goto

\* It does so without the mutex, with it, taking it, or giving it up.
LEMMA LockKept ==
  ASSUME LockInv, NEW t \in Threads, NEW l \in Holds(t) \cup Free(t), Goto(t, l),
         \/ owner' = owner /\ pc[t] \in Free(t) /\ l \in Free(t)
         \/ owner' = owner /\ pc[t] \in Holds(t) /\ l \in Holds(t)
         \/ owner = None /\ owner' = t /\ l \in Holds(t)
         \/ pc[t] \in Holds(t) /\ owner' = None /\ l \in Free(t)
  PROVE  LockInv'
<1>1. /\ pc' \in [Threads -> Labels]
      /\ pc'[t] = l /\ \A u \in Threads \ {t} : pc'[u] = pc[u]
  BY Goes DEF LockInv
<1> QED BY <1>1, Disjoint, ConstantsAssumption DEF LockInv, MutexOK

LEMMA EnvironmentLock == LockInv /\ Environment => LockInv'
<1> SUFFICES ASSUME LockInv, Environment PROVE LockInv'
  OBVIOUS
<1>1. ASSUME NEW n \in 1..MaxPieces, Send(n) PROVE LockInv'
  BY <1>1, MainLabels, LockKept, Zenon DEF Send, Step, At, sync
<1>2. CASE SendNowImpl
  BY <1>2, MainLabels, LockKept, Zenon DEF SendNowImpl, Step, At, sync
<1>3. CASE Destroy
  BY <1>3, MainLabels, LockKept, Zenon DEF Destroy, Step, At, sync
<1>4. ASSUME NEW m \in MTUs, HandleMTU(m) PROVE LockInv'
  BY <1>4, BleLabels, LockKept, Zenon DEF HandleMTU, Step, At, sync
<1>5. ASSUME NEW f \in ForcedMTUs, ForceMinMTU(f) PROVE LockInv'
  BY <1>5, MainLabels, LockKept, Zenon DEF ForceMinMTU, Step, At, sync
<1>6. ASSUME NEW t \in {"main", "sender"}, WakeSpuriously(t) PROVE LockInv'
  BY <1>6 DEF WakeSpuriously, LockInv, MutexOK
<1> QED BY <1>1, <1>2, <1>3, <1>4, <1>5, <1>6 DEF Environment

LEMMA MainLocksLock == LockInv /\ MainLocks => LockInv'
BY MainLabels, LockKept, Zenon DEF MainLocks, Relock, Acquire, Step, At

LEMMA MainRunsLock == LockInv /\ MainRuns => LockInv'
<1> SUFFICES ASSUME LockInv, MainRuns PROVE LockInv'
  OBVIOUS
<1>1. CASE Add
  BY <1>1, MainLabels, LockKept, Zenon DEF Add, AddMessage, At, sync
<1>2. CASE AddAgain
  BY <1>2, MainLabels, LockKept, Zenon DEF AddAgain, AddMessage, At, sync
<1>3. CASE SendNow
  BY <1>3, MainLabels, LockKept, Zenon DEF SendNow, AfterFlush, At
<1>4. CASE WaitFlush
  BY <1>4, MainLabels, LockKept, Zenon DEF WaitFlush, AfterFlush, Block, At, sync
<1>5. CASE Notify("main", "notify_flush", "relock") \/ Notify("main", "notify", "idle")
           \/ Notify("main", "d_notify", "d_join")
  BY <1>5, MainLabels, LockKept, Zenon DEF Notify, Step, At
<1>6. CASE Release("main", "release", "notify") \/ Release("main", "unlock", "idle")
  BY <1>6, MainLabels, LockKept, Zenon DEF Release, Step, At
<1>7. CASE LoadMinMTU \/ LoadForce("main") \/ StoreMinMTU("main")
  BY <1>7, MainLabels, LockKept, Zenon DEF LoadMinMTU, LoadForce, StoreMinMTU, Step, At, sync
<1>8. CASE SetCapacity("main") \/ SetStop
  BY <1>8, MainLabels, LockKept, Zenon DEF SetCapacity, SetStop, Step, At
<1>9. CASE Join
  BY <1>9, MainLabels, LockKept, Zenon DEF Join, Step, At, sync
<1> QED BY <1>1, <1>2, <1>3, <1>4, <1>5, <1>6, <1>7, <1>8, <1>9 DEF MainRuns

LEMMA BleLock == LockInv /\ (BleLocks \/ BleRuns) => LockInv'
BY BleLabels, LockKept, Zenon
   DEF BleLocks, BleRuns, Acquire, LoadForce, StoreMinMTU, SetCapacity, Step, At, sync

LEMMA SenderLocksLock == LockInv /\ SenderLocks => LockInv'
BY SenderLabels, LockKept, Zenon DEF SenderLocks, Relock, Acquire, Step, At

LEMMA SenderRunsLock == LockInv /\ SenderRuns => LockInv'
<1> SUFFICES ASSUME LockInv, SenderRuns PROVE LockInv'
  OBVIOUS
<1>1. CASE WaitData
  BY <1>1, SenderLabels, LockKept, Zenon DEF WaitData, Block, At, sync
<1>2. CASE WaitTimed
  BY <1>2, SenderLabels, LockKept, Zenon DEF WaitTimed, Block, At, sync
<1>3. CASE Timeout
  BY <1>3, SenderLabels, LockKept, Zenon DEF Timeout, Step, At
<1>4. CASE SendData
  BY <1>4, SenderLabels, LockKept, Zenon DEF SendData, At
<1>5. CASE Reset
  BY <1>5, SenderLabels, LockKept, Zenon DEF Reset, Step, At
<1>6. CASE Notify("sender", "notify", "lock")
  BY <1>6, SenderLabels, LockKept, Zenon DEF Notify, Step, At
<1> QED BY <1>1, <1>2, <1>3, <1>4, <1>5, <1>6 DEF SenderRuns

LEMMA LockStep == LockInv /\ [Next]_vars => LockInv'
<1>1. LockInv /\ UNCHANGED vars => LockInv'
  BY DEF LockInv, MutexOK, vars, sync
<1> QED BY <1>1, EnvironmentLock, MainLocksLock, MainRunsLock, BleLock, SenderLocksLock,
           SenderRunsLock DEF Next

-------------------------------------------------------------------------------
(***************************************************************************)
(* The MTU                                                                 *)
(***************************************************************************)
\* Every MTU that is stored somewhere leaves space for one message.
SmallestMTU == NotifySize + HeaderSize + FullSize

MTUInv ==
  /\ capacity \in Nat /\ minMTU \in Nat /\ forceMinMTU \in Nat
  /\ mtu \in [Threads -> Nat] /\ forceC \in [Threads -> Nat] /\ updates \in 0..MaxUpdates
  /\ minMTU >= SmallestMTU /\ capacity >= SmallestMTU - NotifySize
  /\ forceMinMTU = 0 \/ forceMinMTU >= SmallestMTU
  /\ \A t \in Threads :
       /\ pc[t] \in {"mtu_load", "mtu_store"} => mtu[t] >= SmallestMTU
       /\ pc[t] = "mtu_store" => forceC[t] = 0 \/ forceC[t] >= SmallestMTU

\* A step that has nothing to do with the MTU.
LEMMA MTUKept ==
  ASSUME LockInv, MTUInv, NEW t \in Threads, NEW l \in Holds(t) \cup Free(t), Goto(t, l),
         l \notin {"mtu_load", "mtu_store"}, UNCHANGED <<mtus, capacity>>
  PROVE  MTUInv'
<1>1. pc'[t] = l /\ \A u \in Threads \ {t} : pc'[u] = pc[u]
  BY Goes DEF LockInv
<1> QED BY <1>1 DEF MTUInv, mtus

\* A new MTU for a thread to store, and what the thread stores.
LEMMA UpdateMTU ==
  ASSUME LockInv, MTUInv, NEW t \in Threads,
         \/ LoadForce(t) \/ StoreMinMTU(t) \/ SetCapacity(t)
         \/ t = "ble" /\ \E m \in MTUs : HandleMTU(m)
         \/ t = "main" /\ LoadMinMTU
         \/ t = "main" /\ \E f \in ForcedMTUs : ForceMinMTU(f)
  PROVE  MTUInv'
<1>1. {"mtu_set", "mtu_load", "mtu_store", "mtu_lock", "idle"} \subseteq Labels
  <2>1. {"mtu_set", "mtu_load", "mtu_store", "mtu_lock", "idle"} \subseteq Holds("main") \cup Free("main")
    BY MainLabels
  <2> QED BY <2>1, MainLabels DEF Labels
<1> USE DEF Step, At, Goto, MTUInv, LockInv, shared, SmallestMTU, NotifySize, HeaderSize, FullSize
<1>2. CASE LoadForce(t)
  BY <1>1, <1>2 DEF LoadForce
<1>3. CASE StoreMinMTU(t)
  BY <1>1, <1>3 DEF StoreMinMTU, OwnMTU
<1>4. CASE SetCapacity(t)
  BY <1>1, <1>4 DEF SetCapacity, Forget
<1>5. ASSUME NEW m \in MTUs, HandleMTU(m), t = "ble" PROVE MTUInv'
  BY <1>1, <1>5, ConstantsAssumption DEF HandleMTU
<1>6. CASE LoadMinMTU /\ t = "main"
  BY <1>1, <1>6 DEF LoadMinMTU
<1>7. ASSUME NEW f \in ForcedMTUs, ForceMinMTU(f), t = "main" PROVE MTUInv'
  BY <1>1, <1>7, ConstantsAssumption DEF ForceMinMTU
<1> QED BY <1>2, <1>3, <1>4, <1>5, <1>6, <1>7

LEMMA MTUStep == LockInv /\ MTUInv /\ [Next]_vars => MTUInv'
<1> SUFFICES ASSUME LockInv, MTUInv, [Next]_vars PROVE MTUInv'
  OBVIOUS
<1> USE MainLabels, BleLabels, SenderLabels, MTUKept DEF Step, shared, mtus
<1>1. CASE Environment
  <2>1. CASE SendNowImpl \/ Destroy \/ \E n \in 1..MaxPieces : Send(n)
    BY <2>1, Zenon DEF SendNowImpl, Destroy, Send
  <2>2. ASSUME NEW t \in {"main", "sender"}, WakeSpuriously(t) PROVE MTUInv'
    BY <2>2 DEF WakeSpuriously, MTUInv
  <2> QED BY <1>1, <2>1, <2>2, UpdateMTU, Zenon DEF Environment
<1>2. CASE MainLocks
  BY <1>2, Zenon DEF MainLocks, Relock, Acquire
<1>3. CASE MainRuns
  <2>1. CASE Add \/ AddAgain
    BY <2>1, Zenon DEF Add, AddAgain, AddMessage
  <2>2. CASE SendNow \/ WaitFlush
    BY <2>2, Zenon DEF SendNow, WaitFlush, AfterFlush, Block
  <2>3. CASE \/ Release("main", "release", "notify") \/ Release("main", "unlock", "idle")
             \/ Notify("main", "notify_flush", "relock") \/ Notify("main", "notify", "idle")
             \/ Notify("main", "d_notify", "d_join")
    BY <2>3, Zenon DEF Release, Notify
  <2>4. CASE SetStop \/ Join
    BY <2>4, Zenon DEF SetStop, Join
  <2> QED BY <1>3, <2>1, <2>2, <2>3, <2>4, UpdateMTU, Zenon DEF MainRuns
<1>4. CASE BleLocks \/ BleRuns
  BY <1>4, UpdateMTU, Zenon DEF BleLocks, BleRuns, Acquire
<1>5. CASE SenderLocks
  BY <1>5, Zenon DEF SenderLocks, Relock, Acquire
<1>6. CASE SenderRuns
  <2>1. CASE WaitData \/ WaitTimed \/ Timeout
    BY <2>1, Zenon DEF WaitData, WaitTimed, Timeout, Block
  <2>2. CASE SendData \/ Notify("sender", "notify", "lock")
    BY <2>2, Zenon DEF SendData, Notify
  <2>3. CASE Reset
    <3>1. PICK l \in {"notify", "lock"} : Goto("sender", l)
      BY <2>3 DEF Reset
    <3>2. pc'["sender"] = l /\ \A u \in Threads \ {"sender"} : pc'[u] = pc[u]
      BY <3>1, Goes, Zenon DEF LockInv
    <3> QED BY <2>3, <3>1, <3>2 DEF Reset, MTUInv, SmallestMTU, NotifySize, HeaderSize, FullSize
  <2> QED BY <1>6, <2>1, <2>2, <2>3, Zenon DEF SenderRuns
<1>7. CASE UNCHANGED vars
  BY <1>7 DEF vars, MTUInv
<1> QED BY <1>1, <1>2, <1>3, <1>4, <1>5, <1>6, <1>7, Zenon DEF Next

-------------------------------------------------------------------------------
(***************************************************************************)
(* The messages                                                            *)
(***************************************************************************)
\* Messages are in the packet, or sent; between SendData and Reset they are both.
CountInv ==
  /\ flush \in BOOLEAN /\ stop \in BOOLEAN
  /\ packet \in Seq(1..MaxMsgs) /\ wire \in Seq(1..MaxMsgs) /\ used \in Nat
  /\ todo \in 0..MaxPieces /\ accepted \in 0..MaxMsgs /\ settled \in 0..MaxMsgs
  /\ accepted + todo <= MaxMsgs
  /\ pc["main"] \in {"acquire", "add", "add_again"} => todo > 0
  /\ settled + (IF pc["sender"] = "reset" THEN 0 ELSE Len(packet)) = accepted

\* A step that does not add or send a message.
LEMMA CountKept ==
  ASSUME LockInv, CountInv, NEW t \in Threads, NEW l \in Holds(t) \cup Free(t), Goto(t, l),
         t = "main" /\ l \in {"acquire", "add", "add_again"} => todo > 0,
         t = "sender" => pc[t] # "reset" /\ l # "reset",
         flush' \in BOOLEAN, stop' \in BOOLEAN, UNCHANGED <<packet, used, todo, hist>>
  PROVE  CountInv'
<1>1. pc'[t] = l /\ \A u \in Threads \ {t} : pc'[u] = pc[u]
  BY Goes DEF LockInv
<1>2. UNCHANGED <<packet, used, todo, accepted, settled, wire>>
  BY DEF hist
<1>3. pc'["main"] \in {"acquire", "add", "add_again"} => todo > 0
  BY <1>1, MainLabels DEF CountInv
<1>4. pc'["sender"] = "reset" <=> pc["sender"] = "reset"
  BY <1>1, SenderLabels
<1> QED BY <1>2, <1>3, <1>4 DEF CountInv

\* What a message adds to a packet is one of its sizes.
LEMMA AddedSize == Additions \subseteq Sizes
BY DEF Additions

\* One more message in the packet.
LEMMA CountAdd ==
  ASSUME LockInv, CountInv, MTUInv, pc["main"] \in {"add", "add_again"},
         NEW size \in Sizes, AddMessage(size), UNCHANGED <<flush, stop, settled, wire>>
  PROVE  CountInv'
<1>1. PICK l \in {"release", "send_now"} : Goto("main", l)
  BY DEF AddMessage
<1>2. pc'["main"] = l /\ pc'["sender"] = pc["sender"] /\ pc["sender"] # "reset"
  <2>1. pc'["main"] = l /\ pc'["sender"] = pc["sender"]
    BY <1>1, MainLabels, SenderLabels, Goes, Zenon DEF LockInv
  <2>2. owner = "main" /\ "main" # "sender"
    BY MainLabels DEF LockInv, MutexOK
  <2> QED BY <2>1, <2>2, SenderLabels DEF LockInv, MutexOK
<1>3. used' \in Nat
  BY DEF AddMessage, CountInv, MTUInv, Grown, Sizes, HeaderSize, FullSize
<1>4. todo \in 0..MaxPieces /\ todo > 0 /\ accepted \in 0..MaxMsgs /\ accepted + todo <= MaxMsgs
  BY DEF CountInv
<1>5. todo' \in 0..MaxPieces /\ accepted' \in 0..MaxMsgs /\ accepted' + todo' <= MaxMsgs
  BY <1>4, ConstantsAssumption DEF AddMessage
<1>6. packet' \in Seq(1..MaxMsgs) /\ Len(packet') = Len(packet) + 1 /\ accepted' = accepted + 1
  BY <1>4, ConstantsAssumption DEF AddMessage, CountInv
<1>7. settled + Len(packet') = accepted'
  BY <1>2, <1>4, <1>6 DEF CountInv
<1>8. pc'["main"] \notin {"acquire", "add", "add_again"} /\ pc'["sender"] # "reset"
  BY <1>2
<1> QED BY <1>3, <1>5, <1>6, <1>7, <1>8 DEF CountInv

LEMMA CountMainRuns == LockInv /\ MTUInv /\ CountInv /\ MainRuns => CountInv'
<1> SUFFICES ASSUME LockInv, MTUInv, CountInv, MainRuns PROVE CountInv'
  OBVIOUS
<1> USE DEF Step, shared, hist
<1>1. flush \in BOOLEAN /\ stop \in BOOLEAN
  BY DEF CountInv
<1>2. CASE Add
  <2>1. PICK size \in Sizes :
          IF FitsIn(size)
            THEN AddMessage(size)
            ELSE Goto("main", "send_now") /\ UNCHANGED <<packet, used, accepted, todo>>
    BY <1>2, AddedSize, Zenon DEF Add
  <2>2. CASE FitsIn(size)
    BY <1>2, <2>1, <2>2, CountAdd, Zenon DEF Add, At
  <2>3. CASE ~FitsIn(size)
    BY MainLabels, CountKept, <1>1, <1>2, <2>1, <2>3, Zenon DEF Add
  <2> QED BY <2>2, <2>3
<1>3. CASE AddAgain
  <2>1. PICK size \in Sizes :
          IF FitsIn(size)
            THEN AddMessage(size)
            ELSE todo' = 0 /\ Goto("main", "release") /\ UNCHANGED <<packet, used, accepted>>
    BY <1>3, AddedSize, Zenon DEF AddAgain
  <2>2. CASE FitsIn(size)
    BY <1>3, <2>1, <2>2, CountAdd, Zenon DEF AddAgain, At
  <2>3. CASE ~FitsIn(size)
    <3>1. pc'["main"] = "release" /\ pc'["sender"] = pc["sender"]
      <4>1. "release" \in Holds("main") /\ "sender" \in Threads \ {"main"}
        BY MainLabels, SenderLabels
      <4> QED BY <2>1, <2>3, <4>1, MainLabels, Goes, Zenon DEF LockInv
    <3>2. todo' = 0 /\ UNCHANGED <<flush, stop, packet, used, accepted, settled, wire>>
      BY <1>3, <2>1, <2>3 DEF AddAgain
    <3> QED BY <3>1, <3>2, ConstantsAssumption DEF CountInv
  <2> QED BY <2>2, <2>3
<1>4. CASE SendNow \/ WaitFlush
  BY MainLabels, CountKept, <1>1, <1>4, Zenon DEF SendNow, WaitFlush, AfterFlush, Block
<1>5. CASE \/ Release("main", "release", "notify") \/ Release("main", "unlock", "idle")
           \/ Notify("main", "notify_flush", "relock") \/ Notify("main", "notify", "idle")
           \/ Notify("main", "d_notify", "d_join")
  BY MainLabels, CountKept, <1>1, <1>5, Zenon DEF Release, Notify
<1>6. CASE LoadMinMTU \/ LoadForce("main") \/ StoreMinMTU("main")
  BY MainLabels, CountKept, <1>1, <1>6, Zenon DEF LoadMinMTU, LoadForce, StoreMinMTU
<1>7. CASE SetCapacity("main")
  BY MainLabels, CountKept, <1>1, <1>7, Zenon DEF SetCapacity
<1>8. CASE SetStop \/ Join
  BY MainLabels, CountKept, <1>1, <1>8, Zenon DEF SetStop, Join
<1> QED BY <1>2, <1>3, <1>4, <1>5, <1>6, <1>7, <1>8, Zenon DEF MainRuns

LEMMA CountSenderRuns == LockInv /\ MTUInv /\ CountInv /\ SenderRuns => CountInv'
<1> SUFFICES ASSUME LockInv, MTUInv, CountInv, SenderRuns PROVE CountInv'
  OBVIOUS
<1> USE DEF Step, At, shared, hist
<1>1. flush \in BOOLEAN /\ stop \in BOOLEAN
  BY DEF CountInv
<1>2. CASE WaitData \/ WaitTimed
  BY <1>1, <1>2, SenderLabels, CountKept, Zenon DEF WaitData, WaitTimed, Block
<1>3. CASE Timeout \/ Notify("sender", "notify", "lock")
  BY <1>1, <1>3, SenderLabels, CountKept, Zenon DEF Timeout, Notify
<1>4. CASE SendData
  <2>1. CASE stop
    BY <1>1, <1>4, <2>1, SenderLabels, CountKept, Zenon DEF SendData
  <2>2. CASE ~stop
    <3>1. pc'["sender"] = "reset" /\ pc["sender"] = "send" /\ pc'["main"] = pc["main"]
      BY <1>4, <2>2, MainLabels, SenderLabels, Goes, Zenon DEF LockInv, SendData
    <3>2. /\ wire' = wire \o packet /\ settled' = settled + Len(packet)
          /\ UNCHANGED <<flush, stop, packet, used, todo, accepted>>
      BY <1>4, <2>2 DEF SendData
    <3>3. packet \in Seq(1..MaxMsgs) /\ wire \in Seq(1..MaxMsgs) /\ Len(packet) \in Nat
      BY DEF CountInv
    <3>4. wire' \in Seq(1..MaxMsgs)
      BY <3>2, <3>3
    <3> QED BY <3>1, <3>2, <3>3, <3>4 DEF CountInv
  <2> QED BY <2>1, <2>2
<1>5. CASE Reset
  <2>1. PICK l \in {"notify", "lock"} : Goto("sender", l)
    BY <1>5 DEF Reset
  <2>2. pc'["sender"] = l /\ pc["sender"] = "reset" /\ pc'["main"] = pc["main"]
    BY <1>5, <2>1, MainLabels, SenderLabels, Goes, Zenon DEF LockInv, Reset
  <2>3. packet' = <<>> /\ used' = 0 /\ flush' = FALSE /\ UNCHANGED <<stop, todo, hist>>
    BY <1>5 DEF Reset
  <2>4. packet' \in Seq(1..MaxMsgs) /\ Len(packet') = 0
    BY <2>3
  <2>5. pc'["sender"] # "reset" /\ settled = accepted /\ settled' = settled /\ accepted' = accepted
    BY <2>2, <2>3 DEF CountInv
  <2>6. settled' + (IF pc'["sender"] = "reset" THEN 0 ELSE Len(packet')) = accepted'
    BY <2>4, <2>5 DEF CountInv
  <2> QED BY <2>2, <2>3, <2>4, <2>6 DEF CountInv
<1> QED BY <1>2, <1>3, <1>4, <1>5, Zenon DEF SenderRuns

LEMMA CountStep == LockInv /\ MTUInv /\ CountInv /\ [Next]_vars => CountInv'
<1> SUFFICES ASSUME LockInv, MTUInv, CountInv, [Next]_vars PROVE CountInv'
  OBVIOUS
<1> USE MainLabels, BleLabels, SenderLabels, CountKept DEF Step, At, shared, hist
<1>1. flush \in BOOLEAN /\ stop \in BOOLEAN
  BY DEF CountInv
<1>2. CASE Environment
  <2>1. ASSUME NEW n \in 1..MaxPieces, Send(n) PROVE CountInv'
    <3>1. pc'["main"] = "acquire" /\ pc'["sender"] = pc["sender"]
      BY <2>1, Goes, Zenon DEF LockInv, Send
    <3>2. /\ todo' = n /\ accepted + n <= MaxMsgs
          /\ UNCHANGED <<flush, stop, packet, used, accepted, settled, wire>>
      BY <2>1 DEF Send
    <3> QED BY <3>1, <3>2, ConstantsAssumption DEF CountInv
  <2>2. CASE \/ SendNowImpl \/ Destroy \/ \E m \in MTUs : HandleMTU(m)
             \/ \E f \in ForcedMTUs : ForceMinMTU(f)
    BY <1>1, <2>2, Zenon DEF SendNowImpl, Destroy, HandleMTU, ForceMinMTU
  <2>3. ASSUME NEW t \in {"main", "sender"}, WakeSpuriously(t) PROVE CountInv'
    BY <2>3 DEF WakeSpuriously, CountInv
  <2> QED BY <1>2, <2>1, <2>2, <2>3, Zenon DEF Environment
<1>3. CASE MainLocks
  <2>1. pc["main"] = "acquire" => todo > 0
    BY DEF CountInv
  <2> QED BY <1>1, <1>3, <2>1, Zenon DEF MainLocks, Relock, Acquire
<1>4. CASE BleLocks \/ BleRuns
  BY <1>1, <1>4, Zenon DEF BleLocks, BleRuns, Acquire, LoadForce, StoreMinMTU, SetCapacity
<1>5. CASE SenderLocks
  BY <1>1, <1>5, Zenon DEF SenderLocks, Relock, Acquire
<1>6. CASE UNCHANGED vars
  BY <1>6 DEF vars, CountInv
<1> QED BY <1>2, <1>3, <1>4, <1>5, <1>6, CountMainRuns, CountSenderRuns, Zenon DEF Next

-------------------------------------------------------------------------------
(***************************************************************************)
(* The condition variable                                                  *)
(***************************************************************************)
Flushing  == {"notify_flush", "relock", "blocked", "wait_flush"}
Notifying == {"send_now", "release", "notify", "notify_flush", "d_notify"}
Stopped   == {"d_notify", "d_join", "dead"}

\* Who is among the waiters has called wait.
WaitersOK ==
  /\ waiters \subseteq {"main", "sender"}
  /\ "main" \in waiters => pc["main"] = "blocked"
  /\ "sender" \in waiters => pc["sender"] \in {"blocked", "timed_blocked"}

\* The packet stays empty from the end of the flush to the second attempt.
FlushOK ==
  /\ pc["main"] \in Flushing /\ ~flush => used = 0
  /\ pc["main"] = "add_again" => used = 0

\* After the stop signal the main program does nothing but join.
StopOK == stop => pc["main"] \in Stopped

WakeInv == WaitersOK /\ FlushOK /\ StopOK /\ NoLostWakeup

\* A thread goes on; it may have been woken, or have woken the other one.
LEMMA WakeKept ==
  ASSUME LockInv, WakeInv, NEW t \in Threads, NEW l \in Holds(t) \cup Free(t), Goto(t, l),
         UNCHANGED <<flush, stop, used>>, waiters' \subseteq waiters,
         l \notin {"blocked", "timed_blocked"},
         pc[t] \in {"blocked", "timed_blocked"} => t \notin waiters',
         t = "main" => /\ pc[t] \in Stopped => l \in Stopped
                       /\ l \in Flushing => pc[t] \in Flushing
                       /\ l = "add_again" => used = 0
                       /\ pc[t] \in Notifying => \/ "sender" \notin waiters'
                                                 \/ pc[t] = "release" /\ l = "notify",
         t = "sender" /\ pc[t] = "notify" => "main" \notin waiters'
  PROVE  WakeInv'
<1>1. pc'[t] = l /\ \A u \in Threads \ {t} : pc'[u] = pc[u]
  BY Goes DEF LockInv
<1>2. "main" \in Threads /\ "sender" \in Threads
  BY DEF Threads
<1>3. WaitersOK'
  BY <1>1, <1>2, Zenon DEF WaitersOK, WakeInv
<1>4. StopOK'
  BY <1>1, <1>2 DEF StopOK, WakeInv
<1>5. FlushOK'
  BY <1>1, <1>2 DEF FlushOK, WakeInv
<1>6. SenderIsWoken'
  BY <1>1, <1>2 DEF SenderIsWoken, NoLostWakeup, WakeInv, At, Notifying
<1>7. FlushIsSeen'
  BY <1>1, <1>2 DEF FlushIsSeen, NoLostWakeup, WakeInv, At, Notifying
<1>8. FlushEndIsSeen'
  BY <1>1, <1>2 DEF FlushEndIsSeen, NoLostWakeup, WakeInv, At
<1> QED BY <1>3, <1>4, <1>5, <1>6, <1>7, <1>8 DEF WakeInv, NoLostWakeup

\* At most one thread waits when the other one notifies, so that it is the one woken.
LEMMA NotifyWakes ==
  ASSUME WakeInv, NEW k, NEW l
  PROVE  /\ Notify("main", k, l) /\ k # "blocked"
              => waiters' \subseteq waiters /\ "sender" \notin waiters'
         /\ Notify("sender", k, l) /\ k # "blocked" /\ k # "timed_blocked"
              => waiters' \subseteq waiters /\ "main" \notin waiters'
BY DEF WakeInv, WaitersOK, Notify, Step, At

LEMMA WakeMainRuns == LockInv /\ CountInv /\ WakeInv /\ MainRuns => WakeInv'
<1> SUFFICES ASSUME LockInv, CountInv, WakeInv, MainRuns PROVE WakeInv'
  OBVIOUS
<1> USE DEF Step, At, sync, shared, Stopped, Flushing, Notifying
<1>1. CASE Add
  <2>1. PICK l \in {"release", "send_now"} : Goto("main", l)
    BY <1>1, Zenon DEF Add, AddMessage
  <2>2. pc["main"] = "add" /\ pc'["main"] = l /\ pc'["sender"] = pc["sender"]
    BY <1>1, <2>1, MainLabels, SenderLabels, Goes, Zenon DEF Add, LockInv
  <2> QED BY <1>1, <2>2 DEF Add, WakeInv, WaitersOK, FlushOK, StopOK, NoLostWakeup,
                            SenderIsWoken, FlushIsSeen, FlushEndIsSeen
<1>2. CASE AddAgain
  <2>1. PICK l \in {"release", "send_now"} : Goto("main", l)
    BY <1>2, Zenon DEF AddAgain, AddMessage
  <2>2. pc["main"] = "add_again" /\ pc'["main"] = l /\ pc'["sender"] = pc["sender"]
    BY <1>2, <2>1, MainLabels, SenderLabels, Goes, Zenon DEF AddAgain, LockInv
  <2> QED BY <1>2, <2>2 DEF AddAgain, WakeInv, WaitersOK, FlushOK, StopOK, NoLostWakeup,
                            SenderIsWoken, FlushIsSeen, FlushEndIsSeen
<1>3. CASE SendNow
  <2>1. PICK l \in {"add_again", "unlock", "notify_flush"} :
          /\ Goto("main", l)
          /\ l # "notify_flush" => used = 0 /\ flush' = flush
          /\ l = "notify_flush" => flush' = TRUE
    BY <1>3, Zenon DEF SendNow, AfterFlush
  <2>2. pc["main"] = "send_now" /\ pc'["main"] = l /\ pc'["sender"] = pc["sender"]
    BY <1>3, <2>1, MainLabels, SenderLabels, Goes, Zenon DEF SendNow, LockInv
  <2> QED BY <1>3, <2>1, <2>2 DEF SendNow, WakeInv, WaitersOK, FlushOK, StopOK, NoLostWakeup,
                                  SenderIsWoken, FlushIsSeen, FlushEndIsSeen
<1>4. CASE WaitFlush
  <2>1. CASE flush
    <3>1. pc["main"] = "wait_flush" /\ pc'["main"] = "blocked" /\ pc'["sender"] = pc["sender"]
      BY <1>4, <2>1, MainLabels, SenderLabels, Goes, Zenon DEF WaitFlush, Block, LockInv
    <3> QED BY <1>4, <2>1, <3>1 DEF WaitFlush, Block, WakeInv, WaitersOK, FlushOK, StopOK,
                                    NoLostWakeup, SenderIsWoken, FlushIsSeen, FlushEndIsSeen
  <2>2. CASE ~flush
    <3>1. used = 0
      BY <1>4, <2>2 DEF WaitFlush, WakeInv, FlushOK
    <3> QED BY <1>4, <2>2, <3>1, MainLabels, WakeKept, Zenon DEF WaitFlush, AfterFlush
  <2> QED BY <2>1, <2>2
<1>5. CASE Release("main", "release", "notify") \/ Release("main", "unlock", "idle")
  BY <1>5, MainLabels, WakeKept, Zenon DEF Release
<1>6. CASE Notify("main", "notify_flush", "relock") \/ Notify("main", "notify", "idle")
           \/ Notify("main", "d_notify", "d_join")
  <2>1. waiters' \subseteq waiters /\ "sender" \notin waiters'
    BY <1>6, NotifyWakes, Zenon
  <2> QED BY <1>6, <2>1, MainLabels, WakeKept, Zenon DEF Notify
<1>7. CASE LoadMinMTU \/ LoadForce("main") \/ StoreMinMTU("main") \/ SetCapacity("main")
  BY <1>7, MainLabels, WakeKept, Zenon DEF LoadMinMTU, LoadForce, StoreMinMTU, SetCapacity
<1>8. CASE SetStop
  <2>1. pc["main"] = "d_stop" /\ pc'["main"] = "d_notify" /\ pc'["sender"] = pc["sender"]
    BY <1>8, MainLabels, SenderLabels, Goes, Zenon DEF SetStop, LockInv
  <2> QED BY <1>8, <2>1 DEF SetStop, WakeInv, WaitersOK, FlushOK, StopOK, NoLostWakeup,
                            SenderIsWoken, FlushIsSeen, FlushEndIsSeen
<1>9. CASE Join
  BY <1>9, MainLabels, WakeKept, Zenon DEF Join
<1> QED BY <1>1, <1>2, <1>3, <1>4, <1>5, <1>6, <1>7, <1>8, <1>9 DEF MainRuns

LEMMA WakeSenderRuns == LockInv /\ CountInv /\ WakeInv /\ SenderRuns => WakeInv'
<1> SUFFICES ASSUME LockInv, CountInv, WakeInv, SenderRuns PROVE WakeInv'
  OBVIOUS
<1> USE DEF Step, At, sync, shared, Stopped, Flushing, Notifying
<1>1. CASE WaitData
  <2>1. CASE used > 0 \/ stop
    BY <1>1, <2>1, SenderLabels, WakeKept, Zenon DEF WaitData
  <2>2. CASE ~(used > 0 \/ stop)
    <3>1. pc["sender"] = "wait" /\ pc'["sender"] = "blocked" /\ pc'["main"] = pc["main"]
      BY <1>1, <2>2, MainLabels, SenderLabels, Goes, Zenon DEF WaitData, Block, LockInv
    <3> QED BY <1>1, <2>2, <3>1 DEF WaitData, Block, WakeInv, WaitersOK, FlushOK, StopOK,
                                    NoLostWakeup, SenderIsWoken, FlushIsSeen, FlushEndIsSeen
  <2> QED BY <2>1, <2>2
<1>2. CASE WaitTimed
  <2>1. CASE flush
    BY <1>2, <2>1, SenderLabels, WakeKept, Zenon DEF WaitTimed
  <2>2. CASE ~flush
    <3>1. pc["sender"] = "timed" /\ pc'["sender"] = "timed_blocked" /\ pc'["main"] = pc["main"]
      BY <1>2, <2>2, MainLabels, SenderLabels, Goes, Zenon DEF WaitTimed, Block, LockInv
    <3> QED BY <1>2, <2>2, <3>1 DEF WaitTimed, Block, WakeInv, WaitersOK, FlushOK, StopOK,
                                    NoLostWakeup, SenderIsWoken, FlushIsSeen, FlushEndIsSeen
  <2> QED BY <2>1, <2>2
<1>3. CASE Timeout
  <2>1. waiters' \subseteq waiters /\ "sender" \notin waiters'
    BY <1>3 DEF Timeout
  <2> QED BY <1>3, <2>1, SenderLabels, WakeKept, Zenon DEF Timeout
<1>4. CASE SendData
  BY <1>4, SenderLabels, WakeKept, Zenon DEF SendData
<1>5. CASE Reset
  <2> DEFINE l == IF flush THEN "notify" ELSE "lock"
  <2>1. Goto("sender", l) /\ l \in Free("sender")
    <3>1. Goto("sender", l)
      BY <1>5 DEF Reset, Goto
    <3>2. l \in Free("sender")
      BY SenderLabels
    <3> QED BY <3>1, <3>2
  <2> HIDE DEF l
  <2>2. pc["sender"] = "reset" /\ pc'["sender"] = l /\ pc'["main"] = pc["main"]
    BY <1>5, <2>1, MainLabels, SenderLabels, Goes, Zenon DEF Reset, LockInv
  <2> QED BY <1>5, <2>2 DEF l, Reset, WakeInv, WaitersOK, FlushOK, StopOK, NoLostWakeup,
                                  SenderIsWoken, FlushIsSeen, FlushEndIsSeen
<1>6. CASE Notify("sender", "notify", "lock")
  <2>1. waiters' \subseteq waiters /\ "main" \notin waiters'
    BY <1>6, NotifyWakes, Zenon
  <2>2. /\ Goto("sender", "lock") /\ pc["sender"] = "notify" /\ "lock" \in Free("sender")
        /\ UNCHANGED <<flush, stop, used>>
    BY <1>6, SenderLabels DEF Notify
  <2> QED BY <2>1, <2>2, SenderLabels, WakeKept, Zenon
<1> QED BY <1>1, <1>2, <1>3, <1>4, <1>5, <1>6 DEF SenderRuns

LEMMA WakeStep == LockInv /\ CountInv /\ WakeInv /\ [Next]_vars => WakeInv'
<1> SUFFICES ASSUME LockInv, CountInv, WakeInv, [Next]_vars PROVE WakeInv'
  OBVIOUS
<1> USE DEF Step, At, sync, shared, Stopped, Flushing, Notifying
<1>1. CASE Environment
  <2>1. CASE SendNowImpl \/ Destroy \/ \E n \in 1..MaxPieces : Send(n)
    BY <2>1, MainLabels, WakeKept, Zenon DEF SendNowImpl, Destroy, Send
  <2>2. CASE \E m \in MTUs : HandleMTU(m)
    BY <2>2, BleLabels, WakeKept, Zenon DEF HandleMTU
  <2>3. CASE \E f \in ForcedMTUs : ForceMinMTU(f)
    BY <2>3, MainLabels, WakeKept, Zenon DEF ForceMinMTU
  <2>4. ASSUME NEW t \in {"main", "sender"}, WakeSpuriously(t) PROVE WakeInv'
    BY <2>4 DEF WakeSpuriously, WakeInv, WaitersOK, FlushOK, StopOK, NoLostWakeup,
                SenderIsWoken, FlushIsSeen, FlushEndIsSeen
  <2> QED BY <1>1, <2>1, <2>2, <2>3, <2>4, Zenon DEF Environment
<1>2. CASE MainLocks
  BY <1>2, MainLabels, WakeKept, Zenon DEF MainLocks, Relock, Acquire
<1>3. CASE BleLocks \/ BleRuns
  BY <1>3, BleLabels, WakeKept, Zenon
     DEF BleLocks, BleRuns, Acquire, LoadForce, StoreMinMTU, SetCapacity
<1>4. CASE SenderLocks
  BY <1>4, SenderLabels, WakeKept, Zenon DEF SenderLocks, Relock, Acquire
<1>5. CASE UNCHANGED vars
  BY <1>5 DEF vars, WakeInv, WaitersOK, FlushOK, StopOK, NoLostWakeup,
              SenderIsWoken, FlushIsSeen, FlushEndIsSeen
<1> QED BY <1>1, <1>2, <1>3, <1>4, <1>5, WakeMainRuns, WakeSenderRuns DEF Next

-------------------------------------------------------------------------------
(***************************************************************************)
(* The capacity                                                            *)
(***************************************************************************)
Updating == {"mtu_lock", "mtu_set"}

\* A step that is not part of an update of the MTU.
LEMMA CapacityKept ==
  ASSUME LockInv, CapacityFollowsMTU, NEW t \in Threads,
         NEW l \in Holds(t) \cup Free(t), Goto(t, l),
         pc[t] \in Updating => l \in Updating,
         UNCHANGED <<used, capacity, minMTU>>
  PROVE  CapacityFollowsMTU'
<1>1. pc'[t] = l /\ \A u \in Threads \ {t} : pc'[u] = pc[u]
  BY Goes DEF LockInv
<1> QED BY <1>1 DEF CapacityFollowsMTU, Updating

\* A packet that is not empty has its old capacity.
LEMMA CapacityAdd ==
  ASSUME MTUInv, CountInv, NEW size \in Sizes, AddMessage(size)
  PROVE  CapacityFollowsMTU'
<1>1. used' > 0
  BY DEF MTUInv, CountInv, AddMessage, Grown, Sizes, SmallestMTU, HeaderSize, FullSize, NotifySize
<1> QED BY <1>1 DEF CapacityFollowsMTU

\* Updates of the MTU, from the value stored to the capacity set.
LEMMA CapacityUpdate ==
  ASSUME LockInv, CapacityFollowsMTU, NEW t \in {"main", "ble"},
         LoadForce(t) \/ StoreMinMTU(t) \/ SetCapacity(t)
  PROVE  CapacityFollowsMTU'
<1> USE DEF Step, At, shared
<1>1. {"idle", "mtu_lock", "mtu_store", "mtu_set"} \subseteq Holds(t) \cup Free(t) /\ t \in Threads
  BY MainLabels, BleLabels
<1>2. CASE LoadForce(t)
  BY <1>1, <1>2, CapacityKept, Zenon DEF LoadForce, Updating
<1>3. CASE StoreMinMTU(t)
  <2>1. pc'[t] = "mtu_lock"
    BY <1>1, <1>3, Goes, Zenon DEF LockInv, StoreMinMTU
  <2> QED BY <1>1, <2>1 DEF CapacityFollowsMTU
<1>4. CASE SetCapacity(t)
  BY <1>4 DEF SetCapacity, CapacityFollowsMTU
<1> QED BY <1>2, <1>3, <1>4

LEMMA CapacityStep == LockInv /\ MTUInv /\ CountInv /\ CapacityFollowsMTU /\ [Next]_vars
                        => CapacityFollowsMTU'
<1> SUFFICES ASSUME LockInv, MTUInv, CountInv, CapacityFollowsMTU, [Next]_vars
             PROVE  CapacityFollowsMTU'
  OBVIOUS
<1> USE DEF Step, At, shared, mtus, Updating
<1>1. CASE Environment
  <2>1. CASE SendNowImpl \/ Destroy \/ \E n \in 1..MaxPieces : Send(n)
    BY <2>1, MainLabels, CapacityKept, Zenon DEF SendNowImpl, Destroy, Send
  <2>2. CASE \E m \in MTUs : HandleMTU(m)
    BY <2>2, BleLabels, CapacityKept, Zenon DEF HandleMTU
  <2>3. CASE \E f \in ForcedMTUs : ForceMinMTU(f)
    BY <2>3, MainLabels, CapacityKept, Zenon DEF ForceMinMTU
  <2>4. ASSUME NEW t \in {"main", "sender"}, WakeSpuriously(t) PROVE CapacityFollowsMTU'
    BY <2>4 DEF WakeSpuriously, CapacityFollowsMTU
  <2> QED BY <1>1, <2>1, <2>2, <2>3, <2>4, Zenon DEF Environment
<1>2. CASE MainLocks
  BY <1>2, MainLabels, CapacityKept, Zenon DEF MainLocks, Relock, Acquire
<1>3. CASE MainRuns
  <2>1. ASSUME NEW size \in Sizes, AddMessage(size) PROVE CapacityFollowsMTU'
    BY <2>1, CapacityAdd
  <2>2. CASE Add
    BY <2>1, <2>2, AddedSize, MainLabels, CapacityKept, Zenon DEF Add
  <2>3. CASE AddAgain
    BY <2>1, <2>3, AddedSize, MainLabels, CapacityKept, Zenon DEF AddAgain
  <2>4. CASE SendNow \/ WaitFlush
    BY <2>4, MainLabels, CapacityKept, Zenon DEF SendNow, WaitFlush, AfterFlush, Block
  <2>5. CASE \/ Release("main", "release", "notify") \/ Release("main", "unlock", "idle")
             \/ Notify("main", "notify_flush", "relock") \/ Notify("main", "notify", "idle")
             \/ Notify("main", "d_notify", "d_join")
    BY <2>5, MainLabels, CapacityKept, Zenon DEF Release, Notify
  <2>6. CASE LoadMinMTU \/ SetStop \/ Join
    BY <2>6, MainLabels, CapacityKept, Zenon DEF LoadMinMTU, SetStop, Join
  <2> QED BY <1>3, <2>2, <2>3, <2>4, <2>5, <2>6, CapacityUpdate, Zenon DEF MainRuns
<1>4. CASE BleLocks
  BY <1>4, BleLabels, CapacityKept, Zenon DEF BleLocks, Acquire
<1>5. CASE BleRuns
  BY <1>5, CapacityUpdate, Zenon DEF BleRuns
<1>6. CASE SenderLocks
  BY <1>6, SenderLabels, CapacityKept, Zenon DEF SenderLocks, Relock, Acquire
<1>7. CASE SenderRuns
  <2>1. CASE WaitData \/ WaitTimed \/ Timeout
    BY <2>1, SenderLabels, CapacityKept, Zenon DEF WaitData, WaitTimed, Timeout, Block
  <2>2. CASE SendData \/ Notify("sender", "notify", "lock")
    BY <2>2, SenderLabels, CapacityKept, Zenon DEF SendData, Notify
  <2>3. CASE Reset
    BY <2>3 DEF Reset, CapacityFollowsMTU
  <2> QED BY <1>7, <2>1, <2>2, <2>3 DEF SenderRuns
<1>8. CASE UNCHANGED vars
  BY <1>8 DEF vars, CapacityFollowsMTU
<1> QED BY <1>1, <1>2, <1>3, <1>4, <1>5, <1>6, <1>7, <1>8, Zenon DEF Next

-------------------------------------------------------------------------------
(***************************************************************************)
(* The bytes of the packet                                                 *)
(***************************************************************************)
LargestMTU == Max(MTUs \cup {DefaultMTU})

\* Every set of numbers from an interval of length w has a largest one.
HasLargest(w) ==
  \A a \in Nat : \A S \in SUBSET (a..(a + w - 1)) :
    S # {} => \E x \in S : \A y \in S : x >= y

\* It is in the upper half of the interval, or the upper half is empty.
LEMMA LargestInHalf ==
  ASSUME NEW w \in Nat, HasLargest(w)
  PROVE  HasLargest(w + w)
<1> SUFFICES ASSUME NEW a \in Nat, NEW S \in SUBSET (a..(a + (w + w) - 1)), S # {}
             PROVE  \E x \in S : \A y \in S : x >= y
  BY DEF HasLargest
<1> DEFINE U == S \cap ((a + w)..((a + w) + w - 1))
<1>1. CASE U # {}
  <2>1. PICK x \in U : \A y \in U : x >= y
    <3>1. a + w \in Nat /\ U \in SUBSET ((a + w)..((a + w) + w - 1))
      OBVIOUS
    <3> HIDE DEF U
    <3> QED BY <1>1, <3>1 DEF HasLargest
  <2>2. \A y \in S : y \notin U => y < a + w
    OBVIOUS
  <2>3. x \in S /\ x >= a + w
    BY <2>1
  <2> QED BY <2>1, <2>2, <2>3
<1>2. CASE U = {}
  <2>1. S \in SUBSET (a..(a + w - 1))
    BY <1>2
  <2> QED BY <2>1 DEF HasLargest
<1> QED BY <1>1, <1>2

LEMMA LargestOf16Bits == HasLargest(65536)
<1>1. HasLargest(1)
  <2> SUFFICES ASSUME NEW a \in Nat, NEW S \in SUBSET (a..(a + 1 - 1)), S # {}
               PROVE  \E x \in S : \A y \in S : x >= y
    BY DEF HasLargest
  <2>1. PICK x \in S : TRUE
    OBVIOUS
  <2>2. \A y \in S : y = a
    <3>1. \A y \in a..(a + 1 - 1) : y = a
      OBVIOUS
    <3> QED BY <3>1
  <2>3. a >= a
    OBVIOUS
  <2> QED BY <2>1, <2>2, <2>3
<1>2. HasLargest(1 + 1)
  BY <1>1, LargestInHalf
<1>3. HasLargest(2 + 2)
  <2>1. HasLargest(2)
    BY <1>2
  <2> QED BY <2>1, LargestInHalf
<1>4. HasLargest(4 + 4)
  <2>1. HasLargest(4)
    BY <1>3
  <2> QED BY <2>1, LargestInHalf
<1>5. HasLargest(8 + 8)
  <2>1. HasLargest(8)
    BY <1>4
  <2> QED BY <2>1, LargestInHalf
<1>6. HasLargest(16 + 16)
  <2>1. HasLargest(16)
    BY <1>5
  <2> QED BY <2>1, LargestInHalf
<1>7. HasLargest(32 + 32)
  <2>1. HasLargest(32)
    BY <1>6
  <2> QED BY <2>1, LargestInHalf
<1>8. HasLargest(64 + 64)
  <2>1. HasLargest(64)
    BY <1>7
  <2> QED BY <2>1, LargestInHalf
<1>9. HasLargest(128 + 128)
  <2>1. HasLargest(128)
    BY <1>8
  <2> QED BY <2>1, LargestInHalf
<1>10. HasLargest(256 + 256)
  <2>1. HasLargest(256)
    BY <1>9
  <2> QED BY <2>1, LargestInHalf
<1>11. HasLargest(512 + 512)
  <2>1. HasLargest(512)
    BY <1>10
  <2> QED BY <2>1, LargestInHalf
<1>12. HasLargest(1024 + 1024)
  <2>1. HasLargest(1024)
    BY <1>11
  <2> QED BY <2>1, LargestInHalf
<1>13. HasLargest(2048 + 2048)
  <2>1. HasLargest(2048)
    BY <1>12
  <2> QED BY <2>1, LargestInHalf
<1>14. HasLargest(4096 + 4096)
  <2>1. HasLargest(4096)
    BY <1>13
  <2> QED BY <2>1, LargestInHalf
<1>15. HasLargest(8192 + 8192)
  <2>1. HasLargest(8192)
    BY <1>14
  <2> QED BY <2>1, LargestInHalf
<1>16. HasLargest(16384 + 16384)
  <2>1. HasLargest(16384)
    BY <1>15
  <2> QED BY <2>1, LargestInHalf
<1>17. HasLargest(32768 + 32768)
  <2>1. HasLargest(32768)
    BY <1>16
  <2> QED BY <2>1, LargestInHalf
<1> QED BY <1>17

\* There is a largest MTU.
LEMMA LargestExists ==
  /\ LargestMTU \in Nat /\ LargestMTU >= DefaultMTU
  /\ \A m \in MTUs : m <= LargestMTU
<1>1. PICK S : S = MTUs \cup {23}
  OBVIOUS
<1>2. PICK w \in Nat : w = 65536
  OBVIOUS
<1>3. \E x \in S : \A y \in S : x >= y
  <2>1. \A m \in S : m \in Nat /\ m < w
    BY <1>1, <1>2, ConstantsAssumption
  <2>2. \A m \in Nat : m < w => m \in 0..(0 + w - 1)
    OBVIOUS
  <2>3. S \in SUBSET (0..(0 + w - 1)) /\ S # {}
    BY <1>1, <2>1, <2>2, Zenon
  <2>4. HasLargest(w)
    BY <1>2, LargestOf16Bits
  <2> QED BY <2>3, <2>4 DEF HasLargest
<1>4. Max(S) \in S /\ \A y \in S : Max(S) >= y
  BY <1>3, Zenon DEF Max
<1>5. LargestMTU = Max(S)
  BY <1>1 DEF LargestMTU, DefaultMTU
<1>6. S \subseteq Nat /\ 23 \in S /\ MTUs \subseteq S
  BY <1>1, ConstantsAssumption
<1> HIDE DEF LargestMTU
<1>7. LargestMTU \in Nat /\ \A m \in S : LargestMTU >= m
  BY <1>4, <1>5, <1>6
<1>8. \A m \in S : m <= LargestMTU
  BY <1>6, <1>7
<1> QED BY <1>6, <1>7, <1>8 DEF DefaultMTU

\* Every MTU that is stored somewhere is one that a client negotiated, or less;
\* the first message in the packet takes two bytes or more, the others one or more,
\* and they fit.
SizeOK ==
  /\ minMTU <= LargestMTU /\ capacity <= LargestMTU - NotifySize
  /\ \A t \in Threads : mtu[t] <= LargestMTU
  /\ used <= capacity
  /\ IF packet = <<>> THEN used = 0 ELSE HeaderSize + 1 + Len(packet) <= used

\* A message that fits keeps the packet within its capacity.
LEMMA SizeAdd ==
  ASSUME MTUInv, CountInv, SizeOK, NEW size \in Additions, FitsIn(size), AddMessage(size),
         UNCHANGED <<minMTU, mtu, capacity>>
  PROVE  SizeOK'
<1>1. PICK n \in Nat, c \in Nat, u \in Nat : n = Len(packet) /\ c = capacity /\ u = used
  BY DEF MTUInv, CountInv
<1>2. Len(packet') = n + 1
  BY <1>1 DEF AddMessage, CountInv
<1>3. used' = IF todo > 1 THEN c ELSE IF u = 0 THEN 1 + size ELSE u + size
  BY <1>1 DEF AddMessage, Grown, HeaderSize
<1>4. (IF todo > 1 THEN (IF u = 0 THEN 3 ELSE u + 2)
                   ELSE (IF u = 0 THEN 1 + size ELSE u + size)) <= c
  BY <1>1 DEF FitsIn, Grown, HeaderSize
<1>5. size \in 1..4 /\ (u = 0 => size > 1)
  BY <1>1 DEF Additions, Sizes, FullSize
<1>6. (n > 0 => 2 + n <= u) /\ (n = 0 => u = 0)
  <2>1. (n > 0 => packet # <<>>) /\ (n = 0 => packet = <<>>)
    BY <1>1 DEF CountInv
  <2> QED BY <1>1, <2>1 DEF SizeOK, HeaderSize
<1>7. 2 + (n + 1) <= used' /\ used' <= c
  BY <1>3, <1>4, <1>5, <1>6
<1> QED BY <1>1, <1>2, <1>7 DEF SizeOK, HeaderSize

\* A step that neither adds a message nor has to do with the MTU.
LEMMA SizeKept ==
  ASSUME SizeOK, UNCHANGED <<minMTU, mtu, capacity, used, packet>>
  PROVE  SizeOK'
<1> QED BY DEF SizeOK

\* Updates of the MTU by either thread.
LEMMA SizeUpdate ==
  ASSUME MTUInv, CountInv, SizeOK, NEW t \in Threads,
         \/ LoadForce(t) \/ StoreMinMTU(t) \/ SetCapacity(t)
         \/ \E m \in MTUs : HandleMTU(m)
         \/ LoadMinMTU
  PROVE  SizeOK'
<1>1. CASE LoadForce(t)
  BY <1>1, SizeKept DEF LoadForce, shared
<1>2. CASE StoreMinMTU(t)
  <2>1. OwnMTU(t) <= LargestMTU
    BY LargestExists DEF OwnMTU, SizeOK, MTUInv
  <2> QED BY <1>2, <2>1 DEF StoreMinMTU, SizeOK, shared
<1>3. CASE SetCapacity(t)
  <2>1. /\ capacity' = IF used = 0 THEN minMTU - NotifySize ELSE capacity
        /\ mtu' = [mtu EXCEPT ![t] = 0]
        /\ UNCHANGED <<packet, used, minMTU>>
    BY <1>3 DEF SetCapacity, Forget
  <2>2. \A u \in Threads : mtu'[u] <= LargestMTU
    BY <2>1, LargestExists DEF MTUInv, SizeOK, DefaultMTU
  <2>3. used' <= capacity' /\ capacity' <= LargestMTU - NotifySize
    BY <2>1, LargestExists
    DEF MTUInv, SizeOK, CountInv, SmallestMTU, NotifySize, HeaderSize, FullSize
  <2> QED BY <2>1, <2>2, <2>3 DEF SizeOK
<1>4. ASSUME NEW m \in MTUs, HandleMTU(m) PROVE SizeOK'
  <2>1. mtu' = [mtu EXCEPT !["ble"] = m] /\ UNCHANGED <<minMTU, capacity, used, packet>>
    BY <1>4 DEF HandleMTU, shared
  <2>2. \A u \in Threads : mtu'[u] <= LargestMTU
    BY <2>1, LargestExists DEF MTUInv, SizeOK
  <2> QED BY <2>1, <2>2 DEF SizeOK
<1>5. CASE LoadMinMTU
  <2>1. mtu' = [mtu EXCEPT !["main"] = minMTU] /\ UNCHANGED <<minMTU, capacity, used, packet>>
    BY <1>5 DEF LoadMinMTU, shared
  <2>2. \A u \in Threads : mtu'[u] <= LargestMTU
    BY <2>1 DEF MTUInv, SizeOK
  <2> QED BY <2>1, <2>2 DEF SizeOK
<1> QED BY <1>1, <1>2, <1>3, <1>4, <1>5

LEMMA SizeStep == MTUInv /\ CountInv /\ SizeOK /\ [Next]_vars => SizeOK'
<1> SUFFICES ASSUME MTUInv, CountInv, SizeOK, [Next]_vars PROVE SizeOK'
  OBVIOUS
<1> USE DEF shared, mtus
<1>1. CASE Environment
  <2>1. CASE \/ SendNowImpl \/ Destroy \/ \E n \in 1..MaxPieces : Send(n)
             \/ \E f \in ForcedMTUs : ForceMinMTU(f)
             \/ \E t \in {"main", "sender"} : WakeSpuriously(t)
    BY <2>1, SizeKept, Zenon DEF SendNowImpl, Destroy, Send, ForceMinMTU, WakeSpuriously
  <2> QED BY <1>1, <2>1, MainLabels, SizeUpdate, Zenon DEF Environment
<1>2. CASE MainLocks \/ BleLocks \/ SenderLocks
  BY <1>2, SizeKept, Zenon DEF MainLocks, BleLocks, SenderLocks, Relock, Acquire
<1>3. CASE Add
  <2>1. PICK size \in Additions :
          IF FitsIn(size)
            THEN AddMessage(size)
            ELSE Goto("main", "send_now") /\ UNCHANGED <<packet, used, accepted, todo>>
    BY <1>3, Zenon DEF Add
  <2>2. UNCHANGED <<minMTU, mtu, capacity>>
    BY <1>3 DEF Add
  <2> QED BY <2>1, <2>2, SizeAdd, SizeKept
<1>4. CASE AddAgain
  <2>1. PICK size \in Additions :
          IF FitsIn(size)
            THEN AddMessage(size)
            ELSE todo' = 0 /\ Goto("main", "release") /\ UNCHANGED <<packet, used, accepted>>
    BY <1>4, Zenon DEF AddAgain
  <2>2. UNCHANGED <<minMTU, mtu, capacity>>
    BY <1>4 DEF AddAgain
  <2> QED BY <2>1, <2>2, SizeAdd, SizeKept
<1>5. CASE MainRuns \/ BleRuns
  <2>1. CASE \/ SendNow \/ WaitFlush \/ SetStop \/ Join
             \/ Release("main", "release", "notify") \/ Release("main", "unlock", "idle")
             \/ Notify("main", "notify_flush", "relock") \/ Notify("main", "notify", "idle")
             \/ Notify("main", "d_notify", "d_join")
    BY <2>1, SizeKept, Zenon DEF SendNow, WaitFlush, SetStop, Join, Release, Notify
  <2> QED BY <1>3, <1>4, <1>5, <2>1, MainLabels, BleLabels, SizeUpdate, Zenon
          DEF MainRuns, BleRuns
<1>6. CASE SenderRuns
  <2>1. CASE WaitData \/ WaitTimed \/ Timeout \/ SendData \/ Notify("sender", "notify", "lock")
    BY <2>1, SizeKept, Zenon DEF WaitData, WaitTimed, Timeout, SendData, Notify
  <2>2. CASE Reset
    BY <2>2, LargestExists
    DEF Reset, SizeOK, MTUInv, SmallestMTU, NotifySize, HeaderSize, FullSize
  <2> QED BY <1>6, <2>1, <2>2, Zenon DEF SenderRuns
<1>7. CASE UNCHANGED vars
  BY <1>7, SizeKept DEF vars
<1> QED BY <1>1, <1>2, <1>5, <1>6, <1>7, Zenon DEF Next

-------------------------------------------------------------------------------
(***************************************************************************)
(* The order of the messages                                               *)
(***************************************************************************)
\* The packet holds the messages after the last one sent, until it is emptied.
NumberedOK ==
  pc["sender"] # "reset" => \A i \in 1..Len(packet) : packet[i] = settled + i

\* A step that neither adds a message nor sends or empties the packet.
LEMMA NumberedKept ==
  ASSUME LockInv, NumberedOK, NEW t \in Threads, NEW l, Goto(t, l),
         t = "sender" => pc["sender"] # "reset",
         UNCHANGED <<packet, settled>>
  PROVE  NumberedOK'
<1> QED BY SenderLabels DEF LockInv, NumberedOK, Goto

\* The message that is added is the one after those in the packet.
LEMMA NumberedAdd ==
  ASSUME LockInv, CountInv, NumberedOK, pc["main"] \in {"add", "add_again"},
         NEW size \in Sizes, AddMessage(size), UNCHANGED settled
  PROVE  NumberedOK'
<1>1. pc["sender"] # "reset"
  <2>1. owner = "main" /\ "main" # "sender"
    BY MainLabels DEF LockInv, MutexOK
  <2> QED BY <2>1, SenderLabels DEF LockInv, MutexOK
<1>2. PICK n \in Nat, s \in Nat, a \in Nat : n = Len(packet) /\ s = settled /\ a = accepted
  BY DEF CountInv
<1>3. s + n = a
  BY <1>1, <1>2 DEF CountInv
<1>4. /\ Len(packet') = n + 1 /\ packet'[n + 1] = a + 1
      /\ \A i \in 1..n : packet'[i] = packet[i]
  BY <1>2 DEF AddMessage, CountInv
<1>5. \A i \in 1..n : packet[i] = s + i
  BY <1>1, <1>2 DEF NumberedOK
<1>6. \A i \in 1..(n + 1) : packet'[i] = s + i
  <2>1. \A i \in 1..(n + 1) : i \in 1..n \/ i = n + 1
    OBVIOUS
  <2>2. a + 1 = s + (n + 1)
    BY <1>3
  <2> QED BY <1>4, <1>5, <2>1, <2>2
<1> QED BY <1>2, <1>4, <1>6 DEF NumberedOK

LEMMA NumberedStep == LockInv /\ CountInv /\ NumberedOK /\ [Next]_vars => NumberedOK'
<1> SUFFICES ASSUME LockInv, CountInv, NumberedOK, [Next]_vars PROVE NumberedOK'
  OBVIOUS
<1> USE DEF Step, At, shared, hist
<1>1. CASE Environment
  <2>1. CASE \/ SendNowImpl \/ Destroy \/ \E n \in 1..MaxPieces : Send(n)
             \/ \E f \in ForcedMTUs : ForceMinMTU(f)
             \/ \E m \in MTUs : HandleMTU(m)
    BY <2>1, MainLabels, BleLabels, NumberedKept, Zenon
    DEF SendNowImpl, Destroy, Send, ForceMinMTU, HandleMTU
  <2>2. CASE \E t \in {"main", "sender"} : WakeSpuriously(t)
    BY <2>2 DEF WakeSpuriously, NumberedOK
  <2> QED BY <1>1, <2>1, <2>2, Zenon DEF Environment
<1>2. CASE MainLocks \/ BleLocks
  BY <1>2, MainLabels, BleLabels, NumberedKept, Zenon
  DEF MainLocks, BleLocks, Relock, Acquire
<1>3. CASE Add
  <2>1. PICK size \in Sizes :
          IF FitsIn(size)
            THEN AddMessage(size)
            ELSE Goto("main", "send_now") /\ UNCHANGED <<packet, used, accepted, todo>>
    BY <1>3, AddedSize, Zenon DEF Add
  <2>2. UNCHANGED settled /\ pc["main"] = "add"
    BY <1>3 DEF Add
  <2>3. CASE FitsIn(size)
    BY <2>1, <2>2, <2>3, NumberedAdd
  <2>4. CASE ~FitsIn(size)
    BY <2>1, <2>2, <2>4, MainLabels, NumberedKept
  <2> QED BY <2>3, <2>4
<1>4. CASE AddAgain
  <2>1. PICK size \in Sizes :
          IF FitsIn(size)
            THEN AddMessage(size)
            ELSE todo' = 0 /\ Goto("main", "release") /\ UNCHANGED <<packet, used, accepted>>
    BY <1>4, AddedSize, Zenon DEF AddAgain
  <2>2. UNCHANGED settled /\ pc["main"] = "add_again"
    BY <1>4 DEF AddAgain
  <2>3. CASE FitsIn(size)
    BY <2>1, <2>2, <2>3, NumberedAdd
  <2>4. CASE ~FitsIn(size)
    BY <2>1, <2>2, <2>4, MainLabels, NumberedKept
  <2> QED BY <2>3, <2>4
<1>5. CASE MainRuns \/ BleRuns
  <2>1. CASE SendNow \/ WaitFlush
    BY <2>1, MainLabels, NumberedKept, Zenon DEF SendNow, WaitFlush, Block
  <2>2. CASE \/ LoadMinMTU \/ SetStop \/ Join
             \/ Release("main", "release", "notify") \/ Release("main", "unlock", "idle")
             \/ Notify("main", "notify_flush", "relock") \/ Notify("main", "notify", "idle")
             \/ Notify("main", "d_notify", "d_join")
    BY <2>2, MainLabels, NumberedKept, Zenon DEF LoadMinMTU, SetStop, Join, Release, Notify
  <2>3. ASSUME NEW t \in {"main", "ble"}, LoadForce(t) \/ StoreMinMTU(t) \/ SetCapacity(t)
        PROVE  NumberedOK'
    <3>1. t \in Threads /\ t # "sender"
      BY DEF Threads
    <3> QED BY <2>3, <3>1, NumberedKept, Zenon DEF LoadForce, StoreMinMTU, SetCapacity
  <2> QED BY <1>3, <1>4, <1>5, <2>1, <2>2, <2>3, Zenon DEF MainRuns, BleRuns
<1>6. CASE SenderLocks
  BY <1>6, SenderLabels, NumberedKept, Zenon DEF SenderLocks, Relock, Acquire
<1>7. CASE SenderRuns
  <2>1. CASE WaitData \/ WaitTimed \/ Timeout \/ Notify("sender", "notify", "lock")
    BY <2>1, SenderLabels, NumberedKept, Zenon DEF WaitData, WaitTimed, Timeout, Notify, Block
  <2>2. CASE SendData
    <3>1. CASE stop
      BY <2>2, <3>1, SenderLabels, NumberedKept, Zenon DEF SendData
    <3>2. CASE ~stop
      BY <2>2, <3>2, SenderLabels DEF SendData, Goto, LockInv, NumberedOK
    <3> QED BY <3>1, <3>2
  <2>3. CASE Reset
    BY <2>3 DEF Reset, NumberedOK
  <2> QED BY <1>7, <2>1, <2>2, <2>3, Zenon DEF SenderRuns
<1>8. CASE UNCHANGED vars
  BY <1>8 DEF vars, NumberedOK
<1> QED BY <1>1, <1>2, <1>5, <1>6, <1>7, <1>8, Zenon DEF Next

-------------------------------------------------------------------------------
(***************************************************************************)
(* The theorems                                                            *)
(***************************************************************************)
IInv == LockInv /\ MTUInv /\ CountInv /\ WakeInv /\ CapacityFollowsMTU
        /\ SizeOK /\ NumberedOK

LEMMA InitInv == Init => IInv
<1> SUFFICES ASSUME Init PROVE IInv
  OBVIOUS
<1>1. LockInv
  <2>1. \A t \in Threads : pc[t] \in Free(t)
    BY DEF Init, Free, Threads
  <2>2. pc \in [Threads -> Labels]
    <3>1. ASSUME NEW t \in Threads PROVE pc[t] \in Labels
      <4>1. pc[t] \in Holds(t) \cup Free(t)
        BY <2>1
      <4> QED BY <4>1 DEF Labels
    <3>2. pc = [t \in Threads |-> pc[t]]
      BY DEF Init
    <3> QED BY <3>1, <3>2, Zenon
  <2> QED BY <2>1, <2>2, Disjoint, ConstantsAssumption DEF Init, LockInv, MutexOK
<1>2. MTUInv
  <2>1. mtu \in [Threads -> Nat] /\ forceC \in [Threads -> Nat] /\ updates \in 0..MaxUpdates
    BY ConstantsAssumption DEF Init
  <2>2. \A t \in Threads : pc[t] \notin {"mtu_load", "mtu_store"}
    BY DEF Init
  <2>3. capacity = 20 /\ minMTU = 23 /\ forceMinMTU = 515
    BY DEF Init, DefaultMTU, NotifySize
  <2> QED BY <2>1, <2>2, <2>3 DEF MTUInv, SmallestMTU, NotifySize, HeaderSize, FullSize
<1>3. CountInv
  <2>1. packet \in Seq(1..MaxMsgs) /\ wire \in Seq(1..MaxMsgs) /\ Len(packet) = 0
    BY DEF Init
  <2>2. pc["main"] = "idle" /\ pc["sender"] = "lock"
    BY DEF Init, Threads
  <2>3. /\ used = 0 /\ todo = 0 /\ accepted = 0 /\ settled = 0
        /\ flush = FALSE /\ stop = FALSE
    BY DEF Init
  <2>4. settled + (IF pc["sender"] = "reset" THEN 0 ELSE Len(packet)) = accepted
    BY <2>1, <2>2, <2>3
  <2>5. pc["main"] \notin {"acquire", "add", "add_again"}
    BY <2>2
  <2>6. MaxMsgs \in Nat /\ MaxPieces \in Nat
    BY ConstantsAssumption
  <2>7. flush \in BOOLEAN /\ stop \in BOOLEAN
    BY <2>3, Zenon
  <2> QED BY <2>1, <2>3, <2>4, <2>5, <2>6, <2>7 DEF CountInv
<1>4. WakeInv
  BY DEF Init, WakeInv, WaitersOK, FlushOK, StopOK, NoLostWakeup, SenderIsWoken, FlushIsSeen,
         FlushEndIsSeen, At, Threads
<1>5. CapacityFollowsMTU
  BY DEF Init, CapacityFollowsMTU, Threads
<1>6. SizeOK
  <2>1. /\ minMTU = 23 /\ capacity = 20 /\ used = 0 /\ packet = <<>>
        /\ \A t \in Threads : mtu[t] = 0
    BY DEF Init, DefaultMTU, NotifySize
  <2> QED BY <2>1, LargestExists DEF SizeOK, DefaultMTU, NotifySize
<1>7. NumberedOK
  BY DEF Init, NumberedOK
<1> QED BY <1>1, <1>2, <1>3, <1>4, <1>5, <1>6, <1>7 DEF IInv

LEMMA Invariance == Spec => []IInv
<1>1. IInv /\ [Next]_vars => IInv'
  BY LockStep, MTUStep, CountStep, WakeStep, CapacityStep, SizeStep, NumberedStep DEF IInv
<1> QED BY InitInv, <1>1, PTL DEF Spec

\* The variables keep their types; in particular each thread is always at one of
\* the statements of ThreadedBLEMIDISender.ipp that it executes.
THEOREM TypeCorrect == Spec => []TypeOK
<1>1. IInv => TypeOK
  BY DEF IInv, LockInv, MTUInv, CountInv, WakeInv, WaitersOK, TypeOK
<1> QED BY <1>1, Invariance, PTL

\* No two threads are in a critical section of shared.mtx at the same time.
THEOREM MutualExclusion ==
  Spec => [](\A t, u \in Threads : pc[t] \in Holds(t) /\ pc[u] \in Holds(u) => t = u)
<1>1. IInv => \A t, u \in Threads : pc[t] \in Holds(t) /\ pc[u] \in Holds(u) => t = u
  BY DEF IInv, LockInv, MutexOK
<1> QED BY <1>1, Invariance, PTL

\* Neither side of handleSendEvents and sendNow sleeps through what it waits for,
\* although notify_one wakes one of two threads that wait on the same variable.
THEOREM WakeupsCorrect == Spec => []NoLostWakeup
<1>1. IInv => NoLostWakeup
  BY DEF IInv, WakeInv
<1> QED BY <1>1, Invariance, PTL

\* When sendNow returns to add a message again, the message fits, whatever its
\* size and whatever MTU another thread has set while the mutex was not held.
THEOREM SecondAttemptCorrect == Spec => []SecondAttemptFits
<1>1. IInv => SecondAttemptFits
  BY DEF IInv, WakeInv, FlushOK, MTUInv, SmallestMTU, SecondAttemptFits, At, FitsIn, Grown,
         Sizes, HeaderSize, FullSize, NotifySize
<1> QED BY <1>1, Invariance, PTL

\* An empty packet has the capacity of the current MTU once updateMTU has
\* returned in both threads.
THEOREM CapacityCorrect == Spec => []CapacityFollowsMTU
<1>1. IInv => CapacityFollowsMTU
  BY DEF IInv
<1> QED BY <1>1, Invariance, PTL

\* Not more messages fit into a packet than the largest MTU allows.
LEMMA PacketBound ==
  ASSUME MTUInv, CountInv, SizeOK
  PROVE  /\ MaxPacket \in Nat /\ Len(packet) \in Nat
         /\ Len(packet) <= MaxPacket
<1>1. PICK n \in Nat, c \in Nat, u \in Nat, m \in Nat :
        n = Len(packet) /\ c = capacity /\ u = used /\ m = LargestMTU
  BY LargestExists DEF MTUInv, CountInv
<1>2. MaxPacket = m - 3 - 1 - 1
  BY <1>1 DEF MaxPacket, LargestMTU, NotifySize, HeaderSize
<1>3. u <= c /\ c <= m - 3 /\ (n > 0 => 2 + n <= u)
  <2>1. n > 0 => packet # <<>>
    BY <1>1
  <2> QED BY <1>1, <2>1 DEF SizeOK, HeaderSize, NotifySize
<1>4. m >= 23
  BY <1>1, LargestExists DEF DefaultMTU
<1> QED BY <1>1, <1>2, <1>3, <1>4

\* A step is what it looks like to the client: a message is accepted, a packet
\* is sent, or nothing visible happens.
LEMMA FifoStep == IInv /\ IInv' /\ [Next]_vars => [Fifo!Next]_(Fifo!vars)
<1> SUFFICES ASSUME IInv, IInv', [Next]_vars PROVE [Fifo!Next]_(Fifo!vars)
  OBVIOUS
<1>1. ASSUME NEW size \in Sizes, AddMessage(size), pc["main"] \in {"add", "add_again"},
             UNCHANGED <<settled, wire>>
      PROVE  Fifo!Accept
  <2>1. PICK a \in Nat, s \in Nat : a = accepted /\ s = settled
    BY DEF IInv, CountInv
  <2>2. accepted' = a + 1
    BY <1>1, <2>1 DEF AddMessage
  <2>3. pc'["sender"] = pc["sender"] /\ pc["sender"] # "reset"
    <3>1. owner = "main" /\ "main" # "sender"
      BY <1>1, MainLabels DEF IInv, LockInv, MutexOK
    <3> QED BY <1>1, <3>1, SenderLabels DEF IInv, LockInv, MutexOK, AddMessage, Goto
  <2>4. PICK p \in Nat : p = Len(packet') /\ p <= MaxPacket
    <3>1. (MTUInv /\ CountInv /\ SizeOK)'
      BY DEF IInv
    <3>2. (MTUInv /\ CountInv /\ SizeOK => Len(packet) \in Nat /\ Len(packet) <= MaxPacket)'
      BY PacketBound, PTL
    <3> QED BY <3>1, <3>2
  <2>5. s + p = a + 1
    BY <1>1, <2>1, <2>2, <2>3, <2>4 DEF IInv, CountInv
  <2>6. MaxPacket \in Nat
    BY PacketBound DEF IInv
  <2>7. (a + 1) - s <= MaxPacket /\ a + 1 > a
    BY <2>4, <2>5, <2>6
  <2> QED BY <1>1, <2>1, <2>2, <2>7 DEF Fifo!Accept
<1>2. CASE Add
  <2>1. PICK size \in Sizes :
          IF FitsIn(size)
            THEN AddMessage(size)
            ELSE Goto("main", "send_now") /\ UNCHANGED <<packet, used, accepted, todo>>
    BY <1>2, AddedSize, Zenon DEF Add
  <2>2. UNCHANGED <<settled, wire>> /\ pc["main"] = "add"
    BY <1>2 DEF Add, At
  <2> QED BY <1>1, <2>1, <2>2 DEF Fifo!Next, Fifo!vars
<1>3. CASE AddAgain
  <2>1. PICK size \in Sizes :
          IF FitsIn(size)
            THEN AddMessage(size)
            ELSE todo' = 0 /\ Goto("main", "release") /\ UNCHANGED <<packet, used, accepted>>
    BY <1>3, AddedSize, Zenon DEF AddAgain
  <2>2. UNCHANGED <<settled, wire>> /\ pc["main"] = "add_again"
    BY <1>3 DEF AddAgain, At
  <2> QED BY <1>1, <2>1, <2>2 DEF Fifo!Next, Fifo!vars
<1>4. CASE SendData
  <2>1. CASE stop
    BY <1>4, <2>1 DEF SendData, Fifo!vars
  <2>2. CASE ~stop
    <3>1. PICK n \in Nat, s \in Nat, a \in Nat :
            n = Len(packet) /\ s = settled /\ a = accepted
      BY DEF IInv, CountInv
    <3>2. /\ pc["sender"] = "send" /\ wire' = wire \o packet /\ settled' = s + n
          /\ accepted' = accepted
      BY <1>4, <2>2, <3>1 DEF SendData, At
    <3>3. s + n = a /\ n <= MaxPacket /\ MaxPacket \in Nat
      BY <3>1, <3>2, PacketBound DEF IInv, CountInv
    <3>4. packet = [i \in 1..n |-> s + i]
      <4>1. PICK T : T = 1..MaxMsgs
        OBVIOUS
      <4>2. packet \in Seq(T)
        BY <4>1 DEF IInv, CountInv
      <4>3. packet = [i \in 1..n |-> packet[i]]
        BY <3>1, <4>2
      <4>4. \A i \in 1..n : packet[i] = s + i
        BY <3>1, <3>2 DEF IInv, NumberedOK
      <4> QED BY <4>3, <4>4
    <3>5. CASE n = 0
      <4>1. PICK T : T = 1..MaxMsgs
        OBVIOUS
      <4>2. packet \in Seq(T) /\ wire \in Seq(T)
        BY <4>1 DEF IInv, CountInv
      <4>3. Len(packet) = 0
        BY <3>1, <3>5
      <4>4. packet = <<>>
        BY <4>2, <4>3
      <4>5. wire' = wire
        BY <3>2, <4>2, <4>4
      <4>6. settled' = settled
        BY <3>1, <3>2, <3>5
      <4> QED BY <3>1, <3>2, <4>5, <4>6 DEF Fifo!vars
    <3>6. CASE n # 0
      <4>1. settled' - settled = n /\ n \in 1..MaxPacket /\ settled' <= accepted
        BY <3>1, <3>2, <3>3, <3>6
      <4> QED BY <3>1, <3>2, <3>4, <4>1 DEF Fifo!Next, Fifo!Deliver
    <3> QED BY <3>5, <3>6
  <2> QED BY <2>1, <2>2
<1>5. Next => Add \/ AddAgain \/ SendData \/ UNCHANGED hist
  BY DEF Next, Environment, MainLocks, MainRuns, BleLocks, BleRuns, SenderLocks, SenderRuns,
         Send, SendNowImpl, Destroy, HandleMTU, ForceMinMTU, WakeSpuriously, Acquire, Relock,
         SendNow, Notify, WaitFlush, Release, LoadMinMTU, LoadForce, StoreMinMTU,
         SetCapacity, SetStop, Join, WaitData, WaitTimed, Timeout, Reset
<1> QED BY <1>2, <1>3, <1>4, <1>5 DEF vars, hist, Fifo!vars

\* Messages are sent in their order and once, none is lost between being added
\* and the packet being emptied, and no packet exceeds the largest MTU.
THEOREM FifoCorrect == Spec => FifoSpec
<1>1. Init => Fifo!Init
  BY DEF Init, Fifo!Init
<1> QED BY <1>1, FifoStep, Invariance, PTL DEF Spec, FifoSpec, Fifo!Spec
===============================================================================
