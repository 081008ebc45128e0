-------------------------------- MODULE BulkTX --------------------------------
(***************************************************************************)
(* The lock-free, double-buffered sender of the USB-MIDI bulk backends     *)
(* (BulkTX.hpp, BulkTX.ipp).  The main program fills one of two buffers;   *)
(* a full buffer, a timeout or an explicit send_now() hands it to the USB  *)
(* hardware, whose completion interrupt hands over the next one.           *)
(*                                                                         *)
(* Three contexts execute this code: the main program and two interrupt    *)
(* handlers.  A handler runs on top of the context it interrupts and runs  *)
(* to its end before that context resumes.  Every access to a shared       *)
(* (interrupt_atomic) variable is one step.                                *)
(*                                                                         *)
(* Messages are numbered 1, 2, ... in the order in which write() copies    *)
(* them into a buffer; sizes are counted in messages.                      *)
(***************************************************************************)
EXTENDS Naturals, Sequences

CONSTANTS
  None,             \* the null pointer
  PacketSize,       \* writing.packet_size, in messages
  MaxMsgs,          \* bound: number of messages offered to write()
  MaxBatch,         \* bound: number of messages in one write() call
  MaxDisconnects,   \* bound: number of times the host goes away
  Nesting,          \* <<h, g>> \in Nesting: handler h may interrupt handler g
  ResetPoints       \* where the main program may be when reset() is called

Buf      == {0, 1}
Handlers == {"timer", "usb"}
Ctx      == {"main"} \cup Handlers

\* Labels of the code shared by write_impl, send_now and timeout_callback: from
\* announcing that a buffer is to be sent up to starting its transfer.
SendLabels ==
  {"mark", "lock", "recheck", "unlock", "take", "clear", "publish", "start"}
MainLabels == SendLabels \cup
  {"idle", "connect", "wait", "acquire", "copy", "release", "later", "arm",
   "unlater", "cancel", "now", "check", "s_take", "s_cancel",
   "d_sending", "d_later", "d_now", "d_done"}
TimerLabels == SendLabels \cup {"idle", "t_take"}
UsbLabels ==
  {"idle", "u_load", "u_check", "u_take", "u_clear", "u_empty", "u_hand",
   "u_give", "u_start", "u_unlock", "u_release", "u_again", "u_lock"}
Labels == MainLabels \cup TimerLabels \cup UsbLabels

ASSUME ConstantsAssumption ==
  /\ None \notin Buf /\ None \notin Ctx
  /\ PacketSize \in Nat \ {0}
  /\ MaxMsgs \in Nat /\ MaxBatch \in Nat /\ MaxDisconnects \in Nat
  /\ Nesting \subseteq Handlers \X Handlers
  /\ ResetPoints \subseteq MainLabels

VARIABLES
  active,      \* writing.active_writebuffer
  sending,     \* writing.sending: the buffer whose transfer holds the lock
  sendLater,   \* writing.send_later: to be sent when the timer expires
  sendNow,     \* writing.send_now: to be sent as soon as the lock is free
  data,        \* contents of writing.buffers[b], its size is Len(data[b])
  pc,          \* next statement of each context
  over,        \* over[h]: the context handler h interrupted, None if h is idle
  buf,         \* local `buffer` (main, timer) or `sent_buffer` (usb)
  act,         \* local `send_buffer` or `act`; `send_next` (usb)
  size,        \* write_impl: size of the buffer before the copy
  copied,      \* write_impl: copy_size
  todo,        \* write: messages of this call not yet accepted
  timer,       \* hardware: the timeout is armed
  inflight,    \* hardware: the buffer it is transmitting, or None
  connected,   \* hardware: connectedForWrite()
  disconnected,\* the field: an earlier write gave up waiting
  error,       \* writing.error
  drops,       \* how many times the host went away
  accepted, settled, wire   \* history, see MIDIFifo

locks == <<active, sending, sendLater, sendNow>>
regs  == <<buf, act>>
call  == <<size, copied, todo>>
hw    == <<timer, inflight>>
link  == <<connected, disconnected, error, drops>>
hist  == <<accepted, settled, wire>>
vars  == <<locks, data, pc, over, regs, call, hw, link, hist>>

other(b) == 1 - b

Init ==
  /\ active = 0 /\ sending = None /\ sendLater = None /\ sendNow = None
  /\ data = [b \in Buf |-> <<>>]
  /\ pc = [c \in Ctx |-> "idle"]
  /\ over = [h \in Handlers |-> None]
  /\ buf = [c \in Ctx |-> None] /\ act = [c \in Ctx |-> None]
  /\ size = 0 /\ copied = 0 /\ todo = 0
  /\ timer = FALSE /\ inflight = None
  /\ connected = TRUE /\ disconnected = FALSE /\ error = 0 /\ drops = 0
  /\ accepted = 0 /\ settled = 0 /\ wire = <<>>

-------------------------------------------------------------------------------
(***************************************************************************)
(* Contexts                                                                *)
(***************************************************************************)
\* Context c is the one the processor is executing.
Running(c) ==
  /\ c \in Handlers => over[c] # None
  /\ \A h \in Handlers : over[h] # c

At(c, l) == Running(c) /\ pc[c] = l

Goto(c, l) == pc' = [pc EXCEPT ![c] = l] /\ UNCHANGED over

\* Handler h interrupts whatever is running, if the priorities allow it.
Enter(h, l) ==
  /\ over[h] = None
  /\ \E c \in Ctx :
       /\ Running(c)
       /\ c \in Handlers => <<h, c>> \in Nesting
       /\ over' = [over EXCEPT ![h] = c]
  /\ pc' = [pc EXCEPT ![h] = l]

\* A handler returns to the context it interrupted.  When write_impl returns,
\* write() calls it again until every message of the call was accepted.
Return(c) ==
  /\ pc' = [pc EXCEPT ![c] =
              IF c = "main" /\ copied < todo THEN "acquire" ELSE "idle"]
  /\ over' = IF c = "main" THEN over ELSE [over EXCEPT ![c] = None]
  /\ IF c = "main" THEN todo' = todo - copied /\ copied' = 0
                   ELSE UNCHANGED <<todo, copied>>
  /\ UNCHANGED size

-------------------------------------------------------------------------------
(***************************************************************************)
(* write: wait for the host, then write_impl until everything is accepted  *)
(***************************************************************************)
Write(n) ==
  /\ At("main", "idle")
  /\ accepted + error + n <= MaxMsgs
  /\ todo' = n
  /\ Goto("main", "connect")
  /\ UNCHANGED <<locks, data, regs, size, copied, hw, link, hist>>

\* The messages of this call are counted as failed.
GiveUp ==
  /\ error' = error + todo
  /\ todo' = 0
  /\ Goto("main", "idle")

\* wait_connect: the first look at the connection.
WaitConnect ==
  /\ At("main", "connect")
  /\ \/ /\ connected
        /\ disconnected' = FALSE
        /\ Goto("main", "acquire")
        /\ UNCHANGED <<error, todo>>
     \/ /\ ~connected /\ disconnected
        /\ GiveUp
        /\ UNCHANGED disconnected
     \/ /\ ~connected /\ ~disconnected
        /\ Goto("main", "wait")
        /\ UNCHANGED <<error, todo, disconnected>>
  /\ UNCHANGED <<locks, data, regs, size, copied, hw, connected, drops, hist>>

\* wait_connect: one of up to 100 polls sees the host, or the last one does not.
PollConnect ==
  /\ At("main", "wait")
  /\ \/ /\ connected
        /\ disconnected' = FALSE
        /\ Goto("main", "acquire")
        /\ UNCHANGED <<error, todo>>
     \/ /\ ~connected
        /\ disconnected' = TRUE
        /\ GiveUp
  /\ UNCHANGED <<locks, data, regs, size, copied, hw, connected, drops, hist>>

\* Take the active buffer.  While it is owned by a handler that was interrupted
\* write_impl returns 0 and write() calls it again: a stuttering step.
Acquire ==
  /\ At("main", "acquire")
  /\ active # None
  /\ buf' = [buf EXCEPT !["main"] = active]
  /\ active' = None
  /\ Goto("main", "copy")
  /\ UNCHANGED <<sending, sendLater, sendNow, data, act, call, hw, link, hist>>

Fits(b, n) == IF PacketSize - Len(data[b]) < n THEN PacketSize - Len(data[b])
                                               ELSE n

\* Append as many messages as fit, possibly none, to the buffer we own.
Copy ==
  LET b == buf["main"]
      k == Fits(b, todo)
  IN /\ At("main", "copy")
     /\ size' = Len(data[b])
     /\ copied' = k
     /\ data' = [data EXCEPT ![b] = @ \o [i \in 1..k |-> accepted + i]]
     /\ accepted' = accepted + k
     /\ Goto("main", "release")
     /\ UNCHANGED <<locks, regs, todo, hw, link, settled, wire>>

\* Release the buffer, then decide what becomes of it.
Release ==
  /\ At("main", "release")
  /\ active' = buf["main"]
  /\ Goto("main", IF copied = 0                     THEN "check"
                  ELSE IF size = 0 /\ copied = PacketSize THEN "now"
                  ELSE IF size = 0                    THEN "later"
                  ELSE IF size + copied = PacketSize  THEN "unlater"
                  ELSE "check")
  /\ UNCHANGED <<sending, sendLater, sendNow, data, regs, call, hw, link, hist>>

\* First data in the buffer: schedule it to be sent when the timer expires.
StoreLater ==
  /\ At("main", "later")
  /\ sendLater' = buf["main"]
  /\ Goto("main", "arm")
  /\ UNCHANGED <<active, sending, sendNow, data, regs, call, hw, link, hist>>

\* Mutant: the timeout is not started.
ArmTimerNever ==
  /\ At("main", "arm")
  /\ Goto("main", "check")
  /\ UNCHANGED <<locks, data, regs, call, hw, link, hist>>


ArmTimer ==
  /\ At("main", "arm")
  /\ timer' = TRUE
  /\ Goto("main", "check")
  /\ UNCHANGED <<locks, data, regs, call, inflight, link, hist>>

\* The buffer is full now: call the scheduled transmission off, if it is there.
TakeBackLater ==
  /\ At("main", "unlater")
  /\ act' = [act EXCEPT !["main"] = sendLater]
  /\ sendLater' = None
  /\ Goto("main", IF sendLater = None THEN "check" ELSE "cancel")
  /\ UNCHANGED <<active, sending, sendNow, data, buf, call, hw, link, hist>>

CancelTimer ==
  /\ At("main", "cancel")
  /\ timer' = FALSE
  /\ Goto("main", "now")
  /\ UNCHANGED <<locks, data, regs, call, inflight, link, hist>>

\* A full buffer is to be sent now.
StoreNow ==
  /\ At("main", "now")
  /\ sendNow' = buf["main"]
  /\ Goto("main", "check")
  /\ UNCHANGED <<active, sending, sendLater, data, regs, call, hw, link, hist>>

\* Mutant: write_impl does not look at send_now after releasing the buffer.
CheckNowNever ==
  /\ At("main", "check")
  /\ Return("main")
  /\ UNCHANGED <<locks, data, regs, hw, link, hist>>

\* (1) Did we, or a handler while we owned the buffer, ask to send it?
CheckNow ==
  /\ At("main", "check")
  /\ IF sendNow = None THEN Return("main")
                       ELSE Goto("main", "lock") /\ UNCHANGED call
  /\ UNCHANGED <<locks, data, regs, hw, link, hist>>

-------------------------------------------------------------------------------
(***************************************************************************)
(* send_now and timeout_callback: turn send_later into send_now            *)
(***************************************************************************)
SendNow ==
  /\ At("main", "idle")
  /\ Goto("main", "s_take")
  /\ UNCHANGED <<locks, data, regs, call, hw, link, hist>>

\* The timeout fires.
TimerInterrupt ==
  /\ timer
  /\ Enter("timer", "t_take")
  /\ timer' = FALSE
  /\ UNCHANGED <<locks, data, regs, call, inflight, link, hist>>

\* Claim send_later; if somebody else already did, there is nothing to do.
TakeLater(c, from, to) ==
  /\ At(c, from)
  /\ buf' = [buf EXCEPT ![c] = sendLater]
  /\ sendLater' = None
  /\ IF sendLater = None THEN Return(c)
                         ELSE Goto(c, to) /\ UNCHANGED call
  /\ UNCHANGED <<active, sending, sendNow, data, act, hw, link, hist>>

SendNowCancelTimer ==
  /\ At("main", "s_cancel")
  /\ timer' = FALSE
  /\ Goto("main", "mark")
  /\ UNCHANGED <<locks, data, regs, call, inflight, link, hist>>

\* (5), (7) Tell whoever holds the sending lock that we want this buffer sent.
Mark(c) ==
  /\ At(c, "mark")
  /\ sendNow' = buf[c]
  /\ Goto(c, "lock")
  /\ UNCHANGED <<active, sending, sendLater, data, regs, call, hw, link, hist>>

-------------------------------------------------------------------------------
(***************************************************************************)
(* Shared by write_impl, send_now and timeout_callback: send the buffer    *)
(***************************************************************************)
\* Mutant: the sending lock is taken without looking whether it is free.
LockAlways(c) ==
  /\ At(c, "lock")
  /\ sending' = buf[c] /\ Goto(c, "recheck")
  /\ UNCHANGED <<active, sendLater, sendNow, data, regs, call, hw, link, hist>>

\* (2), (6), (8) Try to get the sending lock; its owner does our work otherwise.
Lock(c) ==
  /\ At(c, "lock")
  /\ IF sending = None
       THEN sending' = buf[c] /\ Goto(c, "recheck") /\ UNCHANGED call
       ELSE UNCHANGED sending /\ Return(c)
  /\ UNCHANGED <<active, sendLater, sendNow, data, regs, hw, link, hist>>

\* Mutant: send_now is not looked at again once the lock is taken.
RecheckNever(c) ==
  /\ At(c, "recheck")
  /\ Goto(c, "take")
  /\ UNCHANGED <<locks, data, regs, call, hw, link, hist>>

\* The previous owner of the lock may have sent the buffer in between.
Recheck(c) ==
  /\ At(c, "recheck")
  /\ Goto(c, IF sendNow = None THEN "unlock" ELSE "take")
  /\ UNCHANGED <<locks, data, regs, call, hw, link, hist>>

Unlock(c) ==
  /\ At(c, "unlock")
  /\ sending' = None
  /\ Return(c)
  /\ UNCHANGED <<active, sendLater, sendNow, data, regs, hw, link, hist>>

\* Own the buffer.  When the timeout finds that write_impl has it, it releases
\* the lock and leaves the work to write_impl, which looks at send_now (1).
TakeBuffer(c) ==
  /\ At(c, "take")
  /\ act' = [act EXCEPT ![c] = active]
  /\ active' = None
  /\ Goto(c, IF c = "timer" /\ active = None THEN "unlock" ELSE "clear")
  /\ UNCHANGED <<sending, sendLater, sendNow, data, buf, call, hw, link, hist>>

ClearNow(c) ==
  /\ At(c, "clear")
  /\ sendNow' = None
  /\ Goto(c, "publish")
  /\ UNCHANGED <<active, sending, sendLater, data, regs, call, hw, link, hist>>

\* The other buffer is emptied and becomes the active one.
Publish(c) ==
  /\ At(c, "publish")
  /\ act[c] # None
  /\ data' = [data EXCEPT ![other(act[c])] = <<>>]
  /\ active' = other(act[c])
  /\ Goto(c, "start")
  /\ UNCHANGED <<sending, sendLater, sendNow, regs, call, hw, link, hist>>

\* Without a host nothing is queued, and nothing will complete.
Transmit(b) == inflight' = IF connected THEN b ELSE inflight

\* The sending lock stays with the transfer, tx_callback releases it.
Start(c) ==
  /\ At(c, "start")
  /\ Transmit(IF c = "timer" THEN buf[c] ELSE act[c])
  /\ Return(c)
  /\ UNCHANGED <<locks, data, regs, timer, link, hist>>

-------------------------------------------------------------------------------
(***************************************************************************)
(* tx_callback                                                             *)
(***************************************************************************)
\* The hardware has sent the packet and raises its interrupt.
UsbInterrupt ==
  /\ inflight # None
  /\ Enter("usb", "u_load")
  /\ inflight' = None
  /\ wire' = wire \o data[inflight]
  /\ settled' = settled + Len(data[inflight])
  /\ UNCHANGED <<locks, data, regs, call, timer, link, accepted>>

LoadSent ==
  /\ At("usb", "u_load")
  /\ buf' = [buf EXCEPT !["usb"] = sending]
  /\ Goto("usb", "u_check")
  /\ UNCHANGED <<locks, data, act, call, hw, link, hist>>

\* Did somebody try to send the next buffer while we held the lock?
LoadNext ==
  /\ At("usb", "u_check")
  /\ act' = [act EXCEPT !["usb"] = sendNow]
  /\ Goto("usb", IF sendNow = None THEN "u_release" ELSE "u_take")
  /\ UNCHANGED <<locks, data, buf, call, hw, link, hist>>

\* If write_impl owns the next buffer it will see send_now (1) and send it.
TakeNext ==
  /\ At("usb", "u_take")
  /\ active' = None
  /\ Goto("usb", IF active = None THEN "u_unlock" ELSE "u_clear")
  /\ UNCHANGED <<sending, sendLater, sendNow, data, regs, call, hw, link, hist>>

ClearNext ==
  /\ At("usb", "u_clear")
  /\ sendNow' = None
  /\ Goto("usb", "u_empty")
  /\ UNCHANGED <<active, sending, sendLater, data, regs, call, hw, link, hist>>

EmptySent ==
  /\ At("usb", "u_empty")
  /\ buf["usb"] # None
  /\ data' = [data EXCEPT ![buf["usb"]] = <<>>]
  /\ Goto("usb", "u_hand")
  /\ UNCHANGED <<locks, regs, call, hw, link, hist>>

\* The lock passes to the next buffer without being released.
HandOver ==
  /\ At("usb", "u_hand")
  /\ sending' = act["usb"]
  /\ Goto("usb", "u_give")
  /\ UNCHANGED <<active, sendLater, sendNow, data, regs, call, hw, link, hist>>

\* Mutant: the buffer about to be sent is made the active one.
GiveBackNext ==
  /\ At("usb", "u_give")
  /\ active' = act["usb"]
  /\ Goto("usb", "u_start")
  /\ UNCHANGED <<sending, sendLater, sendNow, data, regs, call, hw, link, hist>>


GiveBack ==
  /\ At("usb", "u_give")
  /\ active' = buf["usb"]
  /\ Goto("usb", "u_start")
  /\ UNCHANGED <<sending, sendLater, sendNow, data, regs, call, hw, link, hist>>

StartNext ==
  /\ At("usb", "u_start")
  /\ Transmit(act["usb"])
  /\ Return("usb")
  /\ UNCHANGED <<locks, data, regs, timer, link, hist>>

UsbUnlock ==
  /\ At("usb", "u_unlock")
  /\ sending' = None
  /\ Return("usb")
  /\ UNCHANGED <<active, sendLater, sendNow, data, regs, hw, link, hist>>

UsbRelease ==
  /\ At("usb", "u_release")
  /\ sending' = None
  /\ Goto("usb", "u_again")
  /\ UNCHANGED <<active, sendLater, sendNow, data, regs, call, hw, link, hist>>

\* Mutant: send_now is not looked at again once the lock is released.
LoadNextNever ==
  /\ At("usb", "u_again")
  /\ Return("usb")
  /\ UNCHANGED <<locks, data, regs, hw, link, hist>>

\* (3) Somebody may have failed to get the lock just before its release.
LoadNextAgain ==
  /\ At("usb", "u_again")
  /\ act' = [act EXCEPT !["usb"] = sendNow]
  /\ IF sendNow = None THEN Return("usb")
                       ELSE Goto("usb", "u_lock") /\ UNCHANGED call
  /\ UNCHANGED <<locks, data, buf, hw, link, hist>>

\* (4) Get the lock again, unless somebody else already did.
UsbLock ==
  /\ At("usb", "u_lock")
  /\ IF sending = None
       THEN sending' = act["usb"] /\ Goto("usb", "u_take") /\ UNCHANGED call
       ELSE UNCHANGED sending /\ Return("usb")
  /\ UNCHANGED <<active, sendLater, sendNow, data, regs, hw, link, hist>>

-------------------------------------------------------------------------------
(***************************************************************************)
(* is_done: three loads                                                    *)
(***************************************************************************)
IsDone ==
  /\ At("main", "idle")
  /\ Goto("main", "d_sending")
  /\ UNCHANGED <<locks, data, regs, call, hw, link, hist>>

LoadIsDone(from, v, to) ==
  /\ At("main", from)
  /\ Goto("main", IF v = None THEN to ELSE "idle")
  /\ UNCHANGED <<locks, data, regs, call, hw, link, hist>>

\* is_done returned true; the caller carries on.
IsDoneTrue ==
  /\ At("main", "d_done")
  /\ Goto("main", "idle")
  /\ UNCHANGED <<locks, data, regs, call, hw, link, hist>>

-------------------------------------------------------------------------------
(***************************************************************************)
(* The host goes away: the transfer in flight is cancelled and never       *)
(* completes.  When it comes back, its interrupt cancels the timeout and   *)
(* resets the sender (callback_set_configuration, claim).                  *)
(***************************************************************************)
Disconnect ==
  /\ connected
  /\ drops < MaxDisconnects
  /\ over["usb"] = None
  /\ connected' = FALSE
  /\ inflight' = None
  /\ drops' = drops + 1
  /\ UNCHANGED <<locks, data, pc, over, regs, call, timer, disconnected, error,
                 hist>>

\* Mutant: reset() forgets a request to send.
ResetKeepsSendNow ==
  /\ data' = [b \in Buf |-> <<>>]
  /\ active' = 0 /\ sendLater' = None /\ sending' = None
  /\ UNCHANGED sendNow

Reset ==
  /\ data' = [b \in Buf |-> <<>>]
  /\ active' = 0
  /\ sendLater' = None
  /\ sendNow' = None
  /\ sending' = None

Reconnect ==
  /\ ~connected
  /\ Running("main") /\ pc["main"] \in ResetPoints
  /\ Reset
  /\ timer' = FALSE
  /\ connected' = TRUE
  /\ settled' = accepted
  /\ UNCHANGED <<pc, over, regs, call, inflight, disconnected, error, drops,
                 accepted, wire>>

-------------------------------------------------------------------------------
WriteStep ==
  \/ WaitConnect \/ PollConnect \/ Acquire \/ Copy \/ Release \/ StoreLater
  \/ ArmTimer \/ TakeBackLater \/ CancelTimer \/ StoreNow \/ CheckNow

SendStep(c) ==
  \/ Mark(c) \/ Lock(c) \/ Recheck(c) \/ Unlock(c) \/ TakeBuffer(c)
  \/ ClearNow(c) \/ Publish(c) \/ Start(c)

IsDoneStep ==
  \/ LoadIsDone("d_sending", sending, "d_later")
  \/ LoadIsDone("d_later", sendLater, "d_now")
  \/ LoadIsDone("d_now", sendNow, "d_done")
  \/ IsDoneTrue

MainStep ==
  \/ WriteStep
  \/ TakeLater("main", "s_take", "s_cancel") \/ SendNowCancelTimer
  \/ SendStep("main")
  \/ IsDoneStep

TimerStep == TakeLater("timer", "t_take", "mark") \/ SendStep("timer")

UsbStep ==
  \/ LoadSent \/ LoadNext \/ TakeNext \/ ClearNext \/ EmptySent \/ HandOver
  \/ GiveBack \/ StartNext \/ UsbUnlock \/ UsbRelease \/ LoadNextAgain
  \/ UsbLock

Next ==
  \/ \E n \in 1..MaxBatch : Write(n)
  \/ SendNow \/ IsDone
  \/ MainStep
  \/ TimerInterrupt \/ TimerStep
  \/ UsbInterrupt \/ UsbStep
  \/ Disconnect \/ Reconnect

Spec == Init /\ [][Next]_vars

\* The processor keeps executing, an armed timer expires and a transfer that was
\* started completes.
Fairness ==
  /\ WF_vars(MainStep)
  /\ WF_vars(TimerStep) /\ WF_vars(TimerInterrupt)
  /\ WF_vars(UsbStep) /\ WF_vars(UsbInterrupt)

FairSpec == Spec /\ Fairness

-------------------------------------------------------------------------------
(***************************************************************************)
(* Properties                                                              *)
(***************************************************************************)
\* Every variable has the type its declaration in BulkTX.hpp gives it.
TypeOK ==
  /\ active \in Buf \cup {None} /\ sending \in Buf \cup {None}
  /\ sendLater \in Buf \cup {None} /\ sendNow \in Buf \cup {None}
  /\ data \in [Buf -> Seq(Nat)]
  /\ pc \in [Ctx -> Labels]
  /\ over \in [Handlers -> Ctx \cup {None}]
  /\ buf \in [Ctx -> Buf \cup {None}] /\ act \in [Ctx -> Buf \cup {None}]
  /\ size \in Nat /\ copied \in Nat /\ todo \in Nat
  /\ timer \in BOOLEAN /\ inflight \in Buf \cup {None}
  /\ connected \in BOOLEAN /\ disconnected \in BOOLEAN
  /\ error \in Nat /\ drops \in 0..MaxDisconnects
  /\ accepted \in Nat /\ settled \in Nat /\ wire \in Seq(Nat)

\* The assertions of BulkTX.ipp (CS_MIDI_USB_ASSERT) never fail, in any context
\* and wherever handlers interrupt it.
WriteAsserts ==
  /\ pc["main"] = "now" /\ size = 0 => sendLater = None /\ sendNow = None
  /\ pc["main"] = "later" => sendLater = None
  /\ pc["main"] = "cancel" => sendNow = None /\ act["main"] = buf["main"]
SendAsserts ==
  \A c \in {"main", "timer"} :
    /\ pc[c] = "take" => sendNow = buf[c]
    /\ pc[c] = "clear" => act[c] = buf[c]
UsbAsserts ==
  /\ pc["usb"] = "u_check" => buf["usb"] # None
  /\ pc["usb"] = "u_take" => /\ act["usb"] # buf["usb"]
                             /\ active \in {None, act["usb"]}
                             /\ sendNow = act["usb"]



AssertionsHold == WriteAsserts /\ SendAsserts /\ UsbAsserts

\* A transfer is only ever started when the hardware is idle, and never with an
\* empty packet (tx_start in test-USBBulk.cpp expects size > 0).
StartsOneFullTransfer ==
  /\ \A c \in {"main", "timer"} : pc[c] = "start" =>
       inflight = None /\ act[c] \in Buf /\ data[act[c]] # <<>>
  /\ pc["usb"] = "u_start" =>
       inflight = None /\ act["usb"] \in Buf /\ data[act["usb"]] # <<>>

\* While the hardware reads a buffer nobody writes to it, or frees it for writing.
InFlightUntouched ==
  [][inflight # None /\ inflight' = inflight =>
       /\ data'[inflight] = data[inflight]
       /\ active' # inflight]_vars

\* No lost wake-up: when every context is at rest and no transfer is under way,
\* no request to send is left behind, the lock is free, and data that was
\* accepted is scheduled to be sent by the timer.
NoForgottenData ==
  connected /\ inflight = None /\ (\A c \in Ctx : pc[c] = "idle") =>
    /\ sendNow = None /\ sending = None
    /\ active # None
    /\ data[active] # <<>> => sendLater = active /\ timer
    /\ settled + Len(data[active]) = accepted

\* The host receives the messages in the order of the write() calls, none twice
\* and none missing.
Fifo == INSTANCE MIDIFifo WITH Batch <- PacketSize, Capacity <- 2 * PacketSize
FifoSpec == Fifo!Spec

\* The documentation of is_done: "Check if all transfers have completed."
IsDoneMeansDone == pc["main"] = "d_done" => settled = accepted

\* Every message write() accepted is eventually on the wire, without any further
\* call of the application, unless the connection is lost.
EveryMessageSent ==
    \A m \in 1..MaxMsgs : accepted >= m ~> settled >= m \/ ~connected

\* A call of write() (which "may block") returns, unless the connection is lost.
WriteReturns == todo > 0 ~> todo = 0 \/ ~connected
===============================================================================
