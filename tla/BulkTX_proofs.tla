---------------------------- MODULE BulkTX_proofs ----------------------------
(*****************************************************************************)
(* Proofs about BulkTX, for every packet size, number of messages and        *)
(* disconnections and every nesting of the interrupt handlers.  In three     *)
(* steps, each on top of the one before:                                     *)
(*  1. TypeInv is inductive, wherever a reset interrupts the main program;   *)
(*  2. the invariant of BulkTXInv is inductive, and what follows from it:    *)
(*     the assertions of the code hold, transfers never overlap or are       *)
(*     empty, and the buffer in flight is left alone;                        *)
(*  3. so is DInv, where the messages are and who is going to send them:     *)
(*     the host receives the messages of the write() calls in their order,   *)
(*     none twice and none missing, and a sender at rest has forgotten       *)
(*     nothing.                                                              *)
(* 2 and 3 assume that reset() does not interrupt write_impl or send_now.    *)
(*****************************************************************************)
EXTENDS BulkTXInv, TLAPS

-------------------------------------------------------------------------------
(*****************************************************************************)
(* 1. Types                                                                  *)
(*****************************************************************************)
\* Outside the part of write_impl that follows the copy, no message of the
\* current call is copied and not yet accounted for.
CopiedLabels ==
  {"idle", "connect", "wait", "acquire", "copy",
   "d_sending", "d_later", "d_now", "d_done"}

\* What TypeOK needs to be inductive: a buffer never holds more than a packet
\* and write_impl never reports more messages than it was given, so neither
\* unsigned subtraction of the code wraps around; write_impl copies into a buffer.
SizesOK ==
  /\ \A b \in Buf : Len(data[b]) <= PacketSize
  /\ copied <= todo
  /\ pc["main"] \in CopiedLabels => copied = 0
  /\ pc["main"] = "copy" => buf["main"] \in Buf

TypeInv == TypeOK /\ SizesOK

ControlOK == pc \in [Ctx -> Labels] /\ over \in [Handlers -> Ctx \cup {None}]

\* One write never takes more than was offered or more than fits.
LEMMA FitsBounds ==
  ASSUME NEW b \in Buf, NEW n \in Nat, data \in [Buf -> Seq(Nat)],
         Len(data[b]) <= PacketSize
  PROVE  /\ Fits(b, n) \in Nat
         /\ Fits(b, n) <= n
         /\ Len(data[b]) + Fits(b, n) <= PacketSize
<1>1. Len(data[b]) \in Nat /\ PacketSize \in Nat
  BY ConstantsAssumption
<1> QED BY <1>1 DEF Fits

\* The messages of one copy, as a sequence.
LEMMA NumberedSeq ==
  ASSUME NEW k \in Nat, NEW a \in Nat
  PROVE  /\ [i \in 1..k |-> a + i] \in Seq(Nat)
         /\ Len([i \in 1..k |-> a + i]) = k
<1> QED OBVIOUS

\* The index of the other buffer is in range.
LEMMA OtherBuf == \A b \in Buf : other(b) \in Buf
<1> QED BY DEF Buf, other

\* How Goto, Return and Enter move the program counters.
LEMMA GotoMain ==
  ASSUME TypeInv, NEW l \in MainLabels, Goto("main", l)
  PROVE  ControlOK' /\ pc'["main"] = l
<1> QED BY DEF TypeInv, TypeOK, ControlOK, Goto, Labels, Ctx

\* A step of a handler leaves the main program's counter alone.
LEMMA GotoHandler ==
  ASSUME TypeInv, NEW h \in Handlers, NEW l \in Labels, Goto(h, l)
  PROVE  ControlOK' /\ pc'["main"] = pc["main"]
<1> QED BY DEF TypeInv, TypeOK, ControlOK, Goto, Ctx, Handlers

\* Returning keeps the counters and the count of messages in range.
LEMMA ReturnType ==
  ASSUME TypeInv, NEW c \in Ctx, Return(c)
  PROVE  /\ ControlOK'
         /\ todo' \in Nat /\ copied' \in Nat /\ size' = size
         /\ copied' <= todo'
         /\ pc'["main"] \in CopiedLabels => copied' = 0
         /\ pc'["main"] = "copy" => pc["main"] = "copy"
<1>1. CASE c = "main"
  BY <1>1 DEF TypeInv, TypeOK, SizesOK, Return, ControlOK, Labels, MainLabels, Ctx
<1>2. CASE c # "main"
  BY <1>2 DEF TypeInv, TypeOK, SizesOK, Return, ControlOK, Labels, MainLabels,
              Ctx, Handlers
<1> QED BY <1>1, <1>2

\* An interrupt keeps the counters in range.
LEMMA EnterType ==
  ASSUME TypeInv, NEW h \in Handlers, NEW l \in Labels, Enter(h, l)
  PROVE  ControlOK' /\ pc'["main"] = pc["main"]
<1> QED BY DEF TypeInv, TypeOK, ControlOK, Enter, Ctx, Handlers

-------------------------------------------------------------------------------
\* The write function.
LEMMA WriteTypes ==
  ASSUME TypeInv, WriteStep \/ \E n \in 1..MaxBatch : Write(n)
  PROVE  TypeInv'
<1> USE ConstantsAssumption DEF TypeInv, TypeOK, SizesOK, ControlOK, locks, regs,
        call, hw, link, hist
<1>0. "main" \in Ctx
  BY DEF Ctx
<1>1. ASSUME NEW n \in 1..MaxBatch, Write(n) PROVE TypeInv'
  <2>1. ControlOK' /\ pc'["main"] = "connect"
    BY <1>1, GotoMain DEF Write, MainLabels
  <2> QED BY <1>1, <2>1 DEF Write, At, CopiedLabels
<1>2. GiveUp => error' \in Nat /\ todo' = 0
  BY DEF GiveUp
<1>3. CASE WaitConnect
  <2> USE <1>3 DEF WaitConnect, At, CopiedLabels
  <2>1. CASE connected
    <3>1. ControlOK' /\ pc'["main"] = "acquire"
      BY <2>1, GotoMain DEF MainLabels
    <3> QED BY <2>1, <3>1
  <2>2. CASE ~connected /\ disconnected
    <3>1. ControlOK' /\ pc'["main"] = "idle"
      BY <2>2, GotoMain DEF MainLabels, GiveUp
    <3>2. copied = 0 /\ error' \in Nat /\ todo' = 0
      BY <1>2, <2>2
    <3>3. UNCHANGED <<locks, data, regs, size, copied, hw, connected, drops, hist>>
          /\ disconnected' \in BOOLEAN
      BY <2>2
    <3> HIDE <1>3 DEF WaitConnect
    <3> QED BY <3>1, <3>2, <3>3
  <2>3. CASE ~connected /\ ~disconnected
    <3>1. ControlOK' /\ pc'["main"] = "wait"
      BY <2>3, GotoMain DEF MainLabels
    <3> QED BY <2>3, <3>1
  <2> QED BY <2>1, <2>2, <2>3
<1>4. CASE PollConnect
  <2> USE <1>4 DEF PollConnect, At, CopiedLabels
  <2>1. CASE connected
    <3>1. ControlOK' /\ pc'["main"] = "acquire"
      BY <2>1, GotoMain DEF MainLabels
    <3> QED BY <2>1, <3>1
  <2>2. CASE ~connected
    <3>1. ControlOK' /\ pc'["main"] = "idle"
      BY <2>2, GotoMain DEF MainLabels, GiveUp
    <3>2. copied = 0 /\ error' \in Nat /\ todo' = 0
      BY <1>2, <2>2
    <3>3. UNCHANGED <<locks, data, regs, size, copied, hw, connected, drops, hist>>
          /\ disconnected' \in BOOLEAN
      BY <2>2
    <3> HIDE <1>4 DEF PollConnect
    <3> QED BY <3>1, <3>2, <3>3
  <2> QED BY <2>1, <2>2
<1>5. CASE Acquire
  <2>1. ControlOK' /\ pc'["main"] = "copy"
    BY <1>5, GotoMain DEF Acquire, MainLabels
  <2> QED BY <1>0, <1>5, <2>1 DEF Acquire, At, CopiedLabels
<1>6. CASE Copy
  <2> DEFINE b == buf["main"]
             k == Fits(b, todo)
             new == [i \in 1..k |-> accepted + i]
  <2>1. b \in Buf
    BY <1>6 DEF Copy, At
  <2>2. k \in Nat /\ k <= todo /\ Len(data[b]) + k <= PacketSize
    BY <2>1, FitsBounds
  <2>3. new \in Seq(Nat) /\ Len(new) = k
    BY <2>2, NumberedSeq
  <2>4. data[b] \o new \in Seq(Nat) /\ Len(data[b] \o new) <= PacketSize
    BY <2>1, <2>2, <2>3
  <2>5. data' = [data EXCEPT ![b] = data[b] \o new]
    BY <1>6 DEF Copy
  <2>6. /\ copied' = k /\ accepted' = accepted + k /\ size' = Len(data[b])
        /\ Goto("main", "release")
        /\ UNCHANGED <<locks, regs, todo, hw, link, settled, wire>>
    BY <1>6 DEF Copy
  <2> HIDE DEF k, new
  <2>7. data' \in [Buf -> Seq(Nat)] /\ \A x \in Buf : Len(data'[x]) <= PacketSize
    BY <2>1, <2>4, <2>5
  <2>8. ControlOK' /\ pc'["main"] = "release"
    BY <2>6, GotoMain DEF MainLabels
  <2>9. size' \in Nat /\ copied' \in Nat /\ accepted' \in Nat /\ copied' <= todo'
    <3>1. todo \in Nat /\ accepted \in Nat /\ Len(data[b]) \in Nat
      BY <2>1 DEF vars
    <3>2. /\ size' = Len(data[b]) /\ copied' = k
          /\ accepted' = accepted + k /\ todo' = todo
      BY <2>6
    <3> QED BY <2>2, <3>1, <3>2
  <2>10. UNCHANGED <<locks, regs, todo, hw, link, settled, wire>>
    BY <2>6
  <2> QED
    BY <2>7, <2>8, <2>9, <2>10 DEF CopiedLabels
<1>7. CASE Release
  <2>1. ControlOK' /\ pc'["main"] \in {"check", "now", "later", "unlater"}
    BY <1>7, GotoMain DEF Release, MainLabels
  <2> QED BY <1>0, <1>7, <2>1 DEF Release, At, CopiedLabels
<1>8. CASE StoreLater
  <2>1. ControlOK' /\ pc'["main"] = "arm"
    BY <1>8, GotoMain DEF StoreLater, MainLabels
  <2> QED BY <1>0, <1>8, <2>1 DEF StoreLater, At, CopiedLabels
<1>9. CASE ArmTimer
  <2>1. ControlOK' /\ pc'["main"] = "check"
    BY <1>9, GotoMain DEF ArmTimer, MainLabels
  <2> QED BY <1>9, <2>1 DEF ArmTimer, At, CopiedLabels
<1>10. CASE TakeBackLater
  <2>1. ControlOK' /\ pc'["main"] \in {"check", "cancel"}
    BY <1>10, GotoMain DEF TakeBackLater, MainLabels
  <2> QED BY <1>0, <1>10, <2>1 DEF TakeBackLater, At, CopiedLabels
<1>11. CASE CancelTimer
  <2>1. ControlOK' /\ pc'["main"] = "now"
    BY <1>11, GotoMain DEF CancelTimer, MainLabels
  <2> QED BY <1>11, <2>1 DEF CancelTimer, At, CopiedLabels
<1>12. CASE StoreNow
  <2>1. ControlOK' /\ pc'["main"] = "check"
    BY <1>12, GotoMain DEF StoreNow, MainLabels
  <2> QED BY <1>0, <1>12, <2>1 DEF StoreNow, At, CopiedLabels
<1>13. CASE CheckNow
  <2> USE <1>13 DEF CheckNow, At
  <2>1. CASE sendNow = None
    BY <1>0, <2>1, ReturnType
  <2>2. CASE sendNow # None
    <3>1. ControlOK' /\ pc'["main"] = "lock"
      BY <2>2, GotoMain DEF MainLabels, SendLabels
    <3> QED BY <2>2, <3>1 DEF CopiedLabels
  <2> QED BY <2>1, <2>2
<1> QED
  BY <1>1, <1>3, <1>4, <1>5, <1>6, <1>7, <1>8, <1>9, <1>10, <1>11, <1>12, <1>13
  DEF WriteStep

-------------------------------------------------------------------------------
\* Moving on without reaching a label at which the call has copied nothing.
LEMMA GotoFar ==
  ASSUME TypeInv, NEW c \in Ctx, NEW l \in Labels, Goto(c, l),
         c = "main" => l \in MainLabels \ CopiedLabels
  PROVE  /\ ControlOK'
         /\ pc'["main"] \in CopiedLabels => pc["main"] \in CopiedLabels
         /\ pc'["main"] = "copy" => pc["main"] = "copy" /\ c # "main"
<1>1. CASE c = "main"
  BY <1>1, GotoMain DEF CopiedLabels
<1>2. CASE c # "main"
  BY <1>2, GotoHandler DEF Ctx
<1> QED BY <1>1, <1>2

\* send_now and timeout_callback up to announcing the buffer.
LEMMA TakeLaterTypes ==
  ASSUME TypeInv, NEW c \in {"main", "timer"}, NEW from \in Labels,
         NEW to \in {"s_cancel", "mark"}, TakeLater(c, from, to), from # "copy"
  PROVE  TypeInv'
<1> USE DEF TypeInv, TypeOK, SizesOK, ControlOK, locks, regs, call, hw, link, hist
<1>0. c \in Ctx /\ "main" \in Ctx
  BY DEF Ctx, Handlers
<1>1. c = "main" => pc["main"] # "copy"
  BY DEF TakeLater, At
<1>2. CASE sendLater = None
  <2>1. Return(c)
    BY <1>2 DEF TakeLater
  <2> QED BY <1>0, <1>1, <1>2, <2>1, ReturnType DEF TakeLater
<1>3. CASE sendLater # None
  <2>1. to \in Labels /\ to \in MainLabels \ CopiedLabels
    BY DEF Labels, MainLabels, SendLabels, CopiedLabels
  <2>2. Goto(c, to) /\ UNCHANGED call
    BY <1>3 DEF TakeLater
  <2>3. /\ ControlOK'
        /\ pc'["main"] \in CopiedLabels => pc["main"] \in CopiedLabels
        /\ pc'["main"] = "copy" => pc["main"] = "copy" /\ c # "main"
    BY <1>0, <2>1, <2>2, GotoFar
  <2> QED BY <1>0, <1>3, <2>2, <2>3 DEF TakeLater
<1> QED BY <1>2, <1>3

\* The part shared by write_impl, send_now and timeout_callback.
LEMMA SendTypes ==
  ASSUME TypeInv, NEW c \in {"main", "timer"}, SendStep(c)
  PROVE  TypeInv'
<1> USE DEF TypeInv, TypeOK, SizesOK, ControlOK, locks, regs, call, hw, link, hist
<1>0. c \in Ctx /\ "main" \in Ctx
  BY DEF Ctx, Handlers
<1>1. \A l \in SendLabels : l \in Labels /\ l \in MainLabels \ CopiedLabels
  BY DEF Labels, MainLabels, SendLabels, CopiedLabels
<1>2. ASSUME NEW l \in SendLabels, Goto(c, l)
      PROVE  /\ ControlOK'
             /\ pc'["main"] \in CopiedLabels => pc["main"] \in CopiedLabels
             /\ pc'["main"] = "copy" => pc["main"] = "copy" /\ c # "main"
  BY <1>0, <1>1, <1>2, GotoFar
<1>3. CASE Mark(c)
  <2>1. \E l \in SendLabels : Goto(c, l)
    BY <1>3 DEF Mark, SendLabels
  <2> QED BY <1>0, <1>2, <1>3, <2>1 DEF Mark
<1>4. CASE Lock(c)
  <2>1. CASE sending = None
    <3>1. Goto(c, "recheck") /\ "recheck" \in SendLabels
      BY <1>4, <2>1 DEF Lock, SendLabels
    <3> QED BY <1>0, <1>2, <1>4, <2>1, <3>1 DEF Lock
  <2>2. CASE sending # None
    <3>1. Return(c) /\ pc[c] # "copy"
      BY <1>4, <2>2 DEF Lock, At
    <3> QED BY <1>0, <1>4, <2>2, <3>1, ReturnType DEF Lock
  <2> QED BY <2>1, <2>2
<1>5. CASE Recheck(c)
  <2>1. \E l \in SendLabels : Goto(c, l)
    BY <1>5 DEF Recheck, SendLabels
  <2> QED BY <1>0, <1>2, <1>5, <2>1 DEF Recheck
<1>6. CASE Unlock(c)
  <2>1. Return(c)
    BY <1>6 DEF Unlock
  <2> QED BY <1>0, <1>6, <2>1, ReturnType DEF Unlock
<1>7. CASE TakeBuffer(c)
  <2>1. \E l \in SendLabels : Goto(c, l)
    BY <1>7 DEF TakeBuffer, SendLabels
  <2> QED BY <1>0, <1>2, <1>7, <2>1 DEF TakeBuffer
<1>8. CASE ClearNow(c)
  <2>1. \E l \in SendLabels : Goto(c, l)
    BY <1>8 DEF ClearNow, SendLabels
  <2> QED BY <1>0, <1>2, <1>8, <2>1 DEF ClearNow
<1>9. CASE Publish(c)
  <2>1. Goto(c, "start") /\ "start" \in SendLabels
    BY <1>9 DEF Publish, SendLabels
  <2>2. other(act[c]) \in Buf
    BY <1>0, <1>9, OtherBuf DEF Publish
  <2>3. <<>> \in Seq(Nat) /\ Len(<<>>) = 0
    OBVIOUS
  <2>4. data' \in [Buf -> Seq(Nat)] /\ \A b \in Buf : Len(data'[b]) <= PacketSize
    BY <1>9, <2>2, <2>3, ConstantsAssumption DEF Publish
  <2> QED BY <1>0, <1>2, <1>9, <2>1, <2>2, <2>4 DEF Publish
<1>10. CASE Start(c)
  <2>1. Return(c)
    BY <1>10 DEF Start
  <2> QED BY <1>0, <1>10, <2>1, ReturnType DEF Start, Transmit
<1> QED
  BY <1>3, <1>4, <1>5, <1>6, <1>7, <1>8, <1>9, <1>10 DEF SendStep

-------------------------------------------------------------------------------
\* tx_callback.
LEMMA UsbTypes ==
  ASSUME TypeInv, UsbStep
  PROVE  TypeInv'
<1> USE DEF TypeInv, TypeOK, SizesOK, ControlOK, locks, regs, call, hw, link, hist
<1>0. "usb" \in Ctx /\ "main" \in Ctx /\ "usb" \in Handlers /\ "usb" # "main"
  BY DEF Ctx, Handlers
<1>1. ASSUME NEW l \in UsbLabels, Goto("usb", l)
      PROVE  ControlOK' /\ pc'["main"] = pc["main"]
  BY <1>0, <1>1, GotoHandler DEF Labels
<1>2. ASSUME Return("usb")
      PROVE  /\ ControlOK' /\ pc'["main"] = pc["main"]
             /\ UNCHANGED <<size, copied, todo>>
  BY <1>0, <1>2, ReturnType DEF Return
<1>3. CASE LoadSent
  <2>1. \E l \in UsbLabels : Goto("usb", l)
    BY <1>3 DEF LoadSent, UsbLabels
  <2> QED BY <1>0, <1>1, <1>3, <2>1 DEF LoadSent
<1>4. CASE LoadNext
  <2>1. \E l \in UsbLabels : Goto("usb", l)
    BY <1>4 DEF LoadNext, UsbLabels
  <2> QED BY <1>0, <1>1, <1>4, <2>1 DEF LoadNext
<1>5. CASE TakeNext
  <2>1. \E l \in UsbLabels : Goto("usb", l)
    BY <1>5 DEF TakeNext, UsbLabels
  <2> QED BY <1>0, <1>1, <1>5, <2>1 DEF TakeNext
<1>6. CASE ClearNext
  <2>1. \E l \in UsbLabels : Goto("usb", l)
    BY <1>6 DEF ClearNext, UsbLabels
  <2> QED BY <1>0, <1>1, <1>6, <2>1 DEF ClearNext
<1>7. CASE HandOver
  <2>1. \E l \in UsbLabels : Goto("usb", l)
    BY <1>7 DEF HandOver, UsbLabels
  <2> QED BY <1>0, <1>1, <1>7, <2>1 DEF HandOver
<1>8. CASE GiveBack
  <2>1. \E l \in UsbLabels : Goto("usb", l)
    BY <1>8 DEF GiveBack, UsbLabels
  <2> QED BY <1>0, <1>1, <1>8, <2>1 DEF GiveBack
<1>9. CASE UsbRelease
  <2>1. \E l \in UsbLabels : Goto("usb", l)
    BY <1>9 DEF UsbRelease, UsbLabels
  <2> QED BY <1>0, <1>1, <1>9, <2>1 DEF UsbRelease
<1>10. CASE EmptySent
  <2>1. Goto("usb", "u_hand") /\ "u_hand" \in UsbLabels
    BY <1>10 DEF EmptySent, UsbLabels
  <2>2. <<>> \in Seq(Nat) /\ Len(<<>>) = 0
    OBVIOUS
  <2>3. data' = [data EXCEPT ![buf["usb"]] = <<>>]
    BY <1>10 DEF EmptySent
  <2>4. buf["usb"] \in Buf /\ PacketSize \in Nat
    BY <1>0, <1>10, ConstantsAssumption DEF EmptySent
  <2>5. data' \in [Buf -> Seq(Nat)]
    BY <2>2, <2>3, <2>4
  <2>6. \A b \in Buf : Len(data'[b]) <= PacketSize
    BY <2>2, <2>3, <2>4
  <2> QED BY <1>0, <1>1, <1>10, <2>1, <2>5, <2>6 DEF EmptySent
<1>11. CASE StartNext
  <2>1. Return("usb")
    BY <1>11 DEF StartNext
  <2> QED BY <1>0, <1>2, <1>11, <2>1 DEF StartNext, Transmit
<1>12. CASE UsbUnlock
  <2>1. Return("usb")
    BY <1>12 DEF UsbUnlock
  <2> QED BY <1>0, <1>2, <1>12, <2>1 DEF UsbUnlock
<1>13. CASE LoadNextAgain
  <2>1. \/ Return("usb")
        \/ (\E l \in UsbLabels : Goto("usb", l)) /\ UNCHANGED call
    BY <1>13 DEF LoadNextAgain, UsbLabels
  <2>2. ControlOK' /\ UNCHANGED call /\ pc'["main"] = pc["main"]
    BY <1>1, <1>2, <2>1
  <2>3. /\ act' = [act EXCEPT !["usb"] = sendNow]
        /\ UNCHANGED <<locks, data, buf, hw, link, hist>>
    BY <1>13 DEF LoadNextAgain
  <2> QED BY <1>0, <2>2, <2>3, SMTT(30)
<1>14. CASE UsbLock
  <2>1. \/ Return("usb")
        \/ (\E l \in UsbLabels : Goto("usb", l)) /\ UNCHANGED call
    BY <1>14 DEF UsbLock, UsbLabels
  <2>2. ControlOK' /\ UNCHANGED call /\ pc'["main"] = pc["main"]
    BY <1>1, <1>2, <2>1
  <2> QED BY <1>0, <1>14, <2>2 DEF UsbLock
<1> QED
  BY <1>3, <1>4, <1>5, <1>6, <1>7, <1>8, <1>9, <1>10, <1>11, <1>12, <1>13, <1>14
  DEF UsbStep

-------------------------------------------------------------------------------
\* Interrupts, the other calls of the main program, and the host.
LEMMA OtherTypes ==
  ASSUME TypeInv,
         \/ SendNow \/ IsDone \/ SendNowCancelTimer \/ IsDoneStep
         \/ TimerInterrupt \/ UsbInterrupt \/ Disconnect \/ Reconnect
  PROVE  TypeInv'
<1> USE ConstantsAssumption DEF TypeInv, TypeOK, SizesOK, ControlOK, locks, regs,
        call, hw, link, hist
<1>0. /\ "usb" \in Handlers /\ "timer" \in Handlers /\ "main" \in Ctx
      /\ \A b \in Buf : b \in Nat
  BY DEF Handlers, Ctx, Buf
<1>1. CASE SendNow
  <2>1. ControlOK' /\ pc'["main"] = "s_take"
    BY <1>1, GotoMain DEF SendNow, MainLabels
  <2> QED BY <1>1, <2>1 DEF SendNow, CopiedLabels
<1>2. CASE IsDone
  <2>1. ControlOK' /\ pc'["main"] = "d_sending" /\ pc["main"] = "idle"
    BY <1>2, GotoMain DEF IsDone, MainLabels, At
  <2> QED BY <1>2, <2>1 DEF IsDone, CopiedLabels
<1>3. CASE SendNowCancelTimer
  <2>1. ControlOK' /\ pc'["main"] = "mark"
    BY <1>3, GotoMain DEF SendNowCancelTimer, MainLabels, SendLabels
  <2> QED BY <1>3, <2>1 DEF SendNowCancelTimer, CopiedLabels
<1>4. CASE IsDoneStep
  <2>1. /\ ControlOK' /\ pc'["main"] # "copy" /\ pc["main"] \in CopiedLabels
        /\ UNCHANGED <<locks, data, regs, call, hw, link, hist>>
    BY <1>4, GotoMain
    DEF IsDoneStep, LoadIsDone, IsDoneTrue, MainLabels, At, CopiedLabels
  <2> QED BY <2>1
<1>5. CASE TimerInterrupt
  <2>1. ControlOK' /\ pc'["main"] = pc["main"]
    BY <1>0, <1>5, EnterType DEF TimerInterrupt, Labels, TimerLabels
  <2> QED BY <1>5, <2>1 DEF TimerInterrupt
<1>6. CASE UsbInterrupt
  <2>1. ControlOK' /\ pc'["main"] = pc["main"]
    BY <1>0, <1>6, EnterType DEF UsbInterrupt, Labels, UsbLabels
  <2>2. inflight \in Buf
    BY <1>6 DEF UsbInterrupt
  <2>3. wire \o data[inflight] \in Seq(Nat) /\ Len(data[inflight]) \in Nat
    BY <2>2
  <2>4. wire' \in Seq(Nat) /\ settled' \in Nat
    BY <1>6, <2>3 DEF UsbInterrupt
  <2> QED BY <1>6, <2>1, <2>4 DEF UsbInterrupt
<1>7. CASE Disconnect
  <2>1. drops' \in 0..MaxDisconnects
    BY <1>7 DEF Disconnect
  <2> QED BY <1>7, <2>1 DEF Disconnect
<1>8. CASE Reconnect
  <2>1. <<>> \in Seq(Nat) /\ Len(<<>>) = 0 /\ 0 \in Buf
    BY DEF Buf
  <2>2. data' \in [Buf -> Seq(Nat)] /\ \A b \in Buf : Len(data'[b]) <= PacketSize
    BY <1>8, <2>1 DEF Reconnect, Reset
  <2> QED BY <1>8, <2>1, <2>2 DEF Reconnect, Reset
<1> QED BY <1>1, <1>2, <1>3, <1>4, <1>5, <1>6, <1>7, <1>8

\* The constructed sender has these types and sizes.
LEMMA InitTypes == Init => TypeInv
<1> SUFFICES ASSUME Init PROVE TypeInv
  OBVIOUS
<1>1. <<>> \in Seq(Nat) /\ Len(<<>>) = 0 /\ 0 \in Buf
  BY DEF Buf
<1>2. "idle" \in Labels
  BY DEF Labels, MainLabels
<1> QED
  BY <1>1, <1>2, ConstantsAssumption
  DEF Init, TypeInv, TypeOK, SizesOK, Ctx

\* Every step keeps them.
LEMMA NextTypes == TypeInv /\ [Next]_vars => TypeInv'
<1> SUFFICES ASSUME TypeInv, [Next]_vars PROVE TypeInv'
  OBVIOUS
<1>1. CASE (\E n \in 1..MaxBatch : Write(n)) \/ WriteStep
  BY <1>1, WriteTypes
<1>2. CASE \/ TakeLater("main", "s_take", "s_cancel")
          \/ TakeLater("timer", "t_take", "mark")
  <2>1. "s_take" \in Labels /\ "t_take" \in Labels
    BY DEF Labels, MainLabels, TimerLabels
  <2> QED BY <1>2, <2>1, TakeLaterTypes
<1>3. CASE SendStep("main") \/ SendStep("timer")
  BY <1>3, SendTypes
<1>4. CASE UsbStep
  BY <1>4, UsbTypes
<1>5. CASE \/ SendNow \/ IsDone \/ SendNowCancelTimer \/ IsDoneStep
          \/ TimerInterrupt \/ UsbInterrupt \/ Disconnect \/ Reconnect
  BY <1>5, OtherTypes
<1>6. CASE UNCHANGED vars
  BY <1>6 DEF vars, TypeInv, TypeOK, SizesOK, locks, regs, call, hw, link, hist
<1> QED
  BY <1>1, <1>2, <1>3, <1>4, <1>5, <1>6 DEF Next, MainStep, TimerStep

\* Every variable of the sender keeps its type, and the unsigned subtractions of
\* write_impl (room left in the buffer, messages left of the call) never wrap.
THEOREM TypeCorrect == Spec => []TypeOK
<1>1. Init => TypeInv
  BY InitTypes
<1>2. TypeInv /\ [Next]_vars => TypeInv'
  BY NextTypes
<1>3. TypeInv => TypeOK
  BY DEF TypeInv
<1> QED BY <1>1, <1>2, <1>3, PTL DEF Spec

-------------------------------------------------------------------------------
(*****************************************************************************)
(* 2. Locks, buffers and requests (BulkTXInv)                                *)
(*****************************************************************************)
Rest == LockOK /\ BufferOK /\ TokenOK /\ MainOK /\ TimerOK /\ UsbOK

\* There are two buffers, and neither is the null pointer.
LEMMA TwoBuffers ==
  \A b \in Buf : /\ other(b) \in Buf /\ other(b) # b /\ other(b) # None
                 /\ \A x \in Buf : x # b => x = other(b)
<1> QED BY ConstantsAssumption DEF Buf, other

-------------------------------------------------------------------------------
(***************************************************************************)
(* The stack of contexts                                                   *)
(***************************************************************************)
\* When the main program runs, no handler does.
LEMMA RunMain ==
  ASSUME TypeInv, StackOK, Running("main")
  PROVE  pc["timer"] = "idle" /\ pc["usb"] = "idle"
<1> QED BY DEF TypeInv, TypeOK, StackOK, Running, Handlers, Ctx

\* When the timeout runs, the USB handler is idle or the one it interrupted.
LEMMA RunTimer ==
  ASSUME TypeInv, StackOK, Running("timer")
  PROVE  /\ pc["timer"] # "idle"
         /\ pc["usb"] # "idle" => over["timer"] = "usb"
<1> QED BY DEF TypeInv, TypeOK, StackOK, Running, Handlers, Ctx

\* When the USB handler runs, the timeout is not on top of it.
LEMMA RunUsb ==
  ASSUME TypeInv, StackOK, Running("usb")
  PROVE  pc["usb"] # "idle" /\ over["timer"] # "usb"
<1> QED BY DEF TypeInv, TypeOK, StackOK, Running, Handlers, Ctx

\* A running context moves on to another statement.
LEMMA StackGoto ==
  ASSUME TypeInv, StackOK, NEW c \in Ctx, NEW l, Running(c), Goto(c, l),
         l # "idle" \/ c = "main",
         c = "main" => l \in MainLabels,
         c = "timer" => l \in TimerLabels,
         c = "usb" => l \in UsbLabels
  PROVE  StackOK' /\ pc' = [pc EXCEPT ![c] = l] /\ over' = over
<1> QED BY DEF TypeInv, TypeOK, StackOK, Goto, Running, Handlers, Ctx

\* write_impl or send_now returns; write may call write_impl again.
LEMMA StackReturnMain ==
  ASSUME TypeInv, StackOK, Running("main"), Return("main")
  PROVE  /\ StackOK' /\ over' = over
         /\ pc' = [pc EXCEPT !["main"] = pc'["main"]]
         /\ pc'["main"] \in {"acquire", "idle"}
<1> QED BY DEF TypeInv, TypeOK, StackOK, Return, Running, Handlers, Ctx, MainLabels

\* A handler returns to the context it interrupted.
LEMMA StackReturn ==
  ASSUME TypeInv, StackOK, NEW h \in Handlers, Running(h), Return(h)
  PROVE  /\ StackOK' /\ over' = [over EXCEPT ![h] = None]
         /\ pc' = [pc EXCEPT ![h] = "idle"]
<1>1. /\ "idle" \in TimerLabels /\ "idle" \in UsbLabels
      /\ None \notin Ctx /\ h # "main" /\ h \in Ctx
  BY ConstantsAssumption DEF Handlers, TimerLabels, UsbLabels, Ctx
<1>2. pc' = [pc EXCEPT ![h] = "idle"] /\ over' = [over EXCEPT ![h] = None]
  BY <1>1 DEF Return
<1>3. \A g \in Handlers : over[g] # h
  BY DEF Running
<1>4. CASE h = "timer"
  <2>1. /\ pc'["main"] = pc["main"] /\ pc'["usb"] = pc["usb"]
        /\ pc'["timer"] = "idle"
        /\ over'["timer"] = None /\ over'["usb"] = over["usb"]
    BY <1>2, <1>4 DEF TypeInv, TypeOK, Ctx, Handlers
  <2>2. over["usb"] \in {None, "main"}
    BY <1>3, <1>4 DEF TypeInv, TypeOK, StackOK, Ctx, Handlers
  <2> QED BY <1>1, <1>2, <2>1, <2>2 DEF StackOK, Handlers, Ctx
<1>5. CASE h = "usb"
  <2>1. /\ pc'["main"] = pc["main"] /\ pc'["timer"] = pc["timer"]
        /\ pc'["usb"] = "idle"
        /\ over'["usb"] = None /\ over'["timer"] = over["timer"]
    BY <1>2, <1>5 DEF TypeInv, TypeOK, Ctx, Handlers
  <2>2. over["timer"] \in {None, "main"}
    BY <1>3, <1>5 DEF TypeInv, TypeOK, StackOK, Ctx, Handlers
  <2> QED BY <1>1, <1>2, <2>1, <2>2 DEF StackOK, Handlers, Ctx
<1> QED BY <1>2, <1>4, <1>5 DEF Handlers

\* A handler starts on top of the running context.
LEMMA StackEnter ==
  ASSUME TypeInv, StackOK, NEW h \in Handlers, NEW l, Enter(h, l), l # "idle",
         h = "timer" => l \in TimerLabels,
         h = "usb" => l \in UsbLabels
  PROVE  /\ StackOK' /\ pc' = [pc EXCEPT ![h] = l] /\ pc[h] = "idle"
         /\ \E c \in Ctx : Running(c) /\ over' = [over EXCEPT ![h] = c]
<1> QED BY ConstantsAssumption
        DEF TypeInv, TypeOK, StackOK, Enter, Running, Handlers, Ctx
\* A handler makes a step: it goes on, or it returns.
LEMMA HandlerMoves ==
  ASSUME TypeInv, StackOK, NEW h \in Handlers, NEW l, Running(h),
         h = "timer" => l \in TimerLabels,
         h = "usb" => l \in UsbLabels,
         \/ l # "idle" /\ Goto(h, l) /\ UNCHANGED call
         \/ l = "idle" /\ Return(h)
  PROVE  /\ StackOK' /\ pc' = [pc EXCEPT ![h] = l]
         /\ pc'[h] = l /\ \A c \in Ctx \ {h} : pc'[c] = pc[c]
         /\ l # "idle" => over' = over
         /\ l = "idle" => over' = [over EXCEPT ![h] = None]
         /\ UNCHANGED <<size, copied>>
<1>1. CASE l # "idle" /\ Goto(h, l) /\ UNCHANGED call
  <2>1. StackOK' /\ pc' = [pc EXCEPT ![h] = l] /\ over' = over
    BY <1>1, StackGoto DEF Handlers, Ctx
  <2> QED BY <1>1, <2>1 DEF call, TypeInv, TypeOK, Handlers, Ctx
<1>2. CASE l = "idle" /\ Return(h)
  <2>1. /\ StackOK' /\ over' = [over EXCEPT ![h] = None]
        /\ pc' = [pc EXCEPT ![h] = "idle"]
    BY <1>2, StackReturn
  <2>2. DOMAIN pc = Ctx /\ h \in Ctx
    BY DEF TypeInv, TypeOK, Handlers, Ctx
  <2>3. UNCHANGED <<size, copied>>
    BY <1>2 DEF Return, Handlers
  <2> QED BY <1>2, <2>1, <2>2, <2>3
<1> QED BY <1>1, <1>2

-------------------------------------------------------------------------------
(***************************************************************************)
(* One lemma per operation: every step of it keeps the invariant           *)
(***************************************************************************)
\* write
LEMMA WriteInv ==
  ASSUME TypeInv, IInv, WriteStep \/ \E n \in 1..MaxBatch : Write(n)
  PROVE  IInv'
<1> USE DEF TypeInv, TypeOK, locks, regs, call, hw, link, hist, Ctx, Handlers,
        At, IInv, Rest, LockOK, BufferOK, TokenOK, MainOK, TimerOK, UsbOK,
        LockLabels, UsbLockLabels, MainOwns, TimerOwns, UsbOwns,
        AnyToken, LaterToken, NowToken, MainToken, TimerToken
<1>1. ASSUME NEW n \in 1..MaxBatch, Write(n) PROVE IInv'
  <2>1. pc["main"] = "idle" /\ pc["timer"] = "idle" /\ pc["usb"] = "idle"
    BY <1>1, RunMain DEF Write
  <2>2. StackOK' /\ over' = over /\ pc' = [pc EXCEPT !["main"] = "connect"]
    BY <1>1, StackGoto DEF Write, MainLabels
  <2>3. UNCHANGED <<locks, data, regs, hw, link>>
    BY <1>1 DEF Write
  <2>4. cur' = cur
    BY <2>1, <2>2, <2>3 DEF cur
  <2>5. LockOK'
    BY <2>1, <2>2, <2>3, <2>4
  <2>6. BufferOK'
    BY <2>1, <2>2, <2>3, <2>4
  <2>7. TokenOK'
    BY <2>1, <2>2, <2>3, <2>4
  <2>8. MainOK'
    BY <2>1, <2>2, <2>3, <2>4
  <2>9. TimerOK'
    BY <2>1, <2>2, <2>3, <2>4
  <2>10. UsbOK'
    BY <2>1, <2>2, <2>3, <2>4
  <2> QED BY <2>2, <2>5, <2>6, <2>7, <2>8, <2>9, <2>10
<1>2. CASE WaitConnect \/ PollConnect
  <2>1. /\ pc["main"] \in {"connect", "wait"}
        /\ pc["timer"] = "idle" /\ pc["usb"] = "idle"
    BY <1>2, RunMain DEF WaitConnect, PollConnect
  <2>2. \E l \in {"idle", "wait", "acquire"} : Goto("main", l)
    BY <1>2 DEF WaitConnect, PollConnect, GiveUp
  <2>3. /\ StackOK' /\ over' = over
        /\ pc'["main"] \in {"idle", "wait", "acquire"}
        /\ pc'["timer"] = "idle" /\ pc'["usb"] = "idle"
    <3>1. PICK l \in {"idle", "wait", "acquire"} : Goto("main", l)
      BY <2>2
    <3>2. Running("main") /\ l \in MainLabels
      BY <1>2 DEF WaitConnect, PollConnect, MainLabels
    <3>3. StackOK' /\ over' = over /\ pc' = [pc EXCEPT !["main"] = l]
      BY <3>1, <3>2, StackGoto
    <3> QED BY <2>1, <3>3
  <2>4. UNCHANGED <<locks, data, regs, hw, connected>>
    BY <1>2 DEF WaitConnect, PollConnect
  <2>5. cur' = cur
    BY <2>1, <2>3, <2>4 DEF cur
  <2> QED BY <2>1, <2>3, <2>4, <2>5
<1>3. CASE Acquire
  <2>1. pc["main"] = "acquire" /\ pc["timer"] = "idle" /\ pc["usb"] = "idle"
    BY <1>3, RunMain DEF Acquire
  <2>2. StackOK' /\ over' = over /\ pc' = [pc EXCEPT !["main"] = "copy"]
    BY <1>3, StackGoto DEF Acquire, MainLabels, SendLabels
  <2>3. cur' = cur /\ cur = active
    BY <1>3, <2>1, <2>2 DEF Acquire, cur
  <2> QED BY <1>3, <2>1, <2>2, <2>3 DEF Acquire
<1>4. CASE Copy
  <2> DEFINE b == buf["main"]
             new == [i \in 1..Fits(b, todo) |-> accepted + i]
  <2>1. pc["main"] = "copy" /\ pc["timer"] = "idle" /\ pc["usb"] = "idle"
    BY <1>4, RunMain DEF Copy
  <2>2. StackOK' /\ over' = over /\ pc' = [pc EXCEPT !["main"] = "release"]
    BY <1>4, StackGoto DEF Copy, MainLabels
  <2>3. cur' = cur /\ b = cur /\ b \in Buf
    BY <1>4, <2>1, <2>2 DEF Copy, cur
  <2>4. /\ Fits(b, todo) \in Nat
        /\ new \in Seq(Nat) /\ Len(new) = Fits(b, todo)
    BY <2>3, FitsBounds, NumberedSeq DEF SizesOK
  <2>5. /\ data' = [data EXCEPT ![b] = data[b] \o new]
        /\ copied' = Fits(b, todo) /\ size' = Len(data[b])
        /\ UNCHANGED <<locks, regs, hw, link>>
    BY <1>4 DEF Copy
  <2> HIDE DEF new
  <2>6. /\ size' = 0 => data[b] = <<>>
        /\ copied' > 0 => data'[b] # <<>>
        /\ data[b] # <<>> => data'[b] # <<>>
        /\ \A x \in Buf : x # b => data'[x] = data[x]
    BY <2>3, <2>4, <2>5
  <2>7. pc'["main"] = "release" /\ pc'["timer"] = "idle" /\ pc'["usb"] = "idle"
    BY <2>1, <2>2
  <2>8. TokenOK' /\ MainOK'
    BY <2>1, <2>3, <2>5, <2>6, <2>7
  <2>9. LockOK' /\ BufferOK' /\ TimerOK' /\ UsbOK'
    BY <2>1, <2>3, <2>5, <2>7
  <2> QED BY <2>2, <2>8, <2>9
<1>5. CASE Release
  <2>1. pc["main"] = "release" /\ pc["timer"] = "idle" /\ pc["usb"] = "idle"
    BY <1>5, RunMain DEF Release
  <2>2. PICK l \in {"check", "now", "later", "unlater"} :
          /\ Goto("main", l)
          /\ l \in {"now", "later"} => size = 0 /\ copied # 0
    BY <1>5 DEF Release
  <2>3. /\ StackOK' /\ over' = over
        /\ pc'["main"] = l /\ pc'["timer"] = "idle" /\ pc'["usb"] = "idle"
    BY <1>5, <2>1, <2>2, StackGoto DEF Release, MainLabels
  <2>4. active' = buf["main"] /\ UNCHANGED <<sending, sendLater, sendNow, data, regs, hw, link>>
    BY <1>5 DEF Release
  <2>5. cur' = cur /\ cur = buf["main"]
    BY <2>1, <2>4 DEF cur
  <2>6. copied # 0 => copied > 0
    OBVIOUS
  <2> QED BY <2>1, <2>2, <2>3, <2>4, <2>5, <2>6
<1>6. CASE StoreLater
  <2>1. pc["main"] = "later" /\ pc["timer"] = "idle" /\ pc["usb"] = "idle"
    BY <1>6, RunMain DEF StoreLater
  <2>2. StackOK' /\ over' = over /\ pc' = [pc EXCEPT !["main"] = "arm"]
    BY <1>6, StackGoto DEF StoreLater, MainLabels, SendLabels
  <2>3. cur' = cur
    BY <1>6, <2>1, <2>2 DEF StoreLater, cur
  <2> QED BY <1>6, <2>1, <2>2, <2>3 DEF StoreLater
<1>7. CASE ArmTimer
  <2>1. pc["main"] = "arm" /\ pc["timer"] = "idle" /\ pc["usb"] = "idle"
    BY <1>7, RunMain DEF ArmTimer
  <2>2. StackOK' /\ over' = over /\ pc' = [pc EXCEPT !["main"] = "check"]
    BY <1>7, StackGoto DEF ArmTimer, MainLabels, SendLabels
  <2>3. cur' = cur
    BY <1>7, <2>1, <2>2 DEF ArmTimer, cur
  <2> QED BY <1>7, <2>1, <2>2, <2>3 DEF ArmTimer
<1>8. CASE TakeBackLater
  <2>1. pc["main"] = "unlater" /\ pc["timer"] = "idle" /\ pc["usb"] = "idle"
    BY <1>8, RunMain DEF TakeBackLater
  <2>2. StackOK' /\ over' = over /\ pc' = [pc EXCEPT !["main"] = IF sendLater = None THEN "check" ELSE "cancel"]
    BY <1>8, StackGoto DEF TakeBackLater, MainLabels, SendLabels
  <2>3. cur' = cur
    BY <1>8, <2>1, <2>2 DEF TakeBackLater, cur
  <2>4. LockOK'
    BY <1>8, <2>1, <2>2, <2>3 DEF TakeBackLater
  <2>5. BufferOK'
    BY <1>8, <2>1, <2>2, <2>3 DEF TakeBackLater
  <2>6. TokenOK'
    BY <1>8, <2>1, <2>2, <2>3 DEF TakeBackLater
  <2>7. MainOK'
    BY <1>8, <2>1, <2>2, <2>3 DEF TakeBackLater
  <2>8. TimerOK'
    BY <1>8, <2>1, <2>2, <2>3 DEF TakeBackLater
  <2>9. UsbOK'
    BY <1>8, <2>1, <2>2, <2>3 DEF TakeBackLater
  <2> QED BY <2>2, <2>4, <2>5, <2>6, <2>7, <2>8, <2>9
<1>9. CASE CancelTimer
  <2>1. pc["main"] = "cancel" /\ pc["timer"] = "idle" /\ pc["usb"] = "idle"
    BY <1>9, RunMain DEF CancelTimer
  <2>2. StackOK' /\ over' = over /\ pc' = [pc EXCEPT !["main"] = "now"]
    BY <1>9, StackGoto DEF CancelTimer, MainLabels, SendLabels
  <2>3. cur' = cur
    BY <1>9, <2>1, <2>2 DEF CancelTimer, cur
  <2> QED BY <1>9, <2>1, <2>2, <2>3 DEF CancelTimer
<1>10. CASE StoreNow
  <2>1. pc["main"] = "now" /\ pc["timer"] = "idle" /\ pc["usb"] = "idle"
    BY <1>10, RunMain DEF StoreNow
  <2>2. StackOK' /\ over' = over /\ pc' = [pc EXCEPT !["main"] = "check"]
    BY <1>10, StackGoto DEF StoreNow, MainLabels, SendLabels
  <2>3. cur' = cur
    BY <1>10, <2>1, <2>2 DEF StoreNow, cur
  <2> QED BY <1>10, <2>1, <2>2, <2>3 DEF StoreNow
<1>11. CASE CheckNow
  <2>1. pc["main"] = "check" /\ pc["timer"] = "idle" /\ pc["usb"] = "idle"
    BY <1>11, RunMain DEF CheckNow
  <2>2. /\ StackOK' /\ over' = over
        /\ pc'["main"] \in {"acquire", "idle", "lock"}
        /\ pc'["timer"] = "idle" /\ pc'["usb"] = "idle"
    BY <1>11, <2>1, StackGoto, StackReturnMain
    DEF CheckNow, MainLabels, SendLabels
  <2>3. UNCHANGED <<locks, data, regs, hw, link>>
    BY <1>11 DEF CheckNow
  <2>4. cur' = cur
    BY <2>1, <2>2, <2>3 DEF cur
  <2> QED BY <2>1, <2>2, <2>3, <2>4
<1> HIDE DEF TypeInv, IInv
<1> QED
  BY <1>1, <1>2, <1>3, <1>4, <1>5, <1>6, <1>7, <1>8, <1>9, <1>10, <1>11
  DEF WriteStep

\* send_now and timeout_callback claim the scheduled transmission.
LEMMA TakeLaterInv ==
  ASSUME TypeInv, IInv,
         \/ TakeLater("main", "s_take", "s_cancel")
         \/ TakeLater("timer", "t_take", "mark")
  PROVE  IInv'
<1> USE DEF TypeInv, TypeOK, locks, regs, call, hw, link, hist, Ctx, Handlers,
        At, IInv, Rest, LockOK, BufferOK, TokenOK, MainOK, TimerOK, UsbOK,
        LockLabels, UsbLockLabels, MainOwns, TimerOwns, UsbOwns,
        AnyToken, LaterToken, NowToken, MainToken, TimerToken
<1>1. CASE TakeLater("main", "s_take", "s_cancel")
  <2>1. pc["main"] = "s_take" /\ pc["timer"] = "idle" /\ pc["usb"] = "idle"
    BY <1>1, RunMain DEF TakeLater
  <2>2. /\ StackOK' /\ over' = over
        /\ sendLater # None => pc'["main"] = "s_cancel"
        /\ sendLater = None => pc'["main"] \in {"acquire", "idle"}
        /\ pc'["timer"] = "idle" /\ pc'["usb"] = "idle"
    BY <1>1, <2>1, StackGoto, StackReturnMain DEF TakeLater, MainLabels
  <2>3. /\ buf' = [buf EXCEPT !["main"] = sendLater] /\ sendLater' = None
        /\ UNCHANGED <<active, sending, sendNow, data, act, hw, link>>
    BY <1>1 DEF TakeLater
  <2>4. cur' = cur
    BY <2>1, <2>2, <2>3 DEF cur
  <2> QED BY <2>1, <2>2, <2>3, <2>4
<1>2. CASE TakeLater("timer", "t_take", "mark")
  <2>1. pc["timer"] = "t_take" /\ (pc["usb"] # "idle" => over["timer"] = "usb")
    BY <1>2, RunTimer DEF TakeLater
  <2>2. /\ buf' = [buf EXCEPT !["timer"] = sendLater] /\ sendLater' = None
        /\ UNCHANGED <<active, sending, sendNow, data, act, hw, link>>
    BY <1>2 DEF TakeLater
  <2>3. /\ StackOK' /\ pc'["main"] = pc["main"] /\ pc'["usb"] = pc["usb"]
        /\ pc'["timer"] = IF sendLater = None THEN "idle" ELSE "mark"
        /\ pc["usb"] # "idle" => pc'["timer"] = "mark" \/ over'["timer"] # "usb"
        /\ UNCHANGED <<size, copied>>
    <3>1. CASE sendLater = None
      <4>1. Return("timer") /\ Running("timer")
        BY <1>2, <3>1 DEF TakeLater
      <4>2. /\ StackOK' /\ over' = [over EXCEPT !["timer"] = None]
            /\ pc' = [pc EXCEPT !["timer"] = "idle"]
            /\ UNCHANGED <<size, copied>>
        BY <4>1, StackReturn DEF Return
      <4> QED BY <3>1, <4>2, ConstantsAssumption
    <3>2. CASE sendLater # None
      <4>1. /\ Goto("timer", "mark") /\ Running("timer")
            /\ UNCHANGED <<size, copied>>
        BY <1>2, <3>2 DEF TakeLater
      <4>2. StackOK' /\ pc' = [pc EXCEPT !["timer"] = "mark"]
        BY <4>1, StackGoto DEF TimerLabels, SendLabels
      <4> QED BY <3>2, <4>1, <4>2
    <3> QED BY <3>1, <3>2
  <2>4. cur' = cur
    BY <2>1, <2>2, <2>3 DEF cur
  <2>5. LockOK'
    BY <2>1, <2>2, <2>3, <2>4
  <2>6. BufferOK'
    BY <2>1, <2>2, <2>3, <2>4
  <2>7. TokenOK'
    BY <2>1, <2>2, <2>3, <2>4
  <2>8. MainOK'
    BY <2>1, <2>2, <2>3, <2>4
  <2>9. TimerOK'
    BY <2>1, <2>2, <2>3, <2>4
  <2>10. UsbOK'
    BY <2>1, <2>2, <2>3, <2>4
  <2> QED BY <2>3, <2>5, <2>6, <2>7, <2>8, <2>9, <2>10
<1> QED BY <1>1, <1>2

\* Announcing the buffer, taking the lock, sending the buffer: main program.
LEMMA SendMainInv ==
  ASSUME TypeInv, IInv, SendStep("main") \/ SendNowCancelTimer
  PROVE  IInv'
<1> USE DEF TypeInv, TypeOK, locks, regs, call, hw, link, hist, Ctx, Handlers,
        At, IInv, Rest, LockOK, BufferOK, TokenOK, MainOK, TimerOK, UsbOK,
        LockLabels, UsbLockLabels, MainOwns, TimerOwns, UsbOwns,
        AnyToken, LaterToken, NowToken, MainToken, TimerToken
<1>1. CASE SendNowCancelTimer
  <2>1. pc["main"] = "s_cancel" /\ pc["timer"] = "idle" /\ pc["usb"] = "idle"
    BY <1>1, RunMain DEF SendNowCancelTimer
  <2>2. /\ StackOK' /\ over' = over
        /\ pc'["main"] = "mark"
        /\ pc'["timer"] = "idle" /\ pc'["usb"] = "idle"
    BY <1>1, <2>1, StackGoto, StackReturnMain DEF SendNowCancelTimer, MainLabels, SendLabels
  <2>3. UNCHANGED <<locks, data, regs, inflight, link>>
    BY <1>1 DEF SendNowCancelTimer
  <2>4. cur' = cur
    BY <2>1, <2>2, <2>3, TwoBuffers DEF cur
  <2> QED BY <2>1, <2>2, <2>3, <2>4
<1>2. CASE Mark("main")
  <2>1. pc["main"] = "mark" /\ pc["timer"] = "idle" /\ pc["usb"] = "idle"
    BY <1>2, RunMain DEF Mark
  <2>2. /\ StackOK' /\ over' = over
        /\ pc'["main"] = "lock"
        /\ pc'["timer"] = "idle" /\ pc'["usb"] = "idle"
    BY <1>2, <2>1, StackGoto, StackReturnMain DEF Mark, MainLabels, SendLabels
  <2>3. /\ sendNow' = buf["main"]
        /\ UNCHANGED <<active, sending, sendLater, data, regs, hw, link>>
    BY <1>2 DEF Mark
  <2>4. cur' = cur
    BY <2>1, <2>2, <2>3, TwoBuffers DEF cur
  <2> QED BY <2>1, <2>2, <2>3, <2>4
<1>3. CASE Lock("main")
  <2>1. pc["main"] = "lock" /\ pc["timer"] = "idle" /\ pc["usb"] = "idle"
    BY <1>3, RunMain DEF Lock
  <2>2. /\ StackOK' /\ over' = over
        /\ pc'["main"] \in IF sending = None THEN {"recheck"} ELSE {"acquire", "idle"}
        /\ pc'["timer"] = "idle" /\ pc'["usb"] = "idle"
    BY <1>3, <2>1, StackGoto, StackReturnMain DEF Lock, MainLabels, SendLabels
  <2>3. /\ sending' = IF sending = None THEN buf["main"] ELSE sending
        /\ UNCHANGED <<active, sendNow, sendLater, data, regs, hw, link>>
    BY <1>3 DEF Lock
  <2>4. cur' = cur
    BY <2>1, <2>2, <2>3, TwoBuffers DEF cur
  <2> QED BY <2>1, <2>2, <2>3, <2>4
<1>4. CASE Recheck("main")
  <2>1. pc["main"] = "recheck" /\ pc["timer"] = "idle" /\ pc["usb"] = "idle"
    BY <1>4, RunMain DEF Recheck
  <2>2. /\ StackOK' /\ over' = over
        /\ pc'["main"] = IF sendNow = None THEN "unlock" ELSE "take"
        /\ pc'["timer"] = "idle" /\ pc'["usb"] = "idle"
    BY <1>4, <2>1, StackGoto, StackReturnMain DEF Recheck, MainLabels, SendLabels
  <2>3. UNCHANGED <<locks, data, regs, hw, link>>
    BY <1>4 DEF Recheck
  <2>4. cur' = cur
    BY <2>1, <2>2, <2>3, TwoBuffers DEF cur
  <2> QED BY <2>1, <2>2, <2>3, <2>4
<1>5. CASE Unlock("main")
  <2>1. pc["main"] = "unlock" /\ pc["timer"] = "idle" /\ pc["usb"] = "idle"
    BY <1>5, RunMain DEF Unlock
  <2>2. /\ StackOK' /\ over' = over
        /\ pc'["main"] \in {"acquire", "idle"}
        /\ pc'["timer"] = "idle" /\ pc'["usb"] = "idle"
    BY <1>5, <2>1, StackGoto, StackReturnMain DEF Unlock, MainLabels, SendLabels
  <2>3. /\ sending' = None
        /\ UNCHANGED <<active, sendNow, sendLater, data, regs, hw, link>>
    BY <1>5 DEF Unlock
  <2>4. cur' = cur
    BY <2>1, <2>2, <2>3, TwoBuffers DEF cur
  <2> QED BY <2>1, <2>2, <2>3, <2>4
<1>6. CASE TakeBuffer("main")
  <2>1. pc["main"] = "take" /\ pc["timer"] = "idle" /\ pc["usb"] = "idle"
    BY <1>6, RunMain DEF TakeBuffer
  <2>2. /\ StackOK' /\ over' = over
        /\ pc'["main"] = "clear"
        /\ pc'["timer"] = "idle" /\ pc'["usb"] = "idle"
    BY <1>6, <2>1, StackGoto, StackReturnMain DEF TakeBuffer, MainLabels, SendLabels
  <2>3. /\ active' = None /\ act' = [act EXCEPT !["main"] = active]
        /\ UNCHANGED <<sending, sendNow, sendLater, data, buf, hw, link>>
    BY <1>6 DEF TakeBuffer
  <2>4. cur' = cur /\ cur = active
    BY <2>1, <2>2, <2>3, TwoBuffers DEF cur
  <2> QED BY <2>1, <2>2, <2>3, <2>4
<1>7. CASE ClearNow("main")
  <2>1. pc["main"] = "clear" /\ pc["timer"] = "idle" /\ pc["usb"] = "idle"
    BY <1>7, RunMain DEF ClearNow
  <2>2. /\ StackOK' /\ over' = over
        /\ pc'["main"] = "publish"
        /\ pc'["timer"] = "idle" /\ pc'["usb"] = "idle"
    BY <1>7, <2>1, StackGoto, StackReturnMain DEF ClearNow, MainLabels, SendLabels
  <2>3. /\ sendNow' = None
        /\ UNCHANGED <<active, sending, sendLater, data, regs, hw, link>>
    BY <1>7 DEF ClearNow
  <2>4. cur' = cur /\ cur = act["main"]
    BY <2>1, <2>2, <2>3, TwoBuffers DEF cur
  <2> QED BY <2>1, <2>2, <2>3, <2>4
<1>8. CASE Publish("main")
  <2>1. pc["main"] = "publish" /\ pc["timer"] = "idle" /\ pc["usb"] = "idle"
    BY <1>8, RunMain DEF Publish
  <2>2. /\ StackOK' /\ over' = over
        /\ pc'["main"] = "start"
        /\ pc'["timer"] = "idle" /\ pc'["usb"] = "idle"
    BY <1>8, <2>1, StackGoto, StackReturnMain DEF Publish, MainLabels, SendLabels
  <2>3. /\ data' = [data EXCEPT ![other(act["main"])] = <<>>]
        /\ active' = other(act["main"])
        /\ UNCHANGED <<sending, sendNow, sendLater, regs, hw, link>>
    BY <1>8 DEF Publish
  <2>4. cur' = other(act["main"]) /\ act["main"] \in Buf
    BY <2>1, <2>2, <2>3, TwoBuffers DEF cur
  <2> QED BY <2>1, <2>2, <2>3, <2>4, TwoBuffers
<1>9. CASE Start("main")
  <2>1. pc["main"] = "start" /\ pc["timer"] = "idle" /\ pc["usb"] = "idle"
    BY <1>9, RunMain DEF Start
  <2>2. /\ StackOK' /\ over' = over
        /\ pc'["main"] \in {"acquire", "idle"}
        /\ pc'["timer"] = "idle" /\ pc'["usb"] = "idle"
    BY <1>9, <2>1, StackGoto, StackReturnMain DEF Start, MainLabels, SendLabels
  <2>3. /\ inflight' = IF connected THEN act["main"] ELSE inflight
        /\ UNCHANGED <<locks, data, regs, link>>
    BY <1>9 DEF Start, Transmit
  <2>4. cur' = cur
    BY <2>1, <2>2, <2>3, TwoBuffers DEF cur
  <2> QED BY <2>1, <2>2, <2>3, <2>4
<1> HIDE DEF TypeInv, IInv
<1> QED
  BY <1>1, <1>2, <1>3, <1>4, <1>5, <1>6, <1>7, <1>8, <1>9 DEF SendStep

\* Announcing the buffer, taking the lock, sending the buffer: the timeout.
LEMMA SendTimerInv ==
  ASSUME TypeInv, IInv, SendStep("timer")
  PROVE  IInv'
<1> USE DEF TypeInv, TypeOK, locks, regs, call, hw, link, hist, Ctx, Handlers,
        At, IInv, Rest, LockOK, BufferOK, TokenOK, MainOK, TimerOK, UsbOK,
        LockLabels, UsbLockLabels, MainOwns, TimerOwns, UsbOwns,
        AnyToken, LaterToken, NowToken, MainToken, TimerToken
<1>1. CASE Mark("timer")
  <2> DEFINE l == "lock"
  <2>1. /\ Running("timer") /\ pc["timer"] = "mark"
        /\ pc["usb"] # "idle" => over["timer"] = "usb"
    BY <1>1, RunTimer DEF Mark
  <2>2. /\ sendNow' = buf["timer"]
        /\ UNCHANGED <<active, sending, sendLater, data, regs, hw, link>>
    BY <1>1 DEF Mark
  <2>3. /\ StackOK' /\ pc'["timer"] = l
        /\ pc'["main"] = pc["main"] /\ pc'["usb"] = pc["usb"]
        /\ l # "idle" => over' = over
        /\ l = "idle" => over' = [over EXCEPT !["timer"] = None]
        /\ UNCHANGED <<size, copied>>
    BY <1>1, HandlerMoves DEF Mark, TimerLabels, SendLabels
  <2>4. cur' = cur
    BY <2>1, <2>2, <2>3, TwoBuffers DEF cur
  <2>5. LockOK'
    BY <2>1, <2>2, <2>3, <2>4, TwoBuffers, ConstantsAssumption
  <2>6. BufferOK'
    BY <2>1, <2>2, <2>3, <2>4, TwoBuffers, ConstantsAssumption
  <2>7. TokenOK'
    BY <2>1, <2>2, <2>3, <2>4, TwoBuffers, ConstantsAssumption
  <2>8. MainOK'
    BY <2>1, <2>2, <2>3, <2>4, TwoBuffers, ConstantsAssumption
  <2>9. TimerOK'
    BY <2>1, <2>2, <2>3, <2>4, TwoBuffers, ConstantsAssumption
  <2>10. UsbOK'
    BY <2>1, <2>2, <2>3, <2>4, TwoBuffers, ConstantsAssumption
  <2> QED BY <2>3, <2>5, <2>6, <2>7, <2>8, <2>9, <2>10
<1>2. CASE Lock("timer")
  <2> DEFINE l == IF sending = None THEN "recheck" ELSE "idle"
  <2>1. /\ Running("timer") /\ pc["timer"] = "lock"
        /\ pc["usb"] # "idle" => over["timer"] = "usb"
    BY <1>2, RunTimer DEF Lock
  <2>2. /\ sending' = IF sending = None THEN buf["timer"] ELSE sending
        /\ UNCHANGED <<active, sendNow, sendLater, data, regs, hw, link>>
    BY <1>2 DEF Lock
  <2>3. /\ StackOK' /\ pc'["timer"] = l
        /\ pc'["main"] = pc["main"] /\ pc'["usb"] = pc["usb"]
        /\ l # "idle" => over' = over
        /\ l = "idle" => over' = [over EXCEPT !["timer"] = None]
        /\ UNCHANGED <<size, copied>>
    <3>1. \/ l # "idle" /\ Goto("timer", l) /\ UNCHANGED call
          \/ l = "idle" /\ Return("timer")
      BY <1>2 DEF Lock
    <3>2. l \in TimerLabels
      BY DEF TimerLabels, SendLabels
    <3> QED BY <2>1, <3>1, <3>2, HandlerMoves
  <2>4. cur' = cur
    BY <2>1, <2>2, <2>3, TwoBuffers DEF cur
  <2>5. LockOK'
    BY <2>1, <2>2, <2>3, <2>4, TwoBuffers, ConstantsAssumption
  <2>6. BufferOK'
    BY <2>1, <2>2, <2>3, <2>4, TwoBuffers, ConstantsAssumption
  <2>7. TokenOK'
    BY <2>1, <2>2, <2>3, <2>4, TwoBuffers, ConstantsAssumption
  <2>8. MainOK'
    BY <2>1, <2>2, <2>3, <2>4, TwoBuffers, ConstantsAssumption
  <2>9. TimerOK'
    BY <2>1, <2>2, <2>3, <2>4, TwoBuffers, ConstantsAssumption
  <2>10. UsbOK'
    BY <2>1, <2>2, <2>3, <2>4, TwoBuffers, ConstantsAssumption
  <2> QED BY <2>3, <2>5, <2>6, <2>7, <2>8, <2>9, <2>10
<1>3. CASE Recheck("timer")
  <2> DEFINE l == IF sendNow = None THEN "unlock" ELSE "take"
  <2>1. /\ Running("timer") /\ pc["timer"] = "recheck"
        /\ pc["usb"] # "idle" => over["timer"] = "usb"
    BY <1>3, RunTimer DEF Recheck
  <2>2. UNCHANGED <<locks, data, regs, hw, link>>
    BY <1>3 DEF Recheck
  <2>3. /\ StackOK' /\ pc'["timer"] = l
        /\ pc'["main"] = pc["main"] /\ pc'["usb"] = pc["usb"]
        /\ l # "idle" => over' = over
        /\ l = "idle" => over' = [over EXCEPT !["timer"] = None]
        /\ UNCHANGED <<size, copied>>
    <3>1. \/ l # "idle" /\ Goto("timer", l) /\ UNCHANGED call
          \/ l = "idle" /\ Return("timer")
      BY <1>3 DEF Recheck
    <3>2. l \in TimerLabels
      BY DEF TimerLabels, SendLabels
    <3> QED BY <2>1, <3>1, <3>2, HandlerMoves
  <2>4. cur' = cur
    BY <2>1, <2>2, <2>3, TwoBuffers DEF cur
  <2>5. LockOK'
    BY <2>1, <2>2, <2>3, <2>4, TwoBuffers, ConstantsAssumption
  <2>6. BufferOK'
    BY <2>1, <2>2, <2>3, <2>4, TwoBuffers, ConstantsAssumption
  <2>7. TokenOK'
    BY <2>1, <2>2, <2>3, <2>4, TwoBuffers, ConstantsAssumption
  <2>8. MainOK'
    BY <2>1, <2>2, <2>3, <2>4, TwoBuffers, ConstantsAssumption
  <2>9. TimerOK'
    BY <2>1, <2>2, <2>3, <2>4, TwoBuffers, ConstantsAssumption
  <2>10. UsbOK'
    BY <2>1, <2>2, <2>3, <2>4, TwoBuffers, ConstantsAssumption
  <2> QED BY <2>3, <2>5, <2>6, <2>7, <2>8, <2>9, <2>10
<1>4. CASE Unlock("timer")
  <2> DEFINE l == "idle"
  <2>1. /\ Running("timer") /\ pc["timer"] = "unlock"
        /\ pc["usb"] # "idle" => over["timer"] = "usb"
    BY <1>4, RunTimer DEF Unlock
  <2>2. /\ sending' = None
        /\ UNCHANGED <<active, sendNow, sendLater, data, regs, hw, link>>
    BY <1>4 DEF Unlock
  <2>3. /\ StackOK' /\ pc'["timer"] = l
        /\ pc'["main"] = pc["main"] /\ pc'["usb"] = pc["usb"]
        /\ l # "idle" => over' = over
        /\ l = "idle" => over' = [over EXCEPT !["timer"] = None]
        /\ UNCHANGED <<size, copied>>
    BY <1>4, HandlerMoves DEF Unlock, TimerLabels, SendLabels
  <2>4. cur' = cur
    BY <2>1, <2>2, <2>3, TwoBuffers DEF cur
  <2>5. LockOK'
    BY <2>1, <2>2, <2>3, <2>4, TwoBuffers, ConstantsAssumption
  <2>6. BufferOK'
    BY <2>1, <2>2, <2>3, <2>4, TwoBuffers, ConstantsAssumption
  <2>7. TokenOK'
    BY <2>1, <2>2, <2>3, <2>4, TwoBuffers, ConstantsAssumption
  <2>8. MainOK'
    BY <2>1, <2>2, <2>3, <2>4, TwoBuffers, ConstantsAssumption
  <2>9. TimerOK'
    BY <2>1, <2>2, <2>3, <2>4, TwoBuffers, ConstantsAssumption
  <2>10. UsbOK'
    BY <2>1, <2>2, <2>3, <2>4, TwoBuffers, ConstantsAssumption
  <2> QED BY <2>3, <2>5, <2>6, <2>7, <2>8, <2>9, <2>10
<1>5. CASE TakeBuffer("timer")
  <2> DEFINE l == IF active = None THEN "unlock" ELSE "clear"
  <2>1. /\ Running("timer") /\ pc["timer"] = "take"
        /\ pc["usb"] # "idle" => over["timer"] = "usb"
    BY <1>5, RunTimer DEF TakeBuffer
  <2>2. /\ active' = None /\ act' = [act EXCEPT !["timer"] = active]
        /\ UNCHANGED <<sending, sendNow, sendLater, data, buf, hw, link>>
    BY <1>5 DEF TakeBuffer
  <2>3. /\ StackOK' /\ pc'["timer"] = l
        /\ pc'["main"] = pc["main"] /\ pc'["usb"] = pc["usb"]
        /\ l # "idle" => over' = over
        /\ l = "idle" => over' = [over EXCEPT !["timer"] = None]
        /\ UNCHANGED <<size, copied>>
    <3>1. \/ l # "idle" /\ Goto("timer", l) /\ UNCHANGED call
          \/ l = "idle" /\ Return("timer")
      BY <1>5 DEF TakeBuffer
    <3>2. l \in TimerLabels
      BY DEF TimerLabels, SendLabels
    <3> QED BY <2>1, <3>1, <3>2, HandlerMoves
  <2>4. cur' = cur /\ (active # None => cur = active)
    BY <2>1, <2>2, <2>3, TwoBuffers DEF cur
  <2>5. LockOK'
    BY <2>1, <2>2, <2>3, <2>4, TwoBuffers, ConstantsAssumption
  <2>6. BufferOK'
    BY <2>1, <2>2, <2>3, <2>4, TwoBuffers, ConstantsAssumption
  <2>7. TokenOK'
    BY <2>1, <2>2, <2>3, <2>4, TwoBuffers, ConstantsAssumption
  <2>8. MainOK'
    BY <2>1, <2>2, <2>3, <2>4, TwoBuffers, ConstantsAssumption
  <2>9. TimerOK'
    BY <2>1, <2>2, <2>3, <2>4, TwoBuffers, ConstantsAssumption
  <2>10. UsbOK'
    BY <2>1, <2>2, <2>3, <2>4, TwoBuffers, ConstantsAssumption
  <2> QED BY <2>3, <2>5, <2>6, <2>7, <2>8, <2>9, <2>10
<1>6. CASE ClearNow("timer")
  <2> DEFINE l == "publish"
  <2>1. /\ Running("timer") /\ pc["timer"] = "clear"
        /\ pc["usb"] # "idle" => over["timer"] = "usb"
    BY <1>6, RunTimer DEF ClearNow
  <2>2. /\ sendNow' = None
        /\ UNCHANGED <<active, sending, sendLater, data, regs, hw, link>>
    BY <1>6 DEF ClearNow
  <2>3. /\ StackOK' /\ pc'["timer"] = l
        /\ pc'["main"] = pc["main"] /\ pc'["usb"] = pc["usb"]
        /\ l # "idle" => over' = over
        /\ l = "idle" => over' = [over EXCEPT !["timer"] = None]
        /\ UNCHANGED <<size, copied>>
    BY <1>6, HandlerMoves DEF ClearNow, TimerLabels, SendLabels
  <2>4. cur' = cur /\ cur = act["timer"]
    BY <2>1, <2>2, <2>3, TwoBuffers DEF cur
  <2>5. LockOK'
    BY <2>1, <2>2, <2>3, <2>4, TwoBuffers, ConstantsAssumption
  <2>6. BufferOK'
    BY <2>1, <2>2, <2>3, <2>4, TwoBuffers, ConstantsAssumption
  <2>7. TokenOK'
    BY <2>1, <2>2, <2>3, <2>4, TwoBuffers, ConstantsAssumption
  <2>8. MainOK'
    BY <2>1, <2>2, <2>3, <2>4, TwoBuffers, ConstantsAssumption
  <2>9. TimerOK'
    BY <2>1, <2>2, <2>3, <2>4, TwoBuffers, ConstantsAssumption
  <2>10. UsbOK'
    BY <2>1, <2>2, <2>3, <2>4, TwoBuffers, ConstantsAssumption
  <2> QED BY <2>3, <2>5, <2>6, <2>7, <2>8, <2>9, <2>10
<1>7. CASE Publish("timer")
  <2> DEFINE l == "start"
  <2>1. /\ Running("timer") /\ pc["timer"] = "publish"
        /\ pc["usb"] # "idle" => over["timer"] = "usb"
    BY <1>7, RunTimer DEF Publish
  <2>2. /\ data' = [data EXCEPT ![other(act["timer"])] = <<>>]
        /\ active' = other(act["timer"])
        /\ UNCHANGED <<sending, sendNow, sendLater, regs, hw, link>>
    BY <1>7 DEF Publish
  <2>3. /\ StackOK' /\ pc'["timer"] = l
        /\ pc'["main"] = pc["main"] /\ pc'["usb"] = pc["usb"]
        /\ l # "idle" => over' = over
        /\ l = "idle" => over' = [over EXCEPT !["timer"] = None]
        /\ UNCHANGED <<size, copied>>
    BY <1>7, HandlerMoves DEF Publish, TimerLabels, SendLabels
  <2>4. cur' = other(act["timer"]) /\ act["timer"] \in Buf
    BY <2>1, <2>2, <2>3, TwoBuffers DEF cur
  <2>5. LockOK'
    BY <2>1, <2>2, <2>3, <2>4, TwoBuffers, ConstantsAssumption
  <2>6. BufferOK'
    BY <2>1, <2>2, <2>3, <2>4, TwoBuffers, ConstantsAssumption
  <2>7. TokenOK'
    BY <2>1, <2>2, <2>3, <2>4, TwoBuffers, ConstantsAssumption
  <2>8. MainOK'
    BY <2>1, <2>2, <2>3, <2>4, TwoBuffers, ConstantsAssumption
  <2>9. TimerOK'
    BY <2>1, <2>2, <2>3, <2>4, TwoBuffers, ConstantsAssumption
  <2>10. UsbOK'
    BY <2>1, <2>2, <2>3, <2>4, TwoBuffers, ConstantsAssumption
  <2> QED BY <2>3, <2>5, <2>6, <2>7, <2>8, <2>9, <2>10
<1>8. CASE Start("timer")
  <2> DEFINE l == "idle"
  <2>1. /\ Running("timer") /\ pc["timer"] = "start"
        /\ pc["usb"] # "idle" => over["timer"] = "usb"
    BY <1>8, RunTimer DEF Start
  <2>2. /\ inflight' = IF connected THEN buf["timer"] ELSE inflight
        /\ UNCHANGED <<locks, data, regs, link>>
    BY <1>8 DEF Start, Transmit
  <2>3. /\ StackOK' /\ pc'["timer"] = l
        /\ pc'["main"] = pc["main"] /\ pc'["usb"] = pc["usb"]
        /\ l # "idle" => over' = over
        /\ l = "idle" => over' = [over EXCEPT !["timer"] = None]
        /\ UNCHANGED <<size, copied>>
    BY <1>8, HandlerMoves DEF Start, TimerLabels, SendLabels
  <2>4. cur' = cur
    BY <2>1, <2>2, <2>3, TwoBuffers DEF cur
  <2>5. LockOK'
    BY <2>1, <2>2, <2>3, <2>4, TwoBuffers, ConstantsAssumption
  <2>6. BufferOK'
    BY <2>1, <2>2, <2>3, <2>4, TwoBuffers, ConstantsAssumption
  <2>7. TokenOK'
    BY <2>1, <2>2, <2>3, <2>4, TwoBuffers, ConstantsAssumption
  <2>8. MainOK'
    BY <2>1, <2>2, <2>3, <2>4, TwoBuffers, ConstantsAssumption
  <2>9. TimerOK'
    BY <2>1, <2>2, <2>3, <2>4, TwoBuffers, ConstantsAssumption
  <2>10. UsbOK'
    BY <2>1, <2>2, <2>3, <2>4, TwoBuffers, ConstantsAssumption
  <2> QED BY <2>3, <2>5, <2>6, <2>7, <2>8, <2>9, <2>10
<1> HIDE DEF TypeInv, IInv
<1> QED
  BY <1>1, <1>2, <1>3, <1>4, <1>5, <1>6, <1>7, <1>8 DEF SendStep

\* tx_callback: every step of the handler.
LEMMA UsbInv ==
  ASSUME TypeInv, IInv, UsbStep
  PROVE  IInv'
<1> USE DEF TypeInv, TypeOK, locks, regs, call, hw, link, hist, Ctx, Handlers,
        At, IInv, Rest, LockOK, BufferOK, TokenOK, MainOK, TimerOK, UsbOK,
        LockLabels, UsbLockLabels, MainOwns, TimerOwns, UsbOwns,
        AnyToken, LaterToken, NowToken, MainToken, TimerToken
<1>1. CASE LoadSent
  <2> DEFINE l == "u_check"
  <2>1. /\ Running("usb") /\ pc["usb"] = "u_load"
        /\ over["timer"] # "usb"
    BY <1>1, RunUsb DEF LoadSent
  <2>2. /\ buf' = [buf EXCEPT !["usb"] = sending]
        /\ UNCHANGED <<locks, data, act, hw, link>>
    BY <1>1 DEF LoadSent
  <2>3. /\ StackOK' /\ pc'["usb"] = l
        /\ pc'["main"] = pc["main"] /\ pc'["timer"] = pc["timer"]
        /\ l # "idle" => over' = over
        /\ l = "idle" => over' = [over EXCEPT !["usb"] = None]
        /\ UNCHANGED <<size, copied>>
    BY <1>1, HandlerMoves DEF LoadSent, UsbLabels
  <2>4. cur' = cur
    BY <2>1, <2>2, <2>3, TwoBuffers DEF cur
  <2>5. LockOK'
    BY <2>1, <2>2, <2>3, <2>4, TwoBuffers, ConstantsAssumption
  <2>6. BufferOK'
    BY <2>1, <2>2, <2>3, <2>4, TwoBuffers, ConstantsAssumption
  <2>7. TokenOK'
    BY <2>1, <2>2, <2>3, <2>4, TwoBuffers, ConstantsAssumption
  <2>8. MainOK'
    BY <2>1, <2>2, <2>3, <2>4, TwoBuffers, ConstantsAssumption
  <2>9. TimerOK'
    BY <2>1, <2>2, <2>3, <2>4, TwoBuffers, ConstantsAssumption
  <2>10. UsbOK'
    BY <2>1, <2>2, <2>3, <2>4, TwoBuffers, ConstantsAssumption
  <2> QED BY <2>3, <2>5, <2>6, <2>7, <2>8, <2>9, <2>10
<1>2. CASE LoadNext
  <2> DEFINE l == IF sendNow = None THEN "u_release" ELSE "u_take"
  <2>1. /\ Running("usb") /\ pc["usb"] = "u_check"
        /\ over["timer"] # "usb"
    BY <1>2, RunUsb DEF LoadNext
  <2>2. /\ act' = [act EXCEPT !["usb"] = sendNow]
        /\ UNCHANGED <<locks, data, buf, hw, link>>
    BY <1>2 DEF LoadNext
  <2>3. /\ StackOK' /\ pc'["usb"] = l
        /\ pc'["main"] = pc["main"] /\ pc'["timer"] = pc["timer"]
        /\ l # "idle" => over' = over
        /\ l = "idle" => over' = [over EXCEPT !["usb"] = None]
        /\ UNCHANGED <<size, copied>>
    <3>1. \/ l # "idle" /\ Goto("usb", l) /\ UNCHANGED call
          \/ l = "idle" /\ Return("usb")
      BY <1>2 DEF LoadNext
    <3>2. l \in UsbLabels
      BY DEF UsbLabels
    <3> QED BY <2>1, <3>1, <3>2, HandlerMoves
  <2>4. cur' = cur
    BY <2>1, <2>2, <2>3, TwoBuffers DEF cur
  <2>5. LockOK'
    BY <2>1, <2>2, <2>3, <2>4, TwoBuffers, ConstantsAssumption
  <2>6. BufferOK'
    BY <2>1, <2>2, <2>3, <2>4, TwoBuffers, ConstantsAssumption
  <2>7. TokenOK'
    BY <2>1, <2>2, <2>3, <2>4, TwoBuffers, ConstantsAssumption
  <2>8. MainOK'
    BY <2>1, <2>2, <2>3, <2>4, TwoBuffers, ConstantsAssumption
  <2>9. TimerOK'
    BY <2>1, <2>2, <2>3, <2>4, TwoBuffers, ConstantsAssumption
  <2>10. UsbOK'
    BY <2>1, <2>2, <2>3, <2>4, TwoBuffers, ConstantsAssumption
  <2> QED BY <2>3, <2>5, <2>6, <2>7, <2>8, <2>9, <2>10
<1>3. CASE TakeNext
  <2> DEFINE l == IF active = None THEN "u_unlock" ELSE "u_clear"
  <2>1. /\ Running("usb") /\ pc["usb"] = "u_take"
        /\ over["timer"] # "usb"
    BY <1>3, RunUsb DEF TakeNext
  <2>2. /\ active' = None
        /\ UNCHANGED <<sending, sendNow, sendLater, data, regs, hw, link>>
    BY <1>3 DEF TakeNext
  <2>3. /\ StackOK' /\ pc'["usb"] = l
        /\ pc'["main"] = pc["main"] /\ pc'["timer"] = pc["timer"]
        /\ l # "idle" => over' = over
        /\ l = "idle" => over' = [over EXCEPT !["usb"] = None]
        /\ UNCHANGED <<size, copied>>
    <3>1. \/ l # "idle" /\ Goto("usb", l) /\ UNCHANGED call
          \/ l = "idle" /\ Return("usb")
      BY <1>3 DEF TakeNext
    <3>2. l \in UsbLabels
      BY DEF UsbLabels
    <3> QED BY <2>1, <3>1, <3>2, HandlerMoves
  <2>4. cur' = cur /\ (active # None => cur = active)
    BY <2>1, <2>2, <2>3, TwoBuffers DEF cur
  <2>5. LockOK'
    BY <2>1, <2>2, <2>3, <2>4, TwoBuffers, ConstantsAssumption
  <2>6. BufferOK'
    BY <2>1, <2>2, <2>3, <2>4, TwoBuffers, ConstantsAssumption
  <2>7. TokenOK'
    BY <2>1, <2>2, <2>3, <2>4, TwoBuffers, ConstantsAssumption
  <2>8. MainOK'
    BY <2>1, <2>2, <2>3, <2>4, TwoBuffers, ConstantsAssumption
  <2>9. TimerOK'
    BY <2>1, <2>2, <2>3, <2>4, TwoBuffers, ConstantsAssumption
  <2>10. UsbOK'
    BY <2>1, <2>2, <2>3, <2>4, TwoBuffers, ConstantsAssumption
  <2> QED BY <2>3, <2>5, <2>6, <2>7, <2>8, <2>9, <2>10
<1>4. CASE ClearNext
  <2> DEFINE l == "u_empty"
  <2>1. /\ Running("usb") /\ pc["usb"] = "u_clear"
        /\ over["timer"] # "usb"
    BY <1>4, RunUsb DEF ClearNext
  <2>2. /\ sendNow' = None
        /\ UNCHANGED <<active, sending, sendLater, data, regs, hw, link>>
    BY <1>4 DEF ClearNext
  <2>3. /\ StackOK' /\ pc'["usb"] = l
        /\ pc'["main"] = pc["main"] /\ pc'["timer"] = pc["timer"]
        /\ l # "idle" => over' = over
        /\ l = "idle" => over' = [over EXCEPT !["usb"] = None]
        /\ UNCHANGED <<size, copied>>
    BY <1>4, HandlerMoves DEF ClearNext, UsbLabels
  <2>4. cur' = cur /\ cur = act["usb"]
    BY <2>1, <2>2, <2>3, TwoBuffers DEF cur
  <2>5. LockOK'
    BY <2>1, <2>2, <2>3, <2>4, TwoBuffers, ConstantsAssumption
  <2>6. BufferOK'
    BY <2>1, <2>2, <2>3, <2>4, TwoBuffers, ConstantsAssumption
  <2>7. TokenOK'
    BY <2>1, <2>2, <2>3, <2>4, TwoBuffers, ConstantsAssumption
  <2>8. MainOK'
    BY <2>1, <2>2, <2>3, <2>4, TwoBuffers, ConstantsAssumption
  <2>9. TimerOK'
    BY <2>1, <2>2, <2>3, <2>4, TwoBuffers, ConstantsAssumption
  <2>10. UsbOK'
    BY <2>1, <2>2, <2>3, <2>4, TwoBuffers, ConstantsAssumption
  <2> QED BY <2>3, <2>5, <2>6, <2>7, <2>8, <2>9, <2>10
<1>5. CASE EmptySent
  <2> DEFINE l == "u_hand"
  <2>1. /\ Running("usb") /\ pc["usb"] = "u_empty"
        /\ over["timer"] # "usb"
    BY <1>5, RunUsb DEF EmptySent
  <2>2. /\ data' = [data EXCEPT ![buf["usb"]] = <<>>]
        /\ UNCHANGED <<locks, regs, hw, link>>
    BY <1>5 DEF EmptySent
  <2>3. /\ StackOK' /\ pc'["usb"] = l
        /\ pc'["main"] = pc["main"] /\ pc'["timer"] = pc["timer"]
        /\ l # "idle" => over' = over
        /\ l = "idle" => over' = [over EXCEPT !["usb"] = None]
        /\ UNCHANGED <<size, copied>>
    BY <1>5, HandlerMoves DEF EmptySent, UsbLabels
  <2>4. cur' = cur /\ cur = act["usb"] /\ buf["usb"] \in Buf
    BY <2>1, <2>2, <2>3, TwoBuffers DEF cur
  <2>5. LockOK'
    BY <2>1, <2>2, <2>3, <2>4, TwoBuffers, ConstantsAssumption
  <2>6. BufferOK'
    BY <2>1, <2>2, <2>3, <2>4, TwoBuffers, ConstantsAssumption
  <2>7. TokenOK'
    BY <2>1, <2>2, <2>3, <2>4, TwoBuffers, ConstantsAssumption
  <2>8. MainOK'
    BY <2>1, <2>2, <2>3, <2>4, TwoBuffers, ConstantsAssumption
  <2>9. TimerOK'
    BY <2>1, <2>2, <2>3, <2>4, TwoBuffers, ConstantsAssumption
  <2>10. UsbOK'
    BY <2>1, <2>2, <2>3, <2>4, TwoBuffers, ConstantsAssumption
  <2> QED BY <2>3, <2>5, <2>6, <2>7, <2>8, <2>9, <2>10
<1>6. CASE HandOver
  <2> DEFINE l == "u_give"
  <2>1. /\ Running("usb") /\ pc["usb"] = "u_hand"
        /\ over["timer"] # "usb"
    BY <1>6, RunUsb DEF HandOver
  <2>2. /\ sending' = act["usb"]
        /\ UNCHANGED <<active, sendNow, sendLater, data, regs, hw, link>>
    BY <1>6 DEF HandOver
  <2>3. /\ StackOK' /\ pc'["usb"] = l
        /\ pc'["main"] = pc["main"] /\ pc'["timer"] = pc["timer"]
        /\ l # "idle" => over' = over
        /\ l = "idle" => over' = [over EXCEPT !["usb"] = None]
        /\ UNCHANGED <<size, copied>>
    BY <1>6, HandlerMoves DEF HandOver, UsbLabels
  <2>4. cur' = cur /\ cur = act["usb"]
    BY <2>1, <2>2, <2>3, TwoBuffers DEF cur
  <2>5. LockOK'
    BY <2>1, <2>2, <2>3, <2>4, TwoBuffers, ConstantsAssumption
  <2>6. BufferOK'
    BY <2>1, <2>2, <2>3, <2>4, TwoBuffers, ConstantsAssumption
  <2>7. TokenOK'
    BY <2>1, <2>2, <2>3, <2>4, TwoBuffers, ConstantsAssumption
  <2>8. MainOK'
    BY <2>1, <2>2, <2>3, <2>4, TwoBuffers, ConstantsAssumption
  <2>9. TimerOK'
    BY <2>1, <2>2, <2>3, <2>4, TwoBuffers, ConstantsAssumption
  <2>10. UsbOK'
    BY <2>1, <2>2, <2>3, <2>4, TwoBuffers, ConstantsAssumption
  <2> QED BY <2>3, <2>5, <2>6, <2>7, <2>8, <2>9, <2>10
<1>7. CASE GiveBack
  <2> DEFINE l == "u_start"
  <2>1. /\ Running("usb") /\ pc["usb"] = "u_give"
        /\ over["timer"] # "usb"
    BY <1>7, RunUsb DEF GiveBack
  <2>2. /\ active' = buf["usb"]
        /\ UNCHANGED <<sending, sendNow, sendLater, data, regs, hw, link>>
    BY <1>7 DEF GiveBack
  <2>3. /\ StackOK' /\ pc'["usb"] = l
        /\ pc'["main"] = pc["main"] /\ pc'["timer"] = pc["timer"]
        /\ l # "idle" => over' = over
        /\ l = "idle" => over' = [over EXCEPT !["usb"] = None]
        /\ UNCHANGED <<size, copied>>
    BY <1>7, HandlerMoves DEF GiveBack, UsbLabels
  <2>4. cur' = buf["usb"]
    BY <2>1, <2>2, <2>3, TwoBuffers DEF cur
  <2>5. LockOK'
    BY <2>1, <2>2, <2>3, <2>4, TwoBuffers, ConstantsAssumption
  <2>6. BufferOK'
    BY <2>1, <2>2, <2>3, <2>4, TwoBuffers, ConstantsAssumption
  <2>7. TokenOK'
    BY <2>1, <2>2, <2>3, <2>4, TwoBuffers, ConstantsAssumption
  <2>8. MainOK'
    BY <2>1, <2>2, <2>3, <2>4, TwoBuffers, ConstantsAssumption
  <2>9. TimerOK'
    BY <2>1, <2>2, <2>3, <2>4, TwoBuffers, ConstantsAssumption
  <2>10. UsbOK'
    BY <2>1, <2>2, <2>3, <2>4, TwoBuffers, ConstantsAssumption
  <2> QED BY <2>3, <2>5, <2>6, <2>7, <2>8, <2>9, <2>10
<1>8. CASE StartNext
  <2> DEFINE l == "idle"
  <2>1. /\ Running("usb") /\ pc["usb"] = "u_start"
        /\ over["timer"] # "usb"
    BY <1>8, RunUsb DEF StartNext
  <2>2. /\ inflight' = IF connected THEN act["usb"] ELSE inflight
        /\ UNCHANGED <<locks, data, regs, link>>
    BY <1>8 DEF StartNext, Transmit
  <2>3. /\ StackOK' /\ pc'["usb"] = l
        /\ pc'["main"] = pc["main"] /\ pc'["timer"] = pc["timer"]
        /\ l # "idle" => over' = over
        /\ l = "idle" => over' = [over EXCEPT !["usb"] = None]
        /\ UNCHANGED <<size, copied>>
    BY <1>8, HandlerMoves DEF StartNext, UsbLabels
  <2>4. cur' = cur
    BY <2>1, <2>2, <2>3, TwoBuffers DEF cur
  <2>5. LockOK'
    BY <2>1, <2>2, <2>3, <2>4, TwoBuffers, ConstantsAssumption
  <2>6. BufferOK'
    BY <2>1, <2>2, <2>3, <2>4, TwoBuffers, ConstantsAssumption
  <2>7. TokenOK'
    BY <2>1, <2>2, <2>3, <2>4, TwoBuffers, ConstantsAssumption
  <2>8. MainOK'
    BY <2>1, <2>2, <2>3, <2>4, TwoBuffers, ConstantsAssumption
  <2>9. TimerOK'
    BY <2>1, <2>2, <2>3, <2>4, TwoBuffers, ConstantsAssumption
  <2>10. UsbOK'
    BY <2>1, <2>2, <2>3, <2>4, TwoBuffers, ConstantsAssumption
  <2> QED BY <2>3, <2>5, <2>6, <2>7, <2>8, <2>9, <2>10
<1>9. CASE UsbUnlock
  <2> DEFINE l == "idle"
  <2>1. /\ Running("usb") /\ pc["usb"] = "u_unlock"
        /\ over["timer"] # "usb"
    BY <1>9, RunUsb DEF UsbUnlock
  <2>2. /\ sending' = None
        /\ UNCHANGED <<active, sendNow, sendLater, data, regs, hw, link>>
    BY <1>9 DEF UsbUnlock
  <2>3. /\ StackOK' /\ pc'["usb"] = l
        /\ pc'["main"] = pc["main"] /\ pc'["timer"] = pc["timer"]
        /\ l # "idle" => over' = over
        /\ l = "idle" => over' = [over EXCEPT !["usb"] = None]
        /\ UNCHANGED <<size, copied>>
    BY <1>9, HandlerMoves DEF UsbUnlock, UsbLabels
  <2>4. cur' = cur
    BY <2>1, <2>2, <2>3, TwoBuffers DEF cur
  <2>5. LockOK'
    BY <2>1, <2>2, <2>3, <2>4, TwoBuffers, ConstantsAssumption
  <2>6. BufferOK'
    BY <2>1, <2>2, <2>3, <2>4, TwoBuffers, ConstantsAssumption
  <2>7. TokenOK'
    BY <2>1, <2>2, <2>3, <2>4, TwoBuffers, ConstantsAssumption
  <2>8. MainOK'
    BY <2>1, <2>2, <2>3, <2>4, TwoBuffers, ConstantsAssumption
  <2>9. TimerOK'
    BY <2>1, <2>2, <2>3, <2>4, TwoBuffers, ConstantsAssumption
  <2>10. UsbOK'
    BY <2>1, <2>2, <2>3, <2>4, TwoBuffers, ConstantsAssumption
  <2> QED BY <2>3, <2>5, <2>6, <2>7, <2>8, <2>9, <2>10
<1>10. CASE UsbRelease
  <2> DEFINE l == "u_again"
  <2>1. /\ Running("usb") /\ pc["usb"] = "u_release"
        /\ over["timer"] # "usb"
    BY <1>10, RunUsb DEF UsbRelease
  <2>2. /\ sending' = None
        /\ UNCHANGED <<active, sendNow, sendLater, data, regs, hw, link>>
    BY <1>10 DEF UsbRelease
  <2>3. /\ StackOK' /\ pc'["usb"] = l
        /\ pc'["main"] = pc["main"] /\ pc'["timer"] = pc["timer"]
        /\ l # "idle" => over' = over
        /\ l = "idle" => over' = [over EXCEPT !["usb"] = None]
        /\ UNCHANGED <<size, copied>>
    BY <1>10, HandlerMoves DEF UsbRelease, UsbLabels
  <2>4. cur' = cur
    BY <2>1, <2>2, <2>3, TwoBuffers DEF cur
  <2>5. LockOK'
    BY <2>1, <2>2, <2>3, <2>4, TwoBuffers, ConstantsAssumption
  <2>6. BufferOK'
    BY <2>1, <2>2, <2>3, <2>4, TwoBuffers, ConstantsAssumption
  <2>7. TokenOK'
    BY <2>1, <2>2, <2>3, <2>4, TwoBuffers, ConstantsAssumption
  <2>8. MainOK'
    BY <2>1, <2>2, <2>3, <2>4, TwoBuffers, ConstantsAssumption
  <2>9. TimerOK'
    BY <2>1, <2>2, <2>3, <2>4, TwoBuffers, ConstantsAssumption
  <2>10. UsbOK'
    BY <2>1, <2>2, <2>3, <2>4, TwoBuffers, ConstantsAssumption
  <2> QED BY <2>3, <2>5, <2>6, <2>7, <2>8, <2>9, <2>10
<1>11. CASE LoadNextAgain
  <2> DEFINE l == IF sendNow = None THEN "idle" ELSE "u_lock"
  <2>1. /\ Running("usb") /\ pc["usb"] = "u_again"
        /\ over["timer"] # "usb"
    BY <1>11, RunUsb DEF LoadNextAgain
  <2>2. /\ act' = [act EXCEPT !["usb"] = sendNow]
        /\ UNCHANGED <<locks, data, buf, hw, link>>
    BY <1>11 DEF LoadNextAgain
  <2>3. /\ StackOK' /\ pc'["usb"] = l
        /\ pc'["main"] = pc["main"] /\ pc'["timer"] = pc["timer"]
        /\ l # "idle" => over' = over
        /\ l = "idle" => over' = [over EXCEPT !["usb"] = None]
        /\ UNCHANGED <<size, copied>>
    <3>1. \/ l # "idle" /\ Goto("usb", l) /\ UNCHANGED call
          \/ l = "idle" /\ Return("usb")
      BY <1>11 DEF LoadNextAgain
    <3>2. l \in UsbLabels
      BY DEF UsbLabels
    <3> QED BY <2>1, <3>1, <3>2, HandlerMoves
  <2>4. cur' = cur
    BY <2>1, <2>2, <2>3, TwoBuffers DEF cur
  <2>5. LockOK'
    BY <2>1, <2>2, <2>3, <2>4, TwoBuffers, ConstantsAssumption
  <2>6. BufferOK'
    BY <2>1, <2>2, <2>3, <2>4, TwoBuffers, ConstantsAssumption, SMTT(30)
  <2>7. TokenOK'
    BY <2>1, <2>2, <2>3, <2>4, TwoBuffers, ConstantsAssumption
  <2>8. MainOK'
    BY <2>1, <2>2, <2>3, <2>4, TwoBuffers, ConstantsAssumption
  <2>9. TimerOK'
    BY <2>1, <2>2, <2>3, <2>4, TwoBuffers, ConstantsAssumption
  <2>10. UsbOK'
    BY <2>1, <2>2, <2>3, <2>4, TwoBuffers, ConstantsAssumption
  <2> QED BY <2>3, <2>5, <2>6, <2>7, <2>8, <2>9, <2>10
<1>12. CASE UsbLock
  <2> DEFINE l == IF sending = None THEN "u_take" ELSE "idle"
  <2>1. /\ Running("usb") /\ pc["usb"] = "u_lock"
        /\ over["timer"] # "usb"
    BY <1>12, RunUsb DEF UsbLock
  <2>2. /\ sending' = IF sending = None THEN act["usb"] ELSE sending
        /\ UNCHANGED <<active, sendNow, sendLater, data, regs, hw, link>>
    BY <1>12 DEF UsbLock
  <2>3. /\ StackOK' /\ pc'["usb"] = l
        /\ pc'["main"] = pc["main"] /\ pc'["timer"] = pc["timer"]
        /\ l # "idle" => over' = over
        /\ l = "idle" => over' = [over EXCEPT !["usb"] = None]
        /\ UNCHANGED <<size, copied>>
    <3>1. \/ l # "idle" /\ Goto("usb", l) /\ UNCHANGED call
          \/ l = "idle" /\ Return("usb")
      BY <1>12 DEF UsbLock
    <3>2. l \in UsbLabels
      BY DEF UsbLabels
    <3> QED BY <2>1, <3>1, <3>2, HandlerMoves
  <2>4. cur' = cur
    BY <2>1, <2>2, <2>3, TwoBuffers DEF cur
  <2>5. LockOK'
    BY <2>1, <2>2, <2>3, <2>4, TwoBuffers, ConstantsAssumption
  <2>6. BufferOK'
    BY <2>1, <2>2, <2>3, <2>4, TwoBuffers, ConstantsAssumption
  <2>7. TokenOK'
    BY <2>1, <2>2, <2>3, <2>4, TwoBuffers, ConstantsAssumption
  <2>8. MainOK'
    BY <2>1, <2>2, <2>3, <2>4, TwoBuffers, ConstantsAssumption
  <2>9. TimerOK'
    BY <2>1, <2>2, <2>3, <2>4, TwoBuffers, ConstantsAssumption
  <2>10. UsbOK'
    BY <2>1, <2>2, <2>3, <2>4, TwoBuffers, ConstantsAssumption
  <2> QED BY <2>3, <2>5, <2>6, <2>7, <2>8, <2>9, <2>10
<1> HIDE DEF TypeInv, IInv
<1> QED
  BY <1>1, <1>2, <1>3, <1>4, <1>5, <1>6, <1>7, <1>8, <1>9, <1>10, <1>11, <1>12
  DEF UsbStep

\* The interrupts: the handler starts on top of whatever is running.
LEMMA InterruptInv ==
  ASSUME TypeInv, IInv, TimerInterrupt \/ UsbInterrupt
  PROVE  IInv'
<1> USE DEF TypeInv, TypeOK, locks, regs, call, hw, link, hist, Ctx, Handlers,
        At, IInv, Rest, LockOK, BufferOK, TokenOK, MainOK, TimerOK, UsbOK,
        LockLabels, UsbLockLabels, MainOwns, TimerOwns, UsbOwns,
        AnyToken, LaterToken, NowToken, MainToken, TimerToken
<1>1. CASE TimerInterrupt
  <2>1. /\ StackOK' /\ pc' = [pc EXCEPT !["timer"] = "t_take"]
        /\ pc["timer"] = "idle"
    BY <1>1, StackEnter DEF TimerInterrupt, TimerLabels
  <2>2. /\ pc'["main"] = pc["main"] /\ pc'["usb"] = pc["usb"]
        /\ pc'["timer"] = "t_take"
    BY <2>1
  <2>3. UNCHANGED <<locks, data, regs, call, inflight, link>>
    BY <1>1 DEF TimerInterrupt
  <2>4. cur' = cur
    BY <2>1, <2>2, <2>3 DEF cur
  <2> QED BY <2>1, <2>2, <2>3, <2>4
<1>2. CASE UsbInterrupt
  <2>1. /\ StackOK' /\ pc' = [pc EXCEPT !["usb"] = "u_load"]
        /\ pc["usb"] = "idle"
    BY <1>2, StackEnter DEF UsbInterrupt, UsbLabels
  <2>2. /\ pc'["main"] = pc["main"] /\ pc'["timer"] = pc["timer"]
        /\ pc'["usb"] = "u_load"
    BY <2>1
  <2>3. /\ inflight # None /\ inflight' = None
        /\ UNCHANGED <<locks, data, regs, call, timer, link>>
    BY <1>2 DEF UsbInterrupt
  <2>4. cur' = cur
    BY <2>1, <2>2, <2>3 DEF cur
  <2>5. sending = inflight /\ cur # sending
    BY <2>3
  <2>6. LockOK'
    BY <2>1, <2>2, <2>3, <2>4, <2>5
  <2>7. BufferOK'
    BY <2>1, <2>2, <2>3, <2>4, <2>5
  <2>8. TokenOK'
    BY <2>1, <2>2, <2>3, <2>4, <2>5
  <2>9. MainOK'
    BY <2>1, <2>2, <2>3, <2>4, <2>5
  <2>10. TimerOK'
    BY <2>1, <2>2, <2>3, <2>4, <2>5
  <2>11. UsbOK'
    BY <2>1, <2>2, <2>3, <2>4, <2>5
  <2> QED BY <2>1, <2>6, <2>7, <2>8, <2>9, <2>10, <2>11
<1> QED BY <1>1, <1>2

\* send_now and is_done are called, is_done looks at three variables.
LEMMA CallInv ==
  ASSUME TypeInv, IInv, SendNow \/ IsDone \/ IsDoneStep
  PROVE  IInv'
<1> USE DEF TypeInv, TypeOK, locks, regs, call, hw, link, hist, Ctx, Handlers,
        At, IInv, Rest, LockOK, BufferOK, TokenOK, MainOK, TimerOK, UsbOK,
        LockLabels, UsbLockLabels, MainOwns, TimerOwns, UsbOwns,
        AnyToken, LaterToken, NowToken, MainToken, TimerToken
<1> DEFINE Calm == {"idle", "s_take", "d_sending", "d_later", "d_now", "d_done"}
<1>1. /\ pc["main"] \in Calm
      /\ pc["timer"] = "idle" /\ pc["usb"] = "idle" /\ Running("main")
      /\ \E l \in Calm : Goto("main", l)
      /\ UNCHANGED <<locks, data, regs, call, hw, link>>
  BY RunMain DEF SendNow, IsDone, IsDoneStep, LoadIsDone, IsDoneTrue
<1>2. PICK l \in Calm : Goto("main", l)
  BY <1>1
<1>3. /\ StackOK' /\ pc'["main"] \in Calm
      /\ pc'["timer"] = "idle" /\ pc'["usb"] = "idle"
  <2>1. StackOK' /\ pc' = [pc EXCEPT !["main"] = l]
    <3>1. l \in MainLabels
      BY <1>2 DEF MainLabels
    <3> QED BY <1>1, <1>2, <3>1, StackGoto
  <2> QED BY <1>1, <1>2, <2>1
<1>4. cur' = cur
  BY <1>1, <1>3 DEF cur
<1>5. LockOK'
  BY <1>1, <1>3, <1>4
<1>6. BufferOK'
  BY <1>1, <1>3, <1>4
<1>7. TokenOK'
  BY <1>1, <1>3, <1>4
<1>8. MainOK'
  BY <1>1, <1>3, <1>4
<1>9. TimerOK'
  BY <1>1, <1>3, <1>4
<1>10. UsbOK'
  BY <1>1, <1>3, <1>4
<1> QED BY <1>3, <1>5, <1>6, <1>7, <1>8, <1>9, <1>10

\* The host goes away and comes back.
LEMMA LinkInv ==
  ASSUME TypeInv, IInv, Disconnect \/ Reconnect,
         ResetPoints \subseteq {"idle", "connect", "wait", "acquire"}
  PROVE  IInv'
<1> USE DEF TypeInv, TypeOK, locks, regs, call, hw, link, hist, Ctx, Handlers,
        At, IInv, Rest, LockOK, BufferOK, TokenOK, MainOK, TimerOK, UsbOK,
        LockLabels, UsbLockLabels, MainOwns, TimerOwns, UsbOwns,
        AnyToken, LaterToken, NowToken, MainToken, TimerToken
<1>1. CASE Disconnect
  <2>1. /\ UNCHANGED <<locks, data, pc, over, regs, call>>
        /\ inflight' = None
    BY <1>1 DEF Disconnect
  <2>2. cur' = cur /\ StackOK'
    BY <2>1 DEF cur, StackOK
  <2> QED BY <2>1, <2>2
<1>2. CASE Reconnect
  <2>1. /\ pc["main"] \in {"idle", "connect", "wait", "acquire"}
        /\ pc["timer"] = "idle" /\ pc["usb"] = "idle" /\ inflight = None
    BY <1>2, RunMain DEF Reconnect
  <2>2. /\ active' = 0 /\ sendLater' = None /\ sendNow' = None
        /\ sending' = None /\ data' = [b \in Buf |-> <<>>]
        /\ UNCHANGED <<pc, over, regs, call, inflight>>
    BY <1>2 DEF Reconnect, Reset
  <2>3. 0 # None /\ cur' = 0 /\ StackOK'
    BY <2>2, ConstantsAssumption DEF cur, StackOK, Buf
  <2> QED BY <2>1, <2>2, <2>3
<1> QED BY <1>1, <1>2

-------------------------------------------------------------------------------
(***************************************************************************)
(* The theorems                                                            *)
(***************************************************************************)
\* The sender is constructed with the invariant.
LEMMA InitInv == Init => IInv
<1> SUFFICES ASSUME Init PROVE IInv
  OBVIOUS
<1>1. /\ pc["main"] = "idle" /\ pc["timer"] = "idle" /\ pc["usb"] = "idle"
      /\ over["timer"] = None /\ over["usb"] = None
  BY DEF Init, Ctx, Handlers
<1>2. 0 # None /\ None # "timer" /\ None # "usb"
  BY ConstantsAssumption DEF Buf, Ctx, Handlers
<1>3. StackOK
  BY <1>1, <1>2 DEF StackOK, Handlers, MainLabels, TimerLabels, UsbLabels
<1> USE <1>1, <1>2
    DEF Init, LockLabels, UsbLockLabels, MainOwns, TimerOwns, UsbOwns,
        AnyToken, LaterToken, NowToken, MainToken, TimerToken
<1>4. LockOK
  BY DEF LockOK
<1>5. BufferOK
  BY DEF BufferOK
<1>6. TokenOK
  BY DEF TokenOK
<1>7. MainOK /\ TimerOK /\ UsbOK
  BY DEF MainOK, TimerOK, UsbOK
<1> QED BY <1>3, <1>4, <1>5, <1>6, <1>7 DEF IInv

\* reset() does not interrupt a call that has taken a buffer or claimed one.
QuietResets == ResetPoints \subseteq {"idle", "connect", "wait", "acquire"}

\* Every step keeps the invariant.
LEMMA NextInv == QuietResets /\ TypeInv /\ IInv /\ [Next]_vars => IInv'
<1> SUFFICES ASSUME QuietResets, TypeInv, IInv, [Next]_vars PROVE IInv'
  OBVIOUS
<1>1. CASE (\E n \in 1..MaxBatch : Write(n)) \/ WriteStep
  BY <1>1, WriteInv
<1>2. CASE TakeLater("main", "s_take", "s_cancel") \/ TakeLater("timer", "t_take", "mark")
  BY <1>2, TakeLaterInv
<1>3. CASE SendNowCancelTimer \/ SendStep("main")
  BY <1>3, SendMainInv
<1>4. CASE SendStep("timer")
  BY <1>4, SendTimerInv
<1>5. CASE UsbStep
  BY <1>5, UsbInv
<1>6. CASE TimerInterrupt \/ UsbInterrupt
  BY <1>6, InterruptInv
<1>7. CASE SendNow \/ IsDone \/ IsDoneStep
  BY <1>7, CallInv
<1>8. CASE Disconnect \/ Reconnect
  BY <1>8, LinkInv DEF QuietResets
<1>9. CASE UNCHANGED vars
  <2>1. UNCHANGED <<active, sending, sendLater, sendNow, data, pc, over, buf, act, size, copied, inflight, connected>>
    BY <1>9 DEF vars, locks, regs, call, hw, link
  <2> QED BY <2>1
      DEF IInv, StackOK, LockOK, BufferOK, TokenOK, MainOK, TimerOK, UsbOK,
          cur, MainOwns, TimerOwns, UsbOwns, AnyToken, LaterToken, NowToken,
          MainToken, TimerToken
<1> QED
  BY <1>1, <1>2, <1>3, <1>4, <1>5, <1>6, <1>7, <1>8, <1>9
  DEF Next, MainStep, TimerStep

\* The invariant holds throughout.
LEMMA Invariant ==
  ASSUME QuietResets
  PROVE  Spec => [](TypeInv /\ IInv)
<1>1. Init => TypeInv /\ IInv
  BY InitTypes, InitInv
<1>2. TypeInv /\ IInv /\ [Next]_vars => (TypeInv /\ IInv)'
  BY NextTypes, NextInv
<1> QED BY <1>1, <1>2, PTL DEF Spec

\* The assertions of write_impl, send_now, timeout_callback and tx_callback
\* never fail, whatever interrupts what.
THEOREM AssertionsCorrect ==
  ASSUME QuietResets
  PROVE  Spec => []AssertionsHold
<1>1. TypeInv /\ IInv => AssertionsHold
  <2> SUFFICES ASSUME TypeInv, IInv PROVE AssertionsHold
    OBVIOUS
  <2> USE DEF TypeInv, TypeOK, IInv, LockLabels, UsbLockLabels, MainOwns,
          TimerOwns, UsbOwns, AnyToken, LaterToken, NowToken, MainToken,
          TimerToken
  <2>1. WriteAsserts
    BY DEF WriteAsserts, MainOK, TokenOK
  <2>2. SendAsserts
    BY DEF SendAsserts, MainOK, TimerOK, TokenOK, BufferOK
  <2>3. UsbAsserts
    BY DEF UsbAsserts, UsbOK, LockOK, cur
  <2> QED BY <2>1, <2>2, <2>3 DEF AssertionsHold
<1> QED BY <1>1, Invariant, PTL

\* A transfer is only ever started on idle hardware, and never an empty one.
THEOREM TransfersCorrect ==
  ASSUME QuietResets
  PROVE  Spec => []StartsOneFullTransfer
<1>1. TypeInv /\ IInv => StartsOneFullTransfer
  BY DEF TypeInv, TypeOK, IInv, LockOK, BufferOK, MainOK, TimerOK, UsbOK,
         LockLabels, UsbLockLabels, StartsOneFullTransfer, Ctx
<1> QED BY <1>1, Invariant, PTL

\* While the hardware reads a buffer nobody changes it or frees it for writing.
THEOREM InFlightCorrect ==
  ASSUME QuietResets
  PROVE  Spec => InFlightUntouched
<1> DEFINE Untouched ==
      inflight # None /\ inflight' = inflight =>
        data'[inflight] = data[inflight] /\ active' # inflight
<1>1. TypeInv /\ IInv /\ IInv' /\ [Next]_vars => Untouched
  <2> SUFFICES ASSUME TypeInv, IInv, IInv', [Next]_vars, inflight # None,
                      inflight' = inflight
               PROVE  data'[inflight] = data[inflight] /\ active' # inflight
    OBVIOUS
  <2>1. active' # inflight
    BY DEF IInv, LockOK, cur
  <2>2. inflight # cur /\ inflight \in Buf /\ data \in [Buf -> Seq(Nat)] /\ connected
    BY DEF IInv, LockOK, TypeInv, TypeOK
  <2>3. CASE UNCHANGED data
    BY <2>1, <2>3
  <2>4. CASE Copy
    <3>1. buf["main"] = cur /\ cur \in Buf
      BY <2>4 DEF Copy, At, IInv, BufferOK, MainOwns, cur, TypeInv, TypeOK, Ctx
    <3> QED BY <2>1, <2>2, <2>4, <3>1 DEF Copy
  <2>5. ASSUME NEW c \in {"main", "timer"}, Publish(c) PROVE FALSE
    BY <2>5 DEF Publish, At, IInv, LockOK, LockLabels
  <2>6. ~EmptySent
    BY DEF EmptySent, At, IInv, LockOK, UsbLockLabels
  <2>7. ~Reconnect
    BY <2>2 DEF Reconnect
  <2>8. Next => Copy \/ Publish("main") \/ Publish("timer") \/ EmptySent
                \/ Reconnect \/ UNCHANGED data
    BY DEF Next, MainStep, WriteStep, IsDoneStep, TimerStep, SendStep, UsbStep,
           Write, SendNow, IsDone, TimerInterrupt, UsbInterrupt, Disconnect,
           WaitConnect, PollConnect, Acquire, Release, StoreLater, ArmTimer,
           TakeBackLater, CancelTimer, StoreNow, CheckNow, TakeLater,
           SendNowCancelTimer, LoadIsDone, IsDoneTrue, Mark, Lock, Recheck,
           Unlock, TakeBuffer, ClearNow, Start, LoadSent, LoadNext, TakeNext,
           ClearNext, HandOver, GiveBack, StartNext, UsbUnlock, UsbRelease,
           LoadNextAgain, UsbLock
  <2> QED BY <2>1, <2>3, <2>4, <2>5, <2>6, <2>7, <2>8 DEF vars
<1>2. Spec => [][Untouched]_vars
  BY <1>1, Invariant, PTL DEF Spec
<1> QED BY <1>2, PTL DEF InFlightUntouched

-------------------------------------------------------------------------------
(*****************************************************************************)
(* 3. The messages (DInv of BulkTXInv)                                       *)
(*****************************************************************************)
\* A step that moves no message, and starts and completes no transfer.
LEMMA ContentKept ==
  ASSUME ContentOK, cur' = cur, Pending' <=> Pending,
         UNCHANGED <<data, accepted, settled>>
  PROVE  ContentOK'
<1>1. other(cur)' = other(cur)
  BY DEF other
<1>2. Ahead' = Ahead
  BY <1>1 DEF Ahead
<1> QED BY <1>1, <1>2 DEF ContentOK

\* Types of the contents and of the message numbers.
LEMMA DataTypes ==
  ASSUME TypeInv
  PROVE  /\ data \in [Buf -> Seq(Nat)] /\ wire \in Seq(Nat)
         /\ accepted \in Nat /\ settled \in Nat
         /\ \A b \in Buf : data[b] \in Seq(Nat) /\ Len(data[b]) \in 0..PacketSize
<1> QED BY ConstantsAssumption DEF TypeInv, TypeOK, SizesOK

\* Messages appended to consecutive ones are numbered on.
LEMMA NumberedOn ==
  ASSUME NEW s \in Seq(Nat), NEW base \in Nat, NEW a \in Nat,
         Consecutive(s, base), base + Len(s) = a,
         NEW new \in Seq(Nat), Consecutive(new, a)
  PROVE  /\ Consecutive(s \o new, base)
         /\ base + Len(s \o new) = a + Len(new)
         /\ s = <<>> /\ s \o new # <<>> => Len(new) > 0
<1> DEFINE t == s \o new
<1>k. PICK k \in Nat : k = Len(new)
  OBVIOUS
<1>1. \A i \in 1..k : new[i] = a + i
  BY <1>k DEF Consecutive
<1>2. Len(t) = Len(s) + k /\ Len(s) \in Nat
  BY <1>k
<1>3. \A i \in 1..(Len(s) + k) : t[i] = IF i <= Len(s) THEN s[i] ELSE new[i - Len(s)]
  BY <1>k
<1> HIDE DEF t
<1>4. ASSUME NEW i \in 1..Len(t) PROVE t[i] = base + i
  <2>1. CASE i <= Len(s)
    BY <2>1, <1>2, <1>3 DEF Consecutive
  <2>2. CASE ~(i <= Len(s))
    <3>1. i - Len(s) \in 1..k /\ t[i] = new[i - Len(s)]
      BY <2>2, <1>2, <1>3
    <3>2. t[i] = (base + Len(s)) + (i - Len(s))
      BY <3>1, <1>1
    <3>3. \A n \in Nat : (base + n) + (i - n) = base + i
      <4>1. i \in Nat
        OBVIOUS
      <4> QED BY <4>1
    <3> QED BY <3>2, <3>3, <1>2, Zenon
  <2> QED BY <2>1, <2>2
<1>5. s = <<>> /\ t # <<>> => k > 0
  BY <1>k DEF t
<1>6. base + Len(t) = a + k
  <2>1. \A n \in Nat : base + (n + k) = (base + n) + k
    OBVIOUS
  <2> QED BY <1>2, <2>1, Zenon
<1> QED BY <1>k, <1>4, <1>5, <1>6 DEF t, Consecutive

-------------------------------------------------------------------------------
(***************************************************************************)
(* One lemma per operation: every step of it keeps the invariant           *)
(***************************************************************************)
\* write calls write_impl, which takes the buffer: no message is moved yet.
LEMMA CallData ==
  ASSUME TypeInv, IInv, IInv', DInv,
         \/ \E n \in 1..MaxBatch : Write(n)
         \/ WaitConnect \/ PollConnect \/ Acquire
         \/ SendNow \/ IsDone \/ IsDoneStep
  PROVE  DInv'
<1> USE DEF TypeInv, TypeOK, locks, regs, call, hw, link, hist, Ctx, Handlers,
        At, IInv, LockOK, BufferOK, TokenOK, MainOK, TimerOK, UsbOK,
        LockLabels, UsbLockLabels, MainOwns, TimerOwns, UsbOwns,
        AnyToken, LaterToken, NowToken, MainToken, TimerToken,
        DInv, EmptiedOK, LockHeld, LockTaken, Dead, Pending, Fresh,
        RequestOK, DataRequested, LaterTimed, NowSeen, UnlockOK
<1> DEFINE Calm == {"idle", "connect", "wait", "acquire", "s_take",
                    "d_sending", "d_later", "d_now", "d_done"}
<1>1. CASE ~Acquire
  <2>1. /\ pc["main"] \in Calm
        /\ pc["timer"] = "idle" /\ pc["usb"] = "idle" /\ Running("main")
        /\ \E l \in Calm : Goto("main", l)
        /\ UNCHANGED <<locks, data, hw, connected, accepted, settled>>
    BY <1>1, RunMain DEF Write, WaitConnect, PollConnect, GiveUp, SendNow, IsDone,
                         IsDoneStep, LoadIsDone, IsDoneTrue
  <2>2. /\ pc'["main"] \in Calm
        /\ pc'["timer"] = "idle" /\ pc'["usb"] = "idle"
    BY <2>1 DEF Goto
  <2>3. buf' = buf
    BY <1>1 DEF Write, WaitConnect, PollConnect, GiveUp, SendNow, IsDone,
                IsDoneStep, LoadIsDone, IsDoneTrue
  <2>4. cur' = cur
    BY <2>1, <2>2 DEF cur
  <2>5. Pending' <=> Pending
    BY <2>1, <2>2, SMTT(30)
  <2>6. EmptiedOK' /\ LockHeld' /\ RequestOK'
    BY <2>1, <2>2, <2>3, <2>4
  <2> QED BY <2>1, <2>4, <2>5, <2>6, ContentKept
<1>2. CASE Acquire
  <2>1. pc["main"] \in {"acquire"} /\ pc["timer"] = "idle" /\ pc["usb"] = "idle"
    BY <1>2, RunMain DEF Acquire
  <2>2. /\ pc'["main"] \in {"copy"}
        /\ pc'["timer"] = "idle" /\ pc'["usb"] = "idle"
    BY <1>2, <2>1, StackGoto, StackReturnMain DEF Acquire, MainLabels, SendLabels
  <2>3. /\ active' = None /\ buf'["main"] = active
        /\ UNCHANGED <<sending, sendLater, sendNow, data, hw, link, hist, call>>
    BY <1>2 DEF Acquire, Return
  <2>4. cur' = cur
    BY <2>1, <2>2, <2>3, TwoBuffers DEF cur
  <2>5. Pending' <=> Pending
    BY <2>1, <2>2, <2>3
  <2>6. EmptiedOK' /\ LockHeld'
    BY <2>1, <2>2, <2>3, <2>4
  <2>7. DataRequested' /\ LaterTimed'
    BY <2>1, <2>2, <2>3, <2>4
  <2>8. NowSeen' /\ UnlockOK'
    BY <2>1, <2>2, <2>3, <2>4
  <2> QED BY <2>3, <2>4, <2>5, <2>6, <2>7, <2>8, ContentKept
<1> QED BY <1>1, <1>2

\* write_impl between copying its messages and looking at send_now.
LEMMA WriteData ==
  ASSUME TypeInv, IInv, IInv', DInv,
         \/ Release \/ StoreLater \/ ArmTimer \/ TakeBackLater \/ CancelTimer
         \/ StoreNow \/ CheckNow
  PROVE  DInv'
<1> USE DEF TypeInv, TypeOK, locks, regs, call, hw, link, hist, Ctx, Handlers,
        At, IInv, LockOK, BufferOK, TokenOK, MainOK, TimerOK, UsbOK,
        LockLabels, UsbLockLabels, MainOwns, TimerOwns, UsbOwns,
        AnyToken, LaterToken, NowToken, MainToken, TimerToken,
        DInv, EmptiedOK, LockHeld, LockTaken, Dead, Pending, Fresh,
        RequestOK, DataRequested, LaterTimed, NowSeen, UnlockOK
<1>1. CASE Release
  <2>1. pc["main"] \in {"release"} /\ pc["timer"] = "idle" /\ pc["usb"] = "idle"
    BY <1>1, RunMain DEF Release
  <2>2. /\ pc'["main"] \in IF copied = 0 THEN {"check"}
                          ELSE IF size = 0 THEN {"now", "later"}
                          ELSE {"unlater", "check"}
        /\ pc'["timer"] = "idle" /\ pc'["usb"] = "idle"
    <3>1. PICK l \in {"check", "now", "later", "unlater"} :
            /\ Goto("main", l)
            /\ l \in IF copied = 0 THEN {"check"}
                      ELSE IF size = 0 THEN {"now", "later"}
                      ELSE {"unlater", "check"}
      BY <1>1 DEF Release
    <3>2. pc' = [pc EXCEPT !["main"] = l]
      BY <3>1 DEF Goto
    <3> QED BY <2>1, <3>1, <3>2
  <2>3. /\ active' = buf["main"]
        /\ UNCHANGED <<sending, sendLater, sendNow, data, regs, call, hw, link, hist>>
    BY <1>1 DEF Release, Return
  <2>4. cur' = cur
    BY <2>1, <2>2, <2>3, TwoBuffers DEF cur
  <2>5. Pending' <=> Pending
    BY <2>1, <2>2, <2>3
  <2>6. EmptiedOK' /\ LockHeld'
    BY <2>1, <2>2, <2>3, <2>4
  <2>7. DataRequested' /\ LaterTimed'
    BY <2>1, <2>2, <2>3, <2>4
  <2>8. NowSeen' /\ UnlockOK'
    BY <2>1, <2>2, <2>3, <2>4
  <2> QED BY <2>3, <2>4, <2>5, <2>6, <2>7, <2>8, ContentKept
<1>2. CASE StoreLater
  <2>1. pc["main"] \in {"later"} /\ pc["timer"] = "idle" /\ pc["usb"] = "idle"
    BY <1>2, RunMain DEF StoreLater
  <2>2. /\ pc'["main"] \in {"arm"}
        /\ pc'["timer"] = "idle" /\ pc'["usb"] = "idle"
    BY <1>2, <2>1, StackGoto, StackReturnMain DEF StoreLater, MainLabels, SendLabels
  <2>3. /\ sendLater' = buf["main"]
        /\ UNCHANGED <<active, sending, sendNow, data, regs, call, hw, link, hist>>
    BY <1>2 DEF StoreLater, Return
  <2>4. cur' = cur
    BY <2>1, <2>2, <2>3, TwoBuffers DEF cur
  <2>5. Pending' <=> Pending
    BY <2>1, <2>2, <2>3
  <2>6. EmptiedOK' /\ LockHeld'
    BY <2>1, <2>2, <2>3, <2>4
  <2>7. DataRequested' /\ LaterTimed'
    BY <2>1, <2>2, <2>3, <2>4
  <2>8. NowSeen' /\ UnlockOK'
    BY <2>1, <2>2, <2>3, <2>4
  <2> QED BY <2>3, <2>4, <2>5, <2>6, <2>7, <2>8, ContentKept
<1>3. CASE ArmTimer
  <2>1. pc["main"] \in {"arm"} /\ pc["timer"] = "idle" /\ pc["usb"] = "idle"
    BY <1>3, RunMain DEF ArmTimer
  <2>2. /\ pc'["main"] \in {"check"}
        /\ pc'["timer"] = "idle" /\ pc'["usb"] = "idle"
    BY <1>3, <2>1, StackGoto, StackReturnMain DEF ArmTimer, MainLabels, SendLabels
  <2>3. /\ timer' = TRUE
        /\ UNCHANGED <<locks, data, regs, call, inflight, link, hist>>
    BY <1>3 DEF ArmTimer, Return
  <2>4. cur' = cur
    BY <2>1, <2>2, <2>3, TwoBuffers DEF cur
  <2>5. Pending' <=> Pending
    BY <2>1, <2>2, <2>3
  <2>6. EmptiedOK' /\ LockHeld'
    BY <2>1, <2>2, <2>3, <2>4
  <2>7. DataRequested' /\ LaterTimed'
    BY <2>1, <2>2, <2>3, <2>4
  <2>8. NowSeen' /\ UnlockOK'
    BY <2>1, <2>2, <2>3, <2>4
  <2> QED BY <2>3, <2>4, <2>5, <2>6, <2>7, <2>8, ContentKept
<1>4. CASE TakeBackLater
  <2>1. pc["main"] \in {"unlater"} /\ pc["timer"] = "idle" /\ pc["usb"] = "idle"
    BY <1>4, RunMain DEF TakeBackLater
  <2>2. /\ pc'["main"] \in IF sendLater = None THEN {"check"} ELSE {"cancel"}
        /\ pc'["timer"] = "idle" /\ pc'["usb"] = "idle"
    BY <1>4, <2>1, StackGoto, StackReturnMain DEF TakeBackLater, MainLabels, SendLabels
  <2>3. /\ sendLater' = None
        /\ UNCHANGED <<active, sending, sendNow, data, buf, call, hw, link, hist>>
    BY <1>4 DEF TakeBackLater, Return
  <2>4. cur' = cur
    BY <2>1, <2>2, <2>3, TwoBuffers DEF cur
  <2>5. Pending' <=> Pending
    BY <2>1, <2>2, <2>3
  <2>6. EmptiedOK' /\ LockHeld'
    BY <2>1, <2>2, <2>3, <2>4
  <2>7. DataRequested' /\ LaterTimed'
    BY <2>1, <2>2, <2>3, <2>4
  <2>8. NowSeen' /\ UnlockOK'
    BY <2>1, <2>2, <2>3, <2>4
  <2> QED BY <2>3, <2>4, <2>5, <2>6, <2>7, <2>8, ContentKept
<1>5. CASE CancelTimer
  <2>1. pc["main"] \in {"cancel"} /\ pc["timer"] = "idle" /\ pc["usb"] = "idle"
    BY <1>5, RunMain DEF CancelTimer
  <2>2. /\ pc'["main"] \in {"now"}
        /\ pc'["timer"] = "idle" /\ pc'["usb"] = "idle"
    BY <1>5, <2>1, StackGoto, StackReturnMain DEF CancelTimer, MainLabels, SendLabels
  <2>3. /\ timer' = FALSE
        /\ UNCHANGED <<locks, data, regs, call, inflight, link, hist>>
    BY <1>5 DEF CancelTimer, Return
  <2>4. cur' = cur
    BY <2>1, <2>2, <2>3, TwoBuffers DEF cur
  <2>5. Pending' <=> Pending
    BY <2>1, <2>2, <2>3
  <2>6. EmptiedOK' /\ LockHeld'
    BY <2>1, <2>2, <2>3, <2>4
  <2>7. DataRequested' /\ LaterTimed'
    BY <2>1, <2>2, <2>3, <2>4
  <2>8. NowSeen' /\ UnlockOK'
    BY <2>1, <2>2, <2>3, <2>4
  <2> QED BY <2>3, <2>4, <2>5, <2>6, <2>7, <2>8, ContentKept
<1>6. CASE StoreNow
  <2>1. pc["main"] \in {"now"} /\ pc["timer"] = "idle" /\ pc["usb"] = "idle"
    BY <1>6, RunMain DEF StoreNow
  <2>2. /\ pc'["main"] \in {"check"}
        /\ pc'["timer"] = "idle" /\ pc'["usb"] = "idle"
    BY <1>6, <2>1, StackGoto, StackReturnMain DEF StoreNow, MainLabels, SendLabels
  <2>3. /\ sendNow' = buf["main"]
        /\ UNCHANGED <<active, sending, sendLater, data, regs, call, hw, link, hist>>
    BY <1>6 DEF StoreNow, Return
  <2>4. cur' = cur
    BY <2>1, <2>2, <2>3, TwoBuffers DEF cur
  <2>5. Pending' <=> Pending
    BY <2>1, <2>2, <2>3
  <2>6. EmptiedOK' /\ LockHeld'
    BY <2>1, <2>2, <2>3, <2>4
  <2>7. DataRequested' /\ LaterTimed'
    BY <2>1, <2>2, <2>3, <2>4
  <2>8. NowSeen' /\ UnlockOK'
    BY <2>1, <2>2, <2>3, <2>4
  <2> QED BY <2>3, <2>4, <2>5, <2>6, <2>7, <2>8, ContentKept
<1>7. CASE CheckNow
  <2>1. pc["main"] \in {"check"} /\ pc["timer"] = "idle" /\ pc["usb"] = "idle"
    BY <1>7, RunMain DEF CheckNow
  <2>2. /\ pc'["main"] \in IF sendNow = None THEN {"acquire", "idle"} ELSE {"lock"}
        /\ pc'["timer"] = "idle" /\ pc'["usb"] = "idle"
    BY <1>7, <2>1, StackGoto, StackReturnMain DEF CheckNow, MainLabels, SendLabels
  <2>3. /\ UNCHANGED <<locks, data, regs, hw, link, hist>>
    BY <1>7 DEF CheckNow, Return
  <2>4. cur' = cur
    BY <2>1, <2>2, <2>3, TwoBuffers DEF cur
  <2>5. Pending' <=> Pending
    BY <2>1, <2>2, <2>3
  <2>6. EmptiedOK' /\ LockHeld'
    BY <2>1, <2>2, <2>3, <2>4
  <2>7. DataRequested' /\ LaterTimed'
    BY <2>1, <2>2, <2>3, <2>4
  <2>8. NowSeen' /\ UnlockOK'
    BY <2>1, <2>2, <2>3, <2>4
  <2> QED BY <2>3, <2>4, <2>5, <2>6, <2>7, <2>8, ContentKept
<1> QED BY <1>1, <1>2, <1>3, <1>4, <1>5, <1>6, <1>7

\* write_impl appends messages to the buffer: they are numbered on.
LEMMA CopyData ==
  ASSUME TypeInv, IInv, IInv', DInv, Copy
  PROVE  DInv'
<1> USE DEF TypeInv, TypeOK, locks, regs, call, hw, link, hist, Ctx, Handlers,
        At, IInv, LockOK, BufferOK, TokenOK, MainOK, TimerOK, UsbOK,
        LockLabels, UsbLockLabels, MainOwns, TimerOwns, UsbOwns,
        AnyToken, LaterToken, NowToken, MainToken, TimerToken,
        DInv, EmptiedOK, LockHeld, LockTaken, Dead, Pending, Fresh,
        RequestOK, DataRequested, LaterTimed, NowSeen, UnlockOK
<1>1. pc["main"] = "copy" /\ pc["timer"] = "idle" /\ pc["usb"] = "idle"
  BY RunMain DEF Copy
<1>2. /\ pc'["main"] = "release" /\ pc'["timer"] = "idle" /\ pc'["usb"] = "idle"
  BY <1>1, StackGoto, SMTT(30) DEF Copy, MainLabels
<1>3. PICK k \in Nat : k = Fits(buf["main"], todo)
  BY <1>1, FitsBounds DEF SizesOK
<1>4. /\ size' = Len(data[buf["main"]]) /\ copied' = k /\ accepted' = accepted + k
      /\ data' = [data EXCEPT ![buf["main"]] =
                    data[buf["main"]] \o [i \in 1..k |-> accepted + i]]
      /\ UNCHANGED <<locks, regs, todo, hw, link, settled, wire>>
  BY <1>3 DEF Copy
<1>5. PICK c \in Buf : c = cur
  BY <1>1 DEF cur
<1>6. cur' = c /\ buf["main"] = c
  BY <1>1, <1>2, <1>4, <1>5 DEF cur
<1>7. PICK d \in Buf : d = other(c) /\ d # c
  BY TwoBuffers
<1>8. data'[d] = data[d] /\ data'[c] = data[c] \o [i \in 1..k |-> accepted + i]
  BY <1>4, <1>6, <1>7
<1>9. /\ data[c] \in Seq(Nat) /\ accepted \in Nat /\ settled \in Nat
      /\ Len(data[c]) \in Nat /\ Len(data[d]) \in Nat
  BY DataTypes, ConstantsAssumption
<1>11. Pending' <=> Pending
  BY <1>1, <1>2, <1>4
<1>12. other(cur') = d /\ other(cur) = d /\ Ahead' = Ahead /\ Ahead \in Nat
  BY <1>5, <1>6, <1>7, <1>8, <1>9, <1>11 DEF Ahead, other
<1> HIDE DEF TypeInv, IInv, Pending, Dead
<1>13. /\ settled + Ahead + Len(data[c]) = accepted
       /\ Consecutive(data[c], settled + Ahead)
       /\ Pending => data[d] # <<>> /\ Consecutive(data[d], settled)
  BY <1>5, <1>12 DEF ContentOK
<1>14. /\ Consecutive(data'[c], settled + Ahead)
       /\ settled + Ahead + Len(data'[c]) = accepted + k
       /\ data[c] = <<>> /\ data'[c] # <<>> => k > 0
  <2>1. PICK base \in Nat : base = settled + Ahead
    BY <1>9, <1>12
  <2>2. PICK s \in Seq(Nat), a \in Nat : s = data[c] /\ a = accepted
    BY <1>9
  <2>3. PICK new \in Seq(Nat) : /\ new = [i \in 1..k |-> a + i]
                                /\ Len(new) = k /\ Consecutive(new, a)
    BY NumberedSeq DEF Consecutive
  <2>4. Consecutive(s, base) /\ base + Len(s) = a
    BY <2>1, <2>2, <1>13
  <2>5. /\ Consecutive(s \o new, base)
        /\ base + Len(s \o new) = a + Len(new)
        /\ s = <<>> /\ s \o new # <<>> => Len(new) > 0
    BY <2>3, <2>4, NumberedOn, ZenonT(30)
  <2>6. data'[c] = s \o new
    BY <1>8, <2>2, <2>3
  <2> QED BY <2>1, <2>2, <2>3, <2>5, <2>6
<1>15. settled' = settled /\ accepted' = accepted + k
  BY <1>4
<1>16. ContentOK'
  BY <1>6, <1>8, <1>11, <1>12, <1>13, <1>14, <1>15 DEF ContentOK
<1> USE DEF TypeInv, IInv, Pending, Dead
<1>17. EmptiedOK' /\ LockHeld'
  BY <1>1, <1>2, <1>4, <1>5, <1>6
<1>18. DataRequested'
  <2>1. CASE data[c] = <<>>
    <3>1. size' = 0 /\ copied' = k
      BY <2>1, <1>4, <1>6
    <3>2. data'[c] # <<>> => k > 0
      BY <2>1, <1>14
    <3> QED BY <1>2, <1>6, <3>1, <3>2
  <2>2. CASE data[c] # <<>>
    <3>1. AnyToken
      BY <2>2, <1>1, <1>5
    <3>2. sendLater' = sendLater /\ sendNow' = sendNow
      BY <1>4
    <3> QED BY <1>1, <3>1, <3>2
  <2> QED BY <2>1, <2>2
<1>19. LaterTimed' /\ NowSeen' /\ UnlockOK'
  BY <1>1, <1>2, <1>4
<1> QED BY <1>16, <1>17, <1>18, <1>19

\* send_now and write_impl handing a buffer to the hardware.
LEMMA SendMainData ==
  ASSUME TypeInv, IInv, IInv', DInv,
         \/ TakeLater("main", "s_take", "s_cancel") \/ SendNowCancelTimer
         \/ Mark("main") \/ Lock("main") \/ Recheck("main") \/ Unlock("main")
         \/ TakeBuffer("main") \/ ClearNow("main") \/ Start("main")
  PROVE  DInv'
<1> USE DEF TypeInv, TypeOK, locks, regs, call, hw, link, hist, Ctx, Handlers,
        At, IInv, LockOK, BufferOK, TokenOK, MainOK, TimerOK, UsbOK,
        LockLabels, UsbLockLabels, MainOwns, TimerOwns, UsbOwns,
        AnyToken, LaterToken, NowToken, MainToken, TimerToken,
        DInv, EmptiedOK, LockHeld, LockTaken, Dead, Pending, Fresh,
        RequestOK, DataRequested, LaterTimed, NowSeen, UnlockOK
<1>1. CASE TakeLater("main", "s_take", "s_cancel")
  <2>1. pc["main"] \in {"s_take"} /\ pc["timer"] = "idle" /\ pc["usb"] = "idle"
    BY <1>1, RunMain DEF TakeLater
  <2>2. /\ sendLater = None => pc'["main"] \in {"acquire", "idle"}
        /\ sendLater # None => pc'["main"] \in {"s_cancel"}
        /\ pc'["timer"] = "idle" /\ pc'["usb"] = "idle"
    BY <1>1, <2>1, StackGoto, StackReturnMain, SMTT(30) DEF TakeLater, MainLabels, SendLabels
  <2>3. /\ sendLater' = None
        /\ UNCHANGED <<active, sending, sendNow, data, act, hw, link, hist>>
    BY <1>1 DEF TakeLater, Return
  <2>4. cur' = cur
    BY <2>1, <2>2, <2>3, TwoBuffers DEF cur
  <2>5. Pending' <=> Pending
    BY <2>1, <2>2, <2>3
  <2>6. EmptiedOK' /\ LockHeld'
    BY <2>1, <2>2, <2>3, <2>4
  <2>7. DataRequested' /\ LaterTimed'
    BY <2>1, <2>2, <2>3, <2>4
  <2>8. NowSeen' /\ UnlockOK'
    BY <2>1, <2>2, <2>3, <2>4
  <2> QED BY <2>3, <2>4, <2>5, <2>6, <2>7, <2>8, ContentKept
<1>2. CASE SendNowCancelTimer
  <2>1. pc["main"] \in {"s_cancel"} /\ pc["timer"] = "idle" /\ pc["usb"] = "idle"
    BY <1>2, RunMain DEF SendNowCancelTimer
  <2>2. /\ pc'["main"] \in {"mark"}
        /\ pc'["timer"] = "idle" /\ pc'["usb"] = "idle"
    BY <1>2, <2>1, StackGoto, StackReturnMain DEF SendNowCancelTimer, MainLabels, SendLabels
  <2>3. /\ timer' = FALSE
        /\ UNCHANGED <<locks, data, regs, call, inflight, link, hist>>
    BY <1>2 DEF SendNowCancelTimer, Return
  <2>4. cur' = cur
    BY <2>1, <2>2, <2>3, TwoBuffers DEF cur
  <2>5. Pending' <=> Pending
    BY <2>1, <2>2, <2>3
  <2>6. EmptiedOK' /\ LockHeld'
    BY <2>1, <2>2, <2>3, <2>4
  <2>7. DataRequested' /\ LaterTimed'
    BY <2>1, <2>2, <2>3, <2>4
  <2>8. NowSeen' /\ UnlockOK'
    BY <2>1, <2>2, <2>3, <2>4
  <2> QED BY <2>3, <2>4, <2>5, <2>6, <2>7, <2>8, ContentKept
<1>3. CASE Mark("main")
  <2>1. pc["main"] \in {"mark"} /\ pc["timer"] = "idle" /\ pc["usb"] = "idle"
    BY <1>3, RunMain DEF Mark
  <2>2. /\ pc'["main"] \in {"lock"}
        /\ pc'["timer"] = "idle" /\ pc'["usb"] = "idle"
    BY <1>3, <2>1, StackGoto, StackReturnMain DEF Mark, MainLabels, SendLabels
  <2>3. /\ sendNow' = buf["main"]
        /\ UNCHANGED <<active, sending, sendLater, data, regs, call, hw, link, hist>>
    BY <1>3 DEF Mark, Return
  <2>4. cur' = cur
    BY <2>1, <2>2, <2>3, TwoBuffers DEF cur
  <2>5. Pending' <=> Pending
    BY <2>1, <2>2, <2>3
  <2>6. EmptiedOK' /\ LockHeld'
    BY <2>1, <2>2, <2>3, <2>4
  <2>7. DataRequested' /\ LaterTimed'
    BY <2>1, <2>2, <2>3, <2>4
  <2>8. NowSeen' /\ UnlockOK'
    BY <2>1, <2>2, <2>3, <2>4
  <2> QED BY <2>3, <2>4, <2>5, <2>6, <2>7, <2>8, ContentKept
<1>4. CASE Lock("main")
  <2>1. pc["main"] \in {"lock"} /\ pc["timer"] = "idle" /\ pc["usb"] = "idle"
    BY <1>4, RunMain DEF Lock
  <2>2. /\ pc'["main"] \in IF sending = None THEN {"recheck"} ELSE {"acquire", "idle"}
        /\ pc'["timer"] = "idle" /\ pc'["usb"] = "idle"
    BY <1>4, <2>1, StackGoto, StackReturnMain, SMTT(30) DEF Lock, MainLabels, SendLabels
  <2>3. /\ sending' = IF sending = None THEN buf["main"] ELSE sending
        /\ UNCHANGED <<active, sendLater, sendNow, data, regs, hw, link, hist>>
    BY <1>4 DEF Lock, Return
  <2>4. cur' = cur
    BY <2>1, <2>2, <2>3, TwoBuffers DEF cur
  <2>5. Pending' <=> Pending
    BY <2>1, <2>2, <2>3
  <2>6. EmptiedOK' /\ LockHeld'
    BY <2>1, <2>2, <2>3, <2>4
  <2>7. DataRequested' /\ LaterTimed'
    BY <2>1, <2>2, <2>3, <2>4
  <2>8. NowSeen' /\ UnlockOK'
    BY <2>1, <2>2, <2>3, <2>4
  <2> QED BY <2>3, <2>4, <2>5, <2>6, <2>7, <2>8, ContentKept
<1>5. CASE Recheck("main")
  <2>1. pc["main"] \in {"recheck"} /\ pc["timer"] = "idle" /\ pc["usb"] = "idle"
    BY <1>5, RunMain DEF Recheck
  <2>2. /\ sendNow = None => pc'["main"] \in {"unlock"}
        /\ sendNow # None => pc'["main"] \in {"take"}
        /\ pc'["timer"] = "idle" /\ pc'["usb"] = "idle"
    BY <1>5, <2>1, StackGoto, StackReturnMain DEF Recheck, MainLabels, SendLabels
  <2>3. /\ UNCHANGED <<locks, data, regs, call, hw, link, hist>>
    BY <1>5 DEF Recheck, Return
  <2>4. cur' = cur
    BY <2>1, <2>2, <2>3, TwoBuffers DEF cur
  <2>5. Pending' <=> Pending
    BY <2>1, <2>2, <2>3
  <2>6. EmptiedOK' /\ LockHeld'
    BY <2>1, <2>2, <2>3, <2>4
  <2>7. DataRequested' /\ LaterTimed'
    BY <2>1, <2>2, <2>3, <2>4
  <2>8. NowSeen' /\ UnlockOK'
    BY <2>1, <2>2, <2>3, <2>4
  <2> QED BY <2>3, <2>4, <2>5, <2>6, <2>7, <2>8, ContentKept
<1>6. CASE Unlock("main")
  <2>1. pc["main"] \in {"unlock"} /\ pc["timer"] = "idle" /\ pc["usb"] = "idle"
    BY <1>6, RunMain DEF Unlock
  <2>2. /\ pc'["main"] \in {"acquire", "idle"}
        /\ pc'["timer"] = "idle" /\ pc'["usb"] = "idle"
    BY <1>6, <2>1, StackGoto, StackReturnMain DEF Unlock, MainLabels, SendLabels
  <2>3. /\ sending' = None
        /\ UNCHANGED <<active, sendLater, sendNow, data, regs, hw, link, hist>>
    BY <1>6 DEF Unlock, Return
  <2>4. cur' = cur
    BY <2>1, <2>2, <2>3, TwoBuffers DEF cur
  <2>5. Pending' <=> Pending
    BY <2>1, <2>2, <2>3
  <2>6. EmptiedOK' /\ LockHeld'
    BY <2>1, <2>2, <2>3, <2>4
  <2>7. DataRequested' /\ LaterTimed'
    BY <2>1, <2>2, <2>3, <2>4
  <2>8. NowSeen' /\ UnlockOK'
    BY <2>1, <2>2, <2>3, <2>4
  <2> QED BY <2>3, <2>4, <2>5, <2>6, <2>7, <2>8, ContentKept
<1>7. CASE TakeBuffer("main")
  <2>1. pc["main"] \in {"take"} /\ pc["timer"] = "idle" /\ pc["usb"] = "idle"
    BY <1>7, RunMain DEF TakeBuffer
  <2>2. /\ pc'["main"] \in {"clear"}
        /\ pc'["timer"] = "idle" /\ pc'["usb"] = "idle"
    BY <1>7, <2>1, StackGoto, StackReturnMain DEF TakeBuffer, MainLabels, SendLabels
  <2>3. /\ active' = None /\ act' = [act EXCEPT !["main"] = active]
        /\ UNCHANGED <<sending, sendLater, sendNow, data, buf, call, hw, link, hist>>
    BY <1>7 DEF TakeBuffer, Return
  <2>4. cur' = cur
    BY <2>1, <2>2, <2>3, TwoBuffers DEF cur
  <2>5. Pending' <=> Pending
    BY <2>1, <2>2, <2>3
  <2>6. EmptiedOK' /\ LockHeld'
    BY <2>1, <2>2, <2>3, <2>4
  <2>7. DataRequested' /\ LaterTimed'
    BY <2>1, <2>2, <2>3, <2>4
  <2>8. NowSeen' /\ UnlockOK'
    BY <2>1, <2>2, <2>3, <2>4
  <2> QED BY <2>3, <2>4, <2>5, <2>6, <2>7, <2>8, ContentKept
<1>8. CASE ClearNow("main")
  <2>1. pc["main"] \in {"clear"} /\ pc["timer"] = "idle" /\ pc["usb"] = "idle"
    BY <1>8, RunMain DEF ClearNow
  <2>2. /\ pc'["main"] \in {"publish"}
        /\ pc'["timer"] = "idle" /\ pc'["usb"] = "idle"
    BY <1>8, <2>1, StackGoto, StackReturnMain DEF ClearNow, MainLabels, SendLabels
  <2>3. /\ sendNow' = None
        /\ UNCHANGED <<active, sending, sendLater, data, regs, call, hw, link, hist>>
    BY <1>8 DEF ClearNow, Return
  <2>4. cur' = cur
    BY <2>1, <2>2, <2>3, TwoBuffers DEF cur
  <2>5. Pending' <=> Pending
    BY <2>1, <2>2, <2>3
  <2>6. EmptiedOK' /\ LockHeld'
    BY <2>1, <2>2, <2>3, <2>4
  <2>7. DataRequested' /\ LaterTimed'
    BY <2>1, <2>2, <2>3, <2>4
  <2>8. NowSeen' /\ UnlockOK'
    BY <2>1, <2>2, <2>3, <2>4
  <2> QED BY <2>3, <2>4, <2>5, <2>6, <2>7, <2>8, ContentKept
<1>9. CASE Start("main")
  <2>1. pc["main"] \in {"start"} /\ pc["timer"] = "idle" /\ pc["usb"] = "idle"
    BY <1>9, RunMain DEF Start
  <2>2. /\ pc'["main"] \in {"acquire", "idle"}
        /\ pc'["timer"] = "idle" /\ pc'["usb"] = "idle"
    BY <1>9, <2>1, StackGoto, StackReturnMain DEF Start, MainLabels, SendLabels
  <2>3. /\ inflight' = IF connected THEN act["main"] ELSE inflight
        /\ UNCHANGED <<locks, data, regs, timer, link, hist>>
    BY <1>9 DEF Start, Transmit, Return
  <2>4. cur' = cur
    BY <2>1, <2>2, <2>3, TwoBuffers DEF cur
  <2>5. Pending' <=> Pending
    BY <2>1, <2>2, <2>3
  <2>6. EmptiedOK' /\ LockHeld'
    BY <2>1, <2>2, <2>3, <2>4
  <2>7. DataRequested' /\ LaterTimed'
    BY <2>1, <2>2, <2>3, <2>4
  <2>8. NowSeen' /\ UnlockOK'
    BY <2>1, <2>2, <2>3, <2>4
  <2> QED BY <2>3, <2>4, <2>5, <2>6, <2>7, <2>8, ContentKept
<1> QED BY <1>1, <1>2, <1>3, <1>4, <1>5, <1>6, <1>7, <1>8, <1>9

\* One buffer is full and is about to be sent, the empty one becomes current.
LEMMA TurnOver ==
  ASSUME TypeInv, ContentOK, NEW c \in Buf, c = cur, cur' = other(c),
         ~Pending, Pending', data[c] # <<>>,
         data'[c] = data[c], data'[other(c)] = <<>>,
         UNCHANGED <<accepted, settled>>
  PROVE  ContentOK'
<1>1. PICK d \in Buf : d = other(c)
  BY TwoBuffers
<1>2. other(d) = c
  BY <1>1 DEF other, Buf
<1>3. other(cur') = c
  BY <1>1, <1>2 DEF other
<1>4. Ahead = 0 /\ Ahead' = Len(data[c])
  BY <1>3 DEF Ahead
<1>5. settled \in Nat /\ accepted \in Nat /\ Len(data[c]) \in Nat
  BY DataTypes, ConstantsAssumption
<1>6. Consecutive(data[c], settled) /\ settled + Len(data[c]) = accepted
  BY <1>4, <1>5 DEF ContentOK
<1>7. Consecutive(<<>>, settled + Len(data[c])) /\ Len(<<>>) = 0
  BY DEF Consecutive
<1> QED BY <1>1, <1>3, <1>4, <1>5, <1>6, <1>7 DEF ContentOK

\* The transfer of the other buffer is over, or that buffer is emptied.
LEMMA NothingAhead ==
  ASSUME TypeInv, ContentOK, cur' = cur, cur \in Buf, ~Pending',
         data'[cur] = data[cur], settled' = settled + Ahead, accepted' = accepted
  PROVE  ContentOK'
<1>1. Ahead' = 0
  BY DEF Ahead
<1>2. other(cur) \in Buf
  BY TwoBuffers
<1>3. settled \in Nat /\ Ahead \in Nat /\ accepted \in Nat /\ Len(data[cur]) \in Nat
  BY <1>2, DataTypes, ConstantsAssumption DEF Ahead
<1>4. settled + Ahead \in Nat /\ (settled + Ahead) + 0 = settled + Ahead
  BY <1>3
<1> QED BY <1>1, <1>3, <1>4 DEF ContentOK

\* The buffer that is about to be sent stops accepting messages.
LEMMA PublishData ==
  ASSUME TypeInv, IInv, IInv', DInv, Publish("main") \/ Publish("timer")
  PROVE  DInv'
<1> USE DEF TypeInv, TypeOK, locks, regs, call, hw, link, hist, Ctx, Handlers,
        At, IInv, LockOK, BufferOK, TokenOK, MainOK, TimerOK, UsbOK,
        LockLabels, UsbLockLabels, MainOwns, TimerOwns, UsbOwns,
        AnyToken, LaterToken, NowToken, MainToken, TimerToken,
        DInv, EmptiedOK, LockHeld, LockTaken, Dead, Pending, Fresh,
        RequestOK, DataRequested, LaterTimed, NowSeen, UnlockOK
<1>1. CASE Publish("main")
  <2>1. pc["main"] = "publish" /\ pc["timer"] = "idle" /\ pc["usb"] = "idle"
    BY <1>1, RunMain DEF Publish
  <2>2. /\ pc'["main"] = "start"
        /\ pc'["timer"] = "idle" /\ pc'["usb"] = "idle"
    BY <1>1, <2>1, StackGoto DEF Publish, MainLabels, SendLabels
  <2>3. /\ data' = [data EXCEPT ![other(act["main"])] = <<>>]
        /\ active' = other(act["main"])
        /\ UNCHANGED <<sending, sendLater, sendNow, regs, call, hw, link, hist>>
    BY <1>1 DEF Publish
  <2>4. PICK b \in Buf : b = act["main"]
    BY <2>1
  <2>5. PICK d \in Buf : d = other(b) /\ d # b /\ d # None
    BY TwoBuffers
  <2>6. cur = b /\ cur' = d
    BY <2>1, <2>2, <2>3, <2>4, <2>5 DEF cur
  <2>7. ~Pending /\ Pending'
    BY <2>1, <2>2, <2>3
  <2>8. /\ data[b] # <<>> /\ data'[b] = data[b] /\ data'[d] = <<>>
        /\ UNCHANGED <<accepted, settled>>
    BY <2>1, <2>3, <2>4, <2>5
  <2>9. ContentOK'
    BY <2>5, <2>6, <2>7, <2>8, TurnOver
  <2>10. EmptiedOK' /\ LockHeld'
    BY <2>1, <2>2, <2>3, <2>6
  <2>11. DataRequested' /\ LaterTimed'
    BY <2>1, <2>2, <2>3, <2>6, <2>8
  <2>12. NowSeen' /\ UnlockOK'
    BY <2>1, <2>2, <2>3, <2>6
  <2> QED BY <2>9, <2>10, <2>11, <2>12
<1>2. CASE Publish("timer")
  <2>1. /\ Running("timer") /\ pc["timer"] = "publish"
        /\ pc["usb"] # "idle" => over["timer"] = "usb"
    BY <1>2, RunTimer DEF Publish
  <2>2. /\ pc'["timer"] = "start"
        /\ pc'["main"] = pc["main"] /\ pc'["usb"] = pc["usb"]
    BY <1>2, <2>1, StackGoto DEF Publish, TimerLabels, SendLabels
  <2>3. /\ data' = [data EXCEPT ![other(act["timer"])] = <<>>]
        /\ active' = other(act["timer"])
        /\ UNCHANGED <<sending, sendLater, sendNow, regs, call, hw, link, hist>>
    BY <1>2 DEF Publish
  <2>4. PICK b \in Buf : b = act["timer"]
    BY <2>1
  <2>5. PICK d \in Buf : d = other(b) /\ d # b /\ d # None
    BY TwoBuffers
  <2>6. cur = b /\ cur' = d
    BY <2>1, <2>2, <2>3, <2>4, <2>5 DEF cur
  <2>7. ~Pending /\ Pending'
    BY <2>1, <2>2, <2>3
  <2>8. /\ data[b] # <<>> /\ data'[b] = data[b] /\ data'[d] = <<>>
        /\ UNCHANGED <<accepted, settled>>
    BY <2>1, <2>3, <2>4, <2>5
  <2>9. ContentOK'
    BY <2>5, <2>6, <2>7, <2>8, TurnOver
  <2>10. EmptiedOK' /\ LockHeld'
    BY <2>1, <2>2, <2>3, <2>6
  <2>11. DataRequested' /\ LaterTimed'
    BY <2>1, <2>2, <2>3, <2>6, <2>8
  <2>12. NowSeen' /\ UnlockOK'
    BY <2>1, <2>2, <2>3, <2>6
  <2> QED BY <2>9, <2>10, <2>11, <2>12
<1> QED BY <1>1, <1>2

\* timeout_callback.
LEMMA SendTimerData ==
  ASSUME TypeInv, IInv, IInv', DInv,
         \/ TakeLater("timer", "t_take", "mark")
         \/ Mark("timer") \/ Lock("timer") \/ Recheck("timer") \/ Unlock("timer")
         \/ TakeBuffer("timer") \/ ClearNow("timer") \/ Start("timer")
  PROVE  DInv'
<1> USE DEF TypeInv, TypeOK, locks, regs, call, hw, link, hist, Ctx, Handlers,
        At, IInv, LockOK, BufferOK, TokenOK, MainOK, TimerOK, UsbOK,
        LockLabels, UsbLockLabels, MainOwns, TimerOwns, UsbOwns,
        AnyToken, LaterToken, NowToken, MainToken, TimerToken,
        DInv, EmptiedOK, LockHeld, LockTaken, Dead, Pending, Fresh,
        RequestOK, DataRequested, LaterTimed, NowSeen, UnlockOK
<1>1. CASE TakeLater("timer", "t_take", "mark")
  <2> DEFINE l == IF sendLater = None THEN "idle" ELSE "mark"
  <2>1. /\ Running("timer") /\ pc["timer"] = "t_take"
        /\ pc["usb"] # "idle" => over["timer"] = "usb"
    BY <1>1, RunTimer DEF TakeLater
  <2>2. /\ buf' = [buf EXCEPT !["timer"] = sendLater] /\ sendLater' = None
        /\ UNCHANGED <<active, sending, sendNow, data, act, hw, link, hist>>
    BY <1>1 DEF TakeLater
  <2>3. /\ pc'["timer"] = l
        /\ pc'["main"] = pc["main"] /\ pc'["usb"] = pc["usb"]
        /\ UNCHANGED <<size, copied>>
    <3>1. \/ l # "idle" /\ Goto("timer", l) /\ UNCHANGED call
          \/ l = "idle" /\ Return("timer")
      BY <1>1 DEF TakeLater
    <3>2. l \in TimerLabels
      BY DEF TimerLabels, SendLabels
    <3> QED BY <2>1, <3>1, <3>2, HandlerMoves
  <2>4. cur' = cur
    BY <2>1, <2>2, <2>3, TwoBuffers DEF cur
  <2>5. Pending' <=> Pending
    BY <2>1, <2>2, <2>3
  <2>6. EmptiedOK' /\ LockHeld'
    BY <2>1, <2>2, <2>3, <2>4
  <2>7. DataRequested' /\ LaterTimed'
    BY <2>1, <2>2, <2>3, <2>4
  <2>8. NowSeen' /\ UnlockOK'
    BY <2>1, <2>2, <2>3, <2>4
  <2> QED BY <2>2, <2>4, <2>5, <2>6, <2>7, <2>8, ContentKept
<1>2. CASE Mark("timer")
  <2> DEFINE l == "lock"
  <2>1. /\ Running("timer") /\ pc["timer"] = "mark"
        /\ pc["usb"] # "idle" => over["timer"] = "usb"
    BY <1>2, RunTimer DEF Mark
  <2>2. /\ sendNow' = buf["timer"]
        /\ UNCHANGED <<active, sending, sendLater, data, regs, hw, link, hist>>
    BY <1>2 DEF Mark
  <2>3. /\ pc'["timer"] = l
        /\ pc'["main"] = pc["main"] /\ pc'["usb"] = pc["usb"]
        /\ UNCHANGED <<size, copied>>
    BY <1>2, HandlerMoves DEF Mark, TimerLabels, SendLabels
  <2>4. cur' = cur
    BY <2>1, <2>2, <2>3, TwoBuffers DEF cur
  <2>5. Pending' <=> Pending
    BY <2>1, <2>2, <2>3
  <2>6. EmptiedOK' /\ LockHeld'
    BY <2>1, <2>2, <2>3, <2>4
  <2>7. DataRequested' /\ LaterTimed'
    BY <2>1, <2>2, <2>3, <2>4
  <2>8. NowSeen' /\ UnlockOK'
    BY <2>1, <2>2, <2>3, <2>4
  <2> QED BY <2>2, <2>4, <2>5, <2>6, <2>7, <2>8, ContentKept
<1>3. CASE Lock("timer")
  <2> DEFINE l == IF sending = None THEN "recheck" ELSE "idle"
  <2>1. /\ Running("timer") /\ pc["timer"] = "lock"
        /\ pc["usb"] # "idle" => over["timer"] = "usb"
    BY <1>3, RunTimer DEF Lock
  <2>2. /\ sending' = IF sending = None THEN buf["timer"] ELSE sending
        /\ UNCHANGED <<active, sendLater, sendNow, data, regs, hw, link, hist>>
    BY <1>3 DEF Lock
  <2>3. /\ pc'["timer"] = l
        /\ pc'["main"] = pc["main"] /\ pc'["usb"] = pc["usb"]
        /\ UNCHANGED <<size, copied>>
    <3>1. \/ l # "idle" /\ Goto("timer", l) /\ UNCHANGED call
          \/ l = "idle" /\ Return("timer")
      BY <1>3 DEF Lock
    <3>2. l \in TimerLabels
      BY DEF TimerLabels, SendLabels
    <3> QED BY <2>1, <3>1, <3>2, HandlerMoves
  <2>4. cur' = cur
    BY <2>1, <2>2, <2>3, TwoBuffers DEF cur
  <2>5. Pending' <=> Pending
    BY <2>1, <2>2, <2>3
  <2>6. EmptiedOK' /\ LockHeld'
    BY <2>1, <2>2, <2>3, <2>4
  <2>7. DataRequested' /\ LaterTimed'
    BY <2>1, <2>2, <2>3, <2>4
  <2>8. NowSeen' /\ UnlockOK'
    BY <2>1, <2>2, <2>3, <2>4
  <2> QED BY <2>2, <2>4, <2>5, <2>6, <2>7, <2>8, ContentKept
<1>4. CASE Recheck("timer")
  <2> DEFINE l == IF sendNow = None THEN "unlock" ELSE "take"
  <2>1. /\ Running("timer") /\ pc["timer"] = "recheck"
        /\ pc["usb"] # "idle" => over["timer"] = "usb"
    BY <1>4, RunTimer DEF Recheck
  <2>2. /\ UNCHANGED <<locks, data, regs, hw, link, hist>>
    BY <1>4 DEF Recheck
  <2>3. /\ pc'["timer"] = l
        /\ pc'["main"] = pc["main"] /\ pc'["usb"] = pc["usb"]
        /\ UNCHANGED <<size, copied>>
    <3>1. \/ l # "idle" /\ Goto("timer", l) /\ UNCHANGED call
          \/ l = "idle" /\ Return("timer")
      BY <1>4 DEF Recheck
    <3>2. l \in TimerLabels
      BY DEF TimerLabels, SendLabels
    <3> QED BY <2>1, <3>1, <3>2, HandlerMoves
  <2>4. cur' = cur
    BY <2>1, <2>2, <2>3, TwoBuffers DEF cur
  <2>5. Pending' <=> Pending
    BY <2>1, <2>2, <2>3
  <2>6. EmptiedOK' /\ LockHeld'
    BY <2>1, <2>2, <2>3, <2>4
  <2>7. DataRequested' /\ LaterTimed'
    BY <2>1, <2>2, <2>3, <2>4
  <2>8. NowSeen' /\ UnlockOK'
    BY <2>1, <2>2, <2>3, <2>4
  <2> QED BY <2>2, <2>4, <2>5, <2>6, <2>7, <2>8, ContentKept
<1>5. CASE Unlock("timer")
  <2> DEFINE l == "idle"
  <2>1. /\ Running("timer") /\ pc["timer"] = "unlock"
        /\ pc["usb"] # "idle" => over["timer"] = "usb"
    BY <1>5, RunTimer DEF Unlock
  <2>2. /\ sending' = None
        /\ UNCHANGED <<active, sendLater, sendNow, data, regs, hw, link, hist>>
    BY <1>5 DEF Unlock
  <2>3. /\ pc'["timer"] = l
        /\ pc'["main"] = pc["main"] /\ pc'["usb"] = pc["usb"]
        /\ UNCHANGED <<size, copied>>
    BY <1>5, HandlerMoves DEF Unlock, TimerLabels, SendLabels
  <2>4. cur' = cur
    BY <2>1, <2>2, <2>3, TwoBuffers DEF cur
  <2>5. Pending' <=> Pending
    BY <2>1, <2>2, <2>3
  <2>6. EmptiedOK' /\ LockHeld'
    BY <2>1, <2>2, <2>3, <2>4
  <2>7. DataRequested' /\ LaterTimed'
    BY <2>1, <2>2, <2>3, <2>4
  <2>8. NowSeen' /\ UnlockOK'
    BY <2>1, <2>2, <2>3, <2>4
  <2> QED BY <2>2, <2>4, <2>5, <2>6, <2>7, <2>8, ContentKept
<1>6. CASE TakeBuffer("timer")
  <2> DEFINE l == IF active = None THEN "unlock" ELSE "clear"
  <2>1. /\ Running("timer") /\ pc["timer"] = "take"
        /\ pc["usb"] # "idle" => over["timer"] = "usb"
    BY <1>6, RunTimer DEF TakeBuffer
  <2>2. /\ active' = None /\ act' = [act EXCEPT !["timer"] = active]
        /\ UNCHANGED <<sending, sendLater, sendNow, data, buf, hw, link, hist>>
    BY <1>6 DEF TakeBuffer
  <2>3. /\ pc'["timer"] = l
        /\ pc'["main"] = pc["main"] /\ pc'["usb"] = pc["usb"]
        /\ UNCHANGED <<size, copied>>
    <3>1. \/ l # "idle" /\ Goto("timer", l) /\ UNCHANGED call
          \/ l = "idle" /\ Return("timer")
      BY <1>6 DEF TakeBuffer
    <3>2. l \in TimerLabels
      BY DEF TimerLabels, SendLabels
    <3> QED BY <2>1, <3>1, <3>2, HandlerMoves
  <2>4. cur' = cur
    BY <2>1, <2>2, <2>3, TwoBuffers DEF cur
  <2>5. Pending' <=> Pending
    BY <2>1, <2>2, <2>3
  <2>6. EmptiedOK' /\ LockHeld'
    BY <2>1, <2>2, <2>3, <2>4
  <2>7. DataRequested' /\ LaterTimed'
    BY <2>1, <2>2, <2>3, <2>4
  <2>8. NowSeen' /\ UnlockOK'
    BY <2>1, <2>2, <2>3, <2>4
  <2> QED BY <2>2, <2>4, <2>5, <2>6, <2>7, <2>8, ContentKept
<1>7. CASE ClearNow("timer")
  <2> DEFINE l == "publish"
  <2>1. /\ Running("timer") /\ pc["timer"] = "clear"
        /\ pc["usb"] # "idle" => over["timer"] = "usb"
    BY <1>7, RunTimer DEF ClearNow
  <2>2. /\ sendNow' = None
        /\ UNCHANGED <<active, sending, sendLater, data, regs, hw, link, hist>>
    BY <1>7 DEF ClearNow
  <2>3. /\ pc'["timer"] = l
        /\ pc'["main"] = pc["main"] /\ pc'["usb"] = pc["usb"]
        /\ UNCHANGED <<size, copied>>
    BY <1>7, HandlerMoves DEF ClearNow, TimerLabels, SendLabels
  <2>4. cur' = cur
    BY <2>1, <2>2, <2>3, TwoBuffers DEF cur
  <2>5. Pending' <=> Pending
    BY <2>1, <2>2, <2>3
  <2>6. EmptiedOK' /\ LockHeld'
    BY <2>1, <2>2, <2>3, <2>4
  <2>7. DataRequested' /\ LaterTimed'
    BY <2>1, <2>2, <2>3, <2>4
  <2>8. NowSeen' /\ UnlockOK'
    BY <2>1, <2>2, <2>3, <2>4
  <2> QED BY <2>2, <2>4, <2>5, <2>6, <2>7, <2>8, ContentKept
<1>8. CASE Start("timer")
  <2> DEFINE l == "idle"
  <2>1. /\ Running("timer") /\ pc["timer"] = "start"
        /\ pc["usb"] # "idle" => over["timer"] = "usb"
    BY <1>8, RunTimer DEF Start
  <2>2. /\ inflight' = IF connected THEN buf["timer"] ELSE inflight
        /\ UNCHANGED <<locks, data, regs, timer, link, hist>>
    BY <1>8 DEF Start, Transmit
  <2>3. /\ pc'["timer"] = l
        /\ pc'["main"] = pc["main"] /\ pc'["usb"] = pc["usb"]
        /\ UNCHANGED <<size, copied>>
    BY <1>8, HandlerMoves DEF Start, TimerLabels, SendLabels
  <2>4. cur' = cur
    BY <2>1, <2>2, <2>3, TwoBuffers DEF cur
  <2>5. Pending' <=> Pending
    BY <2>1, <2>2, <2>3
  <2>6. EmptiedOK' /\ LockHeld'
    BY <2>1, <2>2, <2>3, <2>4
  <2>7. DataRequested' /\ LaterTimed'
    BY <2>1, <2>2, <2>3, <2>4
  <2>8. NowSeen' /\ UnlockOK'
    BY <2>1, <2>2, <2>3, <2>4
  <2> QED BY <2>2, <2>4, <2>5, <2>6, <2>7, <2>8, ContentKept
<1> QED BY <1>1, <1>2, <1>3, <1>4, <1>5, <1>6, <1>7, <1>8

\* tx_callback.
LEMMA UsbData ==
  ASSUME TypeInv, IInv, IInv', DInv, UsbStep
  PROVE  DInv'
<1> USE DEF TypeInv, TypeOK, locks, regs, call, hw, link, hist, Ctx, Handlers,
        At, IInv, LockOK, BufferOK, TokenOK, MainOK, TimerOK, UsbOK,
        LockLabels, UsbLockLabels, MainOwns, TimerOwns, UsbOwns,
        AnyToken, LaterToken, NowToken, MainToken, TimerToken,
        DInv, EmptiedOK, LockHeld, LockTaken, Dead, Pending, Fresh,
        RequestOK, DataRequested, LaterTimed, NowSeen, UnlockOK
<1>1. CASE LoadSent
  <2> DEFINE l == "u_check"
  <2>1. /\ Running("usb") /\ pc["usb"] = "u_load"
        /\ over["timer"] # "usb"
    BY <1>1, RunUsb DEF LoadSent
  <2>2. /\ buf' = [buf EXCEPT !["usb"] = sending]
        /\ UNCHANGED <<locks, data, act, hw, link, hist>>
    BY <1>1 DEF LoadSent
  <2>3. /\ pc'["usb"] = l
        /\ pc'["main"] = pc["main"] /\ pc'["timer"] = pc["timer"]
        /\ UNCHANGED <<size, copied>>
    BY <1>1, HandlerMoves DEF LoadSent, UsbLabels
  <2>4. cur' = cur
    BY <2>1, <2>2, <2>3, TwoBuffers DEF cur
  <2>5. Pending' <=> Pending
    BY <2>1, <2>2, <2>3
  <2>6. EmptiedOK' /\ LockHeld'
    BY <2>1, <2>2, <2>3, <2>4
  <2>7. DataRequested' /\ LaterTimed'
    BY <2>1, <2>2, <2>3, <2>4
  <2>8. NowSeen' /\ UnlockOK'
    BY <2>1, <2>2, <2>3, <2>4
  <2> QED BY <2>2, <2>4, <2>5, <2>6, <2>7, <2>8, ContentKept
<1>2. CASE LoadNext
  <2> DEFINE l == IF sendNow = None THEN "u_release" ELSE "u_take"
  <2>1. /\ Running("usb") /\ pc["usb"] = "u_check"
        /\ over["timer"] # "usb"
    BY <1>2, RunUsb DEF LoadNext
  <2>2. /\ UNCHANGED <<locks, data, buf, hw, link, hist>>
        /\ act' = [act EXCEPT !["usb"] = sendNow]
    BY <1>2 DEF LoadNext
  <2>3. /\ pc'["usb"] = l
        /\ pc'["main"] = pc["main"] /\ pc'["timer"] = pc["timer"]
        /\ UNCHANGED <<size, copied>>
    <3>1. \/ l # "idle" /\ Goto("usb", l) /\ UNCHANGED call
          \/ l = "idle" /\ Return("usb")
      BY <1>2 DEF LoadNext
    <3>2. l \in UsbLabels
      BY DEF UsbLabels
    <3> QED BY <2>1, <3>1, <3>2, HandlerMoves
  <2>4. cur' = cur
    BY <2>1, <2>2, <2>3, TwoBuffers DEF cur
  <2>5. Pending' <=> Pending
    BY <2>1, <2>2, <2>3
  <2>6. EmptiedOK' /\ LockHeld'
    BY <2>1, <2>2, <2>3, <2>4
  <2>7. DataRequested' /\ LaterTimed'
    BY <2>1, <2>2, <2>3, <2>4
  <2>8. NowSeen' /\ UnlockOK'
    BY <2>1, <2>2, <2>3, <2>4
  <2> QED BY <2>2, <2>4, <2>5, <2>6, <2>7, <2>8, ContentKept
<1>3. CASE TakeNext
  <2> DEFINE l == IF active = None THEN "u_unlock" ELSE "u_clear"
  <2>1. /\ Running("usb") /\ pc["usb"] = "u_take"
        /\ over["timer"] # "usb"
    BY <1>3, RunUsb DEF TakeNext
  <2>2. /\ active' = None
        /\ UNCHANGED <<sending, sendLater, sendNow, data, regs, hw, link, hist>>
    BY <1>3 DEF TakeNext
  <2>3. /\ pc'["usb"] = l
        /\ pc'["main"] = pc["main"] /\ pc'["timer"] = pc["timer"]
        /\ UNCHANGED <<size, copied>>
    <3>1. \/ l # "idle" /\ Goto("usb", l) /\ UNCHANGED call
          \/ l = "idle" /\ Return("usb")
      BY <1>3 DEF TakeNext
    <3>2. l \in UsbLabels
      BY DEF UsbLabels
    <3> QED BY <2>1, <3>1, <3>2, HandlerMoves
  <2>4. cur' = cur
    BY <2>1, <2>2, <2>3, TwoBuffers DEF cur
  <2>5. Pending' <=> Pending
    BY <2>1, <2>2, <2>3
  <2>6. EmptiedOK' /\ LockHeld'
    BY <2>1, <2>2, <2>3, <2>4
  <2>7. DataRequested' /\ LaterTimed'
    BY <2>1, <2>2, <2>3, <2>4
  <2>8. NowSeen' /\ UnlockOK'
    BY <2>1, <2>2, <2>3, <2>4
  <2> QED BY <2>2, <2>4, <2>5, <2>6, <2>7, <2>8, ContentKept
<1>4. CASE ClearNext
  <2> DEFINE l == "u_empty"
  <2>1. /\ Running("usb") /\ pc["usb"] = "u_clear"
        /\ over["timer"] # "usb"
    BY <1>4, RunUsb DEF ClearNext
  <2>2. /\ sendNow' = None
        /\ UNCHANGED <<active, sending, sendLater, data, regs, hw, link, hist>>
    BY <1>4 DEF ClearNext
  <2>3. /\ pc'["usb"] = l
        /\ pc'["main"] = pc["main"] /\ pc'["timer"] = pc["timer"]
        /\ UNCHANGED <<size, copied>>
    BY <1>4, HandlerMoves DEF ClearNext, UsbLabels
  <2>4. cur' = cur
    BY <2>1, <2>2, <2>3, TwoBuffers DEF cur
  <2>5. Pending' <=> Pending
    BY <2>1, <2>2, <2>3
  <2>6. EmptiedOK' /\ LockHeld'
    BY <2>1, <2>2, <2>3, <2>4
  <2>7. DataRequested' /\ LaterTimed'
    BY <2>1, <2>2, <2>3, <2>4
  <2>8. NowSeen' /\ UnlockOK'
    BY <2>1, <2>2, <2>3, <2>4
  <2> QED BY <2>2, <2>4, <2>5, <2>6, <2>7, <2>8, ContentKept
<1>5. CASE HandOver
  <2> DEFINE l == "u_give"
  <2>1. /\ Running("usb") /\ pc["usb"] = "u_hand"
        /\ over["timer"] # "usb"
    BY <1>5, RunUsb DEF HandOver
  <2>2. /\ sending' = act["usb"]
        /\ UNCHANGED <<active, sendLater, sendNow, data, regs, hw, link, hist>>
    BY <1>5 DEF HandOver
  <2>3. /\ pc'["usb"] = l
        /\ pc'["main"] = pc["main"] /\ pc'["timer"] = pc["timer"]
        /\ UNCHANGED <<size, copied>>
    BY <1>5, HandlerMoves DEF HandOver, UsbLabels
  <2>4. cur' = cur
    BY <2>1, <2>2, <2>3, TwoBuffers DEF cur
  <2>5. Pending' <=> Pending
    BY <2>1, <2>2, <2>3
  <2>6. EmptiedOK' /\ LockHeld'
    BY <2>1, <2>2, <2>3, <2>4
  <2>7. DataRequested' /\ LaterTimed'
    BY <2>1, <2>2, <2>3, <2>4
  <2>8. NowSeen' /\ UnlockOK'
    BY <2>1, <2>2, <2>3, <2>4
  <2> QED BY <2>2, <2>4, <2>5, <2>6, <2>7, <2>8, ContentKept
<1>6. CASE StartNext
  <2> DEFINE l == "idle"
  <2>1. /\ Running("usb") /\ pc["usb"] = "u_start"
        /\ over["timer"] # "usb"
    BY <1>6, RunUsb DEF StartNext
  <2>2. /\ inflight' = IF connected THEN act["usb"] ELSE inflight
        /\ UNCHANGED <<locks, data, regs, timer, link, hist>>
    BY <1>6 DEF StartNext, Transmit
  <2>3. /\ pc'["usb"] = l
        /\ pc'["main"] = pc["main"] /\ pc'["timer"] = pc["timer"]
        /\ UNCHANGED <<size, copied>>
    BY <1>6, HandlerMoves DEF StartNext, UsbLabels
  <2>4. cur' = cur
    BY <2>1, <2>2, <2>3, TwoBuffers DEF cur
  <2>5. Pending' <=> Pending
    BY <2>1, <2>2, <2>3
  <2>6. EmptiedOK' /\ LockHeld'
    BY <2>1, <2>2, <2>3, <2>4
  <2>7. DataRequested' /\ LaterTimed'
    BY <2>1, <2>2, <2>3, <2>4
  <2>8. NowSeen' /\ UnlockOK'
    BY <2>1, <2>2, <2>3, <2>4
  <2> QED BY <2>2, <2>4, <2>5, <2>6, <2>7, <2>8, ContentKept
<1>7. CASE UsbUnlock
  <2> DEFINE l == "idle"
  <2>1. /\ Running("usb") /\ pc["usb"] = "u_unlock"
        /\ over["timer"] # "usb"
    BY <1>7, RunUsb DEF UsbUnlock
  <2>2. /\ sending' = None
        /\ UNCHANGED <<active, sendLater, sendNow, data, regs, hw, link, hist>>
    BY <1>7 DEF UsbUnlock
  <2>3. /\ pc'["usb"] = l
        /\ pc'["main"] = pc["main"] /\ pc'["timer"] = pc["timer"]
        /\ UNCHANGED <<size, copied>>
    BY <1>7, HandlerMoves DEF UsbUnlock, UsbLabels
  <2>4. cur' = cur
    BY <2>1, <2>2, <2>3, TwoBuffers DEF cur
  <2>5. Pending' <=> Pending
    BY <2>1, <2>2, <2>3
  <2>6. EmptiedOK' /\ LockHeld'
    BY <2>1, <2>2, <2>3, <2>4
  <2>7. DataRequested' /\ LaterTimed'
    BY <2>1, <2>2, <2>3, <2>4
  <2>8. NowSeen' /\ UnlockOK'
    BY <2>1, <2>2, <2>3, <2>4
  <2> QED BY <2>2, <2>4, <2>5, <2>6, <2>7, <2>8, ContentKept
<1>8. CASE UsbRelease
  <2> DEFINE l == "u_again"
  <2>1. /\ Running("usb") /\ pc["usb"] = "u_release"
        /\ over["timer"] # "usb"
    BY <1>8, RunUsb DEF UsbRelease
  <2>2. /\ sending' = None
        /\ UNCHANGED <<active, sendLater, sendNow, data, regs, hw, link, hist>>
    BY <1>8 DEF UsbRelease
  <2>3. /\ pc'["usb"] = l
        /\ pc'["main"] = pc["main"] /\ pc'["timer"] = pc["timer"]
        /\ UNCHANGED <<size, copied>>
    BY <1>8, HandlerMoves DEF UsbRelease, UsbLabels
  <2>4. cur' = cur
    BY <2>1, <2>2, <2>3, TwoBuffers DEF cur
  <2>5. Pending' <=> Pending
    BY <2>1, <2>2, <2>3
  <2>6. EmptiedOK' /\ LockHeld'
    BY <2>1, <2>2, <2>3, <2>4
  <2>7. DataRequested' /\ LaterTimed'
    BY <2>1, <2>2, <2>3, <2>4
  <2>8. NowSeen' /\ UnlockOK'
    BY <2>1, <2>2, <2>3, <2>4
  <2> QED BY <2>2, <2>4, <2>5, <2>6, <2>7, <2>8, ContentKept
<1>9. CASE LoadNextAgain
  <2> DEFINE l == IF sendNow = None THEN "idle" ELSE "u_lock"
  <2>1. /\ Running("usb") /\ pc["usb"] = "u_again"
        /\ over["timer"] # "usb"
    BY <1>9, RunUsb DEF LoadNextAgain
  <2>2. /\ act' = [act EXCEPT !["usb"] = sendNow]
        /\ UNCHANGED <<locks, data, buf, hw, link, hist>>
    BY <1>9 DEF LoadNextAgain
  <2>3. /\ pc'["usb"] = l
        /\ pc'["main"] = pc["main"] /\ pc'["timer"] = pc["timer"]
        /\ UNCHANGED <<size, copied>>
    <3>1. \/ l # "idle" /\ Goto("usb", l) /\ UNCHANGED call
          \/ l = "idle" /\ Return("usb")
      BY <1>9 DEF LoadNextAgain
    <3>2. l \in UsbLabels
      BY DEF UsbLabels
    <3> QED BY <2>1, <3>1, <3>2, HandlerMoves, SMTT(30)
  <2>4. cur' = cur
    BY <2>1, <2>2, <2>3, TwoBuffers DEF cur
  <2>5. Pending' <=> Pending
    BY <2>1, <2>2, <2>3
  <2>6. EmptiedOK' /\ LockHeld'
    BY <2>1, <2>2, <2>3, <2>4
  <2>7. DataRequested' /\ LaterTimed'
    BY <2>1, <2>2, <2>3, <2>4
  <2>8. NowSeen' /\ UnlockOK'
    BY <2>1, <2>2, <2>3, <2>4
  <2> QED BY <2>2, <2>4, <2>5, <2>6, <2>7, <2>8, ContentKept
<1>10. CASE UsbLock
  <2> DEFINE l == IF sending = None THEN "u_take" ELSE "idle"
  <2>1. /\ Running("usb") /\ pc["usb"] = "u_lock"
        /\ over["timer"] # "usb"
    BY <1>10, RunUsb DEF UsbLock
  <2>2. /\ sending' = IF sending = None THEN act["usb"] ELSE sending
        /\ UNCHANGED <<active, sendLater, sendNow, data, regs, hw, link, hist>>
    BY <1>10 DEF UsbLock
  <2>3. /\ pc'["usb"] = l
        /\ pc'["main"] = pc["main"] /\ pc'["timer"] = pc["timer"]
        /\ UNCHANGED <<size, copied>>
    <3>1. \/ l # "idle" /\ Goto("usb", l) /\ UNCHANGED call
          \/ l = "idle" /\ Return("usb")
      BY <1>10 DEF UsbLock
    <3>2. l \in UsbLabels
      BY DEF UsbLabels
    <3> QED BY <2>1, <3>1, <3>2, HandlerMoves
  <2>4. cur' = cur
    BY <2>1, <2>2, <2>3, TwoBuffers DEF cur
  <2>5. Pending' <=> Pending
    BY <2>1, <2>2, <2>3
  <2>6. EmptiedOK' /\ LockHeld'
    BY <2>1, <2>2, <2>3, <2>4
  <2>7. DataRequested' /\ LaterTimed'
    BY <2>1, <2>2, <2>3, <2>4
  <2>8. NowSeen' /\ UnlockOK'
    BY <2>1, <2>2, <2>3, <2>4
  <2> QED BY <2>2, <2>4, <2>5, <2>6, <2>7, <2>8, ContentKept
<1>11. CASE EmptySent
  <2>1. /\ Running("usb") /\ pc["usb"] = "u_empty"
        /\ over["timer"] # "usb"
    BY <1>11, RunUsb DEF EmptySent
  <2>2. /\ data' = [data EXCEPT ![buf["usb"]] = <<>>]
        /\ UNCHANGED <<locks, regs, call, hw, link, hist>>
    BY <1>11 DEF EmptySent
  <2>3. /\ pc'["usb"] = "u_hand"
        /\ pc'["main"] = pc["main"] /\ pc'["timer"] = pc["timer"]
    BY <1>11, HandlerMoves DEF EmptySent, UsbLabels
  <2>4. PICK c \in Buf : c = cur
    BY <2>1 DEF cur
  <2>5. cur' = c /\ cur = act["usb"]
    BY <2>1, <2>2, <2>3, <2>4 DEF cur
  <2>6. ~Pending /\ ~Pending'
    BY <2>1, <2>2, <2>3
  <2>7. data'[c] = data[c] /\ data'[buf["usb"]] = <<>>
    BY <2>1, <2>2, <2>4, <2>5
  <2>8. ContentOK'
    <3>1. settled' = settled + Ahead /\ accepted' = accepted
      BY <2>2, <2>6, DataTypes DEF Ahead
    <3> QED BY <2>4, <2>5, <2>6, <2>7, <3>1, NothingAhead
  <2>9. EmptiedOK' /\ LockHeld'
    BY <2>1, <2>2, <2>3, <2>4, <2>5, <2>7
  <2>10. DataRequested' /\ LaterTimed'
    BY <2>1, <2>2, <2>3, <2>4, <2>5, <2>7
  <2>11. NowSeen' /\ UnlockOK'
    BY <2>1, <2>2, <2>3
  <2> QED BY <2>8, <2>9, <2>10, <2>11
<1>12. CASE GiveBack
  <2>1. /\ Running("usb") /\ pc["usb"] = "u_give"
        /\ over["timer"] # "usb"
    BY <1>12, RunUsb DEF GiveBack
  <2>2. /\ active' = buf["usb"]
        /\ UNCHANGED <<sending, sendLater, sendNow, data, regs, call, hw, link, hist>>
    BY <1>12 DEF GiveBack
  <2>3. /\ pc'["usb"] = "u_start"
        /\ pc'["main"] = pc["main"] /\ pc'["timer"] = pc["timer"]
    BY <1>12, HandlerMoves DEF GiveBack, UsbLabels
  <2>4. PICK b \in Buf : b = act["usb"]
    BY <2>1
  <2>5. PICK d \in Buf : d = buf["usb"] /\ d = other(b) /\ d # None
    BY <2>1, <2>4, TwoBuffers
  <2>6. cur = b /\ cur' = d
    BY <2>1, <2>2, <2>3, <2>4, <2>5 DEF cur
  <2>7. ~Pending /\ Pending'
    BY <2>1, <2>2, <2>3
  <2>8. /\ data[b] # <<>> /\ data[d] = <<>>
        /\ UNCHANGED <<data, accepted, settled>>
    BY <2>1, <2>2, <2>4, <2>5
  <2>9. ContentOK'
    BY <2>5, <2>6, <2>7, <2>8, TurnOver
  <2>10. EmptiedOK' /\ LockHeld'
    BY <2>1, <2>2, <2>3, <2>6
  <2>11. DataRequested' /\ LaterTimed'
    BY <2>1, <2>2, <2>3, <2>6, <2>8
  <2>12. NowSeen' /\ UnlockOK'
    BY <2>1, <2>2, <2>3, <2>6
  <2> QED BY <2>9, <2>10, <2>11, <2>12
<1> HIDE DEF TypeInv, IInv, DInv
<1> QED
  BY <1>1, <1>2, <1>3, <1>4, <1>5, <1>6, <1>7, <1>8, <1>9, <1>10, <1>11, <1>12
  DEF UsbStep

\* The interrupts.
LEMMA InterruptData ==
  ASSUME TypeInv, IInv, IInv', DInv, TimerInterrupt \/ UsbInterrupt
  PROVE  DInv'
<1> USE DEF TypeInv, TypeOK, locks, regs, call, hw, link, hist, Ctx, Handlers,
        At, IInv, LockOK, BufferOK, TokenOK, MainOK, TimerOK, UsbOK,
        LockLabels, UsbLockLabels, MainOwns, TimerOwns, UsbOwns,
        AnyToken, LaterToken, NowToken, MainToken, TimerToken,
        DInv, EmptiedOK, LockHeld, LockTaken, Dead, Pending, Fresh,
        RequestOK, DataRequested, LaterTimed, NowSeen, UnlockOK
<1>1. CASE TimerInterrupt
  <2>1. pc["timer"] = "idle" /\ pc' = [pc EXCEPT !["timer"] = "t_take"]
    BY <1>1, StackEnter DEF TimerInterrupt, TimerLabels
  <2>2. /\ pc'["main"] = pc["main"] /\ pc'["usb"] = pc["usb"]
        /\ pc'["timer"] = "t_take"
    BY <2>1
  <2>3. UNCHANGED <<locks, data, regs, call, inflight, link, hist>>
    BY <1>1 DEF TimerInterrupt
  <2>4. cur' = cur
    BY <2>1, <2>2, <2>3 DEF cur
  <2>5. Pending' <=> Pending
    BY <2>1, <2>2, <2>3
  <2>6. EmptiedOK' /\ LockHeld'
    BY <2>1, <2>2, <2>3, <2>4
  <2>7. DataRequested' /\ LaterTimed'
    BY <2>1, <2>2, <2>3, <2>4
  <2>8. NowSeen' /\ UnlockOK'
    BY <2>1, <2>2, <2>3, <2>4
  <2> QED BY <2>3, <2>4, <2>5, <2>6, <2>7, <2>8, ContentKept
<1>2. CASE UsbInterrupt
  <2>1. pc["usb"] = "idle" /\ pc' = [pc EXCEPT !["usb"] = "u_load"]
    BY <1>2, StackEnter DEF UsbInterrupt, UsbLabels
  <2>2. /\ pc'["main"] = pc["main"] /\ pc'["timer"] = pc["timer"]
        /\ pc'["usb"] = "u_load"
    BY <2>1
  <2>3. /\ inflight # None /\ inflight' = None
        /\ settled' = settled + Len(data[inflight]) /\ accepted' = accepted
        /\ UNCHANGED <<locks, data, regs, call, timer, link>>
    BY <1>2 DEF UsbInterrupt
  <2>4. cur' = cur /\ cur \in Buf
    BY <2>1, <2>2, <2>3 DEF cur
  <2>5. /\ pc["main"] # "start" /\ pc["timer"] # "start" /\ connected
        /\ inflight = other(cur) /\ Pending
    BY <2>3, <2>4, TwoBuffers
  <2>6. ~Pending'
    BY <2>2, <2>3, <2>5
  <2>7. ContentOK'
    <3>1. Ahead = Len(data[inflight])
      BY <2>5 DEF Ahead
    <3> QED BY <2>3, <2>4, <2>6, <3>1, NothingAhead
  <2>8. EmptiedOK' /\ LockHeld'
    BY <2>1, <2>2, <2>3, <2>4, <2>5
  <2>9. DataRequested' /\ LaterTimed'
    BY <2>1, <2>2, <2>3, <2>4
  <2>10. NowSeen' /\ UnlockOK'
    BY <2>1, <2>2, <2>3, <2>4
  <2> QED BY <2>7, <2>8, <2>9, <2>10
<1> QED BY <1>1, <1>2

\* The host goes away and comes back.
LEMMA LinkData ==
  ASSUME TypeInv, IInv, IInv', DInv, QuietResets, Disconnect \/ Reconnect
  PROVE  DInv'
<1> USE DEF TypeInv, TypeOK, locks, regs, call, hw, link, hist, Ctx, Handlers,
        At, IInv, LockOK, BufferOK, TokenOK, MainOK, TimerOK, UsbOK,
        LockLabels, UsbLockLabels, MainOwns, TimerOwns, UsbOwns,
        AnyToken, LaterToken, NowToken, MainToken, TimerToken,
        DInv, EmptiedOK, LockHeld, LockTaken, Dead, Pending, Fresh,
        RequestOK, DataRequested, LaterTimed, NowSeen, UnlockOK
<1>1. CASE Disconnect
  <2>1. /\ UNCHANGED <<locks, data, pc, over, regs, call, timer, accepted, settled>>
        /\ connected /\ ~connected' /\ inflight' = None /\ pc["usb"] = "idle"
    BY <1>1 DEF Disconnect, StackOK
  <2>2. cur' = cur
    BY <2>1 DEF cur
  <2>3. Pending' <=> Pending
    BY <2>1
  <2>4. EmptiedOK' /\ LockHeld' /\ RequestOK'
    BY <2>1, <2>2
  <2> QED BY <2>1, <2>2, <2>3, <2>4, ContentKept
<1>2. CASE Reconnect
  <2>1. /\ pc["main"] \in {"idle", "connect", "wait", "acquire"}
        /\ pc["timer"] = "idle" /\ pc["usb"] = "idle" /\ inflight = None
    BY <1>2, RunMain DEF Reconnect, QuietResets
  <2>2. /\ active' = 0 /\ sendLater' = None /\ sendNow' = None
        /\ sending' = None /\ data' = [b \in Buf |-> <<>>] /\ connected'
        /\ settled' = accepted /\ accepted' = accepted
        /\ UNCHANGED <<pc, over, regs, call, inflight>>
    BY <1>2 DEF Reconnect, Reset
  <2>3. cur' = 0 /\ 0 \in Buf /\ data'[0] = <<>>
    BY <2>2, ConstantsAssumption DEF cur, Buf
  <2>4. ~Pending' /\ Ahead' = 0
    BY <2>1, <2>2 DEF Ahead
  <2>5. ContentOK'
    <3>1. Consecutive(<<>>, accepted) /\ Len(<<>>) = 0 /\ accepted \in Nat
      BY DataTypes DEF Consecutive
    <3> QED BY <2>2, <2>3, <2>4, <3>1, SMTT(30) DEF ContentOK
  <2>6. EmptiedOK' /\ LockHeld' /\ RequestOK'
    BY <2>1, <2>2, <2>3
  <2> QED BY <2>5, <2>6
<1> QED BY <1>1, <1>2

\* A new sender holds no messages.
LEMMA InitData == Init => DInv
<1> SUFFICES ASSUME Init PROVE DInv
  OBVIOUS
<1>1. /\ pc["main"] = "idle" /\ pc["timer"] = "idle" /\ pc["usb"] = "idle"
      /\ data[0] = <<>> /\ active = 0 /\ 0 # None
  BY ConstantsAssumption DEF Init, Ctx, Buf
<1> cur = 0
  BY <1>1 DEF cur
<1> USE <1>1
    DEF Init, LockLabels, UsbLockLabels, AnyToken, LaterToken, NowToken,
        MainToken, TimerToken, LockTaken, Dead, Pending, Fresh
<1>2. ContentOK
  <2>1. ~Pending /\ Len(data[cur]) = 0 /\ Ahead = 0
    BY DEF Ahead
  <2> QED BY <2>1 DEF ContentOK, Consecutive
<1>3. EmptiedOK /\ LockHeld
  BY DEF EmptiedOK, LockHeld
<1>4. RequestOK
  BY DEF RequestOK, DataRequested, LaterTimed, NowSeen, UnlockOK
<1> QED BY <1>2, <1>3, <1>4 DEF DInv

\* Every step keeps the invariant.
LEMMA NextData ==
  QuietResets /\ TypeInv /\ IInv /\ IInv' /\ DInv /\ [Next]_vars => DInv'
<1> SUFFICES ASSUME QuietResets, TypeInv, IInv, IInv', DInv, [Next]_vars
             PROVE  DInv'
  OBVIOUS
<1>1. CASE \/ \E n \in 1..MaxBatch : Write(n)
           \/ WaitConnect \/ PollConnect \/ Acquire
           \/ SendNow \/ IsDone \/ IsDoneStep
  BY <1>1, CallData
<1>2. CASE Copy
  BY <1>2, CopyData
<1>3. CASE \/ Release \/ StoreLater \/ ArmTimer \/ TakeBackLater \/ CancelTimer
           \/ StoreNow \/ CheckNow
  BY <1>3, WriteData
<1>4. CASE Publish("main") \/ Publish("timer")
  BY <1>4, PublishData
<1>5. CASE \/ TakeLater("main", "s_take", "s_cancel") \/ SendNowCancelTimer
           \/ Mark("main") \/ Lock("main") \/ Recheck("main") \/ Unlock("main")
           \/ TakeBuffer("main") \/ ClearNow("main") \/ Start("main")
  BY <1>5, SendMainData
<1>6. CASE \/ TakeLater("timer", "t_take", "mark")
           \/ Mark("timer") \/ Lock("timer") \/ Recheck("timer")
           \/ Unlock("timer") \/ TakeBuffer("timer") \/ ClearNow("timer")
           \/ Start("timer")
  BY <1>6, SendTimerData
<1>7. CASE UsbStep
  BY <1>7, UsbData
<1>8. CASE TimerInterrupt \/ UsbInterrupt
  BY <1>8, InterruptData
<1>9. CASE Disconnect \/ Reconnect
  BY <1>9, LinkData
<1>10. CASE UNCHANGED vars
  <2>1. UNCHANGED <<active, sending, sendLater, sendNow, data, pc, buf, act,
                    size, copied, timer, inflight, connected, accepted, settled>>
    BY <1>10 DEF vars, locks, regs, call, hw, link, hist
  <2>2. cur' = cur
    BY <2>1 DEF cur, TimerOwns
  <2>3. Pending' <=> Pending
    BY <2>1 DEF Pending, Dead, LockTaken
  <2>4. EmptiedOK' /\ LockHeld' /\ RequestOK'
    BY <2>1, <2>2
    DEF DInv, EmptiedOK, LockHeld, LockTaken, Dead, RequestOK, DataRequested,
        Fresh, LaterTimed, NowSeen, UnlockOK, AnyToken, LaterToken, NowToken,
        MainToken, TimerToken
  <2> QED BY <2>1, <2>2, <2>3, <2>4, ContentKept DEF DInv
<1> QED
  BY <1>1, <1>2, <1>3, <1>4, <1>5, <1>6, <1>7, <1>8, <1>9, <1>10
  DEF Next, MainStep, WriteStep, TimerStep, SendStep

\* The invariant holds throughout.
LEMMA DataInvariant ==
  ASSUME QuietResets
  PROVE  Spec => [](TypeInv /\ IInv /\ DInv)
<1>1. Init => DInv
  BY InitData
<1>2. TypeInv /\ IInv /\ IInv' /\ DInv /\ [Next]_vars => DInv'
  BY NextData
<1> QED BY <1>1, <1>2, Invariant, PTL DEF Spec

-------------------------------------------------------------------------------
(***************************************************************************)
(* The theorems                                                            *)
(***************************************************************************)
\* When every context is at rest and no transfer is under way, no request to
\* send is left behind, the sending lock is free, and the data that write()
\* accepted is scheduled to be sent by the timer.
THEOREM NothingForgotten ==
  ASSUME QuietResets
  PROVE  Spec => []NoForgottenData
<1>1. TypeInv /\ IInv /\ DInv => NoForgottenData
  <2> SUFFICES ASSUME TypeInv, IInv, DInv, connected, inflight = None,
                      \A c \in Ctx : pc[c] = "idle"
               PROVE  /\ sendNow = None /\ sending = None
                      /\ active # None
                      /\ data[active] # <<>> => sendLater = active /\ timer
                      /\ settled + Len(data[active]) = accepted
    BY DEF NoForgottenData
  <2>1. pc["main"] = "idle" /\ pc["timer"] = "idle" /\ pc["usb"] = "idle"
    BY DEF Ctx, Handlers
  <2>2. sending = None
    BY <2>1 DEF DInv, LockHeld, LockTaken, LockLabels, UsbLockLabels
  <2>3. sendNow = None
    BY <2>1 DEF DInv, RequestOK, NowSeen, NowToken
  <2>4. active # None /\ cur = active
    BY <2>1 DEF IInv, BufferOK, MainOwns, TimerOwns, UsbOwns, cur
  <2>5. data[active] # <<>> => sendLater = active /\ timer
    BY <2>1, <2>3, <2>4
    DEF DInv, RequestOK, DataRequested, LaterTimed, Fresh, AnyToken, NowToken,
        LaterToken, MainToken, TimerToken, IInv, TokenOK
  <2>6. Ahead = 0
    BY <2>1 DEF Ahead, Pending, Dead
  <2>7. settled + 0 = settled
    BY DataTypes
  <2> QED BY <2>2, <2>3, <2>4, <2>5, <2>6, <2>7 DEF DInv, ContentOK
<1> QED BY <1>1, DataInvariant, PTL

\* A step is what it looks like to the host: write() accepts messages, a packet
\* is delivered, a reset drops what is under way, or nothing visible happens.
LEMMA FifoStep ==
  ASSUME TypeInv, TypeInv', IInv, DInv, DInv', [Next]_vars
  PROVE  [Fifo!Next]_(Fifo!vars)
<1>1. CASE Copy
  <2>1. PICK k \in Nat : k = Fits(buf["main"], todo)
    <3>1. pc["main"] = "copy"
      BY <1>1 DEF Copy, At
    <3>2. buf["main"] \in Buf
      BY <3>1 DEF IInv, BufferOK, TypeInv, TypeOK, Ctx
    <3>3. /\ data \in [Buf -> Seq(Nat)] /\ todo \in Nat
          /\ \A b \in Buf : Len(data[b]) <= PacketSize
      BY DEF TypeInv, TypeOK, SizesOK
    <3>4. Fits(buf["main"], todo) \in Nat
      BY <3>2, <3>3, FitsBounds
    <3> QED BY <3>4
  <2>2. accepted' = accepted + k /\ UNCHANGED <<settled, wire>>
    BY <1>1, <2>1 DEF Copy
  <2>3. cur' \in Buf /\ other(cur') \in Buf
    <3>1. active' \in Buf \cup {None} /\ buf' \in [Ctx -> Buf \cup {None}]
      BY DEF TypeInv, TypeOK
    <3>2. active' = active /\ buf' = buf /\ pc'["main"] = "release"
      BY <1>1 DEF Copy, Goto, locks, regs, TypeInv, TypeOK, Ctx
    <3>3. pc["main"] = "copy"
      BY <1>1 DEF Copy, At
    <3>4. buf["main"] \in Buf
      BY <3>3 DEF IInv, BufferOK, TypeInv, TypeOK, Ctx
    <3>5. cur' \in Buf
      BY <3>1, <3>2, <3>4 DEF cur
    <3> QED BY <3>5, TwoBuffers
  <2>4. PICK p \in Nat, n \in Nat, s \in Nat, a \in Nat, P \in Nat :
          /\ P = PacketSize /\ p = Ahead' /\ n = Len(data[cur])' /\ s = settled'
          /\ a = accepted' /\ p <= P /\ n <= P
    <3>1. Len(data[cur])' \in 0..PacketSize /\ Len(data[other(cur)])' \in 0..PacketSize
      BY <2>3 DEF TypeInv, SizesOK
    <3>2. Ahead' \in 0..PacketSize
      BY <3>1, ConstantsAssumption DEF Ahead
    <3>3. settled' \in Nat /\ accepted' \in Nat
      BY DEF TypeInv, TypeOK
    <3>4. PICK P \in Nat : P = PacketSize
      BY ConstantsAssumption
    <3>5. PICK p \in Nat : p = Ahead' /\ p <= P
      BY <3>2, <3>4
    <3>6. PICK n \in Nat : n = Len(data[cur])' /\ n <= P
      BY <3>1, <3>4
    <3> QED BY <3>3, <3>4, <3>5, <3>6
  <2>5. s + p + n = a
    BY <2>4 DEF DInv, ContentOK
  <2>6. a - s <= 2 * P
    <3>1. p <= P /\ n <= P
      BY <2>4
    <3> QED BY <3>1, <2>5
  <2>7. CASE k = 0
    BY <2>2, <2>7 DEF Fifo!vars, TypeInv, TypeOK
  <2>8. CASE k # 0
    <3>1. accepted' > accepted
      BY <2>2, <2>8 DEF TypeInv, TypeOK
    <3> QED BY <2>2, <2>4, <2>6, <3>1 DEF Fifo!Next, Fifo!Accept
  <2> QED BY <2>7, <2>8
<1>2. CASE UsbInterrupt
  <2>1. PICK b \in Buf : b = inflight
    BY <1>2 DEF UsbInterrupt, TypeInv, TypeOK
  <2>2. cur \in Buf /\ b = other(cur) /\ Pending
    <3>1. b # cur
      BY <2>1, ConstantsAssumption DEF IInv, LockOK
    <3>2. pc["usb"] = "idle" /\ pc["timer"] \notin {"clear", "publish"}
      BY <1>2, <2>1, ConstantsAssumption
      DEF UsbInterrupt, Enter, IInv, StackOK, LockOK, LockLabels, Handlers
    <3>3. cur \in Buf
      BY <3>2 DEF TypeInv, TypeOK, IInv, BufferOK, MainOwns, TimerOwns, UsbOwns, cur, Ctx
    <3> QED BY <2>1, <3>1, <3>3, TwoBuffers, ConstantsAssumption DEF Pending
  <2>3. PICK s \in Seq(Nat), n \in Nat, base \in Nat :
          /\ s = data[b] /\ n = Len(s) /\ base = settled /\ n <= PacketSize
    BY DataTypes
  <2>4. s # <<>> /\ Consecutive(s, base)
    BY <2>2, <2>3 DEF DInv, ContentOK
  <2>5. n > 0
    BY <2>3, <2>4
  <2>6. s = [i \in 1..n |-> base + i]
    BY <2>3, <2>4 DEF Consecutive
  <2>7. base + n <= accepted
    <3>1. Ahead = n
      BY <2>2, <2>3 DEF Ahead
    <3>2. PICK m \in Nat, a \in Nat : m = Len(data[cur]) /\ a = accepted
      BY <2>2, DataTypes, ConstantsAssumption
    <3>3. base + n + m = a
      BY <2>3, <3>1, <3>2 DEF DInv, ContentOK
    <3>4. base + n <= a
      BY <3>3
    <3> QED BY <3>2, <3>4
  <2>8. /\ settled' = base + n /\ accepted' = accepted
        /\ wire' = wire \o s
    BY <1>2, <2>1, <2>3 DEF UsbInterrupt
  <2>9. settled' - settled = n
    BY <2>3, <2>8
  <2>10. n \in 1..PacketSize
    BY <2>3, <2>5, ConstantsAssumption
  <2> QED
    BY <2>3, <2>6, <2>7, <2>8, <2>9, <2>10 DEF Fifo!Next, Fifo!Deliver
<1>3. CASE Reconnect
  <2>1. settled' = accepted /\ UNCHANGED <<accepted, wire>>
    BY <1>3 DEF Reconnect
  <2>2. settled <= accepted
    <3>1. pc["timer"] = "idle" /\ pc["usb"] = "idle"
      BY <1>3, RunMain DEF Reconnect, IInv
    <3>2. cur \in Buf
      BY <3>1 DEF TypeInv, TypeOK, IInv, BufferOK, MainOwns, TimerOwns, UsbOwns, cur, Ctx
    <3>3. PICK m \in Nat, p \in Nat, s \in Nat, a \in Nat :
            m = Len(data[cur]) /\ p = Ahead /\ s = settled /\ a = accepted
      BY <3>2, TwoBuffers, DataTypes, ConstantsAssumption DEF Ahead
    <3>4. s + p + m = a
      BY <3>3 DEF DInv, ContentOK
    <3>5. s <= a
      BY <3>4
    <3> QED BY <3>3, <3>5
  <2>3. CASE settled = accepted
    BY <2>1, <2>3 DEF Fifo!vars
  <2>4. CASE settled # accepted
    <3>1. settled < accepted
      BY <2>2, <2>4 DEF TypeInv, TypeOK
    <3> QED BY <2>1, <3>1 DEF Fifo!Next, Fifo!Drop
  <2> QED BY <2>3, <2>4
<1>4. Next => Copy \/ UsbInterrupt \/ Reconnect \/ UNCHANGED hist
  BY DEF Next, MainStep, WriteStep, IsDoneStep, TimerStep, SendStep, UsbStep,
         Write, SendNow, IsDone, TimerInterrupt, Disconnect, EmptySent,
         WaitConnect, PollConnect, Acquire, Release, StoreLater, ArmTimer,
         TakeBackLater, CancelTimer, StoreNow, CheckNow, TakeLater,
         SendNowCancelTimer, LoadIsDone, IsDoneTrue, Mark, Lock, Recheck,
         Unlock, TakeBuffer, ClearNow, Publish, Start, LoadSent, LoadNext,
         TakeNext, ClearNext, HandOver, GiveBack, StartNext, UsbUnlock,
         UsbRelease, LoadNextAgain, UsbLock
<1> QED BY <1>1, <1>2, <1>3, <1>4 DEF vars, hist, Fifo!vars

\* The host receives the messages of the write() calls in their order, none
\* twice and none missing, and never are more than two packets under way.
THEOREM FifoCorrect ==
  ASSUME QuietResets
  PROVE  Spec => FifoSpec
<1>1. Init => Fifo!Init
  BY DEF Init, Fifo!Init
<1>2. TypeInv /\ TypeInv' /\ IInv /\ DInv /\ DInv' /\ [Next]_vars
        => [Fifo!Next]_(Fifo!vars)
  BY FifoStep
<1> QED BY <1>1, <1>2, DataInvariant, PTL DEF Spec, FifoSpec, Fifo!Spec
===============================================================================
