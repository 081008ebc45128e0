------------------------------ MODULE BulkTXInv ------------------------------
(***************************************************************************)
(* The inductive invariant of BulkTX: who owns the sending lock, who owns  *)
(* the active buffer, and where the one request to send that buffer is.    *)
(*                                                                         *)
(* cur is the buffer that accepts messages.  A request to send it (a       *)
(* "token") exists at most once: stored in send_later or send_now, or in   *)
(* the hands of the main program or the timeout between taking it from one *)
(* and storing it in the other.  Only who takes the token out of send_now, *)
(* under the sending lock, makes the other buffer current.                 *)
(*                                                                         *)
(* That is IInv.  DInv adds where the messages are, and that data has a    *)
(* request which somebody is going to find.                                *)
(***************************************************************************)
EXTENDS BulkTX

LockLabels == {"recheck", "unlock", "take", "clear", "publish", "start"}
UsbLockLabels ==
  {"u_load", "u_check", "u_take", "u_clear", "u_empty", "u_hand", "u_give",
   "u_start", "u_unlock", "u_release"}

MainOwns  == pc["main"] \in {"copy", "release", "clear", "publish"}
TimerOwns == pc["timer"] \in {"clear", "publish"}
UsbOwns   == pc["usb"] \in {"u_clear", "u_empty", "u_hand", "u_give"}

cur == IF active # None THEN active
       ELSE IF pc["main"] \in {"copy", "release"} THEN buf["main"]
       ELSE IF pc["main"] \in {"clear", "publish"} THEN act["main"]
       ELSE IF TimerOwns THEN act["timer"]
       ELSE act["usb"]

\* The four places of the token.
LaterToken == sendLater # None
NowToken   == sendNow # None
MainToken  == pc["main"] \in {"later", "cancel", "now", "s_cancel", "mark"}
TimerToken == pc["timer"] = "mark"
AnyToken   == LaterToken \/ NowToken \/ MainToken \/ TimerToken

\* Handlers are nested: at most one of them directly on top of the main program.
StackOK ==
  /\ pc["main"] \in MainLabels
  /\ pc["timer"] \in TimerLabels
  /\ pc["usb"] \in UsbLabels
  /\ \A h \in Handlers : over[h] = None <=> pc[h] = "idle"
  /\ \A h \in Handlers : over[h] # h
  /\ (over["timer"] # None \/ over["usb"] # None) =>
       /\ over["timer"] = "main" \/ over["usb"] = "main"
       /\ ~(over["timer"] = "main" /\ over["usb"] = "main")

\* The sending lock belongs to one context, or to the hardware.
LockOK ==
  /\ inflight # None => sending = inflight /\ cur # inflight
  /\ ~connected => inflight = None
  /\ \A c \in {"main", "timer"} : pc[c] \in LockLabels =>
       /\ inflight = None /\ sending = buf[c] /\ sending # None
       /\ pc["usb"] \notin UsbLockLabels
  /\ ~(pc["main"] \in LockLabels /\ pc["timer"] \in LockLabels)
  /\ pc["usb"] \in UsbLockLabels => inflight = None /\ sending # None
  /\ pc["main"] \in LockLabels => pc["usb"] = "idle"

\* The active buffer belongs to one context, or is there for the taking.
BufferOK ==
  /\ active = None <=> (MainOwns \/ TimerOwns \/ UsbOwns)
  /\ ~(MainOwns /\ TimerOwns) /\ ~(MainOwns /\ UsbOwns)
  /\ ~(TimerOwns /\ UsbOwns)
  /\ pc["main"] \in {"copy", "release"} => buf["main"] # None
  /\ \A c \in {"main", "timer"} :
       pc[c] \in {"clear", "publish", "start"} => act[c] # None /\ act[c] = buf[c]
  /\ \A c \in {"main", "timer"} : pc[c] = "start" => cur # act[c]

\* There is at most one token, it is for the current buffer, which has data.
TokenOK ==
  /\ ~(LaterToken /\ (NowToken \/ MainToken \/ TimerToken))
  /\ ~(NowToken /\ (MainToken \/ TimerToken))
  /\ ~(MainToken /\ TimerToken)
  /\ LaterToken => sendLater = cur
  /\ NowToken => sendNow = cur
  /\ AnyToken => data[cur] # <<>>

\* Between acquiring the buffer and giving up on it, a token is for the buffer
\* that the main program remembers.
MainOK ==
  /\ pc["main"] \in {"copy", "release", "later", "arm", "unlater", "cancel",
                     "now", "check", "s_cancel", "mark", "lock", "recheck",
                     "take", "clear"}
       => /\ AnyToken => cur = buf["main"]
          /\ buf["main"] # None
  /\ pc["main"] = "release" =>
       /\ copied > 0 => data[buf["main"]] # <<>>
       /\ size = 0 => ~AnyToken
  /\ pc["main"] = "cancel" => act["main"] = buf["main"]
  /\ pc["main"] \in {"take", "clear"} => NowToken
  /\ pc["main"] \in {"publish", "start"} =>
       data[act["main"]] # <<>> /\ ~AnyToken

TimerOK ==
  /\ pc["timer"] \in {"mark", "lock", "recheck", "take", "clear"} =>
       /\ AnyToken => cur = buf["timer"]
       /\ buf["timer"] # None
       /\ ~LaterToken /\ ~MainToken
  /\ pc["timer"] \in {"take", "clear"} => NowToken
  /\ pc["timer"] \in {"publish", "start"} =>
       data[act["timer"]] # <<>> /\ ~AnyToken

UsbOK ==
  /\ pc["usb"] = "u_load" => cur # sending
  /\ pc["usb"] \in {"u_check", "u_release"} =>
       buf["usb"] = sending /\ cur # buf["usb"]
  /\ pc["usb"] \in {"u_take", "u_clear"} =>
       sendNow = act["usb"] /\ act["usb"] = cur /\ act["usb"] # None
       /\ buf["usb"] # None /\ buf["usb"] # cur
  /\ pc["usb"] \in {"u_empty", "u_hand", "u_give", "u_start"} =>
       /\ act["usb"] # None /\ buf["usb"] # None /\ buf["usb"] # act["usb"]
       /\ data[act["usb"]] # <<>> /\ ~AnyToken
  /\ pc["usb"] \in {"u_give", "u_start"} => sending = act["usb"]
  /\ pc["usb"] = "u_start" => cur = buf["usb"]
  /\ pc["usb"] = "u_again" =>
       buf["usb"] # None /\ (AnyToken => cur # buf["usb"])
  /\ pc["usb"] = "u_lock" =>
       /\ act["usb"] # None /\ act["usb"] = sendNow
       /\ buf["usb"] # None /\ buf["usb"] # cur
       /\ over["timer"] = "usb" => pc["timer"] = "t_take"

IInv ==
  StackOK /\ LockOK /\ BufferOK /\ TokenOK /\ MainOK /\ TimerOK /\ UsbOK

-------------------------------------------------------------------------------
(***************************************************************************)
(* Where the messages are.  Those that write() accepted and that have not  *)
(* left are in at most two buffers: first the one whose transfer is about  *)
(* to start, is under way or died with the connection, then cur.           *)
(***************************************************************************)
LockTaken ==
  \/ pc["main"] \in LockLabels \/ pc["timer"] \in LockLabels
  \/ pc["usb"] \in UsbLockLabels

\* The host was gone when the transfer was started, or left during it.
Dead == ~connected /\ sending # None /\ ~LockTaken

Pending ==
  \/ inflight # None
  \/ pc["main"] = "start" \/ pc["timer"] = "start" \/ pc["usb"] = "u_start"
  \/ Dead

\* The number of messages ahead of those in cur.
Ahead == IF Pending THEN Len(data[other(cur)]) ELSE 0

\* The messages that follow message n, without a gap.
Consecutive(s, n) == \A i \in 1..Len(s) : s[i] = n + i

ContentOK ==
  /\ Pending => data[other(cur)] # <<>> /\ Consecutive(data[other(cur)], settled)
  /\ Consecutive(data[cur], settled + Ahead)
  /\ settled + Ahead + Len(data[cur]) = accepted

\* The buffer that the USB handler makes current is empty, and the one whose
\* transfer died is not current.
EmptiedOK ==
  /\ pc["usb"] \in {"u_hand", "u_give"} => data[buf["usb"]] = <<>>
  /\ Dead => cur # sending

\* The sending lock is never left behind: somebody is going to release it.
LockHeld == connected /\ sending # None => inflight # None \/ LockTaken

(***************************************************************************)
(* No request is forgotten: data has a token, a token in send_later has a  *)
(* timer, and a token in send_now will be looked at.                       *)
(***************************************************************************)
\* write_impl just put the first messages into the buffer.
Fresh == pc["main"] = "release" /\ size = 0 /\ copied > 0

DataRequested ==
  data[cur] # <<>> =>
    \/ AnyToken \/ Fresh
    \/ pc["main"] = "publish" \/ pc["timer"] = "publish"
    \/ pc["usb"] \in {"u_empty", "u_hand", "u_give"}

LaterTimed == LaterToken => timer \/ pc["main"] = "arm" \/ pc["timer"] = "t_take"

\* Who will find send_now set: the main program at (1), the holder of the lock
\* when it looks again, or tx_callback at (3) or when the transfer completes.
NowSeen ==
  NowToken =>
    \/ pc["main"] \in {"copy", "release", "later", "arm", "unlater", "check",
                       "lock", "recheck", "take", "clear"}
    \/ pc["timer"] \in {"lock", "recheck", "take", "clear"}
    \/ pc["usb"] \in {"u_load", "u_check", "u_take", "u_clear", "u_release",
                      "u_again", "u_lock"}
    \/ inflight # None
    \/ ~connected

\* Who releases the lock without looking again leaves no request to nobody.
UnlockOK ==
  /\ pc["main"] \in {"lock", "recheck"} => ~LaterToken
  /\ pc["main"] = "unlock" => ~AnyToken
  /\ pc["timer"] = "unlock" /\ NowToken => pc["main"] \in {"copy", "release"}
  /\ pc["usb"] = "u_unlock" => NowToken /\ pc["main"] \in {"copy", "release"}

RequestOK == DataRequested /\ LaterTimed /\ NowSeen /\ UnlockOK

DInv == ContentOK /\ EmptiedOK /\ LockHeld /\ RequestOK
===============================================================================
