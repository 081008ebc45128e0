------------------------------- MODULE MIDIFifo -------------------------------
(***************************************************************************)
(* What the buffers between two contexts promise to their users, without   *)
(* buffers, locks or interrupts.  Messages are numbered in the order in    *)
(* which they enter; they leave in batches of consecutive messages, in     *)
(* that order and without duplicates.  A bounded number of them is under   *)
(* way.  Messages are lost only when the device is reset, and then         *)
(* everything under way is lost at once.                                   *)
(***************************************************************************)
EXTENDS Naturals, Sequences

CONSTANTS
  Batch,      \* messages that can leave in one step
  Capacity    \* messages that can be under way

VARIABLES
  accepted,   \* number of messages that entered so far
  settled,    \* messages 1..settled have left, or were dropped by a reset
  wire        \* the messages that left, in order

vars == <<accepted, settled, wire>>

Init ==
  /\ accepted = 0
  /\ settled = 0
  /\ wire = <<>>

Accept ==
  /\ accepted' > accepted
  /\ accepted' - settled <= Capacity
  /\ UNCHANGED <<settled, wire>>

Deliver ==
  /\ settled' - settled \in 1..Batch
  /\ settled' <= accepted
  /\ wire' = wire \o [i \in 1..(settled' - settled) |-> settled + i]
  /\ UNCHANGED accepted

Drop ==
  /\ settled < accepted
  /\ settled' = accepted
  /\ UNCHANGED <<accepted, wire>>

Next == Accept \/ Deliver \/ Drop

Spec == Init /\ [][Next]_vars
===============================================================================
