----------------------- MODULE MCThreadedBLEMIDISender ------------------------
(***************************************************************************)
(* Instances of ThreadedBLEMIDISender for TLC.                             *)
(***************************************************************************)
EXTENDS ThreadedBLEMIDISender

\* A packet for one message of full size: the smallest there is.
Smallest == {NotifySize + HeaderSize + FullSize}
===============================================================================
