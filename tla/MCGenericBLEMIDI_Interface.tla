----------------------- MODULE MCGenericBLEMIDI_Interface -----------------------
(***************************************************************************)
(* Instances of GenericBLEMIDI_Interface for TLC.                          *)
(***************************************************************************)
EXTENDS GenericBLEMIDI_Interface

\* Channel messages with one and two data bytes, system common messages with
\* none and two, a real-time message, and system exclusive messages: one that
\* does not fit in a packet, and the two halves of another.
AllMessages ==
  {<<144, 1, 2>>, <<192, 3>>, <<246>>, <<242, 4, 5>>, <<248>>,
   <<240, 1, 2, 3, 4, 5, 247>>, <<240, 6>>, <<7, 247>>}
===============================================================================
