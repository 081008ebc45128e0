---------------------------- MODULE MCMIDI_Interface ----------------------------
(***************************************************************************)
(* Instances of MIDI_Interface for TLC.                                    *)
(***************************************************************************)
EXTENDS MIDI_Interface

CONSTANTS a, b, c, x, y, pa, qa, pb, pc

\* One source of two sinks, each of which has another source as well.
Shared == << <<a, pa, x>>, <<b, pb, x>>, <<c, pc, y>>, <<a, qa, y>> >>
===============================================================================
