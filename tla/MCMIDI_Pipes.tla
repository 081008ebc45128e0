------------------------------ MODULE MCMIDI_Pipes ------------------------------
(***************************************************************************)
(* Instances of MIDI_Pipes for TLC. Pipes, sources and sinks are           *)
(* interchangeable: no operator and no property names one of them.         *)
(***************************************************************************)
EXTENDS MIDI_Pipes, TLC

Symmetry == Permutations(Sources) \cup Permutations(Sinks) \cup Permutations(Pipes)
===============================================================================
