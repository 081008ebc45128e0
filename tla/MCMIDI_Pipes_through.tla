-------------------------- MODULE MCMIDI_Pipes_through --------------------------
(***************************************************************************)
(* A wiring in which a pipe's through output is stalled by a source that   *)
(* the pipe's own sink does not share.                                     *)
(***************************************************************************)
EXTENDS MIDI_Pipes

CONSTANTS a, b, c, x, y, z, p1, p2, p3, p4, p5

\* Source a has three pipes in a chain; the second ends at the sink of b, the
\* last one at the sink of c.
Wiring == << <<b, p4, y>>, <<c, p5, z>>, <<a, p1, x>>, <<a, p2, y>>, <<a, p3, z>> >>

WiredInit == net = Wired(Wiring) /\ holds = {} /\ stale = FALSE

StallNext == \E s \in Sources : Stall(s) \/ Unstall(s)

StallSpec == WiredInit /\ [][StallNext]_pipeVars
===============================================================================
