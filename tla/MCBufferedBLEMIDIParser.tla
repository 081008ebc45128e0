------------------------ MODULE MCBufferedBLEMIDIParser ------------------------
(***************************************************************************)
(* Instances of BufferedBLEMIDIParser for TLC.                             *)
(***************************************************************************)
EXTENDS BufferedBLEMIDIParser

\* A channel message, two of them with running status and a new timestamp, the
\* middle of a SysEx message, and its end.
Note        == <<"header", "timestamp", "status", "data">>
TwoNotes    == <<"header", "timestamp", "status", "data", "timestamp", "data">>
SysExMiddle == <<"header", "data", "data">>
SysExEnd    == <<"header", "data", "timestamp", "status">>

AllPackets  == {Note, TwoNotes, SysExMiddle, SysExEnd}

ASSUME FormatAssumption == WellFormedPackets
===============================================================================
