------------------------- MODULE BufferedBLEMIDIParser -------------------------
(***************************************************************************)
(* The path of incoming Bluetooth MIDI packets: handleData of the ESP32    *)
(* back end pushes the chunks of a packet into a BLERingBuf, and the main  *)
(* loop pops them and extracts the MIDI bytes with one BLEMIDIParser that  *)
(* lives across the chunks of a packet (BufferedBLEMIDIParser.hpp,         *)
(* BLEMIDIParser.hpp).  The ring may split a chunk once more.              *)
(*                                                                         *)
(* A packet is a sequence of roles: what the sender meant each byte to be. *)
(* The parser sees only their most significant bits.                       *)
(***************************************************************************)
EXTENDS BLERingBuf

CONSTANTS
  Packets,     \* the packets a sender can send, sequences of roles
  FirstMin     \* the stack does not end the first chunk of a packet before so
               \* many bytes, unless it ends the packet

Roles == {"header", "timestamp", "status", "data"}

ASSUME PacketsAssumption == Packets \subseteq Seq(Roles) /\ FirstMin \in Nat

\* The packets of a sender that keeps to the format: one header; a timestamp in front
\* of every status byte, and never two in a row.
Follows(a, b) ==
  /\ b = "status" => a = "timestamp"
  /\ b = "timestamp" => a # "timestamp"

WellFormed(packet) ==
  \A i \in 1..Len(packet) :
    /\ packet[i] = "header" <=> i = 1
    /\ i > 1 => Follows(packet[i - 1], packet[i])

WellFormedPackets == FirstMin >= 2 /\ \A packet \in Packets : WellFormed(packet)

VARIABLES
  roles,             \* history: the roles of the bytes pushed
  rest,              \* roles of the bytes that handleData has yet to push
  read,              \* bytes of the chunk in front of the data pointer of the
                     \* BLEMIDIParser, and
  prevWasTimestamp,  \* its other field
  midi,              \* history: the bytes of the chunk that pull has returned
  headless           \* history: the first chunk of the packet was empty

parser == <<read, prevWasTimestamp, midi, headless>>
vars   == <<ringVars, roles, rest, parser>>

Init ==
  /\ RingInit
  /\ roles = <<>> /\ rest = <<>>
  /\ read = 0 /\ prevWasTimestamp = TRUE
  /\ midi = {} /\ headless = FALSE

-------------------------------------------------------------------------------
(***************************************************************************)
(* handleData                                                              *)
(***************************************************************************)
\* Push the first so many roles of a packet, keep the others.
PushFirst(packet, k, type) ==
  /\ PushLoad(k, type)
  /\ roles' = roles \o SubSeq(packet, 1, k)
  /\ rest' = SubSeq(packet, k + 1, Len(packet))
  /\ UNCHANGED parser

\* A packet arrives; if its first chunk does not fit, all of it is dropped.
Receive(packet) ==
  /\ rest = <<>>
  /\ accepted + Len(packet) <= MaxBytes
  /\ \E k \in 0..Len(packet) :
        /\ k >= FirstMin \/ k = Len(packet)
        /\ PushFirst(packet, k, "Packet")

\* The other chunks follow; if one does not fit, it and the rest are dropped.
ReceiveMore ==
  /\ rest # <<>>
  /\ \E k \in 1..Len(rest) : PushFirst(rest, k, "Continuation")

DropRest ==
  /\ rest # <<>> /\ ppc = "idle"
  /\ \E k \in 1..Len(rest) : ~Fits(k)
  /\ rest' = <<>>
  /\ UNCHANGED <<ringVars, roles, parser>>

-------------------------------------------------------------------------------
(***************************************************************************)
(* BLEMIDIParser                                                           *)
(***************************************************************************)
IsData(n) == roles[n] = "data"

\* What the constructor skips: header and timestamp, or the header alone in
\* front of a SysEx continuation, or everything.
Skipped(chunk) ==
  IF Len(chunk) < 2 \/ IsData(chunk[1]) THEN Len(chunk)
  ELSE IF IsData(chunk[2]) THEN 1
  ELSE 2

\* The chunk begins a packet: a new parser.
Construct ==
  /\ read' = Skipped(Viewed')
  /\ prevWasTimestamp' = TRUE
  /\ headless' = (view.length = 0)'

\* Mutant: the chunk makes a new parser, only that it skips nothing.
ExtendAnew ==
  /\ read' = 0
  /\ prevWasTimestamp' = TRUE
  /\ UNCHANGED headless

\* The chunk continues a packet.
Extend ==
  /\ read' = 0
  /\ UNCHANGED <<prevWasTimestamp, headless>>

\* popMessage gets the next chunk.
NextChunk ==
  /\ PopView
  /\ \/ view'.type = "Packet" /\ Construct
     \/ view'.type # "Packet" /\ Extend
  /\ midi' = {}
  /\ UNCHANGED <<roles, rest>>

\* pull takes one byte: data bytes are returned; of the others every second one
\* is a timestamp, and the others are returned.
Pull ==
  /\ cpc = "take" /\ read < view.length
  /\ read' = read + 1
  /\ LET n == Viewed[read + 1]
     IN  \/ /\ IsData(n) \/ prevWasTimestamp
            /\ midi' = midi \cup {n}
            /\ prevWasTimestamp' = FALSE
         \/ /\ ~IsData(n) /\ ~prevWasTimestamp
            /\ prevWasTimestamp' = TRUE
            /\ UNCHANGED midi
  /\ UNCHANGED <<ringVars, roles, rest, headless>>

\* pull finds the end of the chunk, and popMessage is done with it.
EndChunk ==
  /\ Take
  /\ read = view.length
  /\ read' = 0 /\ midi' = {}
  /\ UNCHANGED <<roles, rest, prevWasTimestamp, headless>>

-------------------------------------------------------------------------------
\* The steps of push and pop leave the rest alone.
Ring ==
  /\ PushStep \/ PopStep
  /\ UNCHANGED <<roles, rest, parser>>

Next ==
  \/ \E packet \in Packets : Receive(packet)
  \/ ReceiveMore \/ DropRest
  \/ Ring
  \/ NextChunk \/ Pull \/ EndChunk

Spec == Init /\ [][Next]_vars

\* push returns, and the main loop keeps popping.
FairSpec ==
  /\ Spec
  /\ WF_vars(PushStep /\ Ring)
  /\ WF_vars((PopStep /\ Ring) \/ NextChunk \/ Pull \/ EndChunk)

-------------------------------------------------------------------------------
(***************************************************************************)
(* Properties                                                              *)
(***************************************************************************)
\* Every variable has its type, and the roles are those of the bytes pushed.
TypeOK ==
  /\ RingTypeOK
  /\ roles \in Seq(Roles) /\ rest \in Seq(Roles)
  /\ Len(roles) = accepted + (IF ppc = "idle" THEN 0 ELSE pushing.length)
  /\ read \in 0..view.length /\ midi \subseteq Nat
  /\ prevWasTimestamp \in BOOLEAN /\ headless \in BOOLEAN

\* The ring is sound while chunks come in and packets are dropped: its variables
\* have their types, pop never takes data for a header, the counter is the
\* distance between the indices, and the view that the parser reads holds the
\* next bytes in line until it calls pop again.
BufferSound == TypeOK /\ RingSound

\* The bytes that the sender meant for the MIDI parser, among those of the chunk
\* that the BLEMIDIParser is past.
Midi == {n \in {Viewed[i] : i \in 1..read} : roles[n] \in {"status", "data"}}

\* A chunk yields exactly the MIDI bytes in it, wherever the stack or the ring
\* has split the packet, and although chunks of earlier packets were dropped.
YieldsItsMidi == cpc = "take" => midi = Midi

\* The same for the packets that do not begin with an empty chunk.
YieldsItsMidiUnlessHeadless == view.type = "Packet" \/ ~headless => YieldsItsMidi
===============================================================================
