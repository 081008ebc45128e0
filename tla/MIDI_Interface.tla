----------------------------- MODULE MIDI_Interface -----------------------------
(***************************************************************************)
(* MIDI interfaces that share sinks through pipes: reading events in       *)
(* update(), stalling the pipes in the middle of a system exclusive        *)
(* message that arrives in chunks, and being called back to finish that    *)
(* message when another interface wants to send (MIDI_Interface.hpp and    *)
(* .cpp, MIDI_Source::sourceMIDItoPipe, MIDI_Pipe::handleStallers).        *)
(*                                                                         *)
(* Everything runs on one thread, but handleStall() of one interface runs  *)
(* inside a send of another, so the state is a stack of calls. What an     *)
(* interface reads next, and when a read finds nothing, is up to the       *)
(* environment; a system exclusive message it begins, it does not abandon. *)
(***************************************************************************)
EXTENDS MIDI_Pipes, SequencesExt

CONSTANTS
    Wiring,        \* the connections made during setup, <<source, pipe, sink>> each
    Attempts,      \* 10 in MIDI_Pipe::handleStallers
    MaxEvents      \* bound of the model: events an interface reads

ASSUME InterfaceAssumption ==
    /\ Wiring \in Seq(Sources \X Pipes \X Sinks)
    /\ Attempts \in Nat /\ MaxEvents \in Nat

VARIABLES
    calls,     \* the call stack, last call last
    read,      \* [Sources -> events read so far], the number of the last one
    inSysEx,   \* sources that have read a chunk and not the end of the message
    arrived,   \* [Sinks -> [Sources -> number of the last event that arrived]]
    open,      \* [Sinks -> sources of which an unfinished message has arrived]
    gaveUp,    \* sources whose unfinished message was given up waiting for
    loosened   \* sources that un-stalled, read only real-time messages and did
               \* not stall again, in the middle of a message

vars == <<pipeVars, calls, read, inSysEx, arrived, open, gaveUp, loosened>>

\* MIDIReadEvent. "message" stands for channel and system common messages,
\* "chunk" and "end" for SYSEX_CHUNK and SYSEX_MESSAGE.
Events == {"message", "chunk", "end", "realtime"}

Init == /\ net = Wired(Wiring)
        /\ holds = {} /\ stale = FALSE
        /\ calls = <<>>
        /\ read = [s \in Sources |-> 0]
        /\ inSysEx = {}
        /\ arrived = [t \in Sinks |-> [s \in Sources |-> 0]]
        /\ open = [t \in Sinks |-> {}]
        /\ gaveUp = {} /\ loosened = {}

-----------------------------------------------------------------------------
(* Calls. A frame is [op, src] and, for update, whether the last chunk of  *)
(* this round is unterminated, for send, the event, its number, how many   *)
(* rounds of handleStallers are left and whether one is half done.         *)

Update(s, chunked) == [op |-> "update", src |-> s, chunked |-> chunked]
HandleStall(s) == [op |-> "handleStall", src |-> s]
Send(s, e) == [op |-> "send", src |-> s, event |-> e, number |-> read[s] + 1,
               rounds |-> Attempts, half |-> FALSE]

Top == Last(calls)
Below == Front(calls)
InCall(op) == calls # <<>> /\ Top.op = op

\* Source s reads event e.
Read(s, e) ==
    /\ ~net.fatal
    /\ read[s] < MaxEvents
    /\ e = "message" => s \notin inSysEx
    /\ read' = [read EXCEPT ![s] = @ + 1]
    /\ inSysEx' = CASE e = "chunk" -> inSysEx \cup {s}
                    [] e = "end" -> inSysEx \ {s}
                    [] OTHER -> inSysEx

\* s->stall(s) and s->unstall(s).
StallBy(s) == net' = Stalled(net, s) /\ holds' = holds \cup {s}
UnstallBy(s) == net' = Unstalled(net, s) /\ holds' = holds \ {s}
KeepStalls == UNCHANGED <<net, holds>>

-----------------------------------------------------------------------------
(* updateIncoming                                                          *)

\* Mutant: the interface sends while it still stalls its own pipes.
BeginUpdateStalled(s, e) ==
    /\ calls = <<>>
    /\ Read(s, e)
    /\ KeepStalls
    /\ calls' = <<Update(s, e = "chunk"), Send(s, e)>>
    /\ UNCHANGED <<stale, arrived, open, gaveUp, loosened>>

BeginUpdate(s, e) ==
    /\ calls = <<>>
    /\ Read(s, e)
    /\ IF GetStaller(net, s) = s THEN UnstallBy(s) ELSE KeepStalls
    /\ calls' = <<Update(s, e = "chunk"), Send(s, e)>>
    /\ UNCHANGED <<stale, arrived, open, gaveUp, loosened>>

\* Mutant: the end of a message does not undo an earlier chunk.
ChunkedKept(was, e) == was \/ e = "chunk"

\* The local variable chunked after event e.
Chunked(was, e) == CASE e = "chunk" -> TRUE
                     [] e = "end" -> FALSE
                     [] OTHER -> was

ContinueUpdate(e) ==
    /\ InCall("update")
    /\ Read(Top.src, e)
    /\ calls' = Below \o <<Update(Top.src, Chunked(Top.chunked, e)), Send(Top.src, e)>>
    /\ UNCHANGED <<pipeVars, arrived, open, gaveUp, loosened>>

\* There is no other event, or enough has been read in one go.
EndUpdate ==
    /\ InCall("update") /\ ~net.fatal
    /\ IF Top.chunked THEN StallBy(Top.src) /\ UNCHANGED loosened
       ELSE /\ KeepStalls
            /\ loosened' = IF Top.src \in inSysEx THEN loosened \cup {Top.src} ELSE loosened
    /\ calls' = Below
    /\ UNCHANGED <<stale, read, inSysEx, arrived, open, gaveUp>>

-----------------------------------------------------------------------------
(* handleStall: finish the message, or wait for SYSEX_CHUNK_TIMEOUT in vain. *)

\* Mutant: back to the other interface after any event.
HandleEventOnce(e) ==
    /\ InCall("handleStall")
    /\ Read(Top.src, e)
    /\ calls' = Below \o <<Send(Top.src, e)>>
    /\ UNCHANGED <<pipeVars, arrived, open, gaveUp, loosened>>

HandleEvent(e) ==
    /\ InCall("handleStall")
    /\ Read(Top.src, e)
    /\ calls' = (IF e = "end" THEN Below ELSE calls) \o <<Send(Top.src, e)>>
    /\ UNCHANGED <<pipeVars, arrived, open, gaveUp, loosened>>

HandleTimeout ==
    /\ InCall("handleStall") /\ ~net.fatal
    /\ gaveUp' = IF Top.src \in inSysEx THEN gaveUp \cup {Top.src} ELSE gaveUp
    /\ calls' = Below
    /\ UNCHANGED <<pipeVars, read, inSysEx, arrived, open, loosened>>

-----------------------------------------------------------------------------
(* sourceMIDItoPipe: handleStallers, then acceptMIDIfromSource             *)

Pipe == net.sinkPipe[Top.src]

\* The call of the sink's staller is over, or none was made this round.
RoundStarts == ~Top.half \/ net.throughStaller[Pipe] = None

CallBack(staller, rounds, half) ==
    /\ UnstallBy(staller)
    /\ calls' = Below \o <<[Top EXCEPT !.rounds = rounds, !.half = half],
                           HandleStall(staller)>>
    /\ UNCHANGED <<stale, read, inSysEx, arrived, open, gaveUp, loosened>>

CallSinkStaller ==
    /\ InCall("send") /\ ~net.fatal /\ Top.event # "realtime"
    /\ RoundStarts /\ Top.rounds > 0 /\ net.sinkStaller[Pipe] # None
    /\ CallBack(net.sinkStaller[Pipe], Top.rounds - 1, TRUE)

CallThroughStaller ==
    /\ InCall("send") /\ ~net.fatal /\ Top.event # "realtime"
    /\ net.throughStaller[Pipe] # None
    /\ \/ Top.half /\ CallBack(net.throughStaller[Pipe], Top.rounds, FALSE)
       \/ /\ ~Top.half /\ Top.rounds > 0 /\ net.sinkStaller[Pipe] = None
          /\ CallBack(net.throughStaller[Pipe], Top.rounds - 1, FALSE)

ReadyToSend ==
    /\ InCall("send") /\ ~net.fatal
    /\ \/ Top.event = "realtime"
       \/ RoundStarts /\ (GetStaller(net, Top.src) = None \/ Top.rounds = 0)

SinksOf(s) == {d.sink : d \in ToSet(Deliveries(net, s))}

Deliver ==
    /\ ReadyToSend
    /\ LET s == Top.src
       IN  /\ arrived' = [t \in Sinks |->
                            IF t \in SinksOf(s) THEN [arrived[t] EXCEPT ![s] = Top.number]
                            ELSE arrived[t]]
           /\ open' = [t \in Sinks |->
                         CASE t \in SinksOf(s) /\ Top.event = "chunk" -> open[t] \cup {s}
                           [] t \in SinksOf(s) /\ Top.event = "end" -> open[t] \ {s}
                           [] OTHER -> open[t]]
           /\ gaveUp' = IF Top.event = "end" THEN gaveUp \ {s} ELSE gaveUp
           /\ loosened' = IF Top.event = "end" THEN loosened \ {s} ELSE loosened
    /\ calls' = Below
    /\ UNCHANGED <<pipeVars, read, inSysEx>>

-----------------------------------------------------------------------------

Step == \/ \E e \in Events : ContinueUpdate(e) \/ HandleEvent(e)
        \/ EndUpdate \/ HandleTimeout
        \/ CallSinkStaller \/ CallThroughStaller \/ Deliver

Next == Step \/ \E s \in Sources, e \in Events : BeginUpdate(s, e)

Spec == Init /\ [][Next]_vars

\* The processor keeps executing a call that has begun.
FairSpec == Spec /\ WF_vars(Step)

-----------------------------------------------------------------------------
\* The variables have their types, the pipes are sound, and whoever stalls other
\* sources is in the middle of a message, so that calling it back has a purpose.
TypeOK ==
    /\ PipesTypeOK
    /\ holds \subseteq inSysEx
    /\ \A i \in DOMAIN calls :
          calls[i].op \in {"update", "handleStall", "send"} /\ calls[i].src \in Sources
    /\ read \in [Sources -> 0..MaxEvents]
    /\ inSysEx \subseteq Sources /\ gaveUp \subseteq Sources /\ loosened \subseteq Sources
    /\ arrived \in [Sinks -> [Sources -> 0..MaxEvents]]
    /\ open \in [Sinks -> SUBSET Sources]

\* "This stalls all other pipes that sink into the same sinks as the exclusive
\* source" (MIDI_Pipes.hpp:291), which is there because "messages can be
\* interleaved": nothing but real-time messages goes to a sink in the middle of
\* another source's system exclusive message, except for messages in excused.
Delivers(s, t) == arrived'[t][s] # arrived[t][s]
NotInterleaved(excused) ==
    \A s \in Sources, t \in Sinks :
        Delivers(s, t) => Top.event = "realtime" \/ open[t] \ {s} \subseteq excused

\* Only messages that did not go on for the length of the timeout, and messages
\* during which an update read nothing but real-time messages, are interrupted.
NoInterleaving == [][NotInterleaved(gaveUp \cup loosened)]_vars

\* Events of a source arrive at each sink once and in the order in which they were
\* read, although a source may be called back to read on while it sends.
InOrder == [][\A s \in Sources, t \in Sinks :
                 Delivers(s, t) => arrived'[t][s] = arrived[t][s] + 1]_vars

\* Calls return, and then everything that was read has arrived at every sink.
EventsArrive ==
    \A s \in Sources, t \in Sinks :
        t \in SinksOf(s) => []<>(arrived[t][s] = read[s])
===============================================================================
