------------------------------- MODULE MIDI_Pipes -------------------------------
(***************************************************************************)
(* The routing graph of MIDI_Pipes.cpp: pipes between sources and sinks,   *)
(* chained through their "through" connections when several share a source *)
(* or a sink, and the stalling of pipes by a source that asks for          *)
(* exclusive access to its sinks.                                          *)
(*                                                                         *)
(* The objects' fields form one record, net. The member functions that     *)
(* call each other along the links are recursive operators from net to     *)
(* net. A fatal error stops the program.                                   *)
(***************************************************************************)
EXTENDS Naturals, FiniteSets, Sequences
LOCAL INSTANCE SequencesExt

CONSTANTS
    Sources, Sinks, Pipes,
    None,
    MaxParallel    \* pipes the application connects between the same two ends

ASSUME PipesAssumption ==
    /\ None \notin Sources \cup Sinks \cup Pipes
    /\ Sources \cap Sinks = {} /\ Pipes \cap (Sources \cup Sinks) = {}
    /\ MaxParallel \in Nat \ {0}

VARIABLES
    net,
    holds,     \* sources that have stalled their sinks and not un-stalled them
    stale      \* whether a pipe was connected or disconnected with a source
               \* stalling: pipes neither take over nor shed stallers

pipeVars == <<net, holds, stale>>

Empty == [
    sinkPipe      |-> [x \in Sources \cup Pipes |-> None],
    sourcePipe    |-> [x \in Sinks \cup Pipes |-> None],
    source        |-> [p \in Pipes |-> None],
    sink          |-> [p \in Pipes |-> None],
    sinkStaller   |-> [p \in Pipes |-> None],
    throughStaller |-> [p \in Pipes |-> None],
    fatal         |-> FALSE]

-----------------------------------------------------------------------------
(* Connections.                                                            *)

Fatal(n) == [n EXCEPT !.fatal = TRUE]

SetSink(n, p, t) ==
    IF n.sink[p] # None THEN Fatal(n) ELSE [n EXCEPT !.sink[p] = t]

SetSource(n, p, s) ==
    IF n.source[p] # None THEN Fatal(n) ELSE [n EXCEPT !.source[p] = s]

\* MIDI_Sink::connectSourcePipe, of a sink or of a pipe as the sink of another:
\* append pipe p to the chain of through inputs.
RECURSIVE ConnectSourcePipe(_, _, _)
ConnectSourcePipe(n, t, p) ==
    IF n.sourcePipe[t] = None
    THEN [SetSink(n, p, t) EXCEPT !.sourcePipe[t] = p]
    ELSE ConnectSourcePipe(n, n.sourcePipe[t], p)

RECURSIVE ConnectSinkPipe(_, _, _)
ConnectSinkPipe(n, s, p) ==
    IF n.sinkPipe[s] = None
    THEN [SetSource(n, p, s) EXCEPT !.sinkPipe[s] = p]
    ELSE ConnectSinkPipe(n, n.sinkPipe[s], p)

\* Mutant: the pipe keeps its sink.
DropSourceHalf(n, t) ==
    IF n.sourcePipe[t] = None THEN n ELSE [n EXCEPT !.sourcePipe[t] = None]

DropSource(n, t) ==      \* MIDI_Sink::disconnectSourcePipesShallow
    IF n.sourcePipe[t] = None THEN n
    ELSE [n EXCEPT !.sink[n.sourcePipe[t]] = None, !.sourcePipe[t] = None]

DropSink(n, s) ==        \* MIDI_Source::disconnectSinkPipesShallow
    IF n.sinkPipe[s] = None THEN n
    ELSE [n EXCEPT !.source[n.sinkPipe[s]] = None, !.sinkPipe[s] = None]

\* MIDI_Pipe::disconnect: the pipes behind p take its place at its ends.
UnlinkSink(n, p) ==
    IF n.sink[p] = None THEN n
    ELSE IF n.sourcePipe[p] = None THEN DropSource(n, n.sink[p])
    ELSE ConnectSourcePipe(DropSource(DropSource(n, n.sink[p]), p),
                           n.sink[p], n.sourcePipe[p])

\* Mutant: the pipe behind the through output is left without a source.
UnlinkSourceForgets(n, p) ==
    IF n.source[p] = None THEN n ELSE DropSink(DropSink(n, n.source[p]), p)

UnlinkSource(n, p) ==
    IF n.source[p] = None THEN n
    ELSE IF n.sinkPipe[p] = None THEN DropSink(n, n.source[p])
    ELSE ConnectSinkPipe(DropSink(DropSink(n, n.source[p]), p),
                         n.source[p], n.sinkPipe[p])

DisconnectPipe(n, p) ==
    LET m == UnlinkSource(UnlinkSink(n, p), p)
    IN  IF m.sourcePipe[p] # None \/ m.sinkPipe[p] # None THEN Fatal(m) ELSE m

\* MIDI_Sink::disconnectSourcePipes and MIDI_Source::disconnectSinkPipes, which
\* the destructors call: the end of the chain first.
RECURSIVE DisconnectSourcePipes(_, _)
DisconnectSourcePipes(n, t) ==
    LET p == n.sourcePipe[t]
    IN  IF p = None THEN n
        ELSE [DisconnectPipe(DisconnectSourcePipes(n, p), p)
                EXCEPT !.sourcePipe[t] = None]

RECURSIVE DisconnectSinkPipes(_, _)
DisconnectSinkPipes(n, s) ==
    LET p == n.sinkPipe[s]
    IN  IF p = None THEN n
        ELSE [DisconnectPipe(DisconnectSinkPipes(n, p), p)
                EXCEPT !.sinkPipe[s] = None]

\* A sequence of connections <<source, pipe, sink>>: source >> pipe >> sink.
Wired(wiring) ==
    FoldLeft(LAMBDA n, c : ConnectSourcePipe(ConnectSinkPipe(n, c[1], c[2]), c[3], c[2]),
             Empty, wiring)

\* MIDI_Sink::swap, MIDI_Source::swap: the pipes follow the moved objects.
SwapSinks(n, a, b) ==
    [n EXCEPT !.sourcePipe[a] = n.sourcePipe[b], !.sourcePipe[b] = n.sourcePipe[a],
              !.sink = [p \in Pipes |->
                          CASE p = n.sourcePipe[b] -> a
                            [] p = n.sourcePipe[a] -> b
                            [] OTHER -> n.sink[p]]]

SwapSources(n, a, b) ==
    [n EXCEPT !.sinkPipe[a] = n.sinkPipe[b], !.sinkPipe[b] = n.sinkPipe[a],
              !.source = [p \in Pipes |->
                            CASE p = n.sinkPipe[b] -> a
                              [] p = n.sinkPipe[a] -> b
                              [] OTHER -> n.source[p]]]

-----------------------------------------------------------------------------
(* What a message passes.                                                  *)

RECURSIVE GetInitialSource(_, _)
GetInitialSource(n, x) ==
    IF x \in Pipes THEN GetInitialSource(n, n.source[x]) ELSE x

RECURSIVE GetFinalSink(_, _)
GetFinalSink(n, x) == IF x \in Pipes THEN GetFinalSink(n, n.sink[x]) ELSE x

\* Mutant: a pipe without a sink does not pass anything through.
RECURSIVE DeliveriesUntilLoose(_, _)
DeliveriesUntilLoose(n, x) ==
    LET p == n.sinkPipe[x]
    IN  IF p = None THEN <<>>
        ELSE IF n.sink[p] = None THEN <<>>
        ELSE DeliveriesUntilLoose(n, p) \o <<[pipe |-> p, sink |-> GetFinalSink(n, p)]>>

\* MIDI_Pipe::acceptMIDIfromSource: the through output first, then the pipe's
\* own sink. The pipes on the way to the sink pass the message on unchanged.
RECURSIVE Deliveries(_, _)
Deliveries(n, x) ==
    LET p == n.sinkPipe[x]
    IN  IF p = None THEN <<>>
        ELSE Deliveries(n, p) \o
             (IF n.sink[p] = None THEN <<>> ELSE <<[pipe |-> p, sink |-> GetFinalSink(n, p)]>>)

-----------------------------------------------------------------------------
(* Stalling. x is the object called, None if there is none; true sources   *)
(* and sinks ignore the call. from is the object that makes it.            *)

RECURSIVE StallUpstream(_, _, _, _)
StallUpstream(n, x, cause, from) ==
    IF x \notin Pipes THEN n
    ELSE IF from = n.sink[x]
    THEN LET n1 == [n EXCEPT !.sinkStaller[x] = cause]
             n2 == StallUpstream(n1, n.source[x], cause, x)
         IN  StallUpstream(n2, n.sourcePipe[x], cause, x)
    ELSE IF n.throughStaller[x] # None THEN n
    ELSE StallUpstream([n EXCEPT !.throughStaller[x] = cause], n.source[x], cause, x)

RECURSIVE UnstallUpstream(_, _, _, _)
UnstallUpstream(n, x, cause, from) ==
    IF x \notin Pipes THEN n
    ELSE IF from = n.sink[x]
    THEN LET n1 == [n EXCEPT !.sinkStaller[x] = None]
             n2 == UnstallUpstream(n1, n.source[x], cause, x)
         IN  UnstallUpstream(n2, n.sourcePipe[x], cause, x)
    ELSE IF n.throughStaller[x] # cause THEN n
    ELSE UnstallUpstream([n EXCEPT !.throughStaller[x] = None], n.source[x], cause, x)

\* Whoever stalls or un-stalls a pipe's sink must be the one that stalls it.
MayBeStalledBy(n, p, cause) == n.sinkStaller[p] \in {None, cause}

\* Mutant: the source of a pipe that is stalled at its sink is not told.
RECURSIVE StallDownstreamSilently(_, _, _, _)
StallDownstreamSilently(n, x, cause, from) ==
    IF x \notin Pipes \/ n.fatal THEN n
    ELSE IF ~MayBeStalledBy(n, x, cause) THEN Fatal(n)
    ELSE LET n1 == [n EXCEPT !.sinkStaller[x] = cause]
             n2 == IF from = n.source[x]
                   THEN StallDownstreamSilently(n1, n.sinkPipe[x], cause, x) ELSE n1
             n3 == StallDownstreamSilently(n2, n.sink[x], cause, x)
         IN  IF n.sourcePipe[x] = from THEN n3
             ELSE StallUpstream(n3, n.sourcePipe[x], cause, x)

RECURSIVE StallDownstream(_, _, _, _)
StallDownstream(n, x, cause, from) ==
    IF x \notin Pipes \/ n.fatal THEN n
    ELSE IF ~MayBeStalledBy(n, x, cause) THEN Fatal(n)
    ELSE LET n1 == [n EXCEPT !.sinkStaller[x] = cause]
             n2 == IF from = n.source[x]
                   THEN StallDownstream(n1, n.sinkPipe[x], cause, x) ELSE n1
             n3 == StallDownstream(n2, n.sink[x], cause, x)
             n4 == IF from = n.source[x] THEN n3
                   ELSE StallUpstream(
                          IF n3.throughStaller[x] = None THEN n3
                          ELSE UnstallUpstream(n3, n.source[x], n3.throughStaller[x], x),
                          n.source[x], cause, x)
         IN  IF n.sourcePipe[x] = from THEN n4
             ELSE StallUpstream(n4, n.sourcePipe[x], cause, x)

RECURSIVE UnstallDownstream(_, _, _, _)
UnstallDownstream(n, x, cause, from) ==
    IF x \notin Pipes \/ n.fatal THEN n
    ELSE IF ~MayBeStalledBy(n, x, cause) THEN Fatal(n)
    ELSE LET n1 == [n EXCEPT !.sinkStaller[x] = None]
             n2 == IF from = n.source[x]
                   THEN UnstallDownstream(n1, n.sinkPipe[x], cause, x) ELSE n1
             n3 == UnstallDownstream(n2, n.sink[x], cause, x)
             n4 == IF from = n.source[x] THEN n3
                   ELSE LET m == UnstallUpstream(n3, n.source[x], cause, x)
                        IN  IF m.throughStaller[x] = None THEN m
                            ELSE StallUpstream(m, n.source[x], m.throughStaller[x], x)
         IN  IF n.sourcePipe[x] = from THEN n4
             ELSE UnstallUpstream(n4, n.sourcePipe[x], cause, x)

\* The calls <<pipe, caller>> of stallDownstream that follow from a set of them,
\* and those of unstallDownstream, which are the same.
DownstreamCalls(n, calls) ==
    UNION {{<<n.sink[c[1]], c[1]>>}
           \cup (IF c[2] = n.source[c[1]] THEN {<<n.sinkPipe[c[1]], c[1]>>} ELSE {})
              : c \in calls} \cap (Pipes \X Pipes)

RECURSIVE CallsAfter(_, _)
CallsAfter(n, calls) ==
    LET more == calls \cup DownstreamCalls(n, calls)
    IN  IF more = calls THEN calls ELSE CallsAfter(n, more)

\* Whether a call made by source s would come back to itself: a recursion that
\* ends with the stack, which is an error as fatal as the others.
Endless(n, s) ==
    /\ n.sinkPipe[s] # None
    /\ \E c \in CallsAfter(n, {<<n.sinkPipe[s], s>>}) :
          c \in CallsAfter(n, DownstreamCalls(n, {c}))

\* MIDI_Source::stall, unstall and getStaller, with the source as the cause.
Stalled(n, s) ==
    IF Endless(n, s) THEN Fatal(n) ELSE StallDownstream(n, n.sinkPipe[s], s, s)
Unstalled(n, s) ==
    IF Endless(n, s) THEN Fatal(n) ELSE UnstallDownstream(n, n.sinkPipe[s], s, s)
GetStaller(n, s) ==
    LET p == n.sinkPipe[s]
    IN  IF p = None THEN None
        ELSE IF n.sinkStaller[p] # None THEN n.sinkStaller[p] ELSE n.throughStaller[p]

-----------------------------------------------------------------------------
(* The application connects, disconnects and moves interfaces; a source    *)
(* stalls its pipes when nobody else does, and un-stalls them.             *)

PipesInit == net = Empty /\ holds = {} /\ stale = FALSE

Parallel(n, s, t) ==
    {p \in Pipes : GetInitialSource(n, p) = s /\ GetFinalSink(n, p) = t}

Rewire(n) == /\ ~net.fatal
             /\ \A s \in Sources, t \in Sinks :
                   Cardinality(Parallel(n, s, t)) <= MaxParallel
             /\ net' = n
             /\ stale' = (stale \/ holds # {})
             /\ UNCHANGED holds

ConnectSource(s, p) == net.source[p] = None /\ Rewire(ConnectSinkPipe(net, s, p))
ConnectSink(p, t) == net.sink[p] = None /\ Rewire(ConnectSourcePipe(net, t, p))

\* MIDI_Pipe::disconnect and its destructor; disconnect(source) and
\* disconnect(sink) call it for one pipe of that source or sink.
Disconnect(p) == Rewire(DisconnectPipe(net, p))
DisconnectSource(s) == net.sinkPipe[s] # None /\ Rewire(DisconnectSinkPipes(net, s))
DisconnectSink(t) == net.sourcePipe[t] # None /\ Rewire(DisconnectSourcePipes(net, t))

MoveSources(a, b) == a # b /\ Rewire(SwapSources(net, a, b))
MoveSinks(a, b) == a # b /\ Rewire(SwapSinks(net, a, b))

\* After a change under a stall nothing is said of stalling any more.
Stall(s) == /\ ~net.fatal /\ ~stale
            /\ s \notin holds
            /\ GetStaller(net, s) = None
            /\ net' = Stalled(net, s)
            /\ holds' = holds \cup {s}
            /\ UNCHANGED stale

Unstall(s) == /\ ~net.fatal /\ ~stale
              /\ s \in holds
              /\ net' = Unstalled(net, s)
              /\ holds' = holds \ {s}
              /\ UNCHANGED stale

PipesNext ==
    \/ \E p \in Pipes : \/ \E s \in Sources : ConnectSource(s, p)
                        \/ \E t \in Sinks : ConnectSink(p, t)
                        \/ Disconnect(p)
    \/ \E s \in Sources : DisconnectSource(s) \/ Stall(s) \/ Unstall(s)
    \/ \E t \in Sinks : DisconnectSink(t)
    \/ \E a, b \in Sources : MoveSources(a, b)
    \/ \E a, b \in Sinks : MoveSinks(a, b)

PipesSpec == PipesInit /\ [][PipesNext]_pipeVars

-----------------------------------------------------------------------------

Route(p) == [from |-> GetInitialSource(net, p), to |-> GetFinalSink(net, p)]
Reaches(s, t) == \E p \in Pipes : Route(p) = [from |-> s, to |-> t]

\* No fatal error: not when the pipes around one that disconnects are linked to
\* each other, and not when a source that found its pipes free stalls them or
\* later un-stalls them.
NoFatal == ~net.fatal

\* There was no fatal error, the fields have their types, and the two ends of
\* every link agree: who follows a link and comes back is where it was.
PipesTypeOK ==
    /\ net.source \in [Pipes -> Sources \cup Pipes \cup {None}]
    /\ net.sink \in [Pipes -> Sinks \cup Pipes \cup {None}]
    /\ net.sinkStaller \in [Pipes -> Sources \cup {None}]
    /\ net.throughStaller \in [Pipes -> Sources \cup {None}]
    /\ \A p \in Pipes : /\ \A x \in Sources \cup Pipes :
                            (net.sinkPipe[x] = p) <=> (net.source[p] = x)
                       /\ \A x \in Sinks \cup Pipes :
                            (net.sourcePipe[x] = p) <=> (net.sink[p] = x)
    /\ holds \subseteq Sources /\ stale \in BOOLEAN
    /\ NoFatal

\* A message takes each pipe of its source that has a sink once, although all
\* but one of them hang on the through output of another, and arrives at the
\* sink the pipe was connected to, although all but one of them end at another
\* pipe.
DeliversAlongRoutes ==
    \A s \in Sources :
        LET d == Deliveries(net, s)
            routed == {p \in Pipes : Route(p).from = s /\ net.sink[p] # None}
        IN  /\ Len(d) = Cardinality(routed)
            /\ {d[i] : i \in DOMAIN d} = {[pipe |-> p, sink |-> Route(p).to] : p \in routed}

\* "This means that this becomes the only source that can sink to the sinks
\* connected to this source" (MIDI_Pipes.hpp:196): of a source that shares a sink
\* with one that stalls, getStaller() names a staller, of any other it does not.
ExclusiveAccess ==
    stale \/ \A s \in Sources \ holds :
        (GetStaller(net, s) # None)
            <=> \E h \in holds, t \in Sinks : Reaches(h, t) /\ Reaches(s, t)

\* Connecting, disconnecting and moving do to the routes what they promise.
Routing == INSTANCE MIDIRouting WITH route <- [p \in Pipes |-> Route(p)]
RoutingSpec == Routing!Spec
===============================================================================
