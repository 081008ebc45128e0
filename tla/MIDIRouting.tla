------------------------------ MODULE MIDIRouting ------------------------------
(***************************************************************************)
(* What MIDI pipes promise to the application: each pipe has at most one   *)
(* source and one sink, connecting or disconnecting a pipe changes nothing *)
(* about any other pipe, and moving an interface takes its pipes along.    *)
(***************************************************************************)
CONSTANTS Sources, Sinks, Pipes, None

VARIABLE route    \* [Pipes -> [from: source or None, to: sink or None]]

NoRoute == [from |-> None, to |-> None]

Init == route = [p \in Pipes |-> NoRoute]

ConnectSource(p, s) == /\ route[p].from = None
                       /\ route' = [route EXCEPT ![p].from = s]

ConnectSink(p, t) == /\ route[p].to = None
                     /\ route' = [route EXCEPT ![p].to = t]

\* One pipe loses both ends.
Disconnect(p) == route' = [route EXCEPT ![p] = NoRoute]

\* All pipes of a source or of a sink lose both ends.
DisconnectEnd(e) ==
    route' = [p \in Pipes |->
                IF e \in {route[p].from, route[p].to} THEN NoRoute ELSE route[p]]

\* Two interfaces change places.
Swap(a, b) ==
    LET other(e) == IF e = a THEN b ELSE IF e = b THEN a ELSE e
    IN  route' = [p \in Pipes |-> [from |-> other(route[p].from),
                                   to   |-> other(route[p].to)]]

Next == \/ \E p \in Pipes :
              \/ \E s \in Sources : ConnectSource(p, s)
              \/ \E t \in Sinks : ConnectSink(p, t)
              \/ Disconnect(p)
        \/ \E e \in Sources \cup Sinks : DisconnectEnd(e)
        \/ \E a, b \in Sources : Swap(a, b)
        \/ \E a, b \in Sinks : Swap(a, b)

Spec == Init /\ [][Next]_route
===============================================================================
