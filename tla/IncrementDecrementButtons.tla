--------------------- MODULE IncrementDecrementButtons ---------------------
(***************************************************************************)
(* The pair of buttons of AH/Hardware/IncrementDecrementButtons.cpp as a   *)
(* record: what one update makes of the two buttons, sampled already, and  *)
(* of the time they have been stable.                                      *)
(***************************************************************************)
EXTENDS Button

CONSTANTS LongPressDelay,    \* LONG_PRESS_DELAY, in ticks of the model
          RepeatDelay        \* LONG_PRESS_REPEAT_DELAY, in ticks of the model

ASSUME LongPressAssumption == /\ LongPressDelay \in 1..MaxAge
                              /\ RepeatDelay \in 1..MaxAge

(* `repeat` is the time since longPressRepeat, up to MaxAge.               *)
Pairs == [press : {"Initial", "LongPress", "AfterReset"}, repeat : 0..MaxAge]

NewPair == [press |-> "Initial", repeat |-> 0]

PairOlder(p) == [p EXCEPT !.repeat = IF @ < MaxAge THEN @ + 1 ELSE @]

BothReleased(i, d) == \/ Rising(d) /\ Released(i)
                      \/ Rising(i) /\ Released(d)
                      \/ Rising(i) /\ Rising(d)

(* One button falls while the other is down, or both fall at once.         *)
PressedTogether(i, d) == \/ Falling(i) /\ (Falling(d) \/ Pressed(d))
                         \/ Falling(d) /\ Pressed(i)

(* Held(p, b): what holding b alone does; <<the pair, whether it counts>>. *)
Held(p, b) ==
    IF p.press = "LongPress"
    THEN IF p.repeat >= RepeatDelay
         THEN <<[p EXCEPT !.repeat = @ - RepeatDelay], TRUE>>
         ELSE <<p, FALSE>>
    ELSE IF b.age >= LongPressDelay
         THEN <<[press |-> "LongPress", repeat |-> 0], TRUE>>
         ELSE <<p, FALSE>>

(* Mutant: releasing the buttons does not end a long press.                *)
UpdatePairKeepsPress(p, i, d) ==
    IF PressedTogether(i, d) THEN <<[p EXCEPT !.press = "AfterReset"], "Reset">>
    ELSE IF Falling(i) THEN <<p, "Increment">>
    ELSE IF Falling(d) THEN <<p, "Decrement">>
    ELSE IF Pressed(i) # Pressed(d) /\ p.press # "AfterReset"
    THEN LET held == Held(p, IF Pressed(i) THEN i ELSE d)
             done == IF Pressed(i) THEN "Increment" ELSE "Decrement"
         IN  <<held[1], IF held[2] THEN done ELSE "Nothing">>
    ELSE <<p, "Nothing">>

(* updateImplementation(): <<the pair after it, what the owner has to do>>. *)
(* A button that rises while the other one falls or is pressed leaves      *)
(* longPressState alone.                                                   *)
UpdatePair(p, i, d) ==
    IF BothReleased(i, d) THEN <<[p EXCEPT !.press = "Initial"], "Nothing">>
    ELSE IF PressedTogether(i, d)
    THEN <<[p EXCEPT !.press = "AfterReset"], "Reset">>
    ELSE IF Falling(i) THEN <<p, "Increment">>
    ELSE IF Falling(d) THEN <<p, "Decrement">>
    ELSE IF Pressed(i) # Pressed(d) /\ p.press # "AfterReset"
    THEN LET held == Held(p, IF Pressed(i) THEN i ELSE d)
             done == IF Pressed(i) THEN "Increment" ELSE "Decrement"
         IN  <<held[1], IF held[2] THEN done ELSE "Nothing">>
    ELSE <<p, "Nothing">>
=============================================================================
