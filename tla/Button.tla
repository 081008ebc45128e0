------------------------------- MODULE Button -------------------------------
(***************************************************************************)
(* A debounced push button, AH/Hardware/Button.cpp, as a record that its    *)
(* owner updates once per round of the main loop.  Times are kept as ages: *)
(* `age` is the time since prevBounceTime, up to MaxAge, beyond which no   *)
(* comparison of the code tells two ages apart.                            *)
(***************************************************************************)
EXTENDS Naturals

CONSTANTS DebounceTime,    \* BUTTON_DEBOUNCE_TIME, in ticks of the model
          MaxAge           \* bound on the ages that are kept

ASSUME AgesAssumption == /\ DebounceTime \in Nat
                         /\ MaxAge \in Nat
                         /\ DebounceTime < MaxAge

(* `was` and `is` are the two bits of `debounced`, TRUE for a pressed      *)
(* button (the pins are active low), and `input` is prevInput.             *)
Buttons == [was : BOOLEAN, is : BOOLEAN, bouncing : BOOLEAN, input : BOOLEAN,
            age : 0..MaxAge]

NewButton == [was |-> FALSE, is |-> FALSE, bouncing |-> TRUE, input |-> FALSE,
              age |-> 0]

Released(b) == ~b.was /\ ~b.is
Falling(b)  == ~b.was /\ b.is
Pressed(b)  == b.was /\ b.is
Rising(b)   == b.was /\ ~b.is

(* Mutant: bouncing starts whenever the pin differs from the debounced     *)
(* state, so that a held button bounces again at every update.             *)
SampleStale(b, down) ==
    LET bouncing == b.bouncing /\ b.age <= DebounceTime
        next == [b EXCEPT !.was = b.is, !.is = IF bouncing THEN b.is ELSE down,
                          !.bouncing = bouncing]
    IN  IF down # b.is
        THEN [next EXCEPT !.bouncing = TRUE, !.input = down, !.age = 0]
        ELSE next

(* One update: a change of the pin is taken over at once unless the button *)
(* still bounces, and makes it bounce.                                     *)
Sample(b, down) ==
    LET bouncing == b.bouncing /\ b.age <= DebounceTime
        next == [b EXCEPT !.was = b.is, !.is = IF bouncing THEN b.is ELSE down,
                          !.bouncing = bouncing]
    IN  IF down # b.input
        THEN [next EXCEPT !.bouncing = TRUE, !.input = down, !.age = 0]
        ELSE next

Older(b) == [b EXCEPT !.age = IF @ < MaxAge THEN @ + 1 ELSE @]
=============================================================================
