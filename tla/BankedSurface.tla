---------------------------- MODULE BankedSurface ----------------------------
(***************************************************************************)
(* A control surface with a bank: a selector with LEDs that selects one of *)
(* its settings, and an element in the bank whose note the setting shifts. *)
(* A round of the main loop updates the selector, then the element         *)
(* (Updatable<>::updateAll), and then takes the incoming messages          *)
(* (updateMidiInput).  Nothing preempts it.  Buttons change and time       *)
(* passes between rounds: a round reads every pin once, so that a change   *)
(* in its middle is as good as one before or after it.                     *)
(***************************************************************************)
EXTENDS Selector, IncrementDecrementButtons, BankableElements

CONSTANTS Surfaces,      \* the selectors and elements: records as below
          Incoming,      \* the notes the host may send
          MaxChanges     \* bound on the presses, releases and host messages,
                         \* by the kind of selector

ASSUME SurfacesAssumption ==
    /\ Surfaces \subseteq
         [selector : {"buttons", "many", "program"}, wrap : BOOLEAN,
          element : {"keys", "chord", "latch", "led"}]
    /\ Incoming \subseteq Notes
    /\ MaxChanges \in [{"buttons", "many", "program"} -> Nat]

VARIABLES surface,     \* what this surface consists of
          selDown,     \* which buttons of the selector are down
          selButtons,  \* their Button objects
          pair,        \* the long press state of an increment-decrement pair
          sel,         \* the selector
          keyDown,     \* which keys of the element are down
          keys,        \* their Button objects
          out,         \* the output element
          input,       \* the input element
          turn,        \* what the main loop updates next
          index,       \* the button that the loop over its buttons is at
          heard,       \* history: the notes the host has turned on
          changes,     \* the changes so far, for the bound
          moved,       \* history: a reset has changed the setting
          swapped      \* history: since both buttons were up, one was pressed
                       \* in the update that saw the other released

vars == <<surface, selDown, selButtons, pair, sel, keyDown, keys, out, input,
          turn, index, heard, changes, moved, swapped>>

SelectorPins == CASE surface.selector = "buttons" -> {"incr", "decr"}
                  [] surface.selector = "many" -> Settings
                  [] surface.selector = "program" -> {}

ElementKeys == CASE surface.element = "keys" -> Keys
                 [] surface.element \in {"chord", "latch"} -> {0}
                 [] surface.element = "led" -> {}

(* The buttons that the update in progress looks at one by one.            *)
Looped == IF turn = "selector" /\ surface.selector = "many" THEN Settings
          ELSE IF turn = "element" /\ surface.element = "keys" THEN Keys
          ELSE {0}

TypeOK ==
    /\ surface \in Surfaces
    /\ selDown \in [SelectorPins -> BOOLEAN]
    /\ selButtons \in [SelectorPins -> Buttons]
    /\ pair \in Pairs
    /\ sel \in Selectors
    /\ keyDown \in [ElementKeys -> BOOLEAN]
    /\ keys \in [ElementKeys -> Buttons]
    /\ out \in Outputs
    /\ input \in Inputs
    /\ turn \in {"selector", "element"}
    /\ index \in Looped
    /\ heard \subseteq Notes
    /\ changes \in 0..MaxChanges[surface.selector]
    /\ moved \in BOOLEAN /\ swapped \in BOOLEAN

Init ==
    /\ surface \in Surfaces
    /\ selDown = [p \in SelectorPins |-> FALSE]
    /\ selButtons = [p \in SelectorPins |-> NewButton]
    /\ pair = NewPair
    /\ sel = Begun
    /\ keyDown = [k \in ElementKeys |-> FALSE]
    /\ keys = [k \in ElementKeys |-> NewButton]
    /\ \E chord \in Chords : out = NewOutput(chord)
    /\ input = NewInput
    /\ turn = "selector" /\ index = 0
    /\ heard = {}
    /\ changes = 0
    /\ moved = FALSE /\ swapped = FALSE

-----------------------------------------------------------------------------
(* The world around the program.                                           *)

BetweenRounds == turn = "selector" /\ index = 0

Changed == /\ changes < MaxChanges[surface.selector]
           /\ changes' = changes + 1

ToggleSelectorPin(p) ==
    /\ BetweenRounds /\ Changed
    /\ selDown' = [selDown EXCEPT ![p] = ~@]
    /\ UNCHANGED <<surface, selButtons, pair, sel, keyDown, keys, out, input,
                   turn, index, heard, moved, swapped>>

ToggleKey(k) ==
    /\ BetweenRounds /\ Changed
    /\ keyDown' = [keyDown EXCEPT ![k] = ~@]
    /\ UNCHANGED <<surface, selDown, selButtons, pair, sel, keys, out, input,
                   turn, index, heard, moved, swapped>>

Tick ==
    /\ BetweenRounds
    /\ selButtons' = [p \in SelectorPins |-> Older(selButtons[p])]
    /\ keys' = [k \in ElementKeys |-> Older(keys[k])]
    /\ pair' = IF pair.press = "LongPress" THEN PairOlder(pair) ELSE pair
    /\ UNCHANGED <<surface, selDown, sel, keyDown, out, input, turn,
                   index, heard, changes, moved, swapped>>

-----------------------------------------------------------------------------
(* The main loop.                                                          *)

(* Bank::select() notifies the input elements of the bank.  (Selecting the *)
(* present setting again shows the value that is shown already.)           *)
Select(new) ==
    /\ sel' = new
    /\ input' = IF new = sel THEN input ELSE Displayed(input, new.selection)
    /\ UNCHANGED <<surface, selDown, keyDown, keys, out, heard, changes>>

(* GenericIncrementDecrementSelector::update().                            *)
UpdateSelectorPair ==
    /\ turn = "selector" /\ surface.selector = "buttons"
    /\ selButtons' = [p \in SelectorPins |-> Sample(selButtons[p], selDown[p])]
    /\ LET i == selButtons'["incr"]
           d == selButtons'["decr"]
           updated == UpdatePair(pair, i, d)
       IN  /\ pair' = updated[1]
           /\ swapped' = (/\ ~BothReleased(i, d)
                          /\ \/ swapped
                             \/ Falling(i) /\ Rising(d)
                             \/ Rising(i) /\ Falling(d))
           /\ moved' = (\/ moved
                        \/ updated[2] = "Reset" /\ sel.setting # InitialSelection)
           /\ \/ updated[2] = "Nothing" /\ Select(sel)
              \/ updated[2] = "Increment" /\ Select(Increment(sel, surface.wrap))
              \/ updated[2] = "Decrement" /\ Select(Decrement(sel, surface.wrap))
              \/ updated[2] = "Reset" /\ Select(Reset(sel))
    /\ turn' = "element" /\ UNCHANGED index

(* The next button of the loop, or the end of it and what comes then.      *)
Advance(buttons, then) ==
    IF index + 1 < buttons THEN index' = index + 1 /\ UNCHANGED turn
    ELSE index' = 0 /\ turn' = then

(* GenericManyButtonsSelector::update(), one button: when it looks at      *)
(* this one, the buttons after it have not been updated.                   *)
UpdateManyButtons ==
    /\ turn = "selector" /\ surface.selector = "many"
    /\ selButtons' = [selButtons EXCEPT ![index] = Sample(@, selDown[index])]
    /\ \/ /\ Falling(selButtons'[index])
          /\ ~Pressed(selButtons'[sel.setting])
          /\ Select(Set(sel, index))
       \/ /\ \/ ~Falling(selButtons'[index])
             \/ Pressed(selButtons'[sel.setting])
          /\ Select(sel)
    /\ Advance(NumBanks, "element")
    /\ UNCHANGED <<pair, moved, swapped>>

(* A selector that acts on incoming program changes has no update.         *)
SkipSelector ==
    /\ turn = "selector" /\ surface.selector = "program"
    /\ turn' = "element"
    /\ UNCHANGED <<surface, selDown, selButtons, pair, sel, keyDown, keys, out,
                   input, index, heard, changes, moved, swapped>>

(* MIDIButtons::update(), one button.                                      *)
UpdateKey ==
    /\ turn = "element" /\ surface.element = "keys"
    /\ keys' = [keys EXCEPT ![index] = Sample(@, keyDown[index])]
    /\ out' = KeyUpdated(out, index, keys'[index], sel.selection)
    /\ Advance(NumKeys, "selector")
    /\ UNCHANGED <<surface, selDown, selButtons, pair, sel, keyDown, input,
                   heard, changes, moved, swapped>>

UpdateElement ==
    /\ turn = "element" /\ surface.element # "keys"
    /\ keys' = [k \in ElementKeys |-> Sample(keys[k], keyDown[k])]
    /\ \/ /\ surface.element = "chord"
          /\ out' = ChordUpdated(out, keys'[0], sel.selection)
       \/ /\ surface.element = "latch"
          /\ out' = LatchUpdated(out, keys'[0], sel.selection)
       \/ surface.element = "led" /\ UNCHANGED out
    /\ turn' = "selector"
    /\ UNCHANGED <<surface, selDown, selButtons, pair, sel, keyDown, input,
                   index, heard, changes, moved, swapped>>

(* The sketch replaces the chord between two rounds.                       *)
SetChord(chord) ==
    /\ BetweenRounds /\ surface.element = "chord"
    /\ out.newChord # chord
    /\ out' = [out EXCEPT !.newChord = chord]
    /\ UNCHANGED <<surface, selDown, selButtons, pair, sel, keyDown, keys,
                   input, turn, index, heard, changes, moved, swapped>>

(* An incoming note.                                                       *)
ReceiveNote(note, on) ==
    /\ BetweenRounds /\ surface.element = "led"
    /\ Changed
    /\ heard' = IF on THEN heard \union {note} ELSE heard \ {note}
    /\ input' = Heard(input, note, on, sel.selection)
    /\ UNCHANGED <<surface, selDown, selButtons, pair, sel, keyDown, keys, out,
                   turn, index, moved, swapped>>

(* All Notes Off resets the input elements that listen for notes.          *)
ReceiveAllNotesOff ==
    /\ BetweenRounds /\ surface.element = "led"
    /\ Changed
    /\ heard' = {}
    /\ input' = NewInput
    /\ UNCHANGED <<surface, selDown, selButtons, pair, sel, keyDown, keys, out,
                   turn, index, moved, swapped>>

(* GenericProgramChangeSelector::handleUpdate().                           *)
ReceiveProgram(program) ==
    /\ BetweenRounds /\ surface.selector = "program"
    /\ Changed
    /\ sel' = IF program < NumBanks THEN Set(sel, program) ELSE sel
    /\ input' = IF program < NumBanks THEN Displayed(input, program) ELSE input
    /\ UNCHANGED <<surface, selDown, selButtons, pair, keyDown, keys, out,
                   turn, index, heard, moved, swapped>>

Loop == UpdateSelectorPair \/ UpdateManyButtons \/ SkipSelector
        \/ UpdateKey \/ UpdateElement

Next ==
    \/ \E p \in SelectorPins : ToggleSelectorPin(p)
    \/ \E k \in ElementKeys : ToggleKey(k)
    \/ Tick
    \/ Loop
    \/ \E chord \in Chords : SetChord(chord)
    \/ \E note \in Incoming, on \in BOOLEAN : ReceiveNote(note, on)
    \/ ReceiveAllNotesOff
    \/ \E program \in 0..NumBanks : ReceiveProgram(program)

Spec == Init /\ [][Next]_vars

(* The main loop keeps running, and time keeps passing between its rounds. *)
FairSpec == Spec /\ WF_vars(Loop) /\ SF_vars(Tick)

-----------------------------------------------------------------------------
(* The variables have their types, and selector, bank and LEDs agree: the  *)
(* bank has the setting of the selector, whose LED is on, and until a      *)
(* reset has changed the setting, which leaves the LED of the old one on,  *)
(* no other LED is.                                                        *)
SelectorAgrees ==
    /\ TypeOK
    /\ sel.selection = sel.setting
    /\ sel.setting \in sel.lit
    /\ ~moved => sel.lit = {sel.setting}

(* SelectorLEDs.hpp:92: "This version displays the setting using LEDs."    *)
LedsShowSetting == sel.lit = {sel.setting}

(* No 'sticky' notes: when none of its keys is pressed a momentary element *)
(* has no note on, wherever the bank went meanwhile, and a latched one has *)
(* exactly the notes of the settings it is on for.                         *)
NoStickyNotes ==
    /\ surface.element \in {"keys", "chord"} =>
         ((\A k \in ElementKeys : ~keys[k].is) => out.sounding = {})
    /\ surface.element = "latch" =>
         out.sounding = {AddressOf(Base, s) : s \in {t \in Settings : out.states[t]}}

(* A bankable LED shows what the host last said of the note that the       *)
(* element has at the present setting, as the outputs compute it.          *)
LedShowsHost ==
    surface.element = "led" =>
        (input.led <=> AddressOf(Base, sel.selection) \in heard)

(* A setting changes without a press only while one button has been down   *)
(* for the time of a long press; unless the buttons were swapped.          *)
HoldNeedsLongPress ==
    [][surface.selector = "buttons" /\ sel'.setting # sel.setting =>
        \/ swapped'
        \/ \E p \in SelectorPins :
              \/ Falling(selButtons'[p])
              \/ Pressed(selButtons'[p]) /\ selButtons'[p].age >= LongPressDelay]_vars

(* A key that stays down sounds, and keys that stay up fall silent.        *)
KeysSettle ==
    LET up == \A k \in ElementKeys : ~keyDown[k]
        momentary == surface.element \in {"keys", "chord"}
    IN  /\ (momentary /\ up) ~> (out.sounding = {} \/ ~up)
        /\ (momentary /\ ~up) ~> (out.sounding # {} \/ up)
=============================================================================
