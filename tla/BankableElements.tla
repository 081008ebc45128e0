-------------------------- MODULE BankableElements --------------------------
(***************************************************************************)
(* The bankable output elements of MIDI_Outputs/Bankable/Abstract that     *)
(* send notes, as operators on a record of their fields and of the notes   *)
(* the receiver of their messages has on; and the bankable LED that        *)
(* listens for notes (Bankable::NoteCCKPLED).                              *)
(***************************************************************************)
EXTENDS Bank, Button

CONSTANTS Base,         \* the note of the first button at bank offset 0
          NumKeys,      \* buttons of a MIDIButtons
          Chords,       \* offsets of the chords that setChord may be given
          Unlocked,     \* lockedSetting without a lock
          NoChord       \* a null pointer to a chord

ASSUME ElementsAssumption == /\ Base \in 0..127
                             /\ NumKeys \in 1..255
                             /\ Chords # {}
                             /\ Chords \subseteq SUBSET (1..127)
                             /\ Unlocked \notin Settings
                             /\ NoChord \notin Chords

Keys == 0..NumKeys - 1
Notes == 0..127

Outputs == [locked : Settings \union {Unlocked}, active : 0..NumKeys,
            chord : Chords \union {NoChord}, newChord : Chords \union {NoChord},
            states : [Settings -> BOOLEAN], sounding : SUBSET Notes]

NewOutput(chord) ==
    [locked |-> Unlocked, active |-> 0, chord |-> NoChord, newChord |-> chord,
     states |-> [s \in Settings |-> FALSE], sounding |-> {}]

-----------------------------------------------------------------------------
(* OutputBankableMIDIAddress: the setting is frozen while it is locked.    *)

Selection(out, selection) ==
    IF out.locked = Unlocked THEN selection ELSE out.locked

Locked(out, selection) == [out EXCEPT !.locked = Selection(out, selection)]

ActiveAddress(out, selection) == AddressOf(Base, Selection(out, selection))

Note(address, offset) == (address + offset) % 128

On(out, notes)  == [out EXCEPT !.sounding = @ \union notes]
Off(out, notes) == [out EXCEPT !.sounding = @ \ notes]

-----------------------------------------------------------------------------
(* MIDIButtons: all its buttons share one lock, held while one is pressed. *)
(* What the loop of update() does for button k.                            *)

(* Mutant: every release unlocks the bank setting.                         *)
KeyUpdatedUnlocks(out, k, key, selection) ==
    LET down == IF out.active = 0 THEN Locked(out, selection) ELSE out
        note(o) == {Note(ActiveAddress(o, selection), k)}
        up == Off(out, note(out))
    IN  IF Falling(key) THEN [On(down, note(down)) EXCEPT !.active = @ + 1]
        ELSE IF Rising(key)
        THEN [up EXCEPT !.active = @ - 1, !.locked = Unlocked]
        ELSE out

KeyUpdated(out, k, key, selection) ==
    LET down == IF out.active = 0 THEN Locked(out, selection) ELSE out
        note(o) == {Note(ActiveAddress(o, selection), k)}
        up == Off(out, note(out))
    IN  IF Falling(key) THEN [On(down, note(down)) EXCEPT !.active = @ + 1]
        ELSE IF Rising(key)
        THEN [up EXCEPT !.active = @ - 1,
                        !.locked = IF out.active = 1 THEN Unlocked ELSE @]
        ELSE out

-----------------------------------------------------------------------------
(* MIDIChordButton: a base note and the notes of a chord.  A new chord     *)
(* waits for the next press.                                               *)

ChordNotes(out, selection) ==
    {Note(ActiveAddress(out, selection), offset) :
        offset \in {0} \union out.chord}

ChordUpdated(out, key, selection) ==
    LET chosen == IF out.newChord = NoChord THEN out
                  ELSE [out EXCEPT !.chord = out.newChord,
                                   !.newChord = NoChord]
        down == Locked(chosen, selection)
    IN  IF Falling(key) THEN On(down, ChordNotes(down, selection))
        ELSE IF Rising(key)
        THEN [Off(out, ChordNotes(out, selection)) EXCEPT !.locked = Unlocked]
        ELSE out

-----------------------------------------------------------------------------
(* MIDIButtonLatched: one state per setting, toggled by a press.           *)

LatchUpdated(out, key, selection) ==
    LET s == Selection(out, selection)
        new == [out EXCEPT !.states[s] = ~@]
        note == {ActiveAddress(out, selection)}
    IN  IF ~Falling(key) THEN out
        ELSE IF new.states[s] THEN On(new, note) ELSE Off(new, note)

-----------------------------------------------------------------------------
(* Bankable::NoteCCKPLED with its threshold at 1: the values it has heard  *)
(* for all settings (zero or not), and its LED.                            *)

Inputs == [values : [Settings -> BOOLEAN], led : BOOLEAN]

NewInput == [values |-> [s \in Settings |-> FALSE], led |-> FALSE]

(* onBankSettingChange().                                                  *)
Displayed(input, selection) == [input EXCEPT !.led = input.values[selection]]

(* Mutant: the LED shows every note that matches.                          *)
HeardAny(input, note, on, selection) ==
    IF ~MatchBankable(note, Base) THEN input
    ELSE [input EXCEPT !.values[BankIndex(note, Base)] = on, !.led = on]

Heard(input, note, on, selection) ==
    LET s == BankIndex(note, Base)
        new == [input EXCEPT !.values[s] = on]
    IN  IF ~MatchBankable(note, Base) THEN input
        ELSE IF input.values[s] # on /\ s = selection
        THEN Displayed(new, selection) ELSE new
=============================================================================
