------------------------- MODULE BankedSurface_proofs -------------------------
(***************************************************************************)
(* Proofs about BankedSurface, for every number of settings and of keys,   *)
(* all notes, chords, delays and combinations of selector and element.     *)
(*                                                                         *)
(* The operators on records come first: what a button, a pair, a selector, *)
(* a key, a chord, a latch or an LED promises of its own fields, and that  *)
(* its update keeps that promise (Sample..., ChangedTo, KeysGood,          *)
(* ChordGood, LatchGood, InputGood, HoldGood).  The invariants say that    *)
(* the parts of the surface keep these promises to each other, and each    *)
(* action has a lemma that applies them.                                   *)
(***************************************************************************)
EXTENDS BankedSurface, FiniteSetTheorems, TLAPS

-----------------------------------------------------------------------------
(* Buttons and pairs of buttons.                                           *)

LEMMA SampleType ==
    ASSUME NEW b \in Buttons, NEW down \in BOOLEAN
    PROVE  /\ Sample(b, down) \in Buttons
           /\ Sample(b, down).was = b.is
  <1>1. 0 \in 0..MaxAge
    BY AgesAssumption
  <1> DEFINE bouncing == b.bouncing /\ b.age <= DebounceTime
             next == [b EXCEPT !.was = b.is,
                               !.is = IF bouncing THEN b.is ELSE down,
                               !.bouncing = bouncing]
  <1>2. bouncing \in BOOLEAN
    OBVIOUS
  <1>3. next \in Buttons /\ next.was = b.is
    <2> HIDE DEF bouncing
    <2> QED BY <1>2 DEF Buttons
  <1>4. [next EXCEPT !.bouncing = TRUE, !.input = down, !.age = 0] \in Buttons
        /\ [next EXCEPT !.bouncing = TRUE, !.input = down, !.age = 0].was = b.is
    <2> HIDE DEF next
    <2> QED BY <1>1, <1>3 DEF Buttons
  <1>5. Sample(b, down) = IF down # b.input
          THEN [next EXCEPT !.bouncing = TRUE, !.input = down, !.age = 0]
          ELSE next
    BY DEF Sample
  <1> QED BY <1>3, <1>4, <1>5

LEMMA OlderType ==
    ASSUME NEW b \in Buttons
    PROVE  /\ Older(b) \in Buttons
           /\ Older(b).is = b.is
  BY AgesAssumption, SMT DEF Older, Buttons

LEMMA NewButtonType == NewButton \in Buttons
  BY AgesAssumption, SMT DEF NewButton, Buttons

LEMMA PairType ==
    ASSUME NEW p \in Pairs, NEW i \in Buttons, NEW d \in Buttons
    PROVE  /\ UpdatePair(p, i, d)[1] \in Pairs
           /\ PairOlder(p) \in Pairs
           /\ NewPair \in Pairs
  <1> USE AgesAssumption, LongPressAssumption
  <1>1. ASSUME NEW b \in Buttons PROVE Held(p, b)[1] \in Pairs
    BY <1>1, SMT DEF Held, Pairs, Buttons
  <1>2. UpdatePair(p, i, d)[1] \in Pairs
    <2>1. [p EXCEPT !.press = "Initial"] \in Pairs
      BY DEF Pairs
    <2>2. [p EXCEPT !.press = "AfterReset"] \in Pairs
      BY DEF Pairs
    <2> QED BY <1>1, <2>1, <2>2, SMT DEF UpdatePair
  <1> QED BY <1>2, SMT DEF PairOlder, NewPair, Pairs

LEMMA SettingsType ==
    /\ NumBanks \in Nat /\ 0 \in Settings /\ NumBanks - 1 \in Settings
    /\ Settings \subseteq Nat /\ InitialSelection \in Settings
  BY BankAssumption, SelectionAssumption, SMT DEF Settings

SelectorOK(s) == s.selection = s.setting /\ s.setting \in s.lit

(* A selector that announces a change from `old` to `new`.                 *)
ChangedTo(s, old, new) ==
    [s EXCEPT !.selection = new, !.setting = new,
              !.lit = LedsUpdated(s, old, new)]

LEMMA ChangeOK ==
    ASSUME NEW s \in Selectors, NEW old \in Settings, NEW new \in Settings
    PROVE  /\ ChangedTo(s, old, new) \in Selectors
           /\ SelectorOK(ChangedTo(s, old, new))
           /\ ChangedTo(s, old, new).setting = new
           /\ s.lit \subseteq {old} => ChangedTo(s, old, new).lit = {new}
  <1> DEFINE lit == LedsUpdated(s, old, new)
  <1>1. /\ lit \in SUBSET Settings
        /\ new \in lit
        /\ s.lit \subseteq {old} => lit = {new}
    BY DEF LedsUpdated, Selectors
  <1>2. ChangedTo(s, old, new) =
          [s EXCEPT !.selection = new, !.setting = new, !.lit = lit]
    BY DEF ChangedTo
  <1> HIDE DEF lit
  <1>3. ChangedTo(s, old, new) =
          [setting |-> new, selection |-> new, lit |-> lit]
    BY <1>2 DEF Selectors
  <1> QED BY <1>1, <1>3 DEF Selectors, SelectorOK

LEMMA SetOK ==
    ASSUME NEW s \in Selectors, SelectorOK(s), NEW n \in Nat
    PROVE  /\ Set(s, n) \in Selectors /\ SelectorOK(Set(s, n))
           /\ s.lit = {s.setting} => Set(s, n).lit = {Set(s, n).setting}
  <1> DEFINE new == ValidateSetting(n)
  <1>1. new \in Settings
    BY SettingsType DEF ValidateSetting, Settings
  <1>2. s.setting \in Settings
    BY DEF Selectors
  <1>3. CASE s.setting = new
    <2>1. Set(s, n) = [s EXCEPT !.selection = new]
      BY <1>3 DEF Set
    <2>2. Set(s, n) = s
      BY <1>3, <2>1 DEF Selectors, SelectorOK
    <2> QED BY <2>2
  <1>4. CASE s.setting # new
    <2>1. Set(s, n) = ChangedTo(s, s.setting, new)
      BY <1>4 DEF Set, ChangedTo
    <2> HIDE DEF new
    <2> QED BY <1>1, <1>2, <2>1, ChangeOK
  <1> QED BY <1>3, <1>4

LEMMA ResetOK ==
    ASSUME NEW s \in Selectors
    PROVE  /\ Reset(s) \in Selectors /\ SelectorOK(Reset(s))
           /\ s.lit \subseteq {InitialSelection} =>
                Reset(s).lit = {Reset(s).setting}
           /\ Reset(s).setting = InitialSelection
  <1>1. Reset(s) = ChangedTo(s, InitialSelection, InitialSelection)
    BY DEF Reset, ChangedTo, Selectors
  <1>2. InitialSelection \in Settings
    BY SettingsType
  <1> HIDE DEF Reset
  <1> QED BY <1>1, <1>2, ChangeOK

LEMMA StepOK ==
    ASSUME NEW s \in Selectors, SelectorOK(s), NEW wrap \in BOOLEAN
    PROVE  /\ Increment(s, wrap) \in Selectors /\ SelectorOK(Increment(s, wrap))
           /\ s.lit = {s.setting} =>
                Increment(s, wrap).lit = {Increment(s, wrap).setting}
           /\ Decrement(s, wrap) \in Selectors /\ SelectorOK(Decrement(s, wrap))
           /\ s.lit = {s.setting} =>
                Decrement(s, wrap).lit = {Decrement(s, wrap).setting}
  <1>1. s.setting \in Nat /\ s.setting + 1 \in Nat /\ NumBanks - 1 \in Nat
        /\ (s.setting > 0 => s.setting - 1 \in Nat)
    BY SettingsType DEF Selectors, Settings
  <1> DEFINE Good(t) == /\ t \in Selectors /\ SelectorOK(t)
                        /\ s.lit = {s.setting} => t.lit = {t.setting}
  <1>2. \A n \in Nat : Good(Set(s, n))
    BY SetOK
  <1>3. Good(s)
    OBVIOUS
  <1> HIDE DEF Good
  <1>4. Good(Increment(s, wrap)) /\ Good(Decrement(s, wrap))
    BY <1>1, <1>2, <1>3 DEF Increment, Decrement
  <1> QED BY <1>4 DEF Good

LEMMA BegunOK == /\ Begun \in Selectors /\ SelectorOK(Begun)
                 /\ Begun.lit = {Begun.setting}
  <1> DEFINE s == [setting |-> 0, selection |-> InitialSelection, lit |-> {}]
  <1>1. s \in Selectors /\ s.lit \subseteq {InitialSelection}
    BY SettingsType DEF Selectors
  <1>2. Begun = Reset(s)
    BY DEF Begun
  <1> HIDE DEF s
  <1> QED BY <1>1, <1>2, ResetOK

-----------------------------------------------------------------------------

LEMMA NoteType == \A a, o \in Int : Note(a, o) \in Notes
  BY SMT DEF Note, Notes

LEMMA AddressType == \A s \in Settings : AddressOf(Base, s) \in Notes
  <1> TAKE s \in Settings
  <1>1. (s + SelectionOffset) * TracksPerBank \in Int
    BY BankAssumption DEF Settings
  <1>2. \A n \in Int : Int8(n) \in Int
    BY DEF Int8
  <1>3. OffsetOfSetting(s) \in Int
    BY <1>1, <1>2 DEF OffsetOfSetting
  <1>4. Base + OffsetOfSetting(s) \in Int
    BY <1>3, ElementsAssumption
  <1>5. \A n \in Int : n % 128 \in 0..127
    OBVIOUS
  <1> QED BY <1>4, <1>5 DEF AddressOf, Notes

LEMMA KeyNumbers == /\ Keys \subseteq Nat /\ 0 \in Keys
                    /\ IsFiniteSet(Keys) /\ Cardinality(Keys) = NumKeys
                    /\ NumKeys \in Nat
  <1>1. NumKeys \in Nat /\ NumKeys > 0
    BY ElementsAssumption
  <1>2. IsFiniteSet(0..NumKeys - 1) /\ Cardinality(0..NumKeys - 1) = NumKeys
    <2>1. 0 \in Int /\ NumKeys - 1 \in Int
      BY <1>1
    <2>2. /\ IsFiniteSet(0..NumKeys - 1)
          /\ Cardinality(0..NumKeys - 1) =
               IF 0 > NumKeys - 1 THEN 0 ELSE (NumKeys - 1) - 0 + 1
      BY <2>1, FS_Interval
    <2> QED BY <1>1, <2>2
  <1> QED BY <1>1, <1>2 DEF Keys

(* What a momentary element of several buttons has on when D are down.     *)
KeysGood(o, D) ==
    /\ o \in Outputs /\ D \subseteq Keys
    /\ o.active = Cardinality(D)
    /\ o.locked = Unlocked <=> D = {}
    /\ o.sounding \subseteq {Note(AddressOf(Base, o.locked), k) : k \in D}

LEMMA KeyPressed ==
    ASSUME NEW o, NEW D, KeysGood(o, D), NEW k \in Keys \ D, NEW key, Falling(key),
           NEW selection \in Settings
    PROVE  KeysGood(KeyUpdated(o, k, key, selection), D \union {k})
  <1> DEFINE L == IF D = {} THEN selection ELSE o.locked
             note == Note(AddressOf(Base, L), k)
             new == KeyUpdated(o, k, key, selection)
  <1>1. o \in Outputs /\ D \subseteq Keys /\ o.active = Cardinality(D)
    BY DEF KeysGood
  <1>2. IsFiniteSet(D) /\ Cardinality(D \union {k}) = Cardinality(D) + 1
        /\ Cardinality(D) \in Nat /\ Cardinality(D \union {k}) <= NumKeys
    <2>1. IsFiniteSet(D)
      BY <1>1, KeyNumbers, FS_Subset
    <2>2. IsFiniteSet(D \union {k}) /\ D \union {k} \subseteq Keys
      BY <1>1, KeyNumbers, FS_Subset
    <2> QED BY <2>1, <2>2, KeyNumbers, FS_Subset, FS_AddElement,
               FS_CardinalityType
  <1>3. o.active = 0 <=> D = {}
    BY <1>1, <1>2, FS_EmptySet
  <1>4. L \in Settings /\ L # Unlocked
    BY <1>1, ElementsAssumption DEF KeysGood, Outputs
  <1>5. note \in Notes
    <2> HIDE DEF L
    <2>1. AddressOf(Base, L) \in Int /\ k \in Int
      BY <1>4, AddressType, KeyNumbers DEF Notes
    <2> QED BY <2>1, NoteType
  <1>6. new = [o EXCEPT !.locked = L, !.active = o.active + 1,
                        !.sounding = o.sounding \union {note}]
    <2> DEFINE down == IF o.active = 0 THEN Locked(o, selection) ELSE o
    <2>1. down = [o EXCEPT !.locked = L]
      BY <1>1, <1>3 DEF Locked, Selection, Outputs, KeysGood
    <2>2. down \in Outputs /\ down.locked = L
      BY <1>1, <1>4, <2>1 DEF Outputs
    <2>3. ActiveAddress(down, selection) = AddressOf(Base, L)
      BY <1>4, <2>2 DEF ActiveAddress, Selection
    <2>4. new = [On(down, {note}) EXCEPT !.active = @ + 1]
      BY <2>3 DEF KeyUpdated
    <2> HIDE DEF down, note, L
    <2> QED BY <1>1, <2>1, <2>4 DEF On, Outputs
  <1>7. /\ new \in Outputs /\ new.locked = L /\ new.active = o.active + 1
        /\ new.sounding = o.sounding \union {note}
    <2>1. o.active + 1 \in 0..NumKeys
      BY <1>1, <1>2, KeyNumbers
    <2>2. o.sounding \union {note} \in SUBSET Notes
      BY <1>1, <1>5 DEF Outputs
    <2> HIDE DEF new, note, L
    <2> QED BY <1>1, <1>4, <1>6, <2>1, <2>2 DEF Outputs
  <1>8. o.sounding \subseteq {Note(AddressOf(Base, L), j) : j \in D}
    <2>1. CASE D = {}
      BY <2>1 DEF KeysGood
    <2>2. CASE D # {}
      BY <2>2 DEF KeysGood
    <2> QED BY <2>1, <2>2
  <1>9. new.sounding \subseteq
          {Note(AddressOf(Base, L), j) : j \in D \union {k}}
    <2> HIDE DEF new, L
    <2> QED BY <1>7, <1>8
  <1>10. KeysGood(new, D \union {k})
    <2> HIDE DEF new, L
    <2> QED BY <1>1, <1>2, <1>4, <1>7, <1>9 DEF KeysGood
  <1> QED BY <1>10

LEMMA KeyReleased ==
    ASSUME NEW o, NEW D, KeysGood(o, D), NEW k \in D, NEW key, Rising(key),
           NEW selection \in Settings
    PROVE  KeysGood(KeyUpdated(o, k, key, selection), D \ {k})
  <1> DEFINE note == Note(AddressOf(Base, o.locked), k)
             L == IF D \ {k} = {} THEN Unlocked ELSE o.locked
             new == KeyUpdated(o, k, key, selection)
  <1>1. o \in Outputs /\ D \subseteq Keys /\ o.active = Cardinality(D)
    BY DEF KeysGood
  <1>2. /\ IsFiniteSet(D) /\ IsFiniteSet(D \ {k})
        /\ Cardinality(D \ {k}) = Cardinality(D) - 1
        /\ Cardinality(D) \in Nat /\ Cardinality(D) <= NumKeys
        /\ Cardinality(D \ {k}) \in Nat
    <2>1. IsFiniteSet(D) /\ IsFiniteSet(D \ {k})
      BY <1>1, KeyNumbers, FS_Subset
    <2> QED BY <1>1, <2>1, KeyNumbers, FS_Subset, FS_RemoveElement,
               FS_CardinalityType
  <1>3. o.active = 1 <=> D \ {k} = {}
    BY <1>1, <1>2, FS_EmptySet
  <1>4. o.locked # Unlocked
    BY DEF KeysGood
  <1>5. new = [o EXCEPT !.locked = L, !.active = o.active - 1,
                        !.sounding = o.sounding \ {note}]
    <2>1. ActiveAddress(o, selection) = AddressOf(Base, o.locked)
      BY <1>4 DEF ActiveAddress, Selection
    <2>2. ~Falling(key)
      BY DEF Falling, Rising
    <2>3. new = [Off(o, {note}) EXCEPT !.active = @ - 1,
                   !.locked = IF o.active = 1 THEN Unlocked ELSE @]
      BY <2>1, <2>2 DEF KeyUpdated
    <2> HIDE DEF note
    <2> QED BY <1>1, <1>3, <2>3 DEF Off, Outputs
  <1>6. /\ new \in Outputs /\ new.locked = L /\ new.active = o.active - 1
        /\ new.sounding = o.sounding \ {note}
    <2>1. o.active - 1 \in 0..NumKeys
      BY <1>1, <1>2, KeyNumbers
    <2>2. o.sounding \ {note} \in SUBSET Notes
      BY <1>1 DEF Outputs
    <2>3. L \in Settings \union {Unlocked}
      BY <1>1 DEF Outputs
    <2> HIDE DEF new, note, L
    <2> QED BY <1>1, <1>5, <2>1, <2>2, <2>3 DEF Outputs
  <1>7. o.sounding \ {note} \subseteq
          {Note(AddressOf(Base, o.locked), j) : j \in D \ {k}}
    BY DEF KeysGood
  <1>8. new.sounding \subseteq {Note(AddressOf(Base, L), j) : j \in D \ {k}}
    <2>1. CASE D \ {k} = {}
      BY <1>6, <1>7, <2>1
    <2>2. CASE D \ {k} # {}
      BY <1>6, <1>7, <2>2
    <2> QED BY <2>1, <2>2
  <1>9. KeysGood(new, D \ {k})
    <2>1. L = Unlocked <=> D \ {k} = {}
      BY <1>4
    <2> HIDE DEF new, L
    <2> QED BY <1>1, <1>2, <1>6, <1>8, <2>1 DEF KeysGood
  <1> QED BY <1>9

(* A chord button that is down, or not.                                    *)
ChordGood(o, isDown) ==
    /\ o \in Outputs
    /\ o.chord # NoChord \/ o.newChord # NoChord
    /\ isDown => /\ o.locked # Unlocked /\ o.chord # NoChord
                 /\ o.sounding = {Note(AddressOf(Base, o.locked), offset) :
                                    offset \in {0} \union o.chord}
    /\ ~isDown => o.locked = Unlocked /\ o.sounding = {}

LEMMA ChordTypes ==
    \A chord \in Chords : \A s \in Settings :
        {Note(AddressOf(Base, s), offset) : offset \in {0} \union chord}
          \in SUBSET Notes
  <1> TAKE chord \in Chords
  <1> TAKE s \in Settings
  <1>1. \A offset \in {0} \union chord : offset \in Int
    BY ElementsAssumption
  <1>2. AddressOf(Base, s) \in Int
    BY AddressType DEF Notes
  <1> QED BY <1>1, <1>2, NoteType

LEMMA ChordPressed ==
    ASSUME NEW o, ChordGood(o, FALSE), NEW key, Falling(key),
           NEW selection \in Settings
    PROVE  ChordGood(ChordUpdated(o, key, selection), TRUE)
  <1> DEFINE c == IF o.newChord = NoChord THEN o.chord ELSE o.newChord
             notes == {Note(AddressOf(Base, selection), offset) :
                         offset \in {0} \union c}
             new == ChordUpdated(o, key, selection)
  <1>1. o \in Outputs /\ o.locked = Unlocked /\ o.sounding = {}
    BY DEF ChordGood
  <1>2. c \in Chords
    BY DEF ChordGood, Outputs
  <1>3. selection # Unlocked /\ NoChord \notin Chords
    BY ElementsAssumption
  <1>4. notes \in SUBSET Notes
    BY <1>2, ChordTypes
  <1>5. new = [o EXCEPT !.chord = c, !.newChord = NoChord,
                        !.locked = selection, !.sounding = notes]
    <2> DEFINE chosen == IF o.newChord = NoChord THEN o
                         ELSE [o EXCEPT !.chord = o.newChord,
                                        !.newChord = NoChord]
               down == Locked(chosen, selection)
    <2>1. chosen = [o EXCEPT !.chord = c, !.newChord = NoChord]
      BY <1>1 DEF Outputs
    <2>2. /\ chosen.locked = Unlocked
          /\ down = [chosen EXCEPT !.locked = selection]
      BY <1>1, <2>1 DEF Locked, Selection, Outputs
    <2>3. /\ down = [o EXCEPT !.chord = c, !.newChord = NoChord,
                              !.locked = selection]
          /\ down.locked = selection /\ down.chord = c /\ down.sounding = {}
      BY <1>1, <2>1, <2>2 DEF Outputs
    <2>4. new = On(down, ChordNotes(down, selection))
      BY DEF ChordUpdated
    <2>5. ChordNotes(down, selection) = notes
      <3> HIDE DEF down, c
      <3> QED BY <1>3, <2>3 DEF ChordNotes, ActiveAddress, Selection
    <2> HIDE DEF down, notes, c, new
    <2> QED BY <1>1, <2>3, <2>4, <2>5 DEF On, Outputs
  <1>6. /\ new \in Outputs /\ new.locked = selection /\ new.chord = c
        /\ new.sounding = notes
    <2> HIDE DEF new, notes, c
    <2> QED BY <1>1, <1>2, <1>4, <1>5 DEF Outputs
  <1>7. ChordGood(new, TRUE)
    <2> HIDE DEF new, c
    <2> QED BY <1>2, <1>3, <1>6 DEF ChordGood
  <1> QED BY <1>7

LEMMA ChordReleased ==
    ASSUME NEW o, ChordGood(o, TRUE), NEW key, Rising(key),
           NEW selection \in Settings
    PROVE  ChordGood(ChordUpdated(o, key, selection), FALSE)
  <1> DEFINE new == ChordUpdated(o, key, selection)
  <1>1. /\ o \in Outputs /\ o.locked # Unlocked /\ o.chord # NoChord
        /\ o.sounding = {Note(AddressOf(Base, o.locked), offset) :
                           offset \in {0} \union o.chord}
    BY DEF ChordGood
  <1>2. ~Falling(key)
    BY DEF Falling, Rising
  <1>3. new = [Off(o, ChordNotes(o, selection)) EXCEPT !.locked = Unlocked]
    BY <1>2 DEF ChordUpdated
  <1>4. o.sounding \ ChordNotes(o, selection) = {}
    BY <1>1 DEF ChordNotes, ActiveAddress, Selection
  <1>5. new = [o EXCEPT !.locked = Unlocked, !.sounding = {}]
    <2> HIDE DEF new
    <2> QED BY <1>1, <1>3, <1>4 DEF Off, Outputs
  <1>6. /\ new \in Outputs /\ new.locked = Unlocked /\ new.sounding = {}
        /\ new.chord = o.chord
    <2> HIDE DEF new
    <2> QED BY <1>1, <1>5 DEF Outputs
  <1>7. ChordGood(new, FALSE)
    <2> HIDE DEF new
    <2> QED BY <1>1, <1>6 DEF ChordGood
  <1> QED BY <1>7

-----------------------------------------------------------------------------

(* Every setting of the bank shifts the note of the element to a note: the *)
(* bank is configured for it, as beyond 0..127 the notes of two settings   *)
(* may coincide in the outputs, and inputs match none.                     *)
BankFits == \A s \in Settings :
               Base + (s + SelectionOffset) * TracksPerBank \in Notes

LEMMA Division ==
    ASSUME NEW d \in Nat, NEW t \in Nat, t > 0
    PROVE  /\ d \div t \in Nat /\ d % t \in 0..t - 1
           /\ d = t * (d \div t) + (d % t)
  OBVIOUS

LEMMA Multiple ==
    ASSUME NEW q \in Nat, NEW t \in Nat, t > 0
    PROVE  /\ (q * t) % t = 0 /\ (q * t) \div t = q
           /\ q * t \in Nat
  OBVIOUS

LEMMA Order ==
    ASSUME NEW t \in Nat, t > 0, NEW a \in Int, NEW b \in Int
    PROVE  /\ a * t < b * t <=> a < b
           /\ a * t = b * t => a = b
           /\ (a + b) * t = a * t + b * t
           /\ a * t \in Int
  OBVIOUS

LEMMA AddressValue ==
    ASSUME BankFits, NEW s \in Settings
    PROVE  AddressOf(Base, s) = Base + (s + SelectionOffset) * TracksPerBank
  <1>1. PICK n \in Int : n = (s + SelectionOffset) * TracksPerBank
    BY BankAssumption DEF Settings
  <1>2. Base + n \in 0..127 /\ Base \in 0..127
    BY <1>1, ElementsAssumption DEF BankFits, Notes
  <1>3. Int8(n) = n
    BY <1>2 DEF Int8
  <1>4. AddressOf(Base, s) = (Base + n) % 128
    BY <1>1, <1>3 DEF AddressOf, OffsetOfSetting
  <1> QED BY <1>1, <1>2, <1>4

LEMMA AddressInjective ==
    ASSUME BankFits, NEW s \in Settings, NEW t \in Settings,
           AddressOf(Base, s) = AddressOf(Base, t)
    PROVE  s = t
  <1>1. PICK T \in Nat : T = TracksPerBank /\ T > 0
    BY BankAssumption
  <1>2. s \in Int /\ t \in Int /\ SelectionOffset \in Int /\ Base \in Int
    BY BankAssumption, ElementsAssumption DEF Settings
  <1>3. Base + (s + SelectionOffset) * T = Base + (t + SelectionOffset) * T
    BY <1>1, AddressValue
  <1>4. (s + SelectionOffset) * T = (t + SelectionOffset) * T
    BY <1>1, <1>2, <1>3, Order
  <1>5. s + SelectionOffset = t + SelectionOffset
    BY <1>1, <1>2, <1>4, Order
  <1> QED BY <1>2, <1>5

LEMMA Matches ==
    ASSUME BankFits, NEW note \in Notes
    PROVE  /\ MatchBankable(note, Base) =>
                /\ BankIndex(note, Base) \in Settings
                /\ AddressOf(Base, BankIndex(note, Base)) = note
           /\ ~MatchBankable(note, Base) =>
                \A s \in Settings : AddressOf(Base, s) # note
  <1>1. PICK T \in Nat : T = TracksPerBank /\ T > 0
    BY BankAssumption
  <1>2. PICK O \in Int : O = SelectionOffset * T
    BY <1>1, BankAssumption
  <1>3. PICK N \in Nat : N = NumBanks
    BY BankAssumption
  <1>4. Base \in Int /\ note \in 0..127
    BY ElementsAssumption DEF Notes
  <1>5. \A s \in Settings : /\ s \in Nat /\ s < N
                            /\ s * T \in Nat
                            /\ AddressOf(Base, s) = Base + O + s * T
    <2> TAKE s \in Settings
    <2>1. s \in Nat /\ s < N
      BY <1>3 DEF Settings
    <2>2. (s + SelectionOffset) * T = s * T + O /\ s * T \in Nat
      BY <1>1, <1>2, <2>1, Order, Multiple, BankAssumption
    <2> QED BY <1>1, <1>2, <1>4, <2>1, <2>2, AddressValue
  <1>6. Base + O \in 0..127
    <2>1. 0 \in Settings
      BY SettingsType
    <2>2. AddressOf(Base, 0) = Base + O
      BY <1>1, <1>2, <1>4, <1>5, <2>1
    <2> QED BY <2>1, <2>2, AddressType DEF Notes
  <1>7. PICK d \in Int : d = note - Base - O
    BY <1>2, <1>4
  <1>8. Distance(note, Base) = UInt8(d)
    BY <1>1, <1>2, <1>7 DEF Distance
  <1>9. d >= 0 => UInt8(d) = d
    BY <1>4, <1>6, <1>7, <1>2 DEF UInt8
  <1>10. MatchBankable(note, Base) <=> d >= 0 /\ d < N * T /\ d % T = 0
    <2>1. note >= Base + O <=> d >= 0
      BY <1>2, <1>4, <1>7
    <2> QED BY <1>1, <1>2, <1>3, <1>8, <1>9, <2>1 DEF MatchBankable
  <1>11. ASSUME MatchBankable(note, Base)
         PROVE  /\ BankIndex(note, Base) \in Settings
                /\ AddressOf(Base, BankIndex(note, Base)) = note
    <2>1. d \in Nat /\ d < N * T /\ d % T = 0
      BY <1>10, <1>11
    <2>2. PICK q \in Nat : q = d \div T
      BY <2>1, <1>1, Division
    <2>3. d = q * T
      BY <2>1, <2>2, <1>1, Division
    <2>4. q < N
      BY <2>1, <2>3, <1>1, Order
    <2>5. BankIndex(note, Base) = q
      BY <1>1, <1>8, <1>9, <2>1, <2>2 DEF BankIndex
    <2>6. q \in Settings
      BY <1>3, <2>4 DEF Settings
    <2> QED BY <1>2, <1>4, <1>5, <1>7, <2>3, <2>5, <2>6
  <1>12. ASSUME NEW s \in Settings, AddressOf(Base, s) = note
         PROVE  MatchBankable(note, Base)
    <2>1. d = s * T /\ s \in Nat /\ s < N /\ s * T \in Nat
      BY <1>2, <1>4, <1>5, <1>7, <1>12
    <2>2. s * T < N * T /\ (s * T) % T = 0
      BY <1>1, <2>1, Order, Multiple
    <2> QED BY <1>10, <2>1, <2>2
  <1> QED BY <1>11, <1>12

(* A latched element has on what it says it has.                           *)
LatchGood(o) ==
    /\ o \in Outputs /\ o.locked = Unlocked
    /\ o.sounding = {AddressOf(Base, s) : s \in {t \in Settings : o.states[t]}}

LEMMA LatchToggled ==
    ASSUME BankFits, NEW o, LatchGood(o), NEW key, NEW selection \in Settings
    PROVE  LatchGood(LatchUpdated(o, key, selection))
  <1> DEFINE states == [o.states EXCEPT ![selection] = ~@]
             note == AddressOf(Base, selection)
             new == LatchUpdated(o, key, selection)
             Sounding(st) == {AddressOf(Base, s) : s \in {t \in Settings : st[t]}}
  <1>1. CASE ~Falling(key)
    BY <1>1 DEF LatchUpdated
  <1>2. CASE Falling(key)
    <2>1. /\ o \in Outputs /\ o.locked = Unlocked
          /\ o.sounding = Sounding(o.states)
          /\ o.states \in [Settings -> BOOLEAN]
      BY DEF LatchGood, Outputs
    <2>2. note \in Notes
      BY AddressType
    <2>3. /\ states \in [Settings -> BOOLEAN]
          /\ states[selection] = ~o.states[selection]
          /\ \A t \in Settings : t # selection => states[t] = o.states[t]
      BY <2>1
    <2>4. \A t \in Settings : t # selection => AddressOf(Base, t) # note
      BY AddressInjective
    <2>5. new = [o EXCEPT !.states = states,
                          !.sounding = IF states[selection]
                                       THEN o.sounding \union {note}
                                       ELSE o.sounding \ {note}]
      <3>1. Selection(o, selection) = selection
            /\ ActiveAddress(o, selection) = note
        BY <2>1 DEF ActiveAddress, Selection
      <3>2. new = IF [o EXCEPT !.states = states].states[selection]
                  THEN On([o EXCEPT !.states = states], {note})
                  ELSE Off([o EXCEPT !.states = states], {note})
        BY <1>2, <3>1 DEF LatchUpdated
      <3> HIDE DEF states, note, new
      <3> QED BY <2>1, <3>2 DEF On, Off, Outputs
    <2>6. (IF states[selection] THEN o.sounding \union {note}
           ELSE o.sounding \ {note}) = Sounding(states)
      <3>1. CASE states[selection]
        <4>1. o.sounding \union {note} \subseteq Sounding(states)
          BY <2>1, <2>3, <3>1
        <4>2. Sounding(states) \subseteq o.sounding \union {note}
          BY <2>1, <2>3
        <4> QED BY <3>1, <4>1, <4>2
      <3>2. CASE ~states[selection]
        <4>1. o.sounding \ {note} \subseteq Sounding(states)
          BY <2>1, <2>3
        <4>2. Sounding(states) \subseteq o.sounding \ {note}
          BY <2>1, <2>3, <2>4, <3>2
        <4> QED BY <3>2, <4>1, <4>2
      <3> QED BY <3>1, <3>2
    <2>7. Sounding(states) \in SUBSET Notes
      BY <2>1, <2>2, <2>6 DEF Outputs
    <2>8. /\ new \in Outputs /\ new.locked = Unlocked /\ new.states = states
          /\ new.sounding = Sounding(states)
      <3> DEFINE sounding == Sounding(states)
      <3>1. new = [o EXCEPT !.states = states, !.sounding = sounding]
        BY <2>5, <2>6
      <3>2. sounding \in SUBSET Notes
        BY <2>7
      <3>3. /\ new \in Outputs /\ new.locked = Unlocked /\ new.states = states
            /\ new.sounding = sounding
        <4> HIDE DEF sounding, states, new
        <4> QED BY <2>1, <2>3, <3>1, <3>2 DEF Outputs
      <3> QED BY <3>3
    <2>9. LatchGood(new)
      <3> HIDE DEF new
      <3> QED BY <2>8 DEF LatchGood
    <2> QED BY <2>9
  <1> QED BY <1>1, <1>2

(* What the LED's element knows of the notes H that the host has on.       *)
InputGood(inp, H, selection) ==
    /\ inp \in Inputs
    /\ \A s \in Settings : inp.values[s] <=> AddressOf(Base, s) \in H
    /\ inp.led <=> inp.values[selection]

LEMMA NewInputGood ==
    \A selection \in Settings : InputGood(NewInput, {}, selection)
  BY DEF InputGood, NewInput, Inputs

LEMMA DisplayedGood ==
    ASSUME NEW inp, NEW H, NEW old \in Settings, InputGood(inp, H, old),
           NEW new \in Settings
    PROVE  InputGood(Displayed(inp, new), H, new)
  BY DEF InputGood, Displayed, Inputs

LEMMA HeardGood ==
    ASSUME BankFits, NEW inp, NEW H, NEW selection \in Settings,
           InputGood(inp, H, selection), NEW note \in Notes, NEW on \in BOOLEAN
    PROVE  InputGood(Heard(inp, note, on, selection),
                     IF on THEN H \union {note} ELSE H \ {note}, selection)
  <1> DEFINE s == BankIndex(note, Base)
             values == [inp.values EXCEPT ![s] = on]
             new == Heard(inp, note, on, selection)
             now == IF on THEN H \union {note} ELSE H \ {note}
  <1>1. /\ inp \in Inputs /\ inp.values \in [Settings -> BOOLEAN]
        /\ inp.led \in BOOLEAN
        /\ \A t \in Settings : inp.values[t] <=> AddressOf(Base, t) \in H
        /\ inp.led <=> inp.values[selection]
    BY DEF InputGood, Inputs
  <1>2. CASE ~MatchBankable(note, Base)
    <2>1. new = inp
      BY <1>2 DEF Heard
    <2>2. \A t \in Settings : AddressOf(Base, t) # note
      BY <1>2, Matches
    <2>3. \A t \in Settings : AddressOf(Base, t) \in now <=>
                               AddressOf(Base, t) \in H
      BY <2>2
    <2>4. InputGood(new, now, selection)
      <3> HIDE DEF new, now
      <3> QED BY <1>1, <2>1, <2>3 DEF InputGood
    <2> QED BY <2>4
  <1>3. CASE MatchBankable(note, Base)
    <2>1. s \in Settings /\ AddressOf(Base, s) = note
      BY <1>3, Matches
    <2>2. \A t \in Settings : t # s => AddressOf(Base, t) # note
      BY <2>1, AddressInjective
    <2>3. values \in [Settings -> BOOLEAN]
      BY <1>1, <2>1
    <2>4. \A t \in Settings : values[t] <=> AddressOf(Base, t) \in now
      <3> TAKE t \in Settings
      <3>1. CASE t = s
        BY <1>1, <2>1, <3>1
      <3>2. CASE t # s
        <4>1. values[t] = inp.values[t]
          BY <1>1, <3>2
        <4>2. AddressOf(Base, t) \in now <=> AddressOf(Base, t) \in H
          BY <2>2, <3>2
        <4> QED BY <1>1, <4>1, <4>2
      <3> QED BY <3>1, <3>2
    <2>5. new = [inp EXCEPT !.values = values,
                            !.led = IF s = selection THEN values[s] ELSE @]
      <3>1. new = IF inp.values[s] # on /\ s = selection
                  THEN Displayed([inp EXCEPT !.values = values], selection)
                  ELSE [inp EXCEPT !.values = values]
        BY <1>3 DEF Heard
      <3>2. CASE inp.values[s] # on /\ s = selection
        <4> HIDE DEF new, values, s
        <4> QED BY <1>1, <3>1, <3>2 DEF Displayed, Inputs
      <3>3. CASE s # selection
        <4> HIDE DEF new, values, s
        <4> QED BY <1>1, <3>1, <3>3 DEF Inputs
      <3>4. CASE inp.values[s] = on /\ s = selection
        <4>1. values = inp.values
          BY <1>1, <3>4
        <4>2. inp.led = values[s]
          BY <1>1, <3>4, <4>1
        <4> HIDE DEF new, values, s
        <4> QED BY <1>1, <3>1, <3>4, <4>1, <4>2 DEF Inputs
      <3> QED BY <3>2, <3>3, <3>4
    <2>6. values[selection] <=> IF s = selection THEN values[s] ELSE inp.led
      BY <1>1, <2>1
    <2>7. /\ new \in Inputs /\ new.values = values
          /\ new.led = IF s = selection THEN values[s] ELSE inp.led
      <3> HIDE DEF new, values, s
      <3> QED BY <1>1, <2>1, <2>3, <2>5 DEF Inputs
    <2>8. InputGood(new, now, selection)
      <3> HIDE DEF new, values, s, now
      <3> QED BY <2>4, <2>6, <2>7 DEF InputGood
    <2> QED BY <2>8
  <1> QED BY <1>2, <1>3

-----------------------------------------------------------------------------

(* A button that has been down, without a bounce, for a long press.        *)
Holding(b) == b.is /\ b.input /\ b.age >= LongPressDelay

(* A pair repeats for a button that is held, and the other is up.          *)
HoldGood(p, i, d) ==
    p.press = "LongPress" => \/ Holding(i) /\ ~d.is
                             \/ Holding(d) /\ ~i.is

LEMMA HoldingSampled ==
    ASSUME DebounceTime < LongPressDelay, NEW b \in Buttons, NEW down \in BOOLEAN
    PROVE  /\ Holding(b) => \/ /\ Holding(Sample(b, down))
                               /\ Pressed(Sample(b, down))
                            \/ Rising(Sample(b, down))
           /\ Pressed(Sample(b, down)) /\ Sample(b, down).age >= LongPressDelay
                => Holding(Sample(b, down))
  <1> DEFINE new == Sample(b, down)
  <1>1. /\ DebounceTime \in Nat /\ LongPressDelay \in Nat /\ b.age \in Nat
        /\ b \in Buttons
    BY AgesAssumption, LongPressAssumption DEF Buttons
  <1>2. CASE b.age >= LongPressDelay /\ down = b.input
    <2>1. ~(b.age <= DebounceTime)
      BY <1>1, <1>2
    <2>2. new = [b EXCEPT !.was = b.is, !.is = down, !.bouncing = FALSE]
      BY <1>2, <2>1 DEF Sample
    <2>3. /\ new.was = b.is /\ new.is = down /\ new.input = down
          /\ new.age = b.age
      BY <1>1, <1>2, <2>2 DEF Buttons
    <2> HIDE DEF new
    <2>4. Holding(b) => Holding(new) /\ Pressed(new)
      BY <1>2, <2>3 DEF Holding, Pressed
    <2>5. Pressed(new) => Holding(new)
      BY <1>2, <2>3 DEF Holding, Pressed
    <2>6. QED BY <2>4, <2>5 DEF new
  <1>3. CASE b.age >= LongPressDelay /\ down # b.input
    <2>1. ~(b.age <= DebounceTime)
      BY <1>1, <1>3
    <2>2. new = [[b EXCEPT !.was = b.is, !.is = down, !.bouncing = FALSE]
                   EXCEPT !.bouncing = TRUE, !.input = down, !.age = 0]
      BY <1>3, <2>1 DEF Sample
    <2>3. new.was = b.is /\ new.is = down /\ new.age = 0
      BY <1>1, <2>2 DEF Buttons
    <2> HIDE DEF new
    <2>4. Holding(b) => Rising(new)
      <3>1. b.input => ~down
        BY <1>3 DEF Buttons
      <3> QED BY <2>3, <3>1 DEF Holding, Rising
    <2>5. ~(new.age >= LongPressDelay)
      BY <1>1, <2>3
    <2>6. QED BY <2>4, <2>5 DEF new
  <1>4. CASE ~(b.age >= LongPressDelay)
    <2>1. new.age = b.age \/ new.age = 0
      <3> DEFINE next == [b EXCEPT !.was = b.is,
                 !.is = IF b.bouncing /\ b.age <= DebounceTime THEN b.is ELSE down,
                 !.bouncing = b.bouncing /\ b.age <= DebounceTime]
      <3>1. new = next
            \/ new = [next EXCEPT !.bouncing = TRUE, !.input = down, !.age = 0]
        BY DEF Sample
      <3>2. DOMAIN next = DOMAIN b /\ next.age = b.age /\ "age" \in DOMAIN b
        BY <1>1 DEF Buttons
      <3>3. [next EXCEPT !.bouncing = TRUE, !.input = down, !.age = 0].age = 0
        <4> HIDE DEF next
        <4> QED BY <1>1, <3>2 DEF Buttons
      <3> QED BY <3>1, <3>2, <3>3
    <2>2. ~(new.age >= LongPressDelay)
      BY <1>1, <1>4, <2>1, LongPressAssumption
    <2> QED BY <1>4, <2>2 DEF Holding
  <1> QED BY <1>2, <1>3, <1>4

LEMMA HoldKept ==
    ASSUME DebounceTime < LongPressDelay, NEW p \in Pairs,
           NEW i \in Buttons, NEW d \in Buttons, HoldGood(p, i, d),
           NEW pin \in BOOLEAN, NEW pin2 \in BOOLEAN,
           NEW i1, i1 = Sample(i, pin), NEW d1, d1 = Sample(d, pin2),
           ~BothReleased(i1, d1),
           ~(Falling(i1) /\ Rising(d1)), ~(Rising(i1) /\ Falling(d1))
    PROVE  /\ HoldGood(UpdatePair(p, i1, d1)[1], i1, d1)
           /\ UpdatePair(p, i1, d1)[2] # "Nothing" =>
                \/ Falling(i1) \/ Falling(d1)
                \/ Pressed(i1) /\ i1.age >= LongPressDelay
                \/ Pressed(d1) /\ d1.age >= LongPressDelay
  <1> DEFINE Lasting(b) == Pressed(b) /\ b.age >= LongPressDelay
  <1>1. /\ i1 \in Buttons /\ i1.was = i.is
        /\ d1 \in Buttons /\ d1.was = d.is
    BY SampleType
  <1>2. /\ Holding(i) => (Lasting(i1) /\ Holding(i1)) \/ Rising(i1)
        /\ Holding(d) => (Lasting(d1) /\ Holding(d1)) \/ Rising(d1)
        /\ Lasting(i1) => Holding(i1)
        /\ Lasting(d1) => Holding(d1)
    BY HoldingSampled DEF Holding
  <1>3. ASSUME p.press = "LongPress", ~PressedTogether(i1, d1)
        PROVE  \/ Lasting(i1) /\ Holding(i1) /\ Released(d1)
               \/ Lasting(d1) /\ Holding(d1) /\ Released(i1)
    <2>1. CASE Holding(i) /\ ~d.is
      <3>1. ~d1.was
        BY <1>1, <2>1
      <3>2. Released(d1) \/ Falling(d1)
        BY <1>1, <3>1 DEF Released, Falling
      <3>3. ~Falling(d1)
        BY <1>2, <1>3, <2>1 DEF PressedTogether
      <3>4. ~Rising(i1)
        BY <3>2, <3>3 DEF BothReleased
      <3> QED BY <1>2, <2>1, <3>2, <3>3, <3>4
    <2>2. CASE Holding(d) /\ ~i.is
      <3>1. ~i1.was
        BY <1>1, <2>2
      <3>2. Released(i1) \/ Falling(i1)
        BY <1>1, <3>1 DEF Released, Falling
      <3>3. ~Falling(i1)
        BY <1>2, <1>3, <2>2 DEF PressedTogether
      <3>4. ~Rising(d1)
        BY <3>2, <3>3 DEF BothReleased
      <3> QED BY <1>2, <2>2, <3>2, <3>3, <3>4
    <2> QED BY <1>3, <2>1, <2>2 DEF HoldGood
  <1>4. ASSUME p.press = "LongPress", ~PressedTogether(i1, d1)
        PROVE  \A q : HoldGood(q, i1, d1)
    BY <1>3, <1>4 DEF HoldGood, Released
  <1>5. CASE PressedTogether(i1, d1)
    <2> DEFINE q == [p EXCEPT !.press = "AfterReset"]
    <2>1. UpdatePair(p, i1, d1) = <<q, "Reset">>
      BY <1>5 DEF UpdatePair
    <2>2. q.press = "AfterReset"
      BY DEF Pairs
    <2>3. UpdatePair(p, i1, d1)[1].press = "AfterReset"
      <3> HIDE DEF q
      <3> QED BY <2>1, <2>2
    <2>4. HoldGood(UpdatePair(p, i1, d1)[1], i1, d1)
      BY <2>3 DEF HoldGood
    <2>5. Falling(i1) \/ Falling(d1)
      BY <1>5 DEF PressedTogether
    <2> QED BY <2>4, <2>5
  <1>6. CASE ~PressedTogether(i1, d1) /\ (Falling(i1) \/ Falling(d1))
    <2>1. UpdatePair(p, i1, d1)[1] = p
      BY <1>6 DEF UpdatePair
    <2>2. HoldGood(p, i1, d1)
      <3>1. CASE p.press = "LongPress"
        BY <1>4, <1>6, <3>1
      <3>2. CASE p.press # "LongPress"
        BY <3>2 DEF HoldGood
      <3> QED BY <3>1, <3>2
    <2> QED BY <1>6, <2>1, <2>2
  <1>7. CASE /\ ~PressedTogether(i1, d1) /\ ~Falling(i1) /\ ~Falling(d1)
             /\ Pressed(i1) # Pressed(d1) /\ p.press # "AfterReset"
    <2> DEFINE b == IF Pressed(i1) THEN i1 ELSE d1
               o == IF Pressed(i1) THEN d1 ELSE i1
               done == IF Pressed(i1) THEN "Increment" ELSE "Decrement"
    <2>1. UpdatePair(p, i1, d1) =
            <<Held(p, b)[1], IF Held(p, b)[2] THEN done ELSE "Nothing">>
      BY <1>7 DEF UpdatePair
    <2>2. Pressed(b) /\ ~Pressed(o) /\ ~Falling(o)
      BY <1>7 DEF Pressed
    <2>3. ~o.is
      BY <1>1, <2>2 DEF Pressed, Falling, Buttons
    <2>4. b \in {i1, d1}
      OBVIOUS
    <2>5. CASE p.press = "LongPress"
      <3>1. \A q : HoldGood(q, i1, d1)
        BY <1>4, <1>7, <2>5
      <3>2. Lasting(i1) \/ Lasting(d1)
        BY <1>3, <1>7, <2>5
      <3> QED BY <2>1, <3>1, <3>2
    <2>6. CASE p.press # "LongPress" /\ b.age >= LongPressDelay
      <3>1. Lasting(b) /\ Holding(b)
        BY <1>2, <2>2, <2>4, <2>6
      <3>2. \A q : HoldGood(q, i1, d1)
        BY <2>3, <3>1 DEF HoldGood
      <3> QED BY <2>1, <2>4, <3>1, <3>2
    <2>7. CASE p.press # "LongPress" /\ ~(b.age >= LongPressDelay)
      <3>1. UpdatePair(p, i1, d1) = <<p, "Nothing">>
        BY <2>1, <2>7 DEF Held
      <3> QED BY <2>7, <3>1 DEF HoldGood
    <2> QED BY <2>5, <2>6, <2>7
  <1>8. CASE /\ ~PressedTogether(i1, d1) /\ ~Falling(i1) /\ ~Falling(d1)
             /\ ~(Pressed(i1) # Pressed(d1) /\ p.press # "AfterReset")
    <2>1. UpdatePair(p, i1, d1) = <<p, "Nothing">>
      BY <1>8 DEF UpdatePair
    <2>2. HoldGood(p, i1, d1)
      <3>1. CASE p.press = "LongPress"
        BY <1>4, <1>8, <3>1
      <3>2. CASE p.press # "LongPress"
        BY <3>2 DEF HoldGood
      <3> QED BY <3>1, <3>2
    <2> QED BY <2>1, <2>2
  <1> QED BY <1>5, <1>6, <1>7, <1>8

-----------------------------------------------------------------------------

(* The invariants.  Selector and momentary elements are all IInv needs;    *)
(* the other three rest on it.                                             *)
Down == {k \in ElementKeys : keys[k].is}

SelectorInv == SelectorOK(sel) /\ (~moved => sel.lit = {sel.setting})

OutputInv ==
    /\ surface.element = "keys" => KeysGood(out, Down)
    /\ surface.element = "chord" => ChordGood(out, keys[0].is)

IInv == TypeOK /\ SelectorInv /\ OutputInv

LatchInv == surface.element = "latch" => LatchGood(out)

LedInv == surface.element = "led" => InputGood(input, heard, sel.selection)

HoldInv == surface.selector = "buttons" /\ ~swapped =>
             HoldGood(pair, selButtons["incr"], selButtons["decr"])

LEMMA Domains ==
    ASSUME surface' = surface
    PROVE  SelectorPins' = SelectorPins /\ ElementKeys' = ElementKeys
  BY DEF SelectorPins, ElementKeys

LEMMA Kinds ==
    ASSUME surface \in Surfaces
    PROVE  /\ surface.selector \in {"buttons", "many", "program"}
           /\ surface.element \in {"keys", "chord", "latch", "led"}
           /\ surface.wrap \in BOOLEAN
           /\ surface.selector = "buttons" => SelectorPins = {"incr", "decr"}
           /\ surface.selector = "many" => SelectorPins = Settings
           /\ surface.element = "keys" => ElementKeys = Keys
           /\ surface.element = "chord" => ElementKeys = {0}
           /\ surface.element = "latch" => ElementKeys = {0}
           /\ MaxChanges[surface.selector] \in Nat
  <1>1. surface \in [selector : {"buttons", "many", "program"}, wrap : BOOLEAN,
                     element : {"keys", "chord", "latch", "led"}]
    BY SurfacesAssumption
  <1>2. /\ surface.selector \in {"buttons", "many", "program"}
        /\ surface.element \in {"keys", "chord", "latch", "led"}
        /\ surface.wrap \in BOOLEAN
    BY <1>1
  <1>3. MaxChanges[surface.selector] \in Nat
    BY <1>2, SurfacesAssumption
  <1> QED BY <1>2, <1>3 DEF SelectorPins, ElementKeys

LEMMA InputTypes ==
    /\ NewInput \in Inputs
    /\ \A inp \in Inputs, s \in Settings : Displayed(inp, s) \in Inputs
    /\ \A inp \in Inputs, note \in Notes, on \in BOOLEAN, s \in Settings :
          Heard(inp, note, on, s) \in Inputs
  <1>1. NewInput \in Inputs
    BY DEF NewInput, Inputs
  <1>2. \A inp \in Inputs, s \in Settings : Displayed(inp, s) \in Inputs
    BY DEF Displayed, Inputs
  <1>3. ASSUME NEW inp \in Inputs, NEW note \in Notes, NEW on \in BOOLEAN,
               NEW s \in Settings
        PROVE  Heard(inp, note, on, s) \in Inputs
    <2> DEFINE b == BankIndex(note, Base)
               new == [inp EXCEPT !.values = [inp.values EXCEPT ![b] = on]]
    <2>1. new \in Inputs
      BY DEF Inputs
    <2>2. Heard(inp, note, on, s) \in {inp, new, Displayed(new, s)}
      BY DEF Heard, Inputs
    <2> HIDE DEF new
    <2> QED BY <1>2, <2>1, <2>2
  <1> QED BY <1>1, <1>2, <1>3

LEMMA NewOutputGood ==
    ASSUME NEW chord \in Chords
    PROVE  LET o == NewOutput(chord)
           IN  KeysGood(o, {}) /\ ChordGood(o, FALSE) /\ LatchGood(o)
  <1> DEFINE o == NewOutput(chord)
  <1>1. /\ o \in Outputs /\ o.active = 0 /\ o.locked = Unlocked
        /\ o.sounding = {} /\ o.newChord = chord
        /\ o.states = [s \in Settings |-> FALSE]
    BY KeyNumbers DEF NewOutput, Outputs
  <1>2. chord # NoChord
    BY ElementsAssumption
  <1>3. KeysGood(o, {})
    <2> HIDE DEF o
    <2> QED BY <1>1, FS_EmptySet DEF KeysGood
  <1>4. ChordGood(o, FALSE)
    <2> HIDE DEF o
    <2> QED BY <1>1, <1>2 DEF ChordGood
  <1>5. LatchGood(o)
    <2> HIDE DEF o
    <2> QED BY <1>1 DEF LatchGood
  <1> QED BY <1>3, <1>4, <1>5

LEMMA InitIInv == Init => IInv /\ LatchInv /\ LedInv /\ HoldInv
  <1> SUFFICES ASSUME Init PROVE IInv /\ LatchInv /\ LedInv /\ HoldInv
    OBVIOUS
  <1>1. PICK chord \in Chords : out = NewOutput(chord)
    BY DEF Init
  <1>2. KeysGood(out, {}) /\ ChordGood(out, FALSE) /\ LatchGood(out)
    BY <1>1, NewOutputGood
  <1>3. surface \in Surfaces
    BY DEF Init
  <1>4. TypeOK
    <2>1. out \in Outputs
      BY <1>2 DEF KeysGood
    <2>2. pair \in Pairs
      BY AgesAssumption DEF Init, NewPair, Pairs
    <2>3. selButtons \in [SelectorPins -> Buttons]
          /\ keys \in [ElementKeys -> Buttons]
      BY NewButtonType DEF Init
    <2>4. sel \in Selectors /\ input \in Inputs
      BY BegunOK, InputTypes DEF Init
    <2>5. 0 \in Looped
      BY SettingsType, KeyNumbers DEF Looped
    <2>6. changes \in 0..MaxChanges[surface.selector]
      BY <1>3, Kinds DEF Init
    <2> QED BY <2>1, <2>2, <2>3, <2>4, <2>5, <2>6 DEF Init, TypeOK
  <1>5. SelectorInv
    BY BegunOK DEF Init, SelectorInv
  <1>6. Down = {} /\ (surface.element = "chord" => ~keys[0].is)
    BY <1>3, Kinds DEF Init, Down, NewButton
  <1>7. OutputInv
    <2>1. surface.element = "chord" => keys[0].is = FALSE
      BY <1>3, Kinds DEF Init, NewButton
    <2> QED BY <1>2, <1>6, <2>1 DEF OutputInv
  <1>8. LedInv
    <2>1. sel.selection \in Settings /\ input = NewInput /\ heard = {}
      BY BegunOK DEF Init, Selectors
    <2> QED BY <2>1, NewInputGood DEF LedInv
  <1>9. HoldInv
    BY DEF Init, NewPair, HoldInv, HoldGood
  <1> QED BY <1>2, <1>4, <1>5, <1>7, <1>8, <1>9 DEF IInv, LatchInv

-----------------------------------------------------------------------------

LEMMA SameOutput ==
    ASSUME TypeOK, OutputInv, surface' = surface, out' = out,
           \A k \in ElementKeys : keys'[k].is = keys[k].is
    PROVE  OutputInv'
  <1>1. ElementKeys' = ElementKeys
    BY Domains
  <1>2. Down' = Down
    BY <1>1 DEF Down
  <1>3. surface.element = "chord" => 0 \in ElementKeys
    BY Kinds DEF TypeOK
  <1>4. surface.element = "chord" => keys'[0].is = keys[0].is
    BY <1>3
  <1> QED BY <1>2, <1>4 DEF OutputInv

LEMMA SameSelector ==
    ASSUME SelectorInv, sel' = sel, moved' = moved
    PROVE  SelectorInv'
  BY DEF SelectorInv

LEMMA ToggleSelectorPinStep ==
    ASSUME IInv, NEW p \in SelectorPins, ToggleSelectorPin(p)
    PROVE  IInv'
  <1>1. TypeOK'
    <2>1. surface' = surface /\ surface \in Surfaces
      BY DEF ToggleSelectorPin, IInv, TypeOK
    <2>2. SelectorPins' = SelectorPins /\ ElementKeys' = ElementKeys
      BY <2>1, Domains
    <2>3. changes' \in 0..MaxChanges'[surface'.selector]
      BY <2>1, Kinds DEF ToggleSelectorPin, Changed, IInv, TypeOK
    <2> QED BY <2>2, <2>3 DEF IInv, TypeOK, ToggleSelectorPin, Looped
  <1>2. SelectorInv' /\ OutputInv'
    BY SameSelector, SameOutput DEF IInv, ToggleSelectorPin
  <1> QED BY <1>1, <1>2 DEF IInv

LEMMA ToggleKeyStep ==
    ASSUME IInv, NEW k \in ElementKeys, ToggleKey(k)
    PROVE  IInv'
  <1>1. TypeOK'
    <2>1. surface' = surface /\ surface \in Surfaces
      BY DEF ToggleKey, IInv, TypeOK
    <2>2. SelectorPins' = SelectorPins /\ ElementKeys' = ElementKeys
      BY <2>1, Domains
    <2>3. changes' \in 0..MaxChanges'[surface'.selector]
      BY <2>1, Kinds DEF ToggleKey, Changed, IInv, TypeOK
    <2> QED BY <2>2, <2>3 DEF IInv, TypeOK, ToggleKey, Looped
  <1>2. SelectorInv' /\ OutputInv'
    BY SameSelector, SameOutput DEF IInv, ToggleKey
  <1> QED BY <1>1, <1>2 DEF IInv

LEMMA TickStep ==
    ASSUME IInv, Tick
    PROVE  IInv'
  <1>1. /\ selButtons \in [SelectorPins -> Buttons]
        /\ keys \in [ElementKeys -> Buttons] /\ pair \in Pairs
    BY DEF IInv, TypeOK
  <1>2. surface' = surface
    BY DEF Tick
  <1>3. SelectorPins' = SelectorPins /\ ElementKeys' = ElementKeys
    BY <1>2, Domains
  <1>4. selButtons' \in [SelectorPins -> Buttons]
        /\ keys' \in [ElementKeys -> Buttons]
    BY <1>1, OlderType DEF Tick
  <1>5. pair' \in Pairs
    BY <1>1, PairType, NewButtonType DEF Tick
  <1>6. TypeOK'
    BY <1>3, <1>4, <1>5 DEF IInv, TypeOK, Tick, Looped
  <1>7. \A k \in ElementKeys : keys'[k].is = keys[k].is
    BY <1>1, OlderType DEF Tick
  <1>8. SelectorInv' /\ OutputInv'
    BY <1>7, SameSelector, SameOutput DEF IInv, Tick
  <1> QED BY <1>6, <1>8 DEF IInv

LEMMA SetChordStep ==
    ASSUME IInv, NEW chord \in Chords, SetChord(chord)
    PROVE  IInv'
  <1>1. out \in Outputs /\ surface' = surface /\ keys' = keys
        /\ surface.element = "chord" /\ chord # NoChord
    BY ElementsAssumption DEF SetChord, IInv, TypeOK
  <1>2. /\ out' \in Outputs /\ out'.newChord = chord /\ out'.chord = out.chord
        /\ out'.locked = out.locked /\ out'.sounding = out.sounding
    BY <1>1 DEF SetChord, Outputs
  <1>3. SelectorPins' = SelectorPins /\ ElementKeys' = ElementKeys
    BY <1>1, Domains
  <1>4. TypeOK'
    BY <1>2, <1>3 DEF IInv, TypeOK, SetChord, Looped
  <1>5. OutputInv'
    <2>1. ChordGood(out, keys[0].is)
      BY <1>1 DEF IInv, OutputInv
    <2>2. ChordGood(out', keys[0].is)
      BY <1>1, <1>2, <2>1 DEF ChordGood
    <2> QED BY <1>1, <2>2 DEF OutputInv
  <1>6. SelectorInv'
    BY SameSelector DEF IInv, SetChord
  <1> QED BY <1>4, <1>5, <1>6 DEF IInv

LEMMA ReceiveNoteStep ==
    ASSUME IInv, NEW note \in Incoming, NEW on \in BOOLEAN, ReceiveNote(note, on)
    PROVE  IInv'
  <1>1. surface' = surface /\ surface \in Surfaces /\ note \in Notes
    BY SurfacesAssumption DEF ReceiveNote, IInv, TypeOK
  <1>2. SelectorPins' = SelectorPins /\ ElementKeys' = ElementKeys
    BY <1>1, Domains
  <1>3. changes' \in 0..MaxChanges'[surface'.selector]
    BY <1>1, Kinds DEF ReceiveNote, Changed, IInv, TypeOK
  <1>4. input' \in Inputs
    <2>1. input \in Inputs /\ sel.selection \in Settings
      BY DEF IInv, TypeOK, Selectors
    <2>2. input' = Heard(input, note, on, sel.selection)
      BY DEF ReceiveNote
    <2> QED BY <1>1, <2>1, <2>2, InputTypes, Zenon
  <1>5. heard' \subseteq Notes
    BY <1>1 DEF ReceiveNote, IInv, TypeOK
  <1>6. TypeOK'
    BY <1>2, <1>3, <1>4, <1>5 DEF IInv, TypeOK, ReceiveNote, Looped
  <1>7. SelectorInv' /\ OutputInv'
    BY SameSelector, SameOutput DEF IInv, ReceiveNote
  <1> QED BY <1>6, <1>7 DEF IInv

LEMMA ReceiveAllNotesOffStep ==
    ASSUME IInv, ReceiveAllNotesOff
    PROVE  IInv'
  <1>1. surface' = surface /\ surface \in Surfaces
    BY DEF ReceiveAllNotesOff, IInv, TypeOK
  <1>2. SelectorPins' = SelectorPins /\ ElementKeys' = ElementKeys
    BY <1>1, Domains
  <1>3. changes' \in 0..MaxChanges'[surface'.selector]
    BY <1>1, Kinds DEF ReceiveAllNotesOff, Changed, IInv, TypeOK
  <1>4. TypeOK'
    BY <1>2, <1>3, InputTypes DEF IInv, TypeOK, ReceiveAllNotesOff, Looped
  <1>5. SelectorInv' /\ OutputInv'
    BY SameSelector, SameOutput DEF IInv, ReceiveAllNotesOff
  <1> QED BY <1>4, <1>5 DEF IInv

LEMMA ReceiveProgramStep ==
    ASSUME IInv, NEW program \in 0..NumBanks, ReceiveProgram(program)
    PROVE  IInv'
  <1>1. /\ surface' = surface /\ surface \in Surfaces
        /\ sel \in Selectors /\ SelectorOK(sel) /\ input \in Inputs
    BY DEF ReceiveProgram, IInv, TypeOK, SelectorInv
  <1>2. SelectorPins' = SelectorPins /\ ElementKeys' = ElementKeys
    BY <1>1, Domains
  <1>3. changes' \in 0..MaxChanges'[surface'.selector]
    BY <1>1, Kinds DEF ReceiveProgram, Changed, IInv, TypeOK
  <1>4. program \in Nat /\ (program < NumBanks => program \in Settings)
    BY SettingsType DEF Settings
  <1>5. /\ sel' \in Selectors /\ SelectorOK(sel')
        /\ sel.lit = {sel.setting} => sel'.lit = {sel'.setting}
    BY <1>1, <1>4, SetOK DEF ReceiveProgram
  <1>6. input' \in Inputs
    BY <1>1, <1>4, InputTypes DEF ReceiveProgram
  <1>7. TypeOK'
    BY <1>2, <1>3, <1>5, <1>6 DEF IInv, TypeOK, ReceiveProgram, Looped
  <1>8. SelectorInv'
    BY <1>5 DEF IInv, SelectorInv, ReceiveProgram
  <1>9. OutputInv'
    BY SameOutput DEF IInv, ReceiveProgram
  <1> QED BY <1>7, <1>8, <1>9 DEF IInv

LEMMA SkipSelectorStep ==
    ASSUME IInv, SkipSelector
    PROVE  IInv'
  <1>1. surface' = surface /\ surface \in Surfaces
    BY DEF SkipSelector, IInv, TypeOK
  <1>2. SelectorPins' = SelectorPins /\ ElementKeys' = ElementKeys
    BY <1>1, Domains
  <1>3. index' \in Looped'
    BY KeyNumbers DEF SkipSelector, Looped, IInv, TypeOK
  <1>4. TypeOK'
    BY <1>2, <1>3 DEF IInv, TypeOK, SkipSelector
  <1>5. SelectorInv' /\ OutputInv'
    BY SameSelector, SameOutput DEF IInv, SkipSelector
  <1> QED BY <1>4, <1>5 DEF IInv

LEMMA SelectType ==
    ASSUME TypeOK, NEW new \in Selectors, Select(new)
    PROVE  input' \in Inputs
  <1>1. input \in Inputs /\ new.selection \in Settings
    BY DEF TypeOK, Selectors
  <1> QED BY <1>1, InputTypes DEF Select

(* What updating a pair may do to the selector.                            *)
LEMMA PairSelects ==
    ASSUME IInv, UpdateSelectorPair
    PROVE  \E new :
             /\ new \in Selectors /\ SelectorOK(new) /\ Select(new)
             /\ ~moved' => new.lit = {new.setting}
             /\ \/ new.setting = sel.setting
                \/ UpdatePair(pair, selButtons'["incr"],
                              selButtons'["decr"])[2] # "Nothing"
  <1> DEFINE u == UpdatePair(pair, selButtons'["incr"], selButtons'["decr"])
  <1>1. /\ sel \in Selectors /\ SelectorOK(sel) /\ surface.wrap \in BOOLEAN
        /\ ~moved => sel.lit = {sel.setting}
    BY Kinds DEF IInv, TypeOK, SelectorInv
  <1>2. moved' = (moved \/ (u[2] = "Reset" /\ sel.setting # InitialSelection))
    BY DEF UpdateSelectorPair
  <1>3. \/ u[2] = "Nothing" /\ Select(sel)
        \/ u[2] = "Increment" /\ Select(Increment(sel, surface.wrap))
        \/ u[2] = "Decrement" /\ Select(Decrement(sel, surface.wrap))
        \/ u[2] = "Reset" /\ Select(Reset(sel))
    BY DEF UpdateSelectorPair
  <1> HIDE DEF u
  <1>4. CASE u[2] = "Nothing" /\ Select(sel)
    BY <1>1, <1>2, <1>4
  <1>5. CASE u[2] = "Increment" /\ Select(Increment(sel, surface.wrap))
    <2> DEFINE new == Increment(sel, surface.wrap)
    <2>1. /\ new \in Selectors /\ SelectorOK(new)
          /\ sel.lit = {sel.setting} => new.lit = {new.setting}
      BY <1>1, StepOK
    <2> HIDE DEF new
    <2>2. Select(new) /\ u[2] # "Nothing"
      BY <1>5 DEF new
    <2> QED BY <1>1, <1>2, <2>1, <2>2 DEF u
  <1>6. CASE u[2] = "Decrement" /\ Select(Decrement(sel, surface.wrap))
    <2> DEFINE new == Decrement(sel, surface.wrap)
    <2>1. /\ new \in Selectors /\ SelectorOK(new)
          /\ sel.lit = {sel.setting} => new.lit = {new.setting}
      BY <1>1, StepOK
    <2> HIDE DEF new
    <2>2. Select(new) /\ u[2] # "Nothing"
      BY <1>6 DEF new
    <2> QED BY <1>1, <1>2, <2>1, <2>2 DEF u
  <1>7. CASE u[2] = "Reset" /\ Select(Reset(sel))
    <2> DEFINE new == Reset(sel)
    <2>1. /\ new \in Selectors /\ SelectorOK(new)
          /\ sel.lit \subseteq {InitialSelection} => new.lit = {new.setting}
      BY <1>1, ResetOK
    <2> HIDE DEF new
    <2>2. Select(new) /\ u[2] # "Nothing"
      BY <1>7 DEF new
    <2>3. ~moved' => new.lit = {new.setting}
      BY <1>1, <1>2, <1>7, <2>1
    <2> QED BY <2>1, <2>2, <2>3 DEF u
  <1> QED BY <1>3, <1>4, <1>5, <1>6, <1>7

LEMMA PairSampled ==
    ASSUME IInv, UpdateSelectorPair
    PROVE  /\ selButtons' \in [SelectorPins -> Buttons]
           /\ pair' \in Pairs
           /\ pair' = UpdatePair(pair, selButtons'["incr"],
                                selButtons'["decr"])[1]
           /\ \A p \in {"incr", "decr"} :
                 /\ selButtons[p] \in Buttons /\ selDown[p] \in BOOLEAN
                 /\ selButtons'[p] = Sample(selButtons[p], selDown[p])
                 /\ selButtons'[p] \in Buttons
  <1>1. SelectorPins = {"incr", "decr"} /\ pair \in Pairs
    BY Kinds DEF UpdateSelectorPair, IInv, TypeOK
  <1>2. \A p \in {"incr", "decr"} :
          selButtons[p] \in Buttons /\ selDown[p] \in BOOLEAN
    BY <1>1 DEF IInv, TypeOK
  <1>3. selButtons' = [p \in {"incr", "decr"} |-> Sample(selButtons[p], selDown[p])]
    BY <1>1 DEF UpdateSelectorPair
  <1>4. \A p \in {"incr", "decr"} :
                 /\ selButtons'[p] = Sample(selButtons[p], selDown[p])
                 /\ selButtons'[p] \in Buttons
    BY <1>2, <1>3, SampleType, Zenon
  <1>5. selButtons' \in [SelectorPins -> Buttons]
    BY <1>1, <1>3, <1>4
  <1>6. pair' = UpdatePair(pair, selButtons'["incr"], selButtons'["decr"])[1]
    BY DEF UpdateSelectorPair
  <1>7. pair' \in Pairs
    BY <1>1, <1>4, <1>6, PairType
  <1> QED BY <1>2, <1>4, <1>5, <1>6, <1>7

LEMMA UpdateSelectorPairStep ==
    ASSUME IInv, UpdateSelectorPair
    PROVE  IInv'
  <1>1. PICK new : /\ new \in Selectors /\ SelectorOK(new) /\ Select(new)
                   /\ ~moved' => new.lit = {new.setting}
    BY PairSelects
  <1>2. /\ surface' = surface /\ surface \in Surfaces /\ sel' = new
        /\ out' = out /\ keys' = keys /\ keyDown' = keyDown
        /\ selDown' = selDown /\ heard' = heard /\ changes' = changes
    BY <1>1 DEF Select, IInv, TypeOK
  <1>3. SelectorPins' = SelectorPins /\ ElementKeys' = ElementKeys
    BY <1>2, Domains
  <1>4. selButtons' \in [SelectorPins -> Buttons] /\ pair' \in Pairs
    BY PairSampled
  <1>5. swapped' \in BOOLEAN /\ moved' \in BOOLEAN
    BY DEF UpdateSelectorPair
  <1>6. input' \in Inputs
    BY <1>1, SelectType DEF IInv
  <1>7. turn' = "element" /\ index' \in Looped'
    BY <1>2, KeyNumbers DEF UpdateSelectorPair, Looped, IInv, TypeOK
  <1>8. TypeOK'
    BY <1>1, <1>2, <1>3, <1>4, <1>5, <1>6, <1>7 DEF IInv, TypeOK
  <1>9. SelectorInv'
    BY <1>1, <1>2 DEF SelectorInv
  <1>10. OutputInv'
    BY <1>2, SameOutput DEF IInv
  <1> QED BY <1>8, <1>9, <1>10 DEF IInv

LEMMA ManySelects ==
    ASSUME IInv, UpdateManyButtons
    PROVE  \E new :
             /\ new \in Selectors /\ SelectorOK(new) /\ Select(new)
             /\ ~moved => new.lit = {new.setting}
  <1>1. /\ sel \in Selectors /\ SelectorOK(sel)
        /\ ~moved => sel.lit = {sel.setting}
    BY DEF IInv, TypeOK, SelectorInv
  <1>2. index \in Nat
    BY SettingsType DEF IInv, TypeOK, Looped, UpdateManyButtons
  <1>3. Select(Set(sel, index)) \/ Select(sel)
    BY DEF UpdateManyButtons
  <1>4. /\ Set(sel, index) \in Selectors /\ SelectorOK(Set(sel, index))
        /\ sel.lit = {sel.setting} =>
             Set(sel, index).lit = {Set(sel, index).setting}
    BY <1>1, <1>2, SetOK
  <1>5. CASE Select(Set(sel, index))
    <2> HIDE DEF Set
    <2> WITNESS Set(sel, index)
    <2> QED BY <1>1, <1>4, <1>5
  <1>6. CASE Select(sel)
    BY <1>1, <1>6
  <1> QED BY <1>3, <1>5, <1>6

LEMMA UpdateManyButtonsStep ==
    ASSUME IInv, UpdateManyButtons
    PROVE  IInv'
  <1>1. PICK new : /\ new \in Selectors /\ SelectorOK(new) /\ Select(new)
                   /\ ~moved => new.lit = {new.setting}
    BY ManySelects
  <1>2. /\ surface' = surface /\ surface \in Surfaces /\ sel' = new
        /\ out' = out /\ keys' = keys /\ keyDown' = keyDown
        /\ selDown' = selDown /\ heard' = heard /\ changes' = changes
        /\ pair' = pair /\ moved' = moved /\ swapped' = swapped
    BY <1>1 DEF Select, UpdateManyButtons, IInv, TypeOK
  <1>3. SelectorPins' = SelectorPins /\ ElementKeys' = ElementKeys
    BY <1>2, Domains
  <1>4. /\ turn = "selector" /\ surface.selector = "many"
        /\ SelectorPins = Settings /\ index \in Settings
    BY Kinds DEF UpdateManyButtons, IInv, TypeOK, Looped
  <1>5. selButtons' \in [SelectorPins -> Buttons]
    <2>1. selButtons[index] \in Buttons /\ selDown[index] \in BOOLEAN
      BY <1>4 DEF IInv, TypeOK
    <2>2. Sample(selButtons[index], selDown[index]) \in Buttons
      BY <2>1, SampleType
    <2> QED BY <2>2 DEF UpdateManyButtons, IInv, TypeOK
  <1>6. input' \in Inputs
    BY <1>1, SelectType DEF IInv
  <1>7. turn' \in {"selector", "element"} /\ index' \in Looped'
    <2>1. Advance(NumBanks, "element")
      BY DEF UpdateManyButtons
    <2>2. CASE index + 1 < NumBanks
      BY <1>2, <1>4, <2>1, <2>2, SettingsType DEF Advance, Looped, Settings
    <2>3. CASE ~(index + 1 < NumBanks)
      BY <1>2, <1>4, <2>1, <2>3, KeyNumbers DEF Advance, Looped
    <2> QED BY <2>2, <2>3
  <1>8. TypeOK'
    BY <1>1, <1>2, <1>3, <1>5, <1>6, <1>7 DEF IInv, TypeOK
  <1>9. SelectorInv'
    BY <1>1, <1>2 DEF SelectorInv
  <1>10. OutputInv'
    BY <1>2, SameOutput DEF IInv
  <1> QED BY <1>8, <1>9, <1>10 DEF IInv

LEMMA UpdateKeyStep ==
    ASSUME IInv, UpdateKey
    PROVE  IInv'
  <1> DEFINE k == index
             key == Sample(keys[k], keyDown[k])
  <1>1. /\ surface' = surface /\ surface \in Surfaces /\ turn = "element"
        /\ surface.element = "keys" /\ ElementKeys = Keys /\ k \in Keys
    BY Kinds DEF UpdateKey, IInv, TypeOK, Looped
  <1>2. SelectorPins' = SelectorPins /\ ElementKeys' = ElementKeys
    BY <1>1, Domains
  <1>3. /\ keys \in [Keys -> Buttons] /\ keys[k] \in Buttons
        /\ keyDown[k] \in BOOLEAN /\ sel.selection \in Settings
    BY <1>1 DEF IInv, TypeOK, Selectors
  <1>4. key \in Buttons /\ key.was = keys[k].is
    BY <1>3, SampleType
  <1> HIDE DEF key
  <1>5. keys' = [keys EXCEPT ![k] = key] /\ keys'[k] = key
    <2>1. keys' = [keys EXCEPT ![k] = key]
      BY DEF UpdateKey, key
    <2> QED BY <1>1, <1>3, <2>1
  <1>6. out' = KeyUpdated(out, k, key, sel.selection)
    BY <1>5 DEF UpdateKey
  <1>7. KeysGood(out, Down) /\ Down \subseteq Keys
        /\ (k \in Down <=> keys[k].is)
    BY <1>1 DEF IInv, OutputInv, Down
  <1>8. \A j \in Keys : j # k => (j \in Down' <=> j \in Down)
    BY <1>1, <1>2, <1>3, <1>5 DEF Down
  <1>9. k \in Down' <=> key.is
    BY <1>1, <1>2, <1>5 DEF Down
  <1>10. Down' \subseteq Keys
    BY <1>1, <1>2 DEF Down
  <1>11. KeysGood(out', Down')
    <2>1. CASE Falling(key)
      <3>1. k \notin Down /\ k \in Down'
        BY <1>4, <1>7, <1>9, <2>1 DEF Falling
      <3>2. Down' = Down \union {k}
        BY <1>7, <1>8, <1>10, <3>1
      <3> QED BY <1>1, <1>3, <1>6, <1>7, <2>1, <3>1, <3>2, KeyPressed
    <2>2. CASE Rising(key)
      <3>1. k \in Down /\ k \notin Down'
        BY <1>4, <1>7, <1>9, <2>2 DEF Rising
      <3>2. Down' = Down \ {k}
        BY <1>7, <1>8, <1>10, <3>1
      <3> QED BY <1>1, <1>3, <1>6, <1>7, <2>2, <3>1, <3>2, KeyReleased
    <2>3. CASE ~Falling(key) /\ ~Rising(key)
      <3>1. key.is <=> keys[k].is
        BY <1>4, <2>3 DEF Falling, Rising
      <3>2. Down' = Down
        BY <1>7, <1>8, <1>9, <1>10, <3>1
      <3>3. out' = out
        BY <1>6, <2>3 DEF KeyUpdated
      <3> QED BY <1>7, <3>2, <3>3
    <2> QED BY <2>1, <2>2, <2>3
  <1>12. index' \in Looped' /\ turn' \in {"selector", "element"}
    <2>1. Advance(NumKeys, "selector")
      BY DEF UpdateKey
    <2>2. CASE index + 1 < NumKeys
      BY <1>1, <2>1, <2>2, KeyNumbers DEF Advance, Looped, Keys
    <2>3. CASE ~(index + 1 < NumKeys)
      BY <1>1, <2>1, <2>3, SettingsType DEF Advance, Looped
    <2> QED BY <2>2, <2>3
  <1>13. TypeOK'
    <2>1. out' \in Outputs
      BY <1>11 DEF KeysGood
    <2>2. keys' \in [ElementKeys' -> Buttons]
      BY <1>1, <1>2, <1>3, <1>4, <1>5
    <2> QED BY <1>1, <1>2, <1>12, <2>1, <2>2 DEF IInv, TypeOK, UpdateKey
  <1>14. OutputInv'
    BY <1>1, <1>11 DEF OutputInv
  <1>15. SelectorInv'
    BY SameSelector DEF IInv, UpdateKey
  <1> QED BY <1>13, <1>14, <1>15 DEF IInv

LEMMA ChordUpdatedGood ==
    ASSUME NEW o, NEW b \in Buttons, NEW key, key \in Buttons, key.was = b.is,
           ChordGood(o, b.is), NEW selection \in Settings
    PROVE  ChordGood(ChordUpdated(o, key, selection), key.is)
  <1>1. CASE Falling(key)
    <2>1. b.is = FALSE /\ key.is = TRUE
      BY <1>1 DEF Falling, Buttons
    <2> QED BY <1>1, <2>1, ChordPressed
  <1>2. CASE Rising(key)
    <2>1. b.is = TRUE /\ key.is = FALSE
      BY <1>2 DEF Rising, Buttons
    <2> QED BY <1>2, <2>1, ChordReleased
  <1>3. CASE ~Falling(key) /\ ~Rising(key)
    <2>1. b.is = key.is
      BY <1>3 DEF Falling, Rising, Buttons
    <2>2. ChordUpdated(o, key, selection) = o
      BY <1>3 DEF ChordUpdated
    <2> QED BY <2>1, <2>2
  <1> QED BY <1>1, <1>2, <1>3

LEMMA LatchType ==
    ASSUME NEW o \in Outputs, NEW key, NEW selection \in Settings
    PROVE  LatchUpdated(o, key, selection) \in Outputs
  <1> DEFINE s == Selection(o, selection)
             note == ActiveAddress(o, selection)
             states == [o.states EXCEPT ![s] = ~@]
             new == [o EXCEPT !.states = states]
  <1>1. s \in Settings
    BY DEF Selection, Outputs
  <1>2. note \in Notes
    <2> HIDE DEF s
    <2>1. note = AddressOf(Base, s)
      BY DEF ActiveAddress, s
    <2> QED BY <1>1, <2>1, AddressType
  <1>3. states \in [Settings -> BOOLEAN]
    BY DEF Outputs
  <1>4. new \in Outputs
    <2> HIDE DEF states
    <2> QED BY <1>3 DEF Outputs
  <1>5. On(new, {note}) \in Outputs /\ Off(new, {note}) \in Outputs
    <2> HIDE DEF new, note
    <2> QED BY <1>2, <1>4 DEF On, Off, Outputs
  <1>6. LatchUpdated(o, key, selection) \in {o, On(new, {note}), Off(new, {note})}
    BY DEF LatchUpdated
  <1> QED BY <1>4, <1>5, <1>6

LEMMA ElementSampled ==
    ASSUME IInv, UpdateElement
    PROVE  /\ keys' \in [ElementKeys -> Buttons]
           /\ \A k \in ElementKeys : keys[k] \in Buttons /\ keys'[k].was = keys[k].is
  <1>1. \A k \in ElementKeys : keys[k] \in Buttons /\ keyDown[k] \in BOOLEAN
    BY DEF IInv, TypeOK
  <1>2. keys' = [k \in ElementKeys |-> Sample(keys[k], keyDown[k])]
    BY DEF UpdateElement
  <1>3. \A k \in ElementKeys : /\ Sample(keys[k], keyDown[k]) \in Buttons
                               /\ Sample(keys[k], keyDown[k]).was = keys[k].is
    BY <1>1, SampleType, Zenon
  <1> QED BY <1>1, <1>2, <1>3

LEMMA UpdateElementStep ==
    ASSUME IInv, UpdateElement
    PROVE  IInv'
  <1>1. /\ surface' = surface /\ surface \in Surfaces
        /\ surface.element # "keys" /\ turn' = "selector" /\ index' = index
        /\ turn = "element" /\ sel.selection \in Settings /\ out \in Outputs
    BY DEF UpdateElement, IInv, TypeOK, Selectors
  <1>2. SelectorPins' = SelectorPins /\ ElementKeys' = ElementKeys
    BY <1>1, Domains
  <1>3. /\ keys' \in [ElementKeys -> Buttons]
        /\ \A k \in ElementKeys : keys[k] \in Buttons /\ keys'[k].was = keys[k].is
    BY ElementSampled
  <1>4. ASSUME surface.element = "chord"
        PROVE  ChordGood(out', keys'[0].is)
    <2>1. 0 \in ElementKeys
      BY <1>1, <1>4, Kinds
    <2>2. out' = ChordUpdated(out, keys'[0], sel.selection)
      BY <1>4 DEF UpdateElement
    <2>3. ChordGood(out, keys[0].is)
      BY <1>4 DEF IInv, OutputInv
    <2>4. keys[0] \in Buttons /\ keys'[0] \in Buttons /\ keys'[0].was = keys[0].is
      BY <1>3, <2>1
    <2> QED BY <1>1, <2>2, <2>3, <2>4, ChordUpdatedGood
  <1>5. out' \in Outputs
    <2>1. CASE surface.element = "chord"
      BY <1>4, <2>1 DEF ChordGood
    <2>2. CASE surface.element = "latch"
      BY <1>1, <2>2, LatchType DEF UpdateElement
    <2>3. CASE surface.element = "led"
      BY <1>1, <2>3 DEF UpdateElement
    <2> QED BY <2>1, <2>2, <2>3 DEF UpdateElement
  <1>6. index' \in Looped'
    BY <1>1, SettingsType DEF Looped, IInv, TypeOK
  <1>7. TypeOK'
    BY <1>1, <1>2, <1>3, <1>5, <1>6 DEF IInv, TypeOK, UpdateElement
  <1>8. OutputInv'
    BY <1>1, <1>4 DEF OutputInv
  <1>9. SelectorInv'
    BY SameSelector DEF IInv, UpdateElement
  <1> QED BY <1>7, <1>8, <1>9 DEF IInv

LEMMA IInvStep ==
    ASSUME IInv, [Next]_vars
    PROVE  IInv'
  <1>1. CASE \E p \in SelectorPins : ToggleSelectorPin(p)
    BY <1>1, ToggleSelectorPinStep
  <1>2. CASE \E k \in ElementKeys : ToggleKey(k)
    BY <1>2, ToggleKeyStep
  <1>3. CASE Tick
    BY <1>3, TickStep
  <1>4. CASE UpdateSelectorPair
    BY <1>4, UpdateSelectorPairStep
  <1>5. CASE UpdateManyButtons
    BY <1>5, UpdateManyButtonsStep
  <1>6. CASE SkipSelector
    BY <1>6, SkipSelectorStep
  <1>7. CASE UpdateKey
    BY <1>7, UpdateKeyStep
  <1>8. CASE UpdateElement
    BY <1>8, UpdateElementStep
  <1>9. CASE \E chord \in Chords : SetChord(chord)
    BY <1>9, SetChordStep
  <1>10. CASE \E note \in Incoming, on \in BOOLEAN : ReceiveNote(note, on)
    BY <1>10, ReceiveNoteStep, Zenon
  <1>11. CASE ReceiveAllNotesOff
    BY <1>11, ReceiveAllNotesOffStep
  <1>12. CASE \E program \in 0..NumBanks : ReceiveProgram(program)
    BY <1>12, ReceiveProgramStep
  <1>13. CASE UNCHANGED vars
    BY <1>13 DEF vars, IInv, TypeOK, SelectorInv, OutputInv, Looped, Down,
                 SelectorPins, ElementKeys
  <1> QED BY <1>1, <1>2, <1>3, <1>4, <1>5, <1>6, <1>7, <1>8, <1>9, <1>10, <1>11,
             <1>12, <1>13 DEF Next, Loop

-----------------------------------------------------------------------------

LEMMA LatchStep ==
    ASSUME BankFits, IInv, LatchInv, [Next]_vars
    PROVE  LatchInv'
  <1>1. surface' = surface
    BY DEF Next, Loop, vars, ToggleSelectorPin, ToggleKey, Tick, Select,
           UpdateSelectorPair, UpdateManyButtons, SkipSelector, UpdateKey,
           UpdateElement, SetChord, ReceiveNote, ReceiveAllNotesOff,
           ReceiveProgram
  <1> SUFFICES ASSUME surface.element = "latch" PROVE LatchGood(out')
    BY <1>1 DEF LatchInv
  <1>2. CASE UpdateElement
    <2>1. out' = LatchUpdated(out, keys'[0], sel.selection)
      BY <1>2 DEF UpdateElement
    <2>2. sel.selection \in Settings /\ LatchGood(out)
      BY DEF IInv, TypeOK, Selectors, LatchInv
    <2> QED BY <2>1, <2>2, LatchToggled
  <1>3. CASE ~UpdateElement
    <2>1. out' = out
      BY <1>3 DEF Next, Loop, vars, ToggleSelectorPin, ToggleKey, Tick, Select,
           UpdateSelectorPair, UpdateManyButtons, SkipSelector, UpdateKey,
           SetChord, ReceiveNote, ReceiveAllNotesOff, ReceiveProgram
    <2> QED BY <2>1 DEF LatchInv
  <1> QED BY <1>2, <1>3

LEMMA SelectShows ==
    ASSUME TypeOK, NEW new \in Selectors, Select(new),
           InputGood(input, heard, sel.selection)
    PROVE  InputGood(input', heard', sel'.selection)
  <1>1. sel.selection \in Settings /\ new.selection \in Settings
    BY DEF TypeOK, Selectors
  <1>2. InputGood(Displayed(input, new.selection), heard, new.selection)
    BY <1>1, DisplayedGood
  <1> QED BY <1>2 DEF Select

LEMMA LedStep ==
    ASSUME BankFits, IInv, LedInv, [Next]_vars
    PROVE  LedInv'
  <1>1. surface' = surface
    BY DEF Next, Loop, vars, ToggleSelectorPin, ToggleKey, Tick, Select,
           UpdateSelectorPair, UpdateManyButtons, SkipSelector, UpdateKey,
           UpdateElement, SetChord, ReceiveNote, ReceiveAllNotesOff,
           ReceiveProgram
  <1> SUFFICES ASSUME surface.element = "led"
               PROVE  InputGood(input', heard', sel'.selection)
    BY <1>1 DEF LedInv
  <1>2. InputGood(input, heard, sel.selection) /\ sel.selection \in Settings
        /\ TypeOK
    BY DEF LedInv, IInv, TypeOK, Selectors
  <1>3. CASE UpdateSelectorPair
    <2>1. PICK new : new \in Selectors /\ Select(new)
      BY <1>3, PairSelects
    <2> QED BY <1>2, <2>1, SelectShows
  <1>4. CASE UpdateManyButtons
    <2>1. PICK new : new \in Selectors /\ Select(new)
      BY <1>4, ManySelects
    <2> QED BY <1>2, <2>1, SelectShows
  <1>5. CASE \E note \in Incoming, on \in BOOLEAN : ReceiveNote(note, on)
    <2>1. PICK note \in Incoming, on \in BOOLEAN : ReceiveNote(note, on)
      BY <1>5, Zenon
    <2>2. note \in Notes
      BY <2>1, SurfacesAssumption
    <2>3. /\ heard' = IF on THEN heard \union {note} ELSE heard \ {note}
          /\ input' = Heard(input, note, on, sel.selection) /\ sel' = sel
      BY <2>1 DEF ReceiveNote
    <2>4. InputGood(Heard(input, note, on, sel.selection),
                    IF on THEN heard \union {note} ELSE heard \ {note},
                    sel.selection)
      BY <1>2, <2>1, <2>2, HeardGood
    <2> QED BY <2>3, <2>4, Zenon
  <1>6. CASE ReceiveAllNotesOff
    BY <1>2, <1>6, NewInputGood DEF ReceiveAllNotesOff
  <1>7. CASE \E program \in 0..NumBanks : ReceiveProgram(program)
    <2>1. PICK program \in 0..NumBanks : ReceiveProgram(program)
      BY <1>7
    <2>2. CASE program < NumBanks
      <3>1. program \in Settings
        BY <2>1, <2>2, SettingsType DEF Settings
      <3>2. InputGood(Displayed(input, program), heard, program)
        BY <1>2, <3>1, DisplayedGood
      <3>3. Set(sel, program).selection = program
        <4>1. ValidateSetting(program) = program
          BY <2>2, <3>1, SettingsType DEF ValidateSetting, Settings
        <4>2. sel \in Selectors
          BY <1>2 DEF TypeOK
        <4> QED BY <4>1, <4>2 DEF Set, Selectors
      <3> QED BY <2>1, <2>2, <3>2, <3>3 DEF ReceiveProgram
    <2>3. CASE ~(program < NumBanks)
      BY <1>2, <2>1, <2>3 DEF ReceiveProgram
    <2> QED BY <2>2, <2>3
  <1>8. CASE input' = input /\ heard' = heard /\ sel' = sel
    BY <1>2, <1>8
  <1>9. \/ UpdateSelectorPair \/ UpdateManyButtons \/ ReceiveAllNotesOff
        \/ \E note \in Incoming, on \in BOOLEAN : ReceiveNote(note, on)
        \/ \E program \in 0..NumBanks : ReceiveProgram(program)
        \/ input' = input /\ heard' = heard /\ sel' = sel
    BY DEF Next, Loop, vars, ToggleSelectorPin, ToggleKey, Tick, SkipSelector,
           UpdateKey, UpdateElement, SetChord
  <1> QED BY <1>3, <1>4, <1>5, <1>6, <1>7, <1>8, <1>9

(* What HoldNeedsLongPress says of one step.                               *)
HoldAction ==
    surface.selector = "buttons" /\ sel'.setting # sel.setting =>
        \/ swapped'
        \/ \E p \in SelectorPins :
              \/ Falling(selButtons'[p])
              \/ Pressed(selButtons'[p]) /\ selButtons'[p].age >= LongPressDelay

LEMMA HoldStep ==
    ASSUME DebounceTime < LongPressDelay, IInv, HoldInv, [Next]_vars
    PROVE  HoldInv' /\ HoldAction
  <1>1. surface' = surface
    BY DEF Next, Loop, vars, ToggleSelectorPin, ToggleKey, Tick, Select,
           UpdateSelectorPair, UpdateManyButtons, SkipSelector, UpdateKey,
           UpdateElement, SetChord, ReceiveNote, ReceiveAllNotesOff,
           ReceiveProgram
  <1> SUFFICES ASSUME surface.selector = "buttons" PROVE HoldInv' /\ HoldAction
    BY <1>1 DEF HoldInv, HoldAction
  <1>2. SelectorPins = {"incr", "decr"}
    BY Kinds DEF IInv, TypeOK
  <1> DEFINE i1 == selButtons'["incr"]
             d1 == selButtons'["decr"]
             u == UpdatePair(pair, i1, d1)
  <1>3. CASE UpdateSelectorPair
    <2>1. /\ pair \in Pairs /\ pair' = u[1]
          /\ \A p \in {"incr", "decr"} :
                 /\ selButtons[p] \in Buttons /\ selDown[p] \in BOOLEAN
                 /\ selButtons'[p] = Sample(selButtons[p], selDown[p])
                 /\ selButtons'[p] \in Buttons
      BY <1>3, PairSampled DEF IInv, TypeOK
    <2>2. sel'.setting = sel.setting \/ u[2] # "Nothing"
      BY <1>3, PairSelects DEF Select
    <2>3. swapped' = (/\ ~BothReleased(i1, d1)
                      /\ \/ swapped
                         \/ Falling(i1) /\ Rising(d1)
                         \/ Rising(i1) /\ Falling(d1))
      BY <1>3 DEF UpdateSelectorPair
    <2> HIDE DEF i1, d1
    <2>4. CASE BothReleased(i1, d1)
      <3> DEFINE q == [pair EXCEPT !.press = "Initial"]
      <3>1. u = <<q, "Nothing">>
        BY <2>4 DEF UpdatePair
      <3>2. q.press = "Initial"
        BY <2>1 DEF Pairs
      <3>3. pair'.press = "Initial" /\ u[2] = "Nothing"
        <4> HIDE DEF q, u
        <4> QED BY <2>1, <3>1, <3>2
      <3> QED BY <2>2, <3>3 DEF HoldInv, HoldGood, HoldAction
    <2>5. CASE ~BothReleased(i1, d1) /\ swapped'
      BY <2>5 DEF HoldInv, HoldAction
    <2>6. CASE ~BothReleased(i1, d1) /\ ~swapped'
      <3>1. /\ ~swapped /\ ~(Falling(i1) /\ Rising(d1))
            /\ ~(Rising(i1) /\ Falling(d1))
        BY <2>3, <2>6
      <3>2. HoldGood(pair, selButtons["incr"], selButtons["decr"])
        BY <3>1 DEF HoldInv
      <3>3. /\ i1 = Sample(selButtons["incr"], selDown["incr"])
            /\ d1 = Sample(selButtons["decr"], selDown["decr"])
        BY <2>1 DEF i1, d1
      <3>4. /\ HoldGood(u[1], i1, d1)
            /\ u[2] # "Nothing" =>
                \/ Falling(i1) \/ Falling(d1)
                \/ Pressed(i1) /\ i1.age >= LongPressDelay
                \/ Pressed(d1) /\ d1.age >= LongPressDelay
        BY <2>1, <2>6, <3>1, <3>2, <3>3, HoldKept
      <3>5. HoldInv'
        BY <2>1, <3>4 DEF HoldInv, i1, d1
      <3>6. HoldAction
        BY <1>2, <2>2, <3>4 DEF HoldAction, i1, d1
      <3> QED BY <3>5, <3>6
    <2> QED BY <2>4, <2>5, <2>6
  <1>4. CASE Tick
    <2>1. \A p \in {"incr", "decr"} :
            selButtons[p] \in Buttons /\ selButtons'[p] = Older(selButtons[p])
      BY <1>2, <1>4 DEF Tick, IInv, TypeOK
    <2>2. \A b \in Buttons : /\ Holding(b) => Holding(Older(b))
                             /\ Older(b).is = b.is
      BY AgesAssumption, LongPressAssumption DEF Holding, Older, Buttons
    <2>3. pair'.press = pair.press
      BY <1>4 DEF Tick, PairOlder, IInv, TypeOK, Pairs
    <2>4. /\ Holding(selButtons["incr"]) => Holding(i1)
          /\ Holding(selButtons["decr"]) => Holding(d1)
          /\ i1.is = selButtons["incr"].is /\ d1.is = selButtons["decr"].is
      BY <2>1, <2>2
    <2>5. HoldInv'
      BY <1>1, <1>4, <2>3, <2>4 DEF HoldInv, HoldGood, Tick
    <2>6. HoldAction
      BY <1>4 DEF HoldAction, Tick
    <2> QED BY <2>5, <2>6
  <1>5. CASE /\ pair' = pair /\ selButtons' = selButtons /\ sel' = sel
             /\ swapped' = swapped
    BY <1>1, <1>5 DEF HoldInv, HoldAction
  <1>6. \/ UpdateSelectorPair \/ Tick
        \/ /\ pair' = pair /\ selButtons' = selButtons /\ sel' = sel
           /\ swapped' = swapped
    BY DEF Next, Loop, vars, ToggleSelectorPin, ToggleKey, SkipSelector,
           UpdateManyButtons, UpdateKey, UpdateElement, SetChord, ReceiveNote,
           ReceiveAllNotesOff, ReceiveProgram
  <1> QED BY <1>3, <1>4, <1>5, <1>6

-----------------------------------------------------------------------------

(* The bank has the setting of its selector, whose LED is on, with no      *)
(* other one before the first reset from another setting; every variable   *)
(* has its type.  GenericSelector and SelectorLEDsCallback do this for     *)
(* every selector and every number of settings.                            *)
THEOREM SelectorCorrect == Spec => []SelectorAgrees
  <1>1. IInv => SelectorAgrees
    BY DEF IInv, SelectorInv, SelectorOK, SelectorAgrees
  <1> QED BY <1>1, InitIInv, IInvStep, PTL DEF Spec

(* There are no sticky notes: MIDIButtons and MIDIChordButton turn every   *)
(* note off at the address at which they turned it on, because the lock is *)
(* held exactly while a key is down; the notes of MIDIButtonLatched are    *)
(* those of the settings it is on for.  The latter needs different notes   *)
(* for different settings, hence BankFits.                                 *)
THEOREM NotesCorrect == ASSUME BankFits PROVE Spec => []NoStickyNotes
  <1>1. IInv /\ LatchInv => NoStickyNotes
    <2> SUFFICES ASSUME IInv, LatchInv PROVE NoStickyNotes
      OBVIOUS
    <2>1. ASSUME surface.element = "keys", \A k \in ElementKeys : ~keys[k].is
          PROVE  out.sounding = {}
      <3>1. Down = {}
        BY <2>1 DEF Down
      <3> QED BY <2>1, <3>1 DEF IInv, OutputInv, KeysGood
    <2>2. ASSUME surface.element = "chord", \A k \in ElementKeys : ~keys[k].is
          PROVE  out.sounding = {}
      <3>1. 0 \in ElementKeys
        BY <2>2, Kinds DEF IInv, TypeOK
      <3> QED BY <2>2, <3>1 DEF IInv, OutputInv, ChordGood
    <2> QED BY <2>1, <2>2 DEF NoStickyNotes, LatchInv, LatchGood
  <1> QED BY <1>1, InitIInv, IInvStep, LatchStep, PTL DEF Spec

(* The LED of Bankable::NoteCCKPLED shows what the host last said of the   *)
(* note that an output has at this setting: the setting that matchBankable *)
(* and getBankIndex compute from a note, in uint8_t, is the one that       *)
(* shifts the element to this note, in int8_t, if notes stay inside 0..127.*)
THEOREM LedCorrect == ASSUME BankFits PROVE Spec => []LedShowsHost
  <1>1. IInv /\ LedInv => LedShowsHost
    BY DEF IInv, TypeOK, Selectors, LedInv, InputGood, LedShowsHost
  <1> QED BY <1>1, InitIInv, IInvStep, LedStep, PTL DEF Spec

(* IncrementDecrementButtons repeats only while one button has been down   *)
(* for a long press (and the buttons were not swapped).  This needs a      *)
(* debounce time shorter than a long press (25 and 450 ms in               *)
(* AH/Settings/Settings.hpp): otherwise a pair that is repeating does not  *)
(* yet see a release, and goes on without a button being held.             *)
THEOREM HoldCorrect ==
    ASSUME DebounceTime < LongPressDelay PROVE Spec => HoldNeedsLongPress
  <1>1. HoldAction /\ [Next]_vars => [HoldAction]_vars
    OBVIOUS
  <1> QED BY <1>1, InitIInv, IInvStep, HoldStep, PTL
             DEF Spec, HoldNeedsLongPress, HoldAction
=============================================================================
