------------------------------ MODULE Selector ------------------------------
(***************************************************************************)
(* GenericSelector with its LED callback, as a record: the setting it      *)
(* shows, the selection of the bank it controls, and the LEDs that are on, *)
(* one LED per setting (SelectorLEDs.hpp).                                 *)
(***************************************************************************)
EXTENDS Bank

CONSTANTS InitialSelection     \* of the bank

ASSUME SelectionAssumption == InitialSelection \in Settings

Selectors == [setting : Settings, selection : Settings, lit : SUBSET Settings]

(* SelectorLEDsCallback::update: the old LED off, then the new LED on.     *)
LedsUpdated(sel, old, new) == (sel.lit \ {old}) \union {new}

(* reset() announces a change from the initial setting to itself.          *)
Reset(sel) ==
    [sel EXCEPT !.selection = InitialSelection,
                !.lit = LedsUpdated(sel, InitialSelection, InitialSelection),
                !.setting = InitialSelection]

(* Mutant: the setting is stored before the LEDs are updated.              *)
SetStoresFirst(sel, s) ==
    LET new == ValidateSetting(s)
    IN  [sel EXCEPT !.selection = new, !.setting = new,
                    !.lit = LedsUpdated(sel, new, new)]

Set(sel, s) ==
    LET new == ValidateSetting(s)
    IN  IF sel.setting = new THEN [sel EXCEPT !.selection = new]
        ELSE [sel EXCEPT !.selection = new, !.setting = new,
                         !.lit = LedsUpdated(sel, sel.setting, new)]

Increment(sel, wrap) ==
    IF sel.setting + 1 < NumBanks THEN Set(sel, sel.setting + 1)
    ELSE IF wrap THEN Set(sel, 0) ELSE sel

Decrement(sel, wrap) ==
    IF sel.setting > 0 THEN Set(sel, sel.setting - 1)
    ELSE IF wrap THEN Set(sel, NumBanks - 1) ELSE sel

(* begin(): all LEDs off, then reset().                                    *)
Begun == Reset([setting |-> 0, selection |-> InitialSelection, lit |-> {}])
=============================================================================
