--------------------------- MODULE MCBankedSurface ---------------------------
(***************************************************************************)
(* Three settings, two notes apart and shifted by one setting; every kind  *)
(* of selector and of element.                                             *)
(***************************************************************************)
EXTENDS BankedSurface

Surface(selector, wrap, element) ==
    [selector |-> selector, wrap |-> wrap, element |-> element]

AllSurfaces == {Surface("program", TRUE, "keys"),
                Surface("program", TRUE, "chord"),
                Surface("buttons", TRUE, "latch"),
                Surface("buttons", FALSE, "led"),
                Surface("many", TRUE, "latch")}

FewChanges == [buttons |-> 4, many |-> 4, program |-> 6]

TwoChords == {{4}, {3, 7}}

BelowOne == -1
=============================================================================
