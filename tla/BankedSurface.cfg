SPECIFICATION FairSpec
CONSTANTS
  DebounceTime = 1
  MaxAge = 2
  LongPressDelay = 2
  RepeatDelay = 1
  NumBanks = 3
  TracksPerBank = 2
  SelectionOffset <- BelowOne
  InitialSelection = 0
  Base = 3
  NumKeys = 2
  Chords <- TwoChords
  Unlocked = Unlocked
  NoChord = NoChord
  Surfaces <- AllSurfaces
  Incoming = {1, 2, 3, 5, 7}
  MaxChanges <- FewChanges
INVARIANTS
  SelectorAgrees
  NoStickyNotes
  LedShowsHost
PROPERTIES
  HoldNeedsLongPress
  KeysSettle
