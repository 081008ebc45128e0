SPECIFICATION Spec
CONSTANTS
  SysExSize = 4
  SysCommonCancels = FALSE
  Messages <- AllMessages
  Timeout = 10
  Delays = {0, 9, 128}
  Period = 11
  Start = 8183
  Cuts = {0}
  DefaultMTU = 10
  MTUs = {8}
  MaxEvents = 3
INVARIANT ContinuationIsSysEx
CHECK_DEADLOCK FALSE
