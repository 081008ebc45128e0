SPECIFICATION FairSpec
CONSTANTS
  SysExSize = 4
  SysCommonCancels = FALSE
  Messages <- AllMessages
  Timeout = 10
  Delays = {0, 9, 119}
  Period = 11
  Start = 8183
  Cuts = {0, 4}
  DefaultMTU = 10
  MTUs = {8}
  MaxEvents = 3
INVARIANTS
  TypeOK
  ReadsWhatWasSent
  TimestampsRight
  Resynchronises
PROPERTY
  EverythingSent
CHECK_DEADLOCK FALSE
