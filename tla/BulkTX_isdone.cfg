SPECIFICATION Spec
CONSTANTS
  None = None
  PacketSize = 2
  MaxMsgs = 5
  MaxBatch = 3
  MaxDisconnects = 0
  Nesting <- NestAll
  ResetPoints <- BetweenCalls
INVARIANT
  IsDoneMeansDone
