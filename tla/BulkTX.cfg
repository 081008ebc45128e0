SPECIFICATION FairSpec
CONSTANTS
  None = None
  PacketSize = 2
  MaxMsgs = 4
  MaxBatch = 3
  MaxDisconnects = 2
  Nesting <- NestAll
  ResetPoints <- BetweenCalls
INVARIANTS
  AssertionsHold
  StartsOneFullTransfer
  NoForgottenData
PROPERTIES
  InFlightUntouched
  FifoSpec
  EveryMessageSent
  WriteReturns
