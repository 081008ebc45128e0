SPECIFICATION FairSpec
CONSTANTS
  None = None
  NumRxPackets = 3
  PacketSize = 2
  MsgSize = 2
  Lengths <- AllLengths
  Modulus = 8
  MaxMsgs = 8
  MaxLate = 1
  MaxDisconnects = 2
  ResetPoints <- BetweenReads
INVARIANTS
  ReceivesIntoFree
  ReceptionContinues
PROPERTIES
  FifoSpec
  EveryMessageRead
