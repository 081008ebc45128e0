SPECIFICATION FairSpec
CONSTANTS
  None = None
  MTUs <- Smallest
  ForcedMTUs = {0}
  MaxMsgs = 3
  MaxPieces = 2
  MaxUpdates = 2
INVARIANTS
  NoLostWakeup
  SecondAttemptFits
  CapacityFollowsMTU
PROPERTIES
  FifoSpec
  EveryMessageSent
  CallsReturn
CHECK_DEADLOCK FALSE
