SPECIFICATION FairSpec
CONSTANTS
  Capacity = 10
  Lengths = {}
  PushTypes = {}
  MaxBytes = 12
  Packets <- AllPackets
  FirstMin = 2
INVARIANTS
  BufferSound
  YieldsItsMidiUnlessHeadless
PROPERTIES
  FifoSpec
  EveryByteRead
  MaximumFits
