SPECIFICATION FairSpec
CONSTANTS
  a = a  b = b  c = c
  x = x  y = y
  pa = pa  qa = qa  pb = pb  pc = pc
  Sources = {a, b, c}
  Sinks = {x, y}
  Pipes = {pa, qa, pb, pc}
  None = None
  MaxParallel = 1
  Wiring <- Shared
  Attempts = 10
  MaxEvents = 3
INVARIANTS
  TypeOK
PROPERTIES
  NoInterleaving
  InOrder
  EventsArrive
CHECK_DEADLOCK FALSE
