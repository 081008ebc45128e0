SPECIFICATION StallSpec
CONSTANTS
  a = a  b = b  c = c
  x = x  y = y  z = z
  p1 = p1  p2 = p2  p3 = p3  p4 = p4  p5 = p5
  Sources = {a, b, c}
  Sinks = {x, y, z}
  Pipes = {p1, p2, p3, p4, p5}
  None = None
  MaxParallel = 1
INVARIANT ExclusiveAccess
CHECK_DEADLOCK FALSE
