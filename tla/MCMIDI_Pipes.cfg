SPECIFICATION PipesSpec
CONSTANTS
  Sources = {a, b}
  Sinks = {x, y, z}
  Pipes = {p1, p2, p3}
  None = None
  MaxParallel = 2
INVARIANTS
  PipesTypeOK
  DeliversAlongRoutes
  ExclusiveAccess
PROPERTY RoutingSpec
CHECK_DEADLOCK FALSE
SYMMETRY Symmetry
