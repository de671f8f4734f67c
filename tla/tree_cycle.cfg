CONSTANTS
  r1 = r1
  r2 = r2
  Requests <- TwoRequests
  PatchTargets <- AnyTarget
  TaskIds = {t1, t2}
  Projects = {p1}
  MaxDepth = 2
  Null = Null
  Undefined = Undefined
SPECIFICATION TreeSpec
SYMMETRY Symmetry
INVARIANTS
  NoCycles
CHECK_DEADLOCK FALSE
