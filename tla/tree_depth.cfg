CONSTANTS
  r1 = r1
  r2 = r2
  Requests <- OneRequest
  PatchTargets <- AnyTarget
  TaskIds = {t1, t2, t3}
  Projects = {p1}
  MaxDepth = 1
  Null = Null
  Undefined = Undefined
SPECIFICATION TreeSpec
SYMMETRY Symmetry
INVARIANTS
  DepthBounded
CHECK_DEADLOCK FALSE
