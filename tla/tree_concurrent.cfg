CONSTANTS
  r1 = r1
  r2 = r2
  Requests <- TwoRequests
  PatchTargets <- AnyTarget
  TaskIds = {t1, t2, t3}
  Projects = {p1, p2}
  MaxDepth = 1
  Null = Null
  Undefined = Undefined
SPECIFICATION HistorySpec
SYMMETRY Symmetry
INVARIANTS
  TreeIInv
  ParentInProject
  ForestUntilMoved
  DepthUntilAsked
CHECK_DEADLOCK FALSE
