CONSTANTS
  Users = {creator, u1}
  Creator = creator
  NoUser = NoUser
  Patches = {x1, x2}
  Statuses = {TODO, IN_PROGRESS, "DONE"}
  Never = Never
  Undefined = Undefined
  ProjectIds = {p1}
  Editors = {x1, x2}
  Texts = {a}
  Nothing = Nothing
  Absent = Absent
SPECIFICATION WorkspaceSpec
SYMMETRY Symmetry
INVARIANTS
  WorkspaceTypeOK
  AssigneeWasVouched
  AssigneeNotified
  StampedWhenDone
  LogAccounts
  AsLastAsked
  RemovedForGood
CHECK_DEADLOCK FALSE
