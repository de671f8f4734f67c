CONSTANTS
  Users = {creator, u1}
  Creator = creator
  NoUser = NoUser
  Patches = {x1}
  Statuses = {TODO, "DONE"}
  Never = Never
  Undefined = Undefined
  ProjectIds = {}
  Editors = {}
  Texts = {a}
  Nothing = Nothing
  Absent = Absent
SPECIFICATION WorkspaceSpec
INVARIANTS
  AssigneeWasMember
CHECK_DEADLOCK FALSE
