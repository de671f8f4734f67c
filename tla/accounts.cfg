CONSTANTS
  UserIds = {a1, a2}
  Emails = {e1}
  Tokens = {k1, k2, k3, k4}
  Calls = {q1, q2}
  Null = Null
  Users = {creator, u1, u2}
  Creator = creator
  NoUser = NoUser
  MemberIds = {m0, m1, m2}
  CreatorRow = m0
  Requests = {r1, r2}
  NoRequest = NoRequest
SPECIFICATION AccountsSpec
SYMMETRY Symmetry
INVARIANTS
  AccountsTypeOK
  OneValidToken
  LogoutEnds
  EndedForAReason
  OneOwner
  OneMembership
PROPERTIES
  ImplementsMembers
CHECK_DEADLOCK FALSE
