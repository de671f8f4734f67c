CONSTANTS
  u1 = u1
  u2 = u2
  Users = {u1, u2}
  CommentIds = {c1}
  Tasks = {t1}
  Null = Null
  Requests = {r1}
  Spellings <- BothCases
  Canonical = "lower"
  Bodies <- OneBodyBothCases
  MaxLost = 1
SPECIFICATION CommentsSpec
INVARIANTS
  OneNotificationPerUser
CHECK_DEADLOCK FALSE
