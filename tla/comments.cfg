CONSTANTS
  u1 = u1
  u2 = u2
  Users = {u1, u2}
  CommentIds = {c1, c2, c3}
  Tasks = {t1, t2}
  Null = Null
  Requests = {r1, r2}
  Spellings <- BothCases
  Canonical = "lower"
  Bodies <- OneBody
  MaxLost = 1
SPECIFICATION CommentsSpec
SYMMETRY Symmetry
INVARIANTS
  CommentsTypeOK
  OneLevelDeep
  MentionedOnce
PROPERTIES
  TakenAwayByAuthor
CHECK_DEADLOCK FALSE
