CONSTANTS
  Reminders = {m1}
  Events = {e1}
  Workers = {w1, w2}
  NoJob = NoJob
  NoWorker = NoWorker
  MaxAttempts = 2
  MaxStalled = 1
  KeepCompleted = 1
  KeepFailed = 1
  MaxAdds = 2
  MaxFaults = 3
  RowIds = {row, row2, row3, row4, row5}
  row = row
  row2 = row2
  TaskIds = {t1, t2, t3, t4}
  Null = Null
  MaxDepth = 2
  Projects = {p1}
  r1 = r1
  Requests <- OneRequest
  PatchTargets <- AnyTarget
  Undefined = Undefined
SPECIFICATION ComponentsSpec
INVARIANTS
  OneState
  CopiesBounded
  CompletedIsDelivered
  RepeatedAfterEviction
  AnswersAgree
  NoCycles
PROPERTIES
  JobsSettle
  QueriesEnd
  OnlyMovesMove
  RequestsFinish
  ImplementsForest
CHECK_DEADLOCK FALSE
