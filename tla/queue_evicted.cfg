CONSTANTS
  Reminders = {m1, m2}
  Events = {}
  Workers = {w1}
  NoJob = NoJob
  NoWorker = NoWorker
  MaxAttempts = 2
  MaxStalled = 1
  KeepCompleted = 1
  KeepFailed = 1
  MaxAdds = 2
  MaxFaults = 0
SPECIFICATION QueueSpec
SYMMETRY Symmetry
INVARIANTS
  RemindedOncePerHour
CHECK_DEADLOCK FALSE
