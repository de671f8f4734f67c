CONSTANTS
  Tasks = {t1}
  Users = {u1, u2}
  Scans = {s1, s2}
  DueTimes <- Dates
  Hour = 2
  MaxTime = 4
  MaxChanges = 2
  Null = Null
  c1 = c1
  alice = alice
  ALICE = ALICE
  bob = bob
  Ids = {n1, n2}
  Recipients = {alice, bob}
  Spellings = {alice, ALICE, bob}
  Uuid <- LowerCase
  Clients = {c1}
  Client <- SignedIn
  Instances = {i1, i2}
  Log = Log
  None = None
  Sizes = {2}
  MaxTake = 2
SPECIFICATION RemindersSpec
INVARIANT PushedToUser
CHECK_DEADLOCK FALSE
