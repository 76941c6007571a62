SPECIFICATION FairSpec
CONSTANTS
  QueueId = {a, b}
  DirectId = {}
  NoId = NoId
  Limit = 2
  Run = {r1, r2}
  NoRun = NoRun
  Dispatcher = {d1}
  MaxKicks = 1
  Faults = {"submit", "start", "terminal", "block", "clearPause", "prepare"}
  UserOps = {"delete", "continue"}
  a = a
  b = b
  x = x
  r1 = r1
  r2 = r2
  d1 = d1
  d2 = d2
PROPERTIES
  AcceptedEventuallyRuns
CHECK_DEADLOCK FALSE
