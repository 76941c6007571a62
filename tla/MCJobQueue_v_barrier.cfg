SPECIFICATION Spec
CONSTANTS
  QueueId = {a, b}
  DirectId = {}
  NoId = NoId
  Limit = 2
  Run = {r1, r2}
  NoRun = NoRun
  Dispatcher = {d1}
  MaxKicks = 1
  Faults = {"prepare"}
  UserOps = {"delete", "continue", "stop"}
  a = a
  b = b
  x = x
  r1 = r1
  r2 = r2
  d1 = d1
  d2 = d2
SYMMETRY Symmetry
PROPERTIES
  StopBarrier
CHECK_DEADLOCK FALSE
