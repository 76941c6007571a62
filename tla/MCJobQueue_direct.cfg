SPECIFICATION Spec
CONSTANTS
  QueueId = {a}
  DirectId = {x}
  NoId = NoId
  Limit = 2
  Run = {r1, r2}
  NoRun = NoRun
  Dispatcher = {d1}
  MaxKicks = 1
  Faults = {"delete", "continue", "pause", "terminal", "complete", "clearPause", "crash", "load", "recover"}
  UserOps = {"delete", "continue", "stop", "deleteJob"}
  a = a
  b = b
  x = x
  r1 = r1
  r2 = r2
  d1 = d1
  d2 = d2
SYMMETRY Symmetry
INVARIANTS
  RunningHasRun
PROPERTIES
  TombstoneFinal
  StopBarrier
  ReceiptsMoveForward
CHECK_DEADLOCK FALSE
