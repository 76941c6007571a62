SPECIFICATION Spec
CONSTANTS
  QueueId = {a, b}
  DirectId = {}
  NoId = NoId
  Limit = 2
  Run = {r1, r2}
  NoRun = NoRun
  Dispatcher = {d1, d2}
  MaxKicks = 1
  Faults = {"submit", "delete", "start", "terminal", "block", "complete", "prepare", "crash", "recover", "load"}
  UserOps = {"delete", "continue"}
  a = a
  b = b
  x = x
  r1 = r1
  r2 = r2
  d1 = d1
  d2 = d2
SYMMETRY Symmetry
INVARIANTS
  TypeOK
  AtMostOnce
  DeletedNeverRuns
  NoLostMessage
  QueueMatchesReceipts
PROPERTY
  ImplementsMessageService
CHECK_DEADLOCK FALSE
