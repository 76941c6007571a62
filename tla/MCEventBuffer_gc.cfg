SPECIFICATION Spec
CONSTANTS
  Client = {c1, c2}
  Hardcap = 3
  ReplayLimit = 2
  Slack = 1
  BatchSize = 2
  MaxSeq = 5
  c1 = c1
  c2 = c2
SYMMETRY Symmetry
INVARIANTS
  LiveReaderNotOvertaken
  StreamComplete
CHECK_DEADLOCK FALSE
