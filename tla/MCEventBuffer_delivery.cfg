SPECIFICATION FairSpec
CONSTANTS
  Client = {c1}
  Hardcap = 4
  ReplayLimit = 3
  Slack = 1
  BatchSize = 2
  MaxSeq = 6
  c1 = c1
  c2 = c2
INVARIANTS
  SlackSuffices
PROPERTIES
  EventDelivered
CHECK_DEADLOCK FALSE
