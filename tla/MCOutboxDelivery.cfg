SPECIFICATION FairSpec
CONSTANTS
  Op = {o1, o2}
  Poll = poll
  Writer = {w1, w2}
  MaxEpoch = 1
  BatchSize = 1
  MaxAttempts = 2
  Happens = {}
CHECK_DEADLOCK FALSE
PROPERTIES
  EveryWriteNumbered
