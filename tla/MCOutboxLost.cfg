SPECIFICATION Spec
CONSTANTS
  Op = {o1}
  Poll = poll
  Writer = {w1}
  MaxEpoch = 2
  BatchSize = 1
  MaxAttempts = 4
  Happens = {"crash", "foreign"}
CHECK_DEADLOCK FALSE
INVARIANTS
  NothingLost
