SPECIFICATION Spec
CONSTANTS
  Op = {o1}
  Poll = poll
  Writer = {w1}
  MaxEpoch = 2
  BatchSize = 1
  MaxAttempts = 4
  Happens = {"own"}
CHECK_DEADLOCK FALSE
INVARIANTS
  NotStranded
