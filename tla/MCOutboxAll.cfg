SPECIFICATION Spec
CONSTANTS
  Op = {o1, o2}
  Poll = poll
  Writer = {w1}
  MaxEpoch = 3
  BatchSize = 1
  MaxAttempts = 2
  Happens = {"crash", "own", "foreign"}
CHECK_DEADLOCK FALSE
SYMMETRY Symmetry
INVARIANTS
  TypeOK
  LiveIsProven
PROPERTIES
  KeptUntilNumbered
  ErasedOnceProven
