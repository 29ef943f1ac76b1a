SPECIFICATION MCSpec
CONSTANTS
  Parts = {"budget"}
  a = a
  b = b
  Device = {a, b}
  Round = {p, q}
  Op = {x, y}
  Limit = 2
  Pages = 2
  Every = 1
  Flaws = {"key_mismatch"}
  Retries = 2
  MaxIndex <- Checkpoints
  MaxFaults = 1
  Leader = {l1, l2}
  Member = {m}
  Batch = 1
  Entry = {1, 2}
  Activation = {3}
  MaxSnapshots = 4
  MaxUndo = 1
  UndoTrim = 1
  MaxApplied = 2
  AppliedTrim = 1
  MaxEpoch = 3
  MaxKey = 3
  MaxPairs = 3
  MaxInvites = 2
  MaxJoinEpoch = 2
  MaxAttempts = 1
  MaxRequests = 1
  MaxPerSource = 2
  CodeTtl = 1
  Window = 2
  Reauth = 0
  AccessTtl = 2
  RefreshTtl = 2
  MaxTime = 3
  MaxCodes = 3
  t1 = t1
  t2 = t2
  Tab = {t1, t2}
  Item = {1, 2, 3}
  Foreign = {4}
  MaxRevision = 3
  MaxFamilies = 1
CHECK_DEADLOCK FALSE
SYMMETRY Symmetry
INVARIANT
  FirstWriteSeeds
