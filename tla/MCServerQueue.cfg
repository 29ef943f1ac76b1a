SPECIFICATION Spec
CONSTANTS
  owner = owner
  other = other
  o1 = o1
  o2 = o2
  m1 = m1
  x = x
  y = y
  i1 = i1
  i2 = i2
  NoDevice = NoDevice
  Account = {owner, other}
  Device = {o1, o2}
  AccountOf <- MCAccountOf
  OpId = {x, y}
  Invite = {}
  MaxEpoch = 3
  Quota = 2
  MaxBatch = 2
  IdleTimeout = 1
  HardTimeout = 1
  InviteTtl = 1
CHECK_DEADLOCK FALSE
SYMMETRY MCSymmetry

INVARIANTS
  EpochTable
  QueueContiguous
  NumbersNeverReassigned
  FreezeHolds
PROPERTIES
  OwnerWrapNotReplaced
