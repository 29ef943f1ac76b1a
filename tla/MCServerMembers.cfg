SPECIFICATION FairSpec
CONSTANTS
  owner = owner
  other = other
  o1 = o1
  o2 = o2
  m1 = m1
  x = x
  y = y
  i1 = i1
  i2 = i2
  NoDevice = NoDevice
  Account = {owner, other}
  Device = {o1, m1}
  AccountOf <- MCAccountOf
  OpId = {x, y}
  Invite = {i1, i2}
  MaxEpoch = 2
  Quota = 1
  MaxBatch = 2
  IdleTimeout = 2
  HardTimeout = 3
  InviteTtl = 1
CHECK_DEADLOCK FALSE

INVARIANTS
  TypeOK
  NoOrphanKeys
  ChainConfirmed
  StagedByOwner
  InvitesRedeemable
PROPERTIES
  AcknowledgedKept
  RotationEnds
