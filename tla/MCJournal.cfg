SPECIFICATION MCSpec
CONSTANTS
  d1 = d1
  d2 = d2
  x = x
  u1 = u1
  u2 = u2
  u3 = u3
  u4 = u4
  shared = shared
  k1 = k1
  NoOp = NoOp
  Device = {d1, d2}
  Author = {d1, d2, x}
  Uid = {u1, u2, u3, u4}
  Key = {k1}
  HonestCeiling = 5
  MaxLamport = 7
  Skew = 3
  ForeignStamps = {4, 5, 7}
  Digest <- MCDigest
  OpIdOf <- MCOpIdOf
INVARIANTS
  TypeOK
  RegistersHoldBest
  Convergence
  ImplausibleTakesNothing
  StampsNotReused
  ClockDominatesSeen
PROPERTIES
  TombstoneFinal
  LocalEditTakesEffect
  EventuallyConverged
