SPECIFICATION Spec
CONSTANTS
  Key = {k1, k2}
  Setting = {Unset, 1, 3}
  Unset = Unset
  DefaultLimit = 2
  MaxLen = 3
  GCThreshold = 1
  WindowSeconds = 2
  TicksPerSecond = 2
  Horizon = 9
INVARIANTS
  TypeOK
  WindowCapped
  RetryAfterHonest
  NothingForgotten
