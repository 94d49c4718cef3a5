SPECIFICATION Spec
CONSTANTS
  Key = {k1, k2}
  Setting = {3}
  Unset = Unset
  DefaultLimit = 2
  MaxLen = 2
  GCThreshold = 1
  WindowSeconds = 2
  TicksPerSecond = 2
  Horizon = 10
INVARIANT WindowCapped
