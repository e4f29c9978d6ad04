SPECIFICATION MCSpec
CONSTANTS
  Keys = {k1, k2, k3}
  None = None
  CooldownSec = 1
  RecentWindow = 1
  AutoDisable = TRUE
  RecoverThreshold = 2
  MinSamples = 9
  RatePercent = 80
  SaveInterval = 2
  MaxTime = 4
  MaxCount = 3
  MaxFailures = 0
SYMMETRY Symmetry
INVARIANTS LossIsRecent
PROPERTIES FullRotation DisabledByStreak
CHECK_DEADLOCK FALSE
