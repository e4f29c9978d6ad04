SPECIFICATION ProxySpec
CONSTANTS
  Keys = {k1}
  None = None
  CooldownSec = 1
  RecentWindow = 1
  AutoDisable = TRUE
  RecoverThreshold = 1
  MinSamples = 9
  RatePercent = 80
  SaveInterval = 0
  MaxTime = 4
  MaxCount = 4
  MaxFailures = 0
  Requests = {r1, r2, r3, r4}
  Checks = {}
  Scans = {s1}
PROPERTIES RepeatedHitsEscalate
CHECK_DEADLOCK FALSE
SYMMETRY Symmetry
