SPECIFICATION FairProxySpec
CONSTANTS
  Keys = {k1, k2}
  None = None
  CooldownSec = 1
  RecentWindow = 1
  AutoDisable = TRUE
  RecoverThreshold = 1
  MinSamples = 9
  RatePercent = 80
  SaveInterval = 0
  MaxTime = 1
  MaxCount = 3
  MaxFailures = 0
  Requests = {r1}
  Checks = {h1}
  Scans = {}
PROPERTIES VerdictOnTheKeyCalled EveryoneAnswered
CHECK_DEADLOCK FALSE
