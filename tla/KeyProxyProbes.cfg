SPECIFICATION ProxySpec
CONSTANTS
  Keys = {k1}
  None = None
  CooldownSec = 1
  RecentWindow = 1
  AutoDisable = TRUE
  RecoverThreshold = 1
  MinSamples = 9
  RatePercent = 80
  SaveInterval = 0
  MaxTime = 2
  MaxCount = 4
  MaxFailures = 0
  Requests = {r1}
  Checks = {h1}
  Scans = {s1}
PROPERTIES QuotaLiftedByEvidence
CHECK_DEADLOCK FALSE
