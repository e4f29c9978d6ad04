SPECIFICATION Spec
CONSTANTS
  Keys = {k1, k2}
  None = None
  CooldownSec = 1
  RecentWindow = 1
  AutoDisable = TRUE
  RecoverThreshold = 1
  MinSamples = 1
  RatePercent = 80
  SaveInterval = 1
  MaxTime = 2
  MaxCount = 1
  MaxFailures = 1
SYMMETRY Symmetry
INVARIANTS NoDuplicates CleanMeansSaved EditsSurvive IInv
PROPERTIES OffStaysOff
CHECK_DEADLOCK FALSE
