SPECIFICATION FairSpec
CONSTANTS
  MaxAttempts = 2
  MaxEvents = 4
  Kinds <- MCKinds
  Statuses <- MCStatuses
INVARIANTS OneEnding CompletedMeansFinished CommittedWithContent HandsBack
PROPERTIES SilentOnceGone Finishes
CHECK_DEADLOCK FALSE
