SPECIFICATION FairSpec
CONSTANTS
  MaxAttempts = 3
  MaxEvents = 3
  Kinds <- MCKinds
  HttpErrors <- MCHttpErrors
  BodyStatuses <- MCBodyStatuses
INVARIANTS OneConnection NothingHeld FirstCauseReported IInv
PROPERTIES RefusalsAreFinal ImplementsOnce Terminates AllReleased
CHECK_DEADLOCK FALSE
