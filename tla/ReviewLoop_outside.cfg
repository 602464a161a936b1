SPECIFICATION Spec
CONSTANTS
  Kind = "external"
  OwnerAuthor = FALSE
  ReviewRounds = 1
  MaxJobs = 6
  MaxDuplicates = 0
  MaxRetries = 1
  MaxFailures = 1
  MaxConflicts = 0
  MaxActivity = 1
  MaxRequests = 1
  MaxCloses = 1
  MaxReopenings = 1
  MaxRedeliveries = 0
  MaxOpenedAgain = 0
  MaxLosses = 1
  MaxErrors = 0
  MaxCrashes = 0
  MaxKinds = 3
CHECK_DEADLOCK FALSE
INVARIANTS ConsumedRoundsBounded StoppedForAReason
PROPERTIES AfterCloseNothingStarts
