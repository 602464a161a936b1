SPECIFICATION Spec
CONSTANTS
  Kind = "managed"
  OwnerAuthor = TRUE
  ReviewRounds = 2
  MaxJobs = 9
  MaxDuplicates = 0
  MaxRetries = 0
  MaxFailures = 0
  MaxConflicts = 0
  MaxActivity = 0
  MaxRequests = 0
  MaxCloses = 0
  MaxReopenings = 0
  MaxRedeliveries = 0
  MaxOpenedAgain = 1
  MaxLosses = 0
  MaxErrors = 0
  MaxCrashes = 0
  MaxKinds = 13
CHECK_DEADLOCK FALSE
INVARIANTS ReviewedBeforeMerge
