SPECIFICATION Spec
CONSTANTS
  Kind = "managed"
  OwnerAuthor = TRUE
  ReviewRounds = 2
  MaxJobs = 8
  MaxDuplicates = 1
  MaxRetries = 0
  MaxFailures = 0
  MaxConflicts = 1
  MaxActivity = 1
  MaxRequests = 0
  MaxCloses = 0
  MaxReopenings = 0
  MaxRedeliveries = 1
  MaxOpenedAgain = 0
  MaxLosses = 0
  MaxErrors = 1
  MaxCrashes = 1
  MaxKinds = 13
CHECK_DEADLOCK FALSE
INVARIANTS TypeOK OneSuccessor RoundNumbersBounded MergeIsApproved EveryRoundBeforeMerge RecordedVerdictHasEffect StoppedForAReason
