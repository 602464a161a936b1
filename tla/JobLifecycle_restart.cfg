SPECIFICATION Spec
CONSTANTS
  Arrivals <- IssueAndImplementation
  MaxArrivals = 1
  MaxJobs = 3
  MaxSessions = 5
  MaxAttempts = 1
  MaxPosts = 1
  MaxCrashes = 2
  MaxRestarts = 1
  MaxTroubles = 2
  RecoveryCrashes = TRUE
CHECK_DEADLOCK FALSE
INVARIANTS TypeOK PendingIsServed CompletedMeansPosted LaunchedIsHeld NoDoubleRun RecoveringIsServed OneRecoveryPerSource SweepClosesDrift
PROPERTY SupersededLeavesQueue
