SPECIFICATION FairSpec
CONSTANTS
  Arrivals <- Issue
  MaxArrivals = 1
  MaxJobs = 2
  MaxSessions = 6
  MaxAttempts = 1
  MaxPosts = 1
  MaxCrashes = 1
  MaxRestarts = 0
  MaxTroubles = 1
  RecoveryCrashes = TRUE
CHECK_DEADLOCK FALSE
PROPERTY RecoveringJobsResume
