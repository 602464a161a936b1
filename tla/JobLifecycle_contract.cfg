SPECIFICATION FairSpec
CONSTANTS
  Arrivals <- IssueAndReview
  MaxArrivals = 1
  MaxJobs = 2
  MaxSessions = 8
  MaxAttempts = 2
  MaxPosts = 1
  MaxCrashes = 1
  MaxRestarts = 0
  MaxTroubles = 1
  RecoveryCrashes = FALSE
CHECK_DEADLOCK FALSE
PROPERTIES KeepsContract EndsEveryJob
