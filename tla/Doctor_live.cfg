SPECIFICATION DoctorSpec
CONSTANTS
  Arrivals = {"issue_request"}
  MaxArrivals = 1
  MaxJobs = 1
  MaxSessions = 2
  MaxAttempts = 1
  MaxPosts = 1
  MaxCrashes = 1
  MaxRestarts = 1
  MaxTroubles = 1
  RecoveryCrashes = FALSE
  MaxUnreadable = 1
CHECK_DEADLOCK FALSE
INVARIANTS DoctorTypeOK ReportedDriftIsReal LastingDriftIsReported
