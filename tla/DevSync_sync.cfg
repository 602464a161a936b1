SPECIFICATION FairSpec
CONSTANTS
  MaxCommits = 5
  MaxJobs = 3
  MaxEvents = 3
CHECK_DEADLOCK FALSE
INVARIANTS TypeOK CompletedMeansSynced OneSyncPerCommit NothingLeftBehind
PROPERTIES DevOnlyGrows SyncsEnd
