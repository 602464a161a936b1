SPECIFICATION Spec
CONSTANTS
  MaxJobs = 6
  MaxRuns = 6
  MaxEvents = 2
INVARIANTS
  TypeOK
  AgentsKeepTheirTree
  MergedIsCleaned
CHECK_DEADLOCK FALSE
