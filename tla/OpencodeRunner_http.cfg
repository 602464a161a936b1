SPECIFICATION Spec
CONSTANTS
  clone = clone
  worktree = worktree
  Directories <- TheDirectories
  Worktrees <- TheWorktrees
  CloneOf <- TheClone
  MaxSessions = 2
  MaxRuns = 3
  MaxTroubles = 1
CHECK_DEADLOCK FALSE
INVARIANTS TypeOK ClosedIsForgotten AgentHasKeeper IdleIsEarned
PROPERTY BeginsUnfinished
