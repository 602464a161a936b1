SPECIFICATION FairSpec
CONSTANTS
  clone = clone
  worktree = worktree
  Directories <- OneDirectory
  Worktrees <- NoWorktree
  CloneOf <- ItsClone
  MaxSessions = 2
  MaxRuns = 2
  MaxTroubles = 2
CHECK_DEADLOCK FALSE
PROPERTIES NoticedUnlessLost QuestionsAreAnswered
