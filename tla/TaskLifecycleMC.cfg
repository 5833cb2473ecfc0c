CONSTANTS
  old = old
  new = new
  Absent = Absent
  MaxTasks = 2
  Path <- TwoPaths
  Content <- OneContent
  Home <- AtHome
  Dirs <- OneDir
  Net = FALSE
  Calls <- MixedCalls
  MaxOps = 1
  MaxRounds = 2
  MaxToolCalls = 2
  RoundTools = 1
  UserEdits = TRUE
  Crashes = FALSE
  LateDecisions = FALSE
CHECK_DEADLOCK FALSE
SPECIFICATION FairSpec
INVARIANT ScopeHolds
PROPERTY LifecycleSpec
