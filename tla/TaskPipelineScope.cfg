CONSTANTS
  old = old
  new = new
  Absent = Absent
  MaxTasks = 1
  Path <- SpelledPaths
  Content <- TwoContents
  Home <- AtHome
  Dirs <- OneDir
  Net = FALSE
  Calls <- SpelledCalls
  MaxOps = 1
  MaxRounds = 2
  MaxToolCalls = 1
  RoundTools = 1
  UserEdits = FALSE
  Crashes = TRUE
  LateDecisions = TRUE
SPECIFICATION Spec
INVARIANT ScopeIsKept
