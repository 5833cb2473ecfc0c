CONSTANTS
  old = old
  new = new
  Absent = Absent
  MaxTasks = 2
  Path <- OnePath
  Content <- OneContent
  Home <- AtHome
  Dirs <- OneDir
  Net = FALSE
  Calls <- SomeCalls
  MaxOps = 1
  MaxRounds = 2
  MaxToolCalls = 2
  RoundTools = 2
  UserEdits = FALSE
  Crashes = TRUE
  LateDecisions = TRUE
SPECIFICATION Spec
INVARIANT TaskAndPlanAgree
INVARIANT NothingStagedBesidePlan
PROPERTY DecisionIsFinal
PROPERTY AbortStopsRounds
