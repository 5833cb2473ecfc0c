SPECIFICATION FairSpec
INVARIANTS
  OneQueuedPerKey
  DurableOnDisk
  RingsApart
PROPERTIES
  LeavesOneWay
  DreamCaughtUp
  ReminderLeaves
CONSTANTS
  FocusMin = 2
  RestMin = 1
  WaterMin = 3
  Day = 5
  QuietFrom = 3
  QuietTo = 1
  DreamAt = 1
  NoteAt = 2
  Catchup = 2
  ReminderHeld = 2
  ResultHeld = 3
  NoteHeld = 5
  MaxPerTurn = 1
  ToolKinds = {"pomodoro", "custom"}
  Epoch = 5
  Horizon = 8
  MaxPresses = 2
  MaxTasks = 1
  MaxJobs = 1
  MaxDeaths = 1
