SPECIFICATION Spec
INVARIANT StartNeverFails
CONSTANTS
  FocusMin = 2
  RestMin = 1
  WaterMin = 3
  Day = 5
  QuietFrom = 3
  QuietTo = 1
  DreamAt = 1
  NoteAt = 2
  Catchup = 2
  ReminderHeld = 2
  ResultHeld = 3
  NoteHeld = 5
  MaxPerTurn = 1
  ToolKinds = {"pomodoro"}
  Epoch = 5
  Horizon = 6
  MaxPresses = 0
  MaxTasks = 0
  MaxJobs = 1
  MaxDeaths = 1
