CONSTANTS
  NoTask = NoTask
  User = {u}
  Task = {k}
  Window = 2
  DayLength = 3
  PerMin = 2
  PerDay = 2
  Budget = 2
  Cap = 2
  Own = 3
  MaxFrames = 3
  MaxNow = 3
  MaxCalls = 3
SPECIFICATION Spec
INVARIANT RatesHold
INVARIANT Overshoot
INVARIANT LedgersAgree
INVARIANT NothingFree
CHECK_DEADLOCK FALSE
