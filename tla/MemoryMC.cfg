CONSTANTS
  w1 = w1
  w2 = w2
  Worker = {w1, w2}
  b1 = b1
  b2 = b2
  Body = {b1, b2}
  HotThreshold = 2
  HotBatch = 2
  WarmThreshold = 2
  WarmBatch = 2
  ColdMax = 1
  MaxRounds = 2
  MaxTurns = 7
  MaxWrites = 2
  MaxDeaths = 1
SPECIFICATION Spec
SYMMETRY Alike
CHECK_DEADLOCK FALSE
INVARIANT NothingForgotten
INVARIANT RecentTurnsStay
INVARIANT NoTornBatch
PROPERTY SettingsSurvive
PROPERTY DreamLeavesBounds
