CONSTANTS
  Frequency <- TwoFrequencies
  MinGap <- Gaps
  DecisionRetry = 2
  QuietHours <- Hours
  DayLength = 4
  LongAgo <- Never
  MaxNow = 6
SPECIFICATION Spec
PROPERTY BubbleIsWelcome
PROPERTY DecisionEnds
