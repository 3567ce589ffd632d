SPECIFICATION FairClockSpec
CONSTANTS
  Wrap = 8
  GT = 3
  PerSecond = 2
  MaxSeconds = 3
PROPERTIES SleepIsLongEnough EarlyOnlyBeforeWrap DropsKeepComing
