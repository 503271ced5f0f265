SPECIFICATION FairSpec
CONSTANTS
  Receivers = {r1, r2}
  Delay = 2
  Duration = 2
  MaxClock = 3
CHECK_DEADLOCK FALSE
PROPERTY DeadlineReturns
