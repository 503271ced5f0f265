SPECIFICATION FairSpec
CONSTANTS
  Receivers = {r1, r2}
  Delay = 2
  Duration = 2
  MaxClock = 5
CHECK_DEADLOCK FALSE
INVARIANTS TypeOK OneMessage EmptyIsTrue
PROPERTIES Delivered TickDeadlineReturns TicksApart
