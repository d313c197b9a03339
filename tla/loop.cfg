SPECIFICATION FairTimersSpec
CONSTANTS
  Timers = {t1, t2, t3}
  Delays = {0, 1}
  Width = 8
  MaxLate = 2
PROPERTIES
  KeepsDeadlines
  EachGoesOff
CHECK_DEADLOCK FALSE
