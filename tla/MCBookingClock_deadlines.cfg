SPECIFICATION ClockSpec
CONSTANTS
  Starts <- Times
  MaxAdvance = 48
  MaxMissed = 1
  MaxTime = 250
CHECK_DEADLOCK FALSE
INVARIANTS KeepsDeadlines
