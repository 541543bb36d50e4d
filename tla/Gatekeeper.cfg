SPECIFICATION GateSpec
CONSTANTS
  PerMinute = 2
  PerHour = 3
  Minute = 3
  Hour = 6
  Day = 8
  Quota = 5
  Capacity = 3
  Refill = 2
  BurstLimit = 1
  BurstWindow = 3
  MaxRetries = 1
  MaxBackoff = 2
CHECK_DEADLOCK FALSE
INVARIANTS
  LimitsKept
PROPERTIES
  OneSleepIsEnough
