SPECIFICATION RecordSpec
CONSTANTS
  Invocations = {"gateway", "operator"}
  MaxRetries = 1
  SubGames = 3
  Facts <- MCFacts
  MaxAttempts = 2
CHECK_DEADLOCK FALSE
INVARIANTS
  ResultCompletesTheSet
  DuplicateHasCause
  DeliveryIsTrue
PROPERTIES
  WrittenOnce
  DeliveryStaysRecorded
