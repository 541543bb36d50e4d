SPECIFICATION DeliverySpec
CONSTANTS
  Window = 2
  NumGames = 2
  NumTurns = 5
CHECK_DEADLOCK FALSE
INVARIANTS
  HonestTurnAccepted
PROPERTIES
  KeepsStream
