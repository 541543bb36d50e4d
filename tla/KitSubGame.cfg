SPECIFICATION Spec
CONSTANTS
  Police = police
  Thief = thief
  Rows = 1
  Cols = 4
  MaxBarriers = 2
  MaxMoves = 5
  SurvivalThreshold = 4
  StartCell <- MCStartCell
  Window = 2
INVARIANTS
  EveryClaimAnswered
  EndsAreTrue
  FailureHasCause
PROPERTIES
  ImplementsAlternating
