SPECIFICATION Spec
CONSTANTS
  Police = police
  Thief = thief
  Rows = 1
  Cols = 4
  MaxBarriers = 2
  MaxMoves = 3
  SurvivalThreshold = 3
  StartCell <- MCStartCell
INVARIANTS
  FairExchange
  CopiesAgree
  HonestPlayAuditsClean
  FailureHasCause
PROPERTIES
  ImplementsLockstep
