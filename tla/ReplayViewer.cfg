SPECIFICATION Spec
CONSTANTS
  Rows = 2
  Cols = 2
  MaxBarriers = 2
  MaxMoves = 2
  SurvivalThreshold = 2
  Police = police
  Thief = thief
  StartCell <- MCStartCell
CHECK_DEADLOCK FALSE
INVARIANTS
  HonestyStands
  AlterationIsNoticed
  ReplayRepeatsReview
