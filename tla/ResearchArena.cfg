SPECIFICATION Spec
CONSTANTS
  Police = police
  Thief = thief
  Rows = 3
  Cols = 4
  MaxBarriers = 2
  MaxMoves = 4
  SurvivalThreshold = 4
  StartCell <- MCStartCell
  Scale = 10000
  TrapBonus = 10
  Mobile = 4
  PolicePolicies = {"shipped", "C3"}
  ThiefPolicies = {"random_legal"}
CHECK_DEADLOCK FALSE
INVARIANTS
  PoliciesAreSound
  EvidenceIsTheTrail
