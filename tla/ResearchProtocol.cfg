SPECIFICATION Spec
CONSTANTS
  s1 = s1
  s2 = s2
  Proc <- MCProc
  BankSize = 3
  ChosenSets <- MCChosenSets
  DrawnOpening <- MCDrawnOpening
  Measured <- MCMeasured
  WithinCeiling = {"frozen"}
  Recorded = {"full", "latency"}
  Committed = {"development", "holdout", "stress"}
  MaxCommands = 4
  MaxEdits = 2
SYMMETRY MCShells
CHECK_DEADLOCK FALSE
INVARIANTS
  WhatIsJudgedIsFrozen
  SealedSeedsAreFresh
PROPERTIES
  ReplacedOnlyInARace
