SPECIFICATION Spec
CONSTANTS
  NumGames = 2
  c1 = c1
  c2 = c2
  m1 = m1
  m2 = m2
  Configs <- MCConfigs
  Models <- MCModels
INVARIANTS
  AgreedThroughout
  FailureHasCause
PROPERTIES
  KeepsContract
