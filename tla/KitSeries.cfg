SPECIFICATION Spec
CONSTANTS
  SubGames = 6
CHECK_DEADLOCK FALSE
INVARIANTS
  NobodyOvertaken
  TrafficIsOwn
  AgreedIsWholeAndMutual
PROPERTIES
  KeepsSeries
