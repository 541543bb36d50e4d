SPECIFICATION FairSpec
CONSTANTS
  alice = alice
  bob = bob
  Peers <- TwoPeers
  Budget = 2
  SeriesCalls = 1
  MaxLaunches = 2
  MaxFaults = 2
CHECK_DEADLOCK FALSE
INVARIANTS EndedIsReleased PlayIsMutual NeverIssuedTwice
PROPERTY BothMeet
