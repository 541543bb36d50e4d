SPECIFICATION Spec
CONSTANTS
  None = None
  Endpoints <- SixEndpoints
  LocalNames <- TwoLocalNames
  Resolves <- Addresses
  Global <- GlobalAddresses
  Declared <- OurEndpoint
  MaxPolls = 2
  MaxTunnels = 2
  MaxCalls = 2
CHECK_DEADLOCK FALSE
INVARIANTS
  RouteReleased
  StepZeroIsWhole
PROPERTIES
  ConsentIsAuthenticated
