SPECIFICATION Spec
CONSTANTS
  Requests = {"r1", "r2"}
  ClaimsOf <- TwoRequests
  SourcesOf <- Routes
  Sources <- TwoSources
  Terms <- TwoTerms
  Worlds <- TwoWorlds
  PoolSize = 2
  None = None
CHECK_DEADLOCK FALSE
INVARIANTS
  TypeOK
  FailuresStayLocal
  CreditsAreSpared
PROPERTY EveryRetrievalEnds
