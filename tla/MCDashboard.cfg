SPECIFICATION Spec
CONSTANTS
  Requests = {"r1", "r2", "r3"}
  Earlier <- OneStored
  Users = {"ann", "bob"}
  OwnerOf <- Owners
  Nobody = Nobody
  MaxEvents = 2
  TrendLen = 1
  Fetches = {"f1", "f2"}
  HasSources <- Sourced
  None = None
INVARIANTS
  TypeOK
  TrendIsNewestWithinLimit
  ClearsAreExact
PROPERTY DashboardCatchesUp
