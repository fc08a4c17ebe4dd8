SPECIFICATION Spec
CONSTANTS
  Keys = {k1, k2}
  Values = {v1, v2}
  None = None
  FallbackTTL = 1
  FallbackSize = 1
  RedisEnabled = TRUE
  Lifetimes = {1, 2}
  Horizon = 2
INVARIANTS
  TypeOK
  NothingOverdue
  FallbackBounded
PROPERTY EverythingExpires
