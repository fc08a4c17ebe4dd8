SPECIFICATION Spec
CONSTANTS
  Requests = {r1, r2}
  Users = {alice}
  Bodies <- OneFact
  Classify <- OneFactClassify
  JudgeOutcomes = {"judged", "neutral"}
  None = None
  ErrorTTL = 1
  OpinionTTL = 2
  RecentTTL = 3
  NumericTTL = 4
  EncyclopedicTTL = 5
  DefaultVerifyTTL = 3
  LowConfidenceTTL = 3
  FallbackTTL = 3
  FallbackSize = 2
  RedisEnabled = TRUE
INVARIANT ErrorFallbacksSelfEvict
