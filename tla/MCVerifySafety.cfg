SPECIFICATION Spec
CONSTANTS
  Requests = {r1, r2}
  Users = {alice, bob}
  Bodies <- TwoTypes
  Classify <- TwoTypesClassify
  JudgeOutcomes = {"judged", "raised"}
  None = None
  ErrorTTL = 1
  OpinionTTL = 2
  RecentTTL = 3
  NumericTTL = 4
  EncyclopedicTTL = 4
  DefaultVerifyTTL = 3
  LowConfidenceTTL = 3
  FallbackTTL = 3
  FallbackSize = 1
  RedisEnabled = TRUE
SYMMETRY Symmetry
INVARIANTS
  TypeOK
  AnswersMatchTheText
  HitFlagTruthful
  AuditTrailFaithful
  EventsCountRuns
  FailuresLeaveNoTrace
  RedisHonoursLifetimes
