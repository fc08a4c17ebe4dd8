SPECIFICATION Spec
CONSTANTS
  Requests = {r1, r2}
  Users = {alice}
  Bodies <- OneFact
  Classify <- OneFactClassify
  JudgeOutcomes = {"judged"}
  None = None
  ErrorTTL = 1
  OpinionTTL = 1
  RecentTTL = 1
  NumericTTL = 2
  EncyclopedicTTL = 2
  DefaultVerifyTTL = 1
  LowConfidenceTTL = 1
  FallbackTTL = 1
  FallbackSize = 1
  RedisEnabled = TRUE
PROPERTIES
  EveryRequestEnds
  AnswersAreAudited
  ImplementsContract
