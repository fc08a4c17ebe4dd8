SPECIFICATION Spec
CONSTANTS
  Alphabet <- Characters
  LowerOf <- Lowercase
  Phrases = {"ad"}
  MaxTokens = 1
  MinFocused = 2
  MaxFocused = 3
  MaxLong = 5
  Cases <- AllCases
  Header <- SourceHeader
  HeadLen = 2
  DirectLen = 3
  Unusable = Unusable
  NoScore = NoScore
  None = None
INVARIANTS
  TypeOK
  EvidenceKeptOnce
  BudgetKeepsTheBest
  SpansShowTheirSource
  VerdictsNeverClash
CHECK_DEADLOCK FALSE
