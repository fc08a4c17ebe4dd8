\* Two answers of at most 3 units, long enough at 2, and two pending closes.
SPECIFICATION Spec
CONSTANTS
  Messages = {m1, m2}
  Panels = {p1, p2, p3}
  None = None
  MinLength = 2
  FullLength = 3
  MaxClosing = 2
INVARIANTS
  TypeOK
  NoAnswerForgotten
  VerdictsAreOfWholeAnswers
  OnePanel
  SpinnersAreAwaited
PROPERTY ButtonsComeBack
CHECK_DEADLOCK FALSE
