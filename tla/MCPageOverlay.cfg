\* 200 ms, 8 s and 20 s become 2, 3 and 5 ticks: things happen during a slide-out, too.
SPECIFICATION Spec
CONSTANTS
  Calls = {c1, c2}
  RemoveDelay = 2
  ErrorDelay = 3
  ResultDelay = 5
INVARIANTS
  TypeOK
  StraysAreHasty
  SpinnersAreAnswered
PROPERTY PageClears
