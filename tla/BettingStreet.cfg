CONSTANTS
  N = 3
  SmallBlind = 1
  BigBlind = 2
  Straddle = 4
  Positions = {0, 1, 2}
  Openings = {"Preflop", "Postflop"}
  MinStack = 0
  MaxStack = 6
SPECIFICATION FactsSpec
CHECK_DEADLOCK FALSE
INVARIANTS
  BooksBalance
  ClosesOnlyWhenSettled
  NoRedundantPrompt
  FactsMatchRound
PROPERTY
  ReraiseOnlyWhenReopened
