CONSTANTS
  N = 3
  Low = 1
  High = 3
  Tables <- AllTables
SPECIFICATION Spec
INVARIANTS
  HandBooks
  NoStuckHand
  NeverPanics
  BoardIsProgressive
PROPERTIES
  HandMovesOn
CHECK_DEADLOCK FALSE
