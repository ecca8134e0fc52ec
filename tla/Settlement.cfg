CONSTANTS
  N = 3
  MaxBet = 4
  MaxAnte = 1
  Dealers = {0}
SPECIFICATION SettleSpec
INVARIANTS
  PotsAreLayersOfChips
  QuittersGetOnlyUncalled
  CollectsAtTableStakes
  TiesSplitEvenly
CHECK_DEADLOCK FALSE
