SPECIFICATION FairSpec
CONSTANTS
  Users = {alice}
  Nobody = nobody
  Sides = {"small"}
  Stakes = {1}
  Balance = 2
  BetTime = 2
  LockTime = 1
  ShowTime = 1
  ExpiresAt = 2
  Capacity = 2
  MaxTime = 4
  MaxRounds = 2
  MaxBets = 2
  MaxLives = 2
INVARIANTS AckedWagerSurvives PaidOnce StakesCovered
PROPERTIES WagersInWindow AckedWagerSettles
CHECK_DEADLOCK FALSE
