SPECIFICATION FairSpec
CONSTANTS
  Capacity = 2
  MayFence = TRUE
  Waiters = {w1}
  MaxAccepts = 3
  MaxLives = 2
INVARIANTS DrainedMeansStored BacklogBounded
PROPERTIES ImplementsDurableLog WaitersResolve
CHECK_DEADLOCK FALSE
