CONSTANTS
  r1 = r1
  r2 = r2
  r3 = r3
  Requests = {r1, r2, r3}
  here = here
  there = there
  Ips = {here, there}
  Spots = {"a", "b", "wide"}
  Keys = {1, 2}
  KeyOf <- Collide
  SizeOf <- Sizes
  MaxCacheBytes = 2
  MaxSolves = 2
  Qualities = {1, 2}
  None = None
SYMMETRY Symmetry
SPECIFICATION Spec
INVARIANTS IdleIsClean CacheBooks
PROPERTIES BestAnswerStays
CHECK_DEADLOCK FALSE
