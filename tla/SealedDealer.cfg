CONSTANTS
  alice = alice
  bob = bob
  s1 = s1
  s2 = s2
  Users = {alice, bob}
  Seats = {s1, s2}
  BotSeatings <- BotChoices
  TwiceFrom = {2}
  MaxFaults = 2
  Attempts = 2
  None = None
SYMMETRY Symmetry
SPECIFICATION Spec
INVARIANTS AnnouncedDeckIsPlayed SettledHandIsOneDeal OnlyTheDealtPlayerSees
CHECK_DEADLOCK FALSE
