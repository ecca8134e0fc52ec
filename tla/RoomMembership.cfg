CONSTANTS
  alice = alice
  bob = bob
  Users = {alice, bob}
  A = A
  r1 = r1
  r2 = r2
  Codes = {A}
  Rooms = {r1, r2}
  MaxMembers = 2
  MaxRounds = 1
  MaxRequests = 4
  MaxFaults = 2
  None = None
SPECIFICATION FairSpec
INVARIANTS SeatIsBacked NoOrphanRow ClosedHoldsNoBet
PROPERTIES MembershipSettles
CHECK_DEADLOCK FALSE
