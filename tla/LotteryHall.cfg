SPECIFICATION Spec
CONSTANTS
  alice = alice
  bob = bob
  Users = {alice, bob}
  Requests = {1, 2}
  Ownership <- OneOrTwoUsers
  MaxPeriod = 0
  PeriodSlots = 1
  Capacity = 3
  Spots = {1, 2}
  Unit = 1
  Prize = 2
  Balance = 1
  MaxTickets = 2
  MaxOffers = 3
  MaxFaults = 1
  Nobody = nobody
  Backends = {b1, b2}
  Versions = {"absent"}
  Masks = {{1}, {1, 2}}
  MaxTime = 2
  Calls = {1, 2}
INVARIANTS MoneyMatchesTickets PeriodBooks NoSelfFence ReportedIsStored
PROPERTIES SoldBeforeDraw
CHECK_DEADLOCK FALSE
