SPECIFICATION Spec
CONSTANTS
  alice = alice
  m1 = m1
  m2 = m2
  Users = {alice}
  Mutators = {m1, m2}
  Hands = {"h"}
  Effects = {"e"}
  Legacy = {"h"}
  Kinds = {"debit", "credit", "daily"}
  Grant = 1
  DailyGrant = 1
  NoRow = NoRow
  Nobody = Nobody
  InitialRows = {NoRow, 1}
  MaxBalance = 2
  MaxFaults = 1
SYMMETRY Interchangeable
INVARIANTS PublishedIsCurrent LossesCovered
CHECK_DEADLOCK FALSE
