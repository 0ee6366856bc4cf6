SPECIFICATION Spec
CONSTANTS
  u1 = u1
  u2 = u2
  t1 = t1
  t2 = t2
  i1 = i1
  i2 = i2
  NoValue = NoValue
  None = None
  Users = {u1}
  Tokens = {t1, t2}
  Items = {i1}
  Runs = {r1, r2}
  Values <- SoonValues
  InitialRows <- SoonRow
  InitialFavorites <- OneOnly
  InitialDevices <- PairOfOne
  DayLength = 1
  QuietEnd = 0
  QuietStart = 1
  PageSize = 1
  MaxTxn = 0
  Lag = 1
  Resolution = 1
  Limit = 2
  MaxDevices = 2
  MaxRows = 2
  MaxClock = 2
  MaxEdits = 1
  MaxCrashes = 1
  MaxDisturbances = 2
SYMMETRY RunSymmetry
INVARIANTS
  NoSecondPush
PROPERTIES
  LedgerRefined
