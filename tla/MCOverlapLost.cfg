SPECIFICATION Spec
CONSTANTS
  u1 = u1
  u2 = u2
  t1 = t1
  t2 = t2
  i1 = i1
  i2 = i2
  NoValue = NoValue
  None = None
  Users = {u1, u2}
  Tokens = {t1, t2}
  Items = {i1}
  Runs = {r1, r2}
  Values <- FullValues
  InitialRows <- FirstRow
  InitialFavorites <- OneOnly
  InitialDevices <- TwoDevices
  DayLength = 100
  QuietEnd = 0
  QuietStart = 100
  PageSize = 1
  MaxTxn = 0
  Lag = 1
  Resolution = 1
  Limit = 2
  MaxDevices = 2
  MaxRows = 2
  MaxClock = 3
  MaxEdits = 0
  MaxCrashes = 0
  MaxDisturbances = 0
INVARIANTS
  NothingSkipped
