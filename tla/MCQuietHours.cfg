SPECIFICATION Spec
CONSTANTS
  u1 = u1
  u2 = u2
  t1 = t1
  t2 = t2
  i1 = i1
  i2 = i2
  NoValue = NoValue
  None = None
  Users = {u1, u2}
  Tokens = {t1, t2}
  Items = {i1}
  Runs = {1}
  Values <- FullValues
  InitialRows <- FirstRow
  InitialFavorites <- OneOnly
  InitialDevices <- TwoDevices
  DayLength = 4
  QuietEnd = 1
  QuietStart = 3
  PageSize = 1
  MaxTxn = 0
  Lag = 1
  Resolution = 1
  Limit = 2
  MaxDevices = 2
  MaxRows = 2
  MaxClock = 5
  MaxEdits = 0
  MaxCrashes = 0
  MaxDisturbances = 0
PROPERTIES
  NoPushInQuietHours
