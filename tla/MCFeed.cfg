SPECIFICATION Spec
CONSTANTS
  u1 = u1
  u2 = u2
  t1 = t1
  t2 = t2
  i1 = i1
  i2 = i2
  NoValue = NoValue
  None = None
  Users = {u1, u2}
  Tokens = {t1, t2, t3}
  Items = {i1, i2}
  Runs = {1}
  Values <- NullValues
  InitialRows <- FirstRows
  InitialFavorites <- Shared
  InitialDevices <- TwoDevices
  DayLength = 100
  QuietEnd = 0
  QuietStart = 100
  PageSize = 1
  MaxTxn = 1
  Lag = 2
  Resolution = 2
  Limit = 2
  MaxDevices = 1
  MaxRows = 4
  MaxClock = 6
  MaxEdits = 1
  MaxCrashes = 1
  MaxDisturbances = 1
INVARIANTS
  TypeOK
  CommitsAheadOfCursor
  NothingSkipped
PROPERTIES
  CursorNeverMovesBack
