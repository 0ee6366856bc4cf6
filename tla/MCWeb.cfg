SPECIFICATION WebSpec
CONSTANTS
  None = None
  Keep = Keep
  Expire = Expire
  Req = {q1, q2}
  MaxTokens = 3
  MaxFailures = 1
  Tab = {t1, t2, t3}
  Instance = {m1, m2}
  MaxLoads = 4
  MaxLogins = 1
  MaxRunOuts = 1
  MaxTrouble = 1
SYMMETRY WebSymmetry
CHECK_DEADLOCK FALSE
INVARIANTS
  PagesKeepSession
  LogoutKillsLateCookies
  OnlyDeletionsDeadlock
