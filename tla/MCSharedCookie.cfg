SPECIFICATION WebSpec
CONSTANTS
  None = None
  Keep = Keep
  Expire = Expire
  Req = {q1, q2}
  MaxTokens = 3
  MaxFailures = 0
  Tab = {t1, t2, t3}
  Instance = {m1, m2}
  MaxLoads = 3
  MaxLogins = 0
  MaxRunOuts = 0
  MaxTrouble = 0
CHECK_DEADLOCK FALSE
INVARIANT BrowserKeepsSession
