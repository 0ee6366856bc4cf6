SPECIFICATION Spec
CONSTANTS
  None = None
  Boot = Boot
  Push = Push
  Unpush = Unpush
  Out = Out
  Req = {q1, q2}
  MaxTokens = 3
  MaxFailures = 0
  MaxLogins = 0
  MaxStale = 1
  MaxOuts = 0
  MaxTrouble = 1
CHECK_DEADLOCK FALSE
PROPERTY RaceKeepsSession
