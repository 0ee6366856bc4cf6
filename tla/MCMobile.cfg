SPECIFICATION Spec
CONSTANTS
  None = None
  Boot = Boot
  Push = Push
  Unpush = Unpush
  Out = Out
  Req = {q1, q2}
  MaxTokens = 3
  MaxFailures = 1
  MaxLogins = 1
  MaxStale = 1
  MaxOuts = 1
  MaxTrouble = 1
SYMMETRY SlotSymmetry
CHECK_DEADLOCK FALSE
INVARIANTS
  TypeOK
  OneLivePerFamily
  SessionKept
  SignOutIsFinal
  SignOutUnregisters
PROPERTIES
  EndedFamilyStaysEnded
  LogoutTakesSuccessor
