CONSTANTS
  Services = {bot}
  AuthServices = {bot}
  Threshold = 2
  AlertInterval = 2
  TokenLife = 1
  MaxTime = 5
  MaxRestarts = 1
SPECIFICATION Spec
CHECK_DEADLOCK FALSE
INVARIANTS AlertsMatchState AlertsAreSpaced
PROPERTY ExpiredIsReported
