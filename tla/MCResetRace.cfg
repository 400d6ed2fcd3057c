CONSTANTS
  MaxEpoch = 2
  MaxRestarts = 1
  Retries = 0
SPECIFICATION Spec
PROPERTIES ResetsStartOver
CHECK_DEADLOCK FALSE
