CONSTANTS
  r1 = r1
  r2 = r2
  r3 = r3
  Requests = {r1, r2}
  MaxTokens = 1
  MaxStamps = 1
  MaxCancels = 1
SPECIFICATION Spec
CHECK_DEADLOCK FALSE
PROPERTY OnlyPendingErased
