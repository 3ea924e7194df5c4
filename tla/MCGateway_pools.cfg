CONSTANTS
  a = a
  b = b
  Callers = {a, b}
  FreeModels = 2
  PaidModels = 1
  Tasks = {"plain", "stakes", "fallback"}
  FreeCap = 2
  PremiumCap = 2
  PremiumReserve = 1
  MaxCalls = 3
SPECIFICATION Spec
CHECK_DEADLOCK FALSE
INVARIANTS TypeOK EveryAnswerCounted FreeOvershootBounded
PROPERTY CompletionEnds
