CONSTANTS
  r1 = r1
  r2 = r2
  r3 = r3
  Requests = {r1, r2, r3}
  MaxTokens = 2
  MaxStamps = 2
  MaxCancels = 1
SPECIFICATION Spec
CHECK_DEADLOCK FALSE
SYMMETRY Alike
INVARIANTS
  TypeOK
  OneLivePerSignIn
  OnlyRacingSignInsSurvive
  NoSessionAfterErasure
