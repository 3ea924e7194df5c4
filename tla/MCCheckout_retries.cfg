SPECIFICATION CheckoutSpec
CONSTANTS
  Requests = {r1, r2, r3}
  LockTTL = 5
  CallTimeout = 2
  ResultTTL = 7
  ReadTime = 1
  SaveTime = 1
  MaxCalls = 3
SYMMETRY Symmetry
INVARIANTS CheckoutTypeOK OneCallAwaited SuccessesAgree
CHECK_DEADLOCK FALSE
