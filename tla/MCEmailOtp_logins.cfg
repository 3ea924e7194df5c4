SPECIFICATION Spec
CONSTANTS
  Logins = {l1, l2}
  Senders = {s1}
  CodeTTL = 3
  LockLimit = 2
  DailyCap = 1
  LoginTime = 1
  MaxCodes = 2
  MaxFaults = 1
SYMMETRY Symmetry
INVARIANTS TypeOK SpentOnce FailuresBounded
CHECK_DEADLOCK FALSE
