CONSTANTS
  c1 = c1
  c2 = c2
  c3 = c3
  Callers = {c1, c2, c3}
  Reserve = 2
  MaxActual = 2
  DefaultCap = 3
  Overrides = {0, 2}
  CapLimit = 3
  MaxDay = 1
  MaxFaults = 1
SPECIFICATION Spec
SYMMETRY Symmetry
INVARIANTS
  TypeOK
  NeverUnderReports
  DailySpendBounded
  NoReservationLost
PROPERTY AdmitsBelowOwnCap
PROPERTY ImplementsAllowance
