CONSTANTS
  s1 = s1
  h1 = h1
  h2 = h2
  r1 = r1
  r2 = r2
  Subs = {s1}
  Handlers = {h1, h2}
  Readers = {r1, r2}
  MaxFaults = 2
  MaxPlans = 1
SPECIFICATION Spec
INVARIANTS
  TypeOK
  AppliedOnce
PROPERTIES
  EveryEventApplied
  CacheCatchesUp
CHECK_DEADLOCK FALSE
