SPECIFICATION Spec
CONSTANTS
  Requests = {r1}
  MaxChanges = 2
  MaxErrors = 1
  Channel <- MCChannel
  High = {2}
  RateCap = 1
  RetryCap = 2
  PerTick = 2
  MaxDay = 2
INVARIANTS TypeOK EveryJobAccounted CapHolds LateBounded
