SPECIFICATION Spec
CONSTANTS
  Requests = {r1, r2}
  MaxJobs = 2
  MaxFaults = 1
  MaxBeats = 1
INVARIANTS TypeOK NoJobForgotten DuplicateIsFinished
PROPERTIES JobsComeToRest
