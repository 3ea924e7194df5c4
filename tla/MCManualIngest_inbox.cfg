SPECIFICATION Spec
CONSTANTS
  c1 = c1
  c2 = c2
  up1 = up1
  sheet = sheet
  mail = mail
  none = none
  Contents = {c1, c2}
  Requests = {up1}
  Files = {sheet}
  Mails = {mail}
  Holds <- MCHolds
  MaxFaults = 1
  MaxResets = 1
INVARIANTS TypeOK NothingLeavesUnrecorded
PROPERTIES FilesComeToRest
