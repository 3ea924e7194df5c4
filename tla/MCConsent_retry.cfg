SPECIFICATION ConsentSpec
CONSTANTS
  Requests = {r1}
  MaxChanges = 2
  MaxErrors = 1
INVARIANT RevokeHonoured
