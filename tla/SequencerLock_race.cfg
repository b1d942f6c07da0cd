SPECIFICATION Spec
CONSTANTS
  Call = {c1, c2, c3}
  Request = request
  Absent = absent
  None = none
  Timeout = 3
  Day = 6
  UseApi = FALSE
  MaxKills = 0
INVARIANTS
  OneSequencer
