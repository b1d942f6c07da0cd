SPECIFICATION FairSpec
CONSTANTS
  Call = {c1, c2, c3}
  Request = request
  Absent = absent
  None = none
  Timeout = 1
  Day = 5
  UseApi = TRUE
  MaxKills = 2
INVARIANTS
  ApartWhileCalm
PROPERTIES
  SequencingComesBack
