SPECIFICATION FairSpec
CONSTANTS
  Requests = {"r1", "r2"}
  Logins = {"l1"}
  MaxEdits = 3
  None = None
INVARIANTS
  TypeOK
  StaleOnlyIfOvertaken
PROPERTIES
  StatusRules
