SPECIFICATION FairSpec
CONSTANTS
  Messages <- MCMessages
  Grabs <- MCGrabs
  Course <- MCCourse
  Unparsable <- MCUnparsable
  Counts <- MCCounts
  MaxDisturbances = 3
  None = None
INVARIANTS
  TypeOK
  NothingLost
  SerialPerCourse
PROPERTIES
  QueuedIsServed
CHECK_DEADLOCK FALSE
