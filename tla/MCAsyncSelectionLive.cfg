SPECIFICATION FairSpec
CONSTANTS
  Students <- MCStudents
  Courses <- MCCourses
  Requests = {"r1", "r2"}
  RequestKey <- MCRequestKey
  Capacity <- MCCapacity
  Consumers = {"shard0"}
  ConsumerOf <- MCConsumerOf
  MaxFaults = 1
  MaxDrops = 0
  Deadlocks = FALSE
  None = None
INVARIANTS
  AcceptedIsKnown
PROPERTIES
  NeverAckedUndecided
  AnswerStable
  AcceptedAnswered
CHECK_DEADLOCK FALSE
