SPECIFICATION Spec
CONSTANTS
  Students <- MCStudents
  Courses <- MCCourses
  Requests = {r1, r2}
  RequestKey <- MCRequestKey
  Capacity <- MCCapacity
  Consumers = {"shard0"}
  ConsumerOf <- MCConsumerOf
  MaxFaults = 2
  MaxDrops = 1
  Deadlocks = TRUE
  None = None
SYMMETRY MCSymmetry
INVARIANTS
  TypeOK
  RefusedNotEnrolled
  SuccessKeepsPlace
PROPERTIES
  DecidedOnce
  ImplementsEnrollment
CHECK_DEADLOCK FALSE
