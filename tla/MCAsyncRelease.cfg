SPECIFICATION Spec
CONSTANTS
  Students <- MCStudents
  Courses <- MCCourses
  Requests = {"r1", "r2"}
  RequestKey <- MCRequestKey
  Capacity <- MCCapacity
  Consumers = {"shard0"}
  ConsumerOf <- MCConsumerOf
  MaxFaults = 0
  MaxDrops = 0
  Deadlocks = FALSE
  None = None
PROPERTIES
  ReleasedByItsRequest
CHECK_DEADLOCK FALSE
