SPECIFICATION MCSpec
CONSTANTS
  Students <- MCStudents
  Courses <- MCCourses
  Callers = {"p1", "p2", "p3"}
  Asks <- MCAsks
  Offered <- MCOffered
  CourseEdits <- MCCourseEdits
  NewCourses <- MCNewCourses
  Limits <- MCLimits
  MaxDisturbances = 1
  None = None
INVARIANTS
  TypeOK
  OneRebuilder
  CacheExact
  BitmapMatchesSelected
  EditsReachCache
  MarkersLifted
PROPERTIES
  CallsEnd
CHECK_DEADLOCK FALSE
