SPECIFICATION ErrorSpec
CONSTANTS
  Students <- MCStudents
  Courses <- MCCourses
  Requests = {"r1", "r2", "r3"}
  Sessions = {p1, p2}
  RequestKey <- MCRequestKey
  KeyRank <- MCKeyRank
  CourseTables <- MCCourseTables
  StudentTables <- MCStudentTables
  CourseEdits <- MCCourseEdits
  StudentEdits <- MCStudentEdits
  MaxDisturbances = 2
  None = None
INVARIANTS
  CountMatchesRoster
