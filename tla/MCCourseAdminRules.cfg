SPECIFICATION AdminSpec
CONSTANTS
  Students <- MCStudents
  Courses <- MCCourses
  Requests = {"r1", "r2"}
  Sessions = {p1, p2}
  RequestKey <- MCRequestKey
  KeyRank <- MCKeyRank
  CourseTables <- MCCourseTables
  StudentTables <- MCStudentTables
  CourseEdits <- MCCourseEdits
  StudentEdits <- MCStudentEdits
  None = None
PROPERTIES
  EditsRespectSelections
