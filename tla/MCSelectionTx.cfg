SPECIFICATION FairSpec
CONSTANTS
  Students <- MCStudents
  Courses <- MCCourses
  Requests = {"r1", "r2", "r3"}
  Sessions = {p1, p2}
  RequestKey <- MCRequestKey
  KeyRank <- MCKeyRank
  CourseTables <- MCCourseTables
  StudentTables <- MCStudentTables
  None = None
INVARIANTS
  TypeOK
  CountMatchesRoster
  NoOversell
  CreditsWithinLimit
  NoSlotClash
  NoRowLockCycle
  LockDiscipline
PROPERTIES
  ImplementsEnrollment
  TransactionsEnd
